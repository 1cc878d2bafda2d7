----------------------------- MODULE Authoring ------------------------------
(***************************************************************************)
(* How a workflow gets from a file into the registry and back: an author   *)
(* edits the file, processes of the command line initialize the store,     *)
(* validate the file and register what they read in it, programs register  *)
(* definitions and write those they read back into the file, all at once,  *)
(* and any of them may be killed.  The transactions are Registry's, the    *)
(* conversions are Documents'.                                             *)
(***************************************************************************)
EXTENDS Registry, Documents

CONSTANTS Texts,    \* what the file may hold at first
          Drafts,   \* bound: what an author makes of it
          Offered   \* bound: the definitions programs register

\* A document's states and transitions are lists, as the parsers give them.
ASSUME TextAssumption ==
  \A text \in Texts \cup Drafts :
    Parse(text) # Absent =>
      /\ text.doc.states \in Seq(Range(text.doc.states))
      /\ text.doc.transitions \in Seq(Range(text.doc.transitions))
      /\ text.doc.name \in Names

\* The definitions are those of the texts; a program registers some of them.
ASSUME DefinitionAssumption ==
  /\ Definitions = {AsJson(Build(t.doc)) : t \in {u \in Texts \cup Drafts : Accepts(Parse(u))}}
  /\ Offered \subseteq Definitions

\* No document is Absent.
ASSUME AbsentAssumption == \A d \in Definitions : AsDocument(FromJson(d)) # Absent

VARIABLES
  file,      \* the text on disk
  ready,     \* is the store initialized
  command,   \* what each process runs
  at,        \* where it is: "connect", "load", "store", or its exit status
  loaded     \* the text it read, if it was accepted

process == <<command, at, loaded>>
allVars == <<vars, file, ready, process>>

\* Exit statuses 0, 1 and 2, or none at all.
Statuses == {"killed", "done", "invalid", "refused"}

AuthoringInit ==
  /\ Init
  /\ file \in Texts
  /\ ready = FALSE
  /\ command = [c \in Clients |-> None]
  /\ at = [c \in Clients |-> "done"]
  /\ loaded = [c \in Clients |-> None]

Exit(c, status) ==
  /\ at' = [at EXCEPT ![c] = status]
  /\ command' = [command EXCEPT ![c] = None]

-----------------------------------------------------------------------------
\* The author.

Edit ==
  /\ file' \in Drafts
  /\ UNCHANGED <<vars, ready, process>>

\* The text a definition is written out as.
Exported(d) == [ext |-> "json", readable |-> TRUE, anchors |-> FALSE, earlier |-> <<>>,
                doc |-> AsDocument(FromJson(d))]

\* A program writes a definition it read with get_workflow() to the file.
Export ==
  /\ \E n \in Names : \E v \in DOMAIN registry[n] : file' = Exported(registry[n][v])
  /\ UNCHANGED <<vars, ready, process>>

-----------------------------------------------------------------------------
\* The processes.

Ended(c) == at[c] \in Statuses

\* "workflow validate" opens no store; "init" may open an empty one.
Run(c) ==
  /\ Ended(c)
  /\ \E k \in {"init", "register", "validate"} :
       /\ command' = [command EXCEPT ![c] = k]
       /\ at' = [at EXCEPT ![c] = IF k = "validate" THEN "load" ELSE "connect"]
  /\ loaded' = [loaded EXCEPT ![c] = None]
  /\ reply' = [reply EXCEPT ![c] = None]
  /\ UNCHANGED <<registry, lock, pc, req, choice, answers, file, ready>>

\* There may be no server to connect to, or a store that init refuses.
Connect(c) ==
  /\ at[c] = "connect"
  /\ \/ Exit(c, "refused") /\ UNCHANGED ready
     \/ command[c] = "init" /\ Exit(c, "done") /\ ready' = TRUE
     \/ /\ command[c] = "register" /\ ready
        /\ at' = [at EXCEPT ![c] = "load"]
        /\ UNCHANGED <<ready, command>>
  /\ UNCHANGED <<vars, file, loaded>>

Validate(c) ==
  /\ at[c] = "load" /\ command[c] = "validate"
  /\ \/ ~Accepts(Parse(file)) /\ Exit(c, "invalid") /\ UNCHANGED loaded
     \/ Accepts(Parse(file)) /\ Exit(c, "done") /\ loaded' = [loaded EXCEPT ![c] = file]
  /\ UNCHANGED <<vars, file, ready>>

(* A file that is refused, or one whose workflow is registered, with no    *)
(* version asserted.                                                       *)
Load(c) ==
  /\ at[c] = "load" /\ command[c] = "register"
  /\ \/ /\ ~Accepts(Parse(file))
        /\ Exit(c, "refused")
        /\ UNCHANGED <<vars, loaded>>
     \/ /\ Accepts(Parse(file))
        /\ LET w == Build(Parse(file)) IN
             /\ Len(registry[w.name]) < MaxVersion
             /\ Begin(c, [name |-> w.name, definition |-> AsJson(w),
                          version |-> 0])
        /\ at' = [at EXCEPT ![c] = "store"]
        /\ loaded' = [loaded EXCEPT ![c] = file]
        /\ UNCHANGED command
  /\ UNCHANGED <<file, ready>>

(* A program calls register_workflow itself.                               *)
Program(c) ==
  /\ Ended(c) /\ ready
  /\ \E r \in Written(Offered) \cup ReadBack : Begin(c, r)
  /\ command' = [command EXCEPT ![c] = "program"]
  /\ at' = [at EXCEPT ![c] = "store"]
  /\ loaded' = [loaded EXCEPT ![c] = None]
  /\ UNCHANGED <<file, ready>>

\* The server commits, and the connection is lost before it says so.
Lose(c) ==
  /\ pc[c] = "commit"
  /\ registry' = [registry EXCEPT ![req[c].name] = Inserted(@, choice[c], req[c].definition)]
  /\ Answer(req[c], choice[c])
  /\ End(c, None)

Transact(c) ==
  /\ at[c] = "store"
  /\ Lock(c) \/ Choose(c) \/ Commit(c) \/ Abort(c) \/ Lose(c)
  /\ UNCHANGED <<file, ready, process>>

\* The version, or the refusal, is printed.
Report(c) ==
  /\ at[c] = "store" /\ pc[c] = "idle"
  /\ Exit(c, IF reply[c] \in Nat THEN "done" ELSE "refused")
  /\ UNCHANGED <<vars, file, ready, loaded>>

\* The server rolls back what a dead process has left open.
Kill(c) ==
  /\ ~Ended(c)
  /\ Exit(c, "killed")
  /\ IF pc[c] = "idle" THEN UNCHANGED vars ELSE Abort(c)
  /\ UNCHANGED <<file, ready, loaded>>

AuthoringNext ==
  \/ Edit \/ Export
  \/ \E c \in Clients :
       \/ Run(c) \/ Connect(c) \/ Validate(c) \/ Load(c) \/ Program(c)
       \/ Transact(c) \/ Report(c) \/ Kill(c)

AuthoringSpec == AuthoringInit /\ [][AuthoringNext]_allVars

-----------------------------------------------------------------------------
(* Whatever a text restricts or requires, in any of its blocks and in any  *)
(* spelling, the workflow registered from it restricts and requires too:   *)
(* nothing an author wrote is dropped without a word (the rule of          *)
(* WORKFLOW_DOCUMENT_REMOVED_KEYS and of _NoDuplicateKeyLoader).           *)
Kept(t, d) ==
  /\ t.extra = {}
  /\ t.name \in DOMAIN d.transitions
  /\ d.transitions[t.name].to = t.to
  /\ t.roles # Absent => t.name \in DOMAIN d.roles /\ d.roles[t.name] = t.roles
  /\ t.required_fields # Absent =>
       /\ t.name \in DOMAIN d.required_fields
       /\ d.required_fields[t.name] = t.required_fields

NothingDropped ==
  \A c \in Clients : loaded[c] # None /\ reply[c] \in Nat =>
    \A t \in Mentioned(loaded[c]) : Kept(t, registry[req[c].name][reply[c]])

(* A registered definition, written out as a document and loaded again, is *)
(* the same definition: its next registration creates no version.          *)
ExportsReload ==
  \A n \in Names : \A v \in DOMAIN registry[n] :
    LET doc == AsDocument(FromJson(registry[n][v]))
    IN Accepts(doc) /\ AsJson(Build(doc)) = registry[n][v]

=============================================================================
