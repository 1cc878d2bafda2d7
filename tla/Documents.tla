----------------------------- MODULE Documents ------------------------------
(***************************************************************************)
(* A workflow as its author writes it, as a program builds it and as the   *)
(* registry stores it, and the conversions between the three.              *)
(*                                                                         *)
(* A text is what a file holds: its extension, whether it is small and     *)
(* well formed enough to be parsed, whether it uses anchors, its document, *)
(* and the transitions blocks above the last one, for a text may name a    *)
(* key twice.  A document keeps the lists of the file; Absent stands for   *)
(* an optional key that is not there, and extra for the keys and the forms *)
(* that the dialect does not have, those of 0.7 among them.  A field       *)
(* schema is a pair: is it one the kernel enforces, and the item types its *)
(* references name.                                                        *)
(***************************************************************************)
EXTENDS Naturals, Sequences, FiniteSets, Functions, SequencesExt

CONSTANT Absent

NamesOf(list) == [k \in DOMAIN list |-> list[k].name]

-----------------------------------------------------------------------------
\* A Workflow, and Workflow.validate().

Restricted(w) == UNION {Range(w.roles[t]) : t \in DOMAIN w.roles}

Entered(w) == {w.initial} \cup {w.transitions[t].to : t \in DOMAIN w.transitions}

Validates(w) ==
  LET states == Range(w.states)
      moves == DOMAIN w.transitions
  IN /\ w.types # <<>> /\ IsInjective(w.types)
     /\ w.initial \in states
     /\ \A t \in moves : Range(w.transitions[t].from) \cup {w.transitions[t].to} \subseteq states
     /\ Range(w.terminal) \subseteq states
     /\ DOMAIN w.roles \cup DOMAIN w.required_fields \subseteq moves
     /\ IsInjective(w.role_names) /\ Range(w.role_names) = Restricted(w)
     /\ w.link_type_names # Absent => IsInjective(w.link_type_names)
     /\ \A i \in DOMAIN w.field_schemas :
          /\ i \in Range(w.types)
          /\ w.field_schemas[i].enforceable
          /\ w.field_schemas[i].refs \subseteq Range(w.types)
     /\ states \subseteq Entered(w)

-----------------------------------------------------------------------------
\* The registry's form, which leaves out what is not declared.

Keys == {"name", "states", "initial", "transitions", "roles", "required_fields",
         "terminal", "types", "role_names", "field_schemas", "link_type_names"}

AsJson(w) ==
  [k \in Keys \ ((IF w.field_schemas = <<>> THEN {"field_schemas"} ELSE {})
                 \cup (IF w.link_type_names = Absent THEN {"link_type_names"} ELSE {}))
     |-> w[k]]

FromJson(d) ==
  [k \in Keys |-> IF k \in DOMAIN d THEN d[k]
                  ELSE IF k = "link_type_names" THEN Absent ELSE <<>>]

-----------------------------------------------------------------------------
\* The author's form.

\* A value for every name of f that has a list.
Listed(f) == [t \in {n \in DOMAIN f : f[n] # Absent} |-> f[t]]

\* The members of a list at the places given, in the order of the list.
Selected(list, places) ==
  LET upTo[k \in 0 .. Len(list)] ==
        IF k = 0 THEN <<>>
        ELSE IF k \in places THEN Append(upTo[k - 1], list[k]) ELSE upTo[k - 1]
  IN  upTo[Len(list)]

Initials(doc) == {k \in DOMAIN doc.states : doc.states[k].initial}
Terminals(doc) == {k \in DOMAIN doc.states : doc.states[k].terminal}

(* _build_workflow, of a document whose transitions have distinct names    *)
(* and of whose states one is initial.                                     *)
Build(doc) ==
  LET entry == [n \in Range(NamesOf(doc.transitions)) |->
                  CHOOSE t \in Range(doc.transitions) : t.name = n]
  IN [name |-> doc.name,
      states |-> NamesOf(doc.states),
      initial |-> doc.states[CHOOSE k \in Initials(doc) : TRUE].name,
      terminal |-> Selected(NamesOf(doc.states), Terminals(doc)),
      transitions |-> [n \in DOMAIN entry |-> [from |-> entry[n].from, to |-> entry[n].to]],
      roles |-> Listed([n \in DOMAIN entry |-> entry[n].roles]),
      required_fields |-> Listed([n \in DOMAIN entry |-> entry[n].required_fields]),
      types |-> doc.work_item_types,
      role_names |-> IF doc.roles = Absent THEN <<>> ELSE doc.roles,
      field_schemas |-> doc.field_schemas,
      link_type_names |-> doc.link_type_names]

\* Bug: a closed vocabulary without a name is exported as none at all.
Vocabulary_Falsy(w) == IF w.link_type_names = <<>> THEN Absent ELSE w.link_type_names

Vocabulary(w) == w.link_type_names

(* as_document; the order of its transitions is immaterial.                *)
AsDocument(w) ==
  LET list(f, t) == IF t \in DOMAIN f /\ f[t] # <<>> THEN f[t] ELSE Absent
      entry(t) == [name |-> t, from |-> w.transitions[t].from, to |-> w.transitions[t].to,
                   roles |-> list(w.roles, t),
                   required_fields |-> list(w.required_fields, t), extra |-> {}]
  IN [name |-> w.name,
      states |-> [k \in DOMAIN w.states |->
                    [name |-> w.states[k], initial |-> w.states[k] = w.initial,
                     terminal |-> w.states[k] \in Range(w.terminal)]],
      roles |-> IF w.role_names = <<>> THEN Absent ELSE w.role_names,
      work_item_types |-> w.types,
      transitions |-> SetToSeq({entry(t) : t \in DOMAIN w.transitions}),
      field_schemas |-> w.field_schemas,
      link_type_names |-> Vocabulary(w),
      extra |-> {}]

\* workflow.schema.json: a list with an entry and none twice, if it is there.
Some(list) == list # Absent => list # <<>> /\ IsInjective(list)

\* A key refused by name, or as one the schema does not know.
Foreign(doc) == doc.extra # {} \/ \E t \in Range(doc.transitions) : t.extra # {}

WellShaped(doc) ==
  /\ doc.states # <<>> /\ doc.transitions # <<>>
  /\ Some(doc.work_item_types) /\ Some(doc.roles)
  /\ doc.link_type_names # Absent => IsInjective(doc.link_type_names)
  /\ \A t \in Range(doc.transitions) :
       Some(t.from) /\ Some(t.roles) /\ Some(t.required_fields)

(* validate_workflow_document, without the wording of its answer.          *)
Accepts(doc) ==
  /\ doc # Absent
  /\ ~Foreign(doc)
  /\ WellShaped(doc)
  /\ Cardinality(Initials(doc)) = 1
  /\ IsInjective(NamesOf(doc.transitions)) /\ IsInjective(NamesOf(doc.states))
  /\ Validates(Build(doc))

-----------------------------------------------------------------------------
\* A file.

\* Bug: yaml.safe_load, which keeps the last of two equal keys.
BadYaml_KeepsLast(text) == text.ext = "yaml" /\ text.anchors

(* _NoDuplicateKeyLoader and the scan for anchors; json.loads keeps the    *)
(* last of two equal keys.                                                 *)
BadYaml(text) == text.ext = "yaml" /\ (text.anchors \/ text.earlier # <<>>)

\* load_workflow_document
Parse(text) ==
  IF text.ext \in {"yaml", "json"} /\ text.readable /\ ~BadYaml(text)
  THEN text.doc ELSE Absent

(* Every transition the text mentions, in whichever block.                 *)
Mentioned(text) == Range(text.doc.transitions) \cup UNION {Range(b) : b \in Range(text.earlier)}
=============================================================================
