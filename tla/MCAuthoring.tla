---------------------------- MODULE MCAuthoring -----------------------------
(* Two processes, and texts that differ from a sound one in one place: in  *)
(* what a hand could get wrong, or in what another version of the dialect  *)
(* would say.                                                              *)
EXTENDS Authoring, TLC

CONSTANTS c1, c2

Symmetry == Permutations(Clients)

State(n) == [name |-> n, initial |-> n = "open", terminal |-> n = "shut"]

Move(n, from, to) == [name |-> n, from |-> from, to |-> to, roles |-> Absent,
                      required_fields |-> Absent, extra |-> {}]

Edits == Move("edit", <<"open">>, "open")
Close == [Move("close", <<"open">>, "shut") EXCEPT
            !.roles = <<"boss">>, !.required_fields = <<"f">>]

\* An open item is edited, and closed by the boss once f is known.
Sound ==
  [name |-> "w", states |-> <<State("open"), State("shut")>>, roles |-> <<"boss">>,
   work_item_types |-> <<"doc", "box">>, transitions |-> <<Edits, Close>>,
   field_schemas |-> [doc |-> [enforceable |-> TRUE, refs |-> {"box"}]],
   link_type_names |-> <<"blocks">>, extra |-> {}]

\* A closed vocabulary without a name, no roles, no schemas.
Plain ==
  [Sound EXCEPT !.roles = Absent, !.field_schemas = <<>>, !.link_type_names = <<>>,
     !.transitions = <<[Edits EXCEPT !.to = "shut"]>>]

\* An open vocabulary, two sources of one transition, nothing required.
Loose ==
  [Sound EXCEPT !.link_type_names = Absent,
     !.transitions = <<Edits, [Close EXCEPT !.from = <<"open", "shut">>,
                                            !.required_fields = Absent]>>]

Closing(change) == [Sound EXCEPT !.transitions = <<Edits, change>>]

Odd ==
  {[Sound EXCEPT !.states = s] :
     s \in {<<>>, <<State("open")>>, <<State("shut")>>,
            <<State("open"), State("shut"), State("shut")>>,
            <<State("open"), State("shut"), State("lost")>>,
            <<State("open"), [State("shut") EXCEPT !.initial = TRUE]>>,
            <<[State("open") EXCEPT !.initial = FALSE], State("shut")>>}}
  \cup {[Sound EXCEPT !.roles = r] :
     r \in {Absent, <<>>, <<"boss", "boss">>, <<"bos">>, <<"boss", "clerk">>}}
  \cup {[Sound EXCEPT !.work_item_types = i] : i \in {<<>>, <<"doc", "doc">>, <<"doc">>}}
  \cup {[Sound EXCEPT !.field_schemas = f] :
     f \in {[box |-> [enforceable |-> FALSE, refs |-> {}]],
            [job |-> [enforceable |-> TRUE, refs |-> {}]]}}
  \cup {[Sound EXCEPT !.link_type_names = l] : l \in {<<"blocks", "blocks">>}}
  \cup {[Sound EXCEPT !.transitions = t] : t \in {<<>>, <<Close, Close>>}}
  \cup {Closing(change) :
     change \in {[Close EXCEPT !.extra = {"allowed_roles"}, !.roles = Absent],
                 [Close EXCEPT !.name = "edit"], [Close EXCEPT !.from = <<>>],
                 [Close EXCEPT !.from = <<"lost">>], [Close EXCEPT !.to = "lost"],
                 [Close EXCEPT !.roles = <<>>], [Close EXCEPT !.roles = Absent],
                 [Close EXCEPT !.required_fields = <<"f", "f">>]}}
  \cup {[Sound EXCEPT !.extra = {"extends"}]}

Text(ext, doc) ==
  [ext |-> ext, readable |-> TRUE, anchors |-> FALSE, earlier |-> <<>>, doc |-> doc]

\* A first transitions block, in which editing was restricted.
Twice(ext) ==
  [Text(ext, Plain) EXCEPT !.earlier = <<<<[Edits EXCEPT !.to = "shut", !.roles = <<"boss">>]>>>>]

AnyDrafts == {Text("yaml", Sound)}

SoundTexts ==
  AnyDrafts \cup {Text("yaml", d) : d \in Odd} \cup {Text("json", Plain), Text("yaml", Loose)}
  \cup {Text("txt", Sound), Twice("yaml"),
        [Text("yaml", Sound) EXCEPT !.anchors = TRUE],
        [Text("yaml", Sound) EXCEPT !.readable = FALSE]}

(* These texts satisfy Unrepeated, which NothingIsDropped assumes.         *)
ASSUME SoundTextsAreUnrepeated ==
  \A text \in SoundTexts \cup AnyDrafts : text.ext = "json" => text.earlier = <<>>

AnyOffered == {AsJson(Build(Plain))}

AnyDefinitions == {AsJson(Build(t.doc)) : t \in {u \in SoundTexts : Accepts(Parse(u))}}
=============================================================================
