-------------------------------- MODULE Json --------------------------------
(***************************************************************************)
(* What a custom field may hold, and what becomes of it.  The kernel       *)
(* checks a value with _check_json and _check_size, hashes the JSON text   *)
(* json.dumps writes for it, and stores that text in a jsonb column;       *)
(* replays and retries read what jsonb and json.loads make of the text.    *)
(*                                                                         *)
(* A value is a record: its sort, and for a number mant * 10^exp with      *)
(* mant a digit.  Two values have the same text exactly if they are the    *)
(* same record.                                                            *)
(***************************************************************************)
EXTENDS Naturals, SequencesExt

CONSTANTS MaxFieldDepth, MaxJsonBytes

Word(n)         == [sort |-> "text", bytes |-> n]
Integer(m, e)   == [sort |-> "int", mant |-> m, exp |-> e]
Floating(m, e)  == [sort |-> "float", mant |-> m, exp |-> e]
NegativeZero    == [sort |-> "-0.0"]
NotANumber      == [sort |-> "nan"]       \* and the infinities
Unsupported     == [sort |-> "other"]     \* a datetime, a tuple, ...
List(s)         == [sort |-> "list", items |-> s]
Object(s, named) == [sort |-> "object", items |-> s, named |-> named]   \* named: every key is a str

Members(v) == IF v.sort \in {"list", "object"} THEN v.items ELSE <<>>

RECURSIVE CheckJson(_, _)
CheckJson(v, depth) ==
  /\ depth <= MaxFieldDepth
  /\ v.sort \notin {"nan", "other"}
  /\ v.sort = "object" => v.named
  /\ \A k \in DOMAIN Members(v) : CheckJson(Members(v)[k], depth + 1)

\* repr(float): from 10^16 on, with an exponent.
Exponential(v) == v.sort = "float" /\ v.exp >= 16

\* The length of the text; the key and the quotes of a name count for one.
RECURSIVE Size(_)
Size(v) ==
  CASE v.sort = "text" -> v.bytes + 2
    [] v.sort = "int" -> v.exp + 1
    [] v.sort = "float" -> IF Exponential(v) THEN 5 ELSE v.exp + 3
    [] v.sort \in {"list", "object"} ->
         FoldLeft(LAMBDA sum, w : sum + Size(w) + 1, 1, v.items)
    [] OTHER -> 4

\* jsonb keeps a number as numeric: no exponent, no negative zero; json.loads
\* makes an int of a text without a point.
RECURSIVE Reloaded(_)
Reloaded(v) ==
  CASE Exponential(v) -> Integer(v.mant, v.exp)
    [] v.sort = "-0.0" -> Floating(0, 0)
    [] v.sort \in {"list", "object"} ->
         [v EXCEPT !.items = [k \in DOMAIN v.items |-> Reloaded(v.items[k])]]
    [] OTHER -> v

\* The size gate of a mapping: of those fields that are there.
SizeFits(fields, there) ==
  FoldLeft(LAMBDA sum, f : sum + Size(fields[f]), 0, SetToSeq(there)) <= MaxJsonBytes
=============================================================================
