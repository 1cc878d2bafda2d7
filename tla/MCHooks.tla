------------------------------ MODULE MCHooks ------------------------------
(***************************************************************************)
(* One clone with two branches and one remote.  Commits declare public,    *)
(* private or nothing; an unreadable declaration counts like public in the *)
(* history and is among the inputs of the hooks.                           *)
(***************************************************************************)
EXTENDS Hooks

CONSTANTS main, topic, origin

Branches2 == {main, topic}
Remotes1 == {origin}
Written3 == {None, "public", "private"}
=============================================================================
