----------------------------- MODULE Refinement -----------------------------
(* The transactions of Kernel implement the atomic effects of Ledger: each *)
(* call takes effect at its commit.                                        *)
EXTENDS Kernel

L == INSTANCE Ledger WITH
       version <- latest,
       item    <- row,
       token   <- last,
       leased  <- [i \in Items |-> claims[i] # None],
       done    <- [k \in Keys |->
                     IF idem[k] = None THEN {}
                     ELSE {[req |-> Digest(idem[k].req),
                            answer |-> Rebuilt(idem[k], row, events)]}]

(* Every call that succeeds takes effect atomically at its commit: judged  *)
(* against the committed item, fenced by the newest attempt, once per key, *)
(* and every retry is given the answer of the first effect.                *)
AtomicEffect == L!Spec
=============================================================================
