----------------------------- MODULE MCScheduler ----------------------------
(***************************************************************************)
(* Accounts and requested chains for Scheduler.                            *)
(***************************************************************************)
EXTENDS Scheduler, TLC

E(b, p) == [b |-> b, p |-> p]

\* Accounts 1 and 2 are of one kind, 3 of the other.
TwoKinds == [b \in Backend |-> IF b < 3 THEN "claude" ELSE "codex"]

\* A chain against creation order, one with a tie, one with an account twice, none.
SomeChains == {<<E(2, 1), E(1, 2)>>, <<E(1, 1), E(2, 1)>>, <<E(1, 1), E(1, 2)>>, <<>>}
TwoChains == {<<E(2, 1), E(1, 2)>>, <<E(1, 1), E(1, 2)>>}

\* Coroutines are interchangeable; used for invariants only.
Interchangeable == Permutations(Task)
=============================================================================
