----------------------------- MODULE MCAccounts -----------------------------
(***************************************************************************)
(* Argument sets for Accounts; coroutines and keys are interchangeable.    *)
(***************************************************************************)
EXTENDS Accounts, TLC

CONSTANTS t1, t2, p1, p2, v1, v2

OnPath(p) == [NoConfig EXCEPT !.path = p]

\* Accounts identified by a path, as an import names them.
OnePath == {OnPath(p1)}
\* Identities that creates may merge: of one key each, or of two.
Identities ==
  {OnPath(p1), [NoConfig EXCEPT !.env = p1], [OnPath(p1) EXCEPT !.env = p1],
   [NoConfig EXCEPT !.email = p1]}
Cleared == {NoConfig}
None == {}

Symmetry == Permutations({t1, t2}) \cup Permutations({v1, v2})
=============================================================================
