------------------------------- MODULE Gather -------------------------------
(***************************************************************************)
(* What a fan-out promises (docstring of send_all): the accounts that are  *)
(* asked are settled one by one, in any order, each once; the stream ends  *)
(* when all are.  Only a client that leaves, or a failure before anybody   *)
(* is asked, ends it earlier.                                              *)
(***************************************************************************)
CONSTANT Account
VARIABLES asked, settled, ended
vars == <<asked, settled, ended>>

Init == asked = {} /\ settled = {} /\ ended = "no"

Ask(S) == ended = "no" /\ asked = {} /\ asked' = S /\ UNCHANGED <<settled, ended>>

Settle(a) ==
  /\ ended = "no" /\ a \in asked \ settled
  /\ settled' = settled \cup {a} /\ UNCHANGED <<asked, ended>>

End == ended = "no" /\ settled = asked /\ ended' = "all" /\ UNCHANGED <<asked, settled>>

Abandon == ended = "no" /\ ended' = "abandoned" /\ UNCHANGED <<asked, settled>>

Next ==
  \/ \E S \in SUBSET Account : Ask(S)
  \/ \E a \in Account : Settle(a)
  \/ End \/ Abandon

Spec == Init /\ [][Next]_vars
=============================================================================
