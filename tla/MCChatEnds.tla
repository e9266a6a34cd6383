------------------------------ MODULE MCChatEnds -----------------------------
(***************************************************************************)
(* Streams of POST /chat/send with hanging providers, silent disconnects   *)
(* and restarts; or the exchanges of a panel and of somebody else in its   *)
(* conversations.  A behaviour moves one of the two.  Of the messages,     *)
(* either the second of the panel or that of somebody else is never sent.  *)
(***************************************************************************)
EXTENDS MCChatSend, Conversation

CONSTANTS p2, o1, b1
ASSUME SelectedAssumption == b1 \in Backend

VARIABLE part

Talks ==
  /\ NothingSaid /\ sel = b1
  /\ \E y \in {p2, o1} :
       ex = [x \in Exchange |-> IF x = y THEN [Unsent EXCEPT !.pc = "over"] ELSE Unsent]
NobodyTalks == NothingSaid /\ sel = b1 /\ ex = [x \in Exchange |-> Unsent]

ChatsInit ==
  /\ Init
  /\ part \in {"stream", "panel"} /\ IF part = "panel" THEN Talks ELSE NobodyTalks

ChatsNext ==
  \/ part = "stream" /\ Next /\ UNCHANGED <<part, convVars>>
  \/ part = "panel" /\ ConvNext /\ UNCHANGED <<part, vars>>

Chats == ChatsInit /\ [][ChatsNext]_<<part, vars, convVars>> /\ Fairness /\ ConvFairness

\* Every variable of the two has its type.
TypesOK == TypeOK /\ ConvTypeOK

\* Every request ends at the server, and at the panel that waits for it.
RequestsEnd == StreamsEnd /\ AloneEnds
=============================================================================
