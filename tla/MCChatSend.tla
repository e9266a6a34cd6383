----------------------------- MODULE MCChatSend -----------------------------
(***************************************************************************)
(* Model values for ChatSend.  Requests are interchangeable, and so are    *)
(* the tabs; the symmetry is used for safety only.                         *)
(***************************************************************************)
EXTENDS ChatSend, TLC

Interchangeable == Permutations(Stream) \cup Permutations(Client)
=============================================================================
