------------------------------- MODULE MCLogin -------------------------------
(***************************************************************************)
(* A session with two streams, one POST /cancel and the sweep; or a client *)
(* that logs in twice.  A behaviour moves one of the two, the other rests. *)
(***************************************************************************)
EXTENDS LoginFlow, LoginClient
CONSTANTS s1, s2, request, sweep

MCStream == {s1, s2}
MCCanceller == {request, sweep}
MCSweeper == {sweep}

VARIABLE part

NoFlow ==
  /\ flow = "cli" /\ entry = FALSE /\ done = TRUE /\ queue = <<>> /\ orch = None /\ lock = None
  /\ proc = [s \in Stream |-> "none"] /\ known = {} /\ ended = {} /\ left = {}
  /\ pc = [a \in Actor |-> "over"] /\ on = [a \in Actor |-> None]
  /\ cut = {} /\ held = {} /\ put = None /\ raced = FALSE

LoginInit ==
  /\ LoginClientInit
  /\ \/ part = "server" /\ Init
     \/ part = "client" /\ NoFlow

LoginNext ==
  \/ part = "server" /\ Next /\ UNCHANGED <<part, loginClientVars>>
  \/ part = "client" /\ LoginClientNext /\ UNCHANGED <<part, vars>>

Logins ==
  /\ LoginInit /\ [][LoginNext]_<<part, vars, loginClientVars>>
  /\ Fairness /\ LoginClientFairness

\* A login ends at the server, and at the client that started it and did not give it up.
LoginsEnd == LoginEnds /\ EndIsShown
=============================================================================
