------------------------------ MODULE MCTerminals -----------------------------
(***************************************************************************)
(* What runs a CLI in a process of its own: the loop that reads the screen *)
(* of a login, a login session that waits for a marker, or the terminals   *)
(* of the websockets.  A behaviour moves one of the three.                 *)
(***************************************************************************)
EXTENDS InteractiveLogin, MarkerLogin, Pty

VARIABLE part

NoLoop == NothingOnScreen /\ at = "over" /\ commandSent = TRUE
NoMarker ==
  /\ NothingRead /\ ~device /\ child = "reaped" /\ pid = FALSE /\ sdone = TRUE
  /\ step = [c \in Cleaner |-> "over"]

TerminalsInit ==
  /\ PtyInit
  /\ \/ part = "screen" /\ ILInit /\ NoMarker
     \/ part = "marker" /\ MLInit /\ NoLoop
     \/ part = "pty" /\ NoLoop /\ NoMarker

TerminalsNext ==
  \/ part = "screen" /\ ILNext /\ UNCHANGED <<part, mlVars, ptyVars>>
  \/ part = "marker" /\ MLNext /\ UNCHANGED <<part, ilVars, ptyVars>>
  \/ part = "pty" /\ PtyNext /\ UNCHANGED <<part, ilVars, mlVars>>

Terminals ==
  /\ TerminalsInit /\ [][TerminalsNext]_<<part, ilVars, mlVars, ptyVars>>
  /\ ILFairness /\ MLFairness /\ PtyFairness

\* Every variable of the three has its type.
TypesOK == ILTypeOK /\ MLTypeOK /\ PtyTypeOK

\* A login on a terminal is told as the CLI has shown it to have gone.
ToldAsItWent == SuccessIsKept /\ MarkerIsTrue

\* No login on a terminal hangs: its questions are heard, its silence is noticed, and
\* its process is waited for.  Nor does a terminal: what is typed is written.
TerminalsMove == QuestionHeard /\ SilenceEnds /\ MarkerEnds /\ PtyMoves
=============================================================================
