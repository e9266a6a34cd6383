------------------------------ MODULE EventLog ------------------------------
(***************************************************************************)
(* ChatStateService (services/chat_state.py) for one chat session: a ring  *)
(* buffer of events tagged with a sequence number, kept while a stream of  *)
(* the session runs so that a client that lost its connection can ask for  *)
(* what it missed.                                                         *)
(*                                                                         *)
(* Every operation runs under the session's lock, so each is one step.     *)
(* Sessions share nothing.  Deep copies are left out: events are values.   *)
(* The answer of a replay is a set: its events carry distinct numbers and  *)
(* are sent in the order of these.                                         *)
(***************************************************************************)
EXTENDS Integers, Sequences

CONSTANT MaxLog          \* deque maxlen (1000 in the server)
ASSUME MaxLogAssumption == MaxLog \in Nat \ {0}

VARIABLES
  known,  \* the registry holds a state for the session
  log,    \* the retained events, oldest first
  seq     \* number of the last event pushed

logVars == <<known, log, seq>>

-----------------------------------------------------------------------------
\* Mutated forms.
BugTagged(e, n) == [ev |-> e, seq |-> n - 1]                              \* Tagged: before the bump
BugReplayed(c) == {log[i] : i \in {j \in DOMAIN log : log[j].seq >= c}}   \* Replayed: cursor included

-----------------------------------------------------------------------------
Tagged(e, n) == [ev |-> e, seq |-> n]

EmptyLog == known = FALSE /\ log = <<>> /\ seq = 0

\* The deque drops its oldest event when it is full.
Retain(q) == IF Len(q) > MaxLog THEN Tail(q) ELSE q

\* init_session: replaces whatever state there is.
InitSession(start) == known' = TRUE /\ log' = <<>> /\ seq' = start

\* remove_session: pop(session_id, None).
RemoveSession == known' = FALSE /\ log' = <<>> /\ seq' = 0

\* push_event: the number of the event, -1 when the session is unknown.
PushAnswer == IF known THEN seq + 1 ELSE -1
Push(e) ==
  \/ /\ known
     /\ seq' = seq + 1
     /\ log' = Retain(Append(log, Tagged(e, seq + 1)))
     /\ UNCHANGED known
  \/ ~known /\ UNCHANGED logVars

\* replay_with_gap: the whole log when the cursor is older than all of it, and
\* then a gap unless the log continues right after the cursor.
Outlived(c) == log # <<>> /\ c < log[1].seq
Replayed(c) == {log[i] : i \in {j \in DOMAIN log : Outlived(c) \/ log[j].seq > c}}
Gap(c) == Outlived(c) /\ c > 0 /\ c < log[1].seq - 1
=============================================================================
