--------------------------- MODULE EventLogHistory --------------------------
(***************************************************************************)
(* The calls of ChatStateService on one session, in any order, with two    *)
(* history variables (the events pushed since the session was set up and   *)
(* the number it started from) and the answer of the last call.  The ring  *)
(* buffer is shown to keep the promise of EventFeed.                       *)
(***************************************************************************)
EXTENDS EventLog

CONSTANTS
  Event,   \* events that are pushed
  MaxSeq   \* bound: largest number of an event
ASSUME MaxSeqAssumption == MaxSeq \in Nat

VARIABLES
  base,    \* history: start_seq of the session
  hist,    \* history: events pushed since init_session
  reply    \* answer of the last call

vars == <<logVars, base, hist, reply>>

Feed == INSTANCE EventFeed WITH Position <- 0..MaxSeq, Recent <- MaxLog

Init == EmptyLog /\ base = 0 /\ hist = <<>> /\ reply = Feed!Nothing

DoInit(start) == InitSession(start) /\ base' = start /\ hist' = <<>> /\ reply' = Feed!Nothing

DoRemove == RemoveSession /\ base' = 0 /\ hist' = <<>> /\ reply' = Feed!Nothing

DoPush(e) ==
  /\ seq < MaxSeq
  /\ Push(e)
  /\ hist' = IF known THEN Append(hist, e) ELSE hist
  /\ reply' = Feed!Number(PushAnswer)
  /\ UNCHANGED base

DoReplay(c) ==
  /\ reply' = Feed!Events(c, Replayed(c), Gap(c))
  /\ UNCHANGED <<logVars, base, hist>>

Next ==
  \/ \E n \in 0..MaxSeq : DoInit(n) \/ DoReplay(n)
  \/ DoRemove
  \/ \E e \in Event : DoPush(e)

Spec == Init /\ [][Next]_vars

-----------------------------------------------------------------------------
\* Properties.

\* Every variable keeps its type.
TypeOK ==
  /\ known \in BOOLEAN
  /\ log \in Seq([ev: Event, seq: 1..MaxSeq])
  /\ seq \in 0..MaxSeq /\ base \in 0..MaxSeq
  /\ hist \in Seq(Event)

\* The retained log is the newest part of what was pushed, numbered without a
\* hole up to seq, and nothing is dropped before the buffer is full.
Retained ==
  LET d == Len(hist) - Len(log) IN
  /\ seq = base + Len(hist)
  /\ d = 0 \/ (d > 0 /\ Len(log) = MaxLog)
  /\ Len(log) <= MaxLog
  /\ \A i \in 1..Len(log) : log[i] = Tagged(hist[d + i], base + d + i)
  /\ ~known => hist = <<>>

\* A replay that reports no gap gives the client everything since its cursor,
\* whatever was evicted; one that reports a gap really lost something.  Cursor 0
\* stands for "never connected" and is never told of a gap.
ReplayComplete ==
  \A c \in 1..MaxSeq :
    hist # <<>> /\ c <= seq =>
      (Gap(c) <=> \E n \in (c + 1)..seq : \A e \in Replayed(c) : e.seq # n)

\* The ring buffer keeps the feed's promise, call by call.
FeedSpec == Feed!Spec
=============================================================================
