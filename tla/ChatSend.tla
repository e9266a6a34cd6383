------------------------------ MODULE ChatSend ------------------------------
(***************************************************************************)
(* POST /api/v1/chat/send (routes/chat_send.py) for one chat session, over *)
(* its event log, with the clients that read the streams.                  *)
(*                                                                         *)
(* A request runs sse(): set the log up or replay it, then push and send   *)
(* the events that a producer task takes from the orchestrator; when the   *)
(* generator is closed, cancel the producer and remove the log.  A step is *)
(* the code between two suspensions of the generator.  Several streams of  *)
(* one session interleave: two tabs, or a client that reconnects before    *)
(* the server has noticed that its old connection is dead.                 *)
(*                                                                         *)
(* A client keeps lastSeq and drops what it has seen (useSmartChat.ts).    *)
(* One built on sendChat's lastEventId (client/index.ts) also reconnects.  *)
(*                                                                         *)
(* Abstracted: what an event says, except that the last one a generation   *)
(* can make is its terminal one ("done"); heartbeat comments, which change *)
(* nothing; the persistence of messages.                                   *)
(***************************************************************************)
EXTENDS EventLog, FiniteSets

CONSTANTS
  Stream,     \* requests, each made once
  Client,     \* tabs
  Resuming,   \* those that reconnect with lastEventId; useSmartChat never does
  None,       \* no client, no stream
  MaxEvents,  \* bound: events one generation makes, the last one terminal
  MaxQueued   \* bound: events queued ahead of the connection
ASSUME ClientAssumption == Resuming \subseteq Client
ASSUME StreamAssumption == None \notin Stream \cup Client
ASSUME MaxEventsAssumption == MaxEvents \in Nat \ {0} /\ MaxQueued \in Nat \ {0}

\* An event of stream s; the error frame of s has number 0.
Ev(s, n) == [s |-> s, n |-> n]
ChatEvent == [s: Stream, n: 0..MaxEvents]

\* One request: the client that made it, its Last-Event-ID, the replayed events not
\* sent yet, events the producer queued and events sent, and the producer's state
\* ("told": its error was sent).
Request(c, from) == [pc |-> "live", who |-> c, cursor |-> from, todo |-> {},
                     made |-> 0, sent |-> 0, fin |-> "run"]
Unused == [Request(None, 0) EXCEPT !.pc = "unused"]
Over == [Request(None, 0) EXCEPT !.pc = "over"]

VARIABLES
  st,      \* the request each stream serves
  on,      \* stream each client reads
  last,    \* its lastSeq
  armed,   \* its heartbeat watchdog runs
  got      \* history: events that reached it since its last fresh send

clientVars == <<on, last, armed, got>>
vars == <<logVars, st, clientVars>>

Init ==
  /\ EmptyLog
  /\ st = [s \in Stream |-> Unused]
  /\ on = [c \in Client |-> None] /\ last = [c \in Client |-> 0]
  /\ armed = [c \in Client |-> FALSE] /\ got = [c \in Client |-> <<>>]

Terminal(e) == e.n \in {0, MaxEvents}
At(s, p) == st[s].pc = p
Reading(s) == st[s].who # None /\ on[st[s].who] = s
Become(s, r) == st' = [st EXCEPT ![s] = r]

-----------------------------------------------------------------------------
\* Mutated forms.
BugFirst(s, x) == \A y \in st[s].todo : y.seq <= x.seq         \* First: newest first
BugNotice(s) ==                                                \* Notice: no finally
  /\ st[s].pc \in {"replay", "live"} /\ ~Reading(s)
  /\ Become(s, Over)
  /\ UNCHANGED <<logVars, clientVars>>

-----------------------------------------------------------------------------
\* The client.

\* dispatch(): resetHeartbeat for every event, clearHeartbeat after a terminal one.
ArmedBy(e) == ~Terminal(e)

\* dispatch() of an event tagged n: skipped when n <= lastSeq; n = -1 is untagged.
Seen(c, n) == n # -1 /\ n <= last[c]

\* Event e with number n is written to the connection of s: its client, if it
\* still reads it, dispatches it; otherwise it is lost.
Deliver(s, e, n) ==
  IF ~Reading(s) THEN UNCHANGED clientVars
  ELSE LET c == st[s].who IN
    /\ got' = [got EXCEPT ![c] = Append(@, e)]
    /\ IF Seen(c, n) THEN UNCHANGED <<last, armed>>
       ELSE /\ last' = [last EXCEPT ![c] = IF n = -1 THEN @ ELSE n]
            /\ armed' = [armed EXCEPT ![c] = ArmedBy(e)]
    /\ UNCHANGED on

\* The client of s sees the end of its stream: clearHeartbeat.
HangUp(s) ==
  IF ~Reading(s) THEN UNCHANGED clientVars
  ELSE /\ on' = [on EXCEPT ![st[s].who] = None]
       /\ armed' = [armed EXCEPT ![st[s].who] = FALSE]
       /\ UNCHANGED <<last, got>>

\* The connection breaks, or the user closes the tab.
Drop(c) ==
  /\ on[c] # None
  /\ on' = [on EXCEPT ![c] = None] /\ armed' = [armed EXCEPT ![c] = FALSE]
  /\ UNCHANGED <<logVars, st, last, got>>

\* 90 seconds without an event: the watchdog aborts the request.
Watchdog(c) == armed[c] /\ Drop(c)

-----------------------------------------------------------------------------
\* sse(), one request.

\* A replayed event goes out in log order.
First(s, x) == \A y \in st[s].todo : x.seq <= y.seq

\* A session without events is set up again, counting on from cursor c.
Seed(c) ==
  \/ log = <<>> /\ InitSession(c)
  \/ log # <<>> /\ UNCHANGED logVars

\* The client's half of send(): lastSeq is the cursor it sends.
Connect(s, c, from) ==
  /\ At(s, "unused") /\ on[c] = None
  /\ on' = [on EXCEPT ![c] = s] /\ armed' = [armed EXCEPT ![c] = TRUE]
  /\ last' = [last EXCEPT ![c] = from]

\* A fresh request resets lastSeq and, when it starts to run, the log.
OpenFresh(s, c) ==
  /\ Connect(s, c, 0) /\ got' = [got EXCEPT ![c] = <<>>]
  /\ InitSession(0) /\ Become(s, Request(c, 0))

\* One with a cursor takes what the log has for it; with nothing to replay it
\* seeds the log before it first suspends.
Reopen(s, c) ==
  /\ c \in Resuming /\ last[c] > 0
  /\ Connect(s, c, last[c]) /\ UNCHANGED got
  /\ \/ /\ Replayed(last[c]) = {} /\ Seed(last[c])
        /\ Become(s, Request(c, last[c]))
     \/ /\ Replayed(last[c]) # {} /\ UNCHANGED logVars
        /\ Become(s, [Request(c, last[c]) EXCEPT !.pc = "replay", !.todo = Replayed(last[c])])

ReplayEvent(s, x) ==
  /\ At(s, "replay") /\ x \in st[s].todo /\ First(s, x)
  /\ Become(s, [st[s] EXCEPT !.todo = @ \ {x}])
  /\ Deliver(s, x.ev, x.seq)
  /\ UNCHANGED logVars

\* After the last replayed event: the producer starts.
GoLive(s) ==
  /\ At(s, "replay") /\ st[s].todo = {}
  /\ Seed(st[s].cursor) /\ Become(s, [st[s] EXCEPT !.pc = "live"])
  /\ UNCHANGED clientVars

\* The producer task queues what the orchestrator yields, until it ends or raises.
Produce(s) ==
  /\ At(s, "live") /\ st[s].fin = "run" /\ st[s].made < MaxEvents
  /\ st[s].made - st[s].sent < MaxQueued
  /\ Become(s, [st[s] EXCEPT !.made = @ + 1])
  /\ UNCHANGED <<logVars, clientVars>>

Finish(s, how) ==
  /\ At(s, "live") /\ st[s].fin = "run"
  /\ Become(s, [st[s] EXCEPT !.fin = how])
  /\ UNCHANGED <<logVars, clientVars>>

\* The next event of the queue: pushed to the log, sent with its number.
Emit(s) ==
  LET e == Ev(s, st[s].sent + 1) IN
  /\ At(s, "live") /\ st[s].sent < st[s].made
  /\ Push(e) /\ Deliver(s, e, PushAnswer)
  /\ Become(s, [st[s] EXCEPT !.sent = @ + 1])

\* The producer's exception becomes an event of its own.
EmitError(s) ==
  /\ At(s, "live") /\ st[s].sent = st[s].made /\ st[s].fin = "err"
  /\ Push(Ev(s, 0)) /\ Deliver(s, Ev(s, 0), PushAnswer)
  /\ Become(s, [st[s] EXCEPT !.fin = "told"])

\* "done": the finally clause has nothing to wait for.
Done(s) ==
  /\ At(s, "live") /\ st[s].sent = st[s].made /\ st[s].fin \in {"ok", "told"}
  /\ RemoveSession /\ Become(s, Over) /\ HangUp(s)

\* The server notices that the client is gone and closes the generator.  While
\* it still replays, that is outside of the try; otherwise the finally clause
\* cancels the producer and, when that still runs, waits for it.
Notice(s) ==
  /\ ~Reading(s)
  /\ \/ At(s, "replay") /\ Become(s, Over) /\ UNCHANGED logVars
     \/ /\ At(s, "live") /\ st[s].fin = "run"
        /\ Become(s, [Over EXCEPT !.pc = "closing"]) /\ UNCHANGED logVars
     \/ At(s, "live") /\ st[s].fin # "run" /\ Become(s, Over) /\ RemoveSession
  /\ UNCHANGED clientVars

Cleanup(s) ==
  /\ At(s, "closing")
  /\ RemoveSession /\ Become(s, Over)
  /\ UNCHANGED clientVars

\* The server restarts: the log is only in memory.
Crash ==
  /\ \E s \in Stream : st[s] \notin {Unused, Over}
  /\ RemoveSession
  /\ st' = [s \in Stream |-> IF st[s] = Unused THEN Unused ELSE Over]
  /\ on' = [c \in Client |-> None] /\ armed' = [c \in Client |-> FALSE]
  /\ UNCHANGED <<last, got>>

\* What the event loop runs by itself once it can.
Serve(s) ==
  \/ \E x \in st[s].todo : ReplayEvent(s, x)
  \/ GoLive(s) \/ Emit(s) \/ EmitError(s) \/ Done(s) \/ Notice(s) \/ Cleanup(s)

Next ==
  \/ \E s \in Stream, c \in Client : OpenFresh(s, c) \/ Reopen(s, c)
  \/ \E s \in Stream : Serve(s) \/ Produce(s) \/ Finish(s, "ok") \/ Finish(s, "err")
  \/ \E c \in Client : Drop(c)
  \/ Crash

\* The event loop runs every ready coroutine; the watchdog timer fires; a
\* generation that has made its terminal event ends.  One that hangs before
\* that may hang for ever.
Fairness ==
  /\ \A s \in Stream :
       /\ WF_vars(Serve(s))
       /\ WF_vars(st[s].made = MaxEvents /\ (Finish(s, "ok") \/ Finish(s, "err")))
  /\ \A c \in Client : WF_vars(Watchdog(c))

Spec == Init /\ [][Next]_vars
FairSpec == Spec /\ Fairness

-----------------------------------------------------------------------------
\* Properties.

\* Every variable keeps its type.
TypeOK ==
  /\ known \in BOOLEAN /\ seq \in Nat
  /\ \A i \in DOMAIN log : log[i].ev \in ChatEvent /\ log[i].seq \in 1..seq
  /\ \A s \in Stream :
       /\ st[s].pc \in {"unused", "replay", "live", "closing", "over"}
       /\ st[s].who \in Client \cup {None} /\ st[s].cursor \in Nat
       /\ \A x \in st[s].todo : x.ev \in ChatEvent /\ x.seq \in Nat
       /\ st[s].made \in 0..MaxEvents /\ st[s].sent \in 0..st[s].made
       /\ st[s].fin \in {"run", "ok", "err", "told"}
  /\ on \in [Client -> Stream \cup {None}] /\ last \in [Client -> Nat]
  /\ armed \in [Client -> BOOLEAN]
  /\ \A c \in Client : got[c] \in Seq(ChatEvent)

\* A log is held only for a stream whose finally clause will still run: no
\* order of disconnects, reconnects and resets leaks the log of a session.
LogIsOwned == known => \E s \in Stream : st[s].pc \in {"live", "closing"}

\* No event is sent to a client twice in a conversation turn, by its stream or by
\* the replay of a reconnect, even when another stream resets or removes the log.
NothingSentTwice ==
  \A c \in Client : \A i, j \in DOMAIN got[c] : got[c][i] = got[c][j] => i = j

\* The events of one generation reach a client in the order they were made, also
\* across the reconnects that replay them.
SentInOrder ==
  \A c \in Client : \A i, j \in DOMAIN got[c] :
    i < j /\ got[c][i].s = got[c][j].s /\ got[c][j].n # 0 => got[c][i].n < got[c][j].n

\* What a stream sends to its client is news to it: dedup drops nothing ("seed the
\* seq counter from last_event_id so fresh events keep a monotonic id — otherwise
\* the client's dedup would silently drop them").
NothingDropped ==
  [][\A s \in Stream :
       Emit(s) /\ Reading(s) => ~Seen(st[s].who, PushAnswer)]_vars

\* Every request comes to an end, with its log removed, although generations may
\* hang, because the client's watchdog gives up.
StreamsEnd == \A s \in Stream : At(s, "live") \/ At(s, "replay") ~> At(s, "over")
=============================================================================
