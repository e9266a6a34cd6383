------------------------------ MODULE LoginFlow ------------------------------
(***************************************************************************)
(* One login session from its registration to its end: the streams that    *)
(* drive it (routes/login.py), the session itself (backends/claude.py,     *)
(* with the CLI of login/cli_orchestrator.py or asking for an API key),    *)
(* the requests that answer and cancel it, and the TTL sweep of            *)
(* login/registry.py.                                                      *)
(*                                                                         *)
(* Each GET /stream runs events() anew: a CLI session then forks a process *)
(* of its own and overwrites self._orchestrator.  A process is named after *)
(* the stream that started it.  A client that goes away either leaves the  *)
(* generator gen() at a yield, to be closed by a task of its own, or has   *)
(* it cancelled at an await; then the awaits of its finally clauses may be *)
(* cancelled too (a cancelled task group cancels until its tasks are out). *)
(*                                                                         *)
(* Abstracted: what the CLI prints and is told, except that it asks, that  *)
(* it reports success and that it fails; URL prompts and their replay; the *)
(* eager-paste flag; what store_credential and validate do (see module     *)
(* Accounts).                                                              *)
(***************************************************************************)
EXTENDS Naturals, Sequences

CONSTANTS
  Stream,      \* GET /stream requests
  Canceller,   \* POST /cancel requests, and the sweep that finds the session expired
  Sweeper,     \* that sweep
  Flow,        \* login flows: "cli", "api_key"
  MaxQueue,    \* bound: answers queued for a CLI; one respond() may wait besides
  None

Actor == Stream \cup Canceller
ASSUME ActorAssumption ==
  /\ Stream \cap Canceller = {} /\ Sweeper \subseteq Canceller
  /\ None \notin Actor
ASSUME FlowAssumption == Flow \subseteq {"cli", "api_key"}
ASSUME QueueAssumption == MaxQueue \in Nat

Answer == {"key", "junk"}      \* for an API-key session; a CLI is told any of them

VARIABLES
  flow,      \* the flow of the session
  entry,     \* it is in the registry
  done,      \* session._done
  queue,     \* session._answers
  orch,      \* session._orchestrator: the stream whose events() made it
  lock,      \* who holds session._cleanup_lock
  proc,      \* child process of each stream's orchestrator
  known,     \* orchestrators whose _pid is set
  ended,     \* orchestrators that terminate() has signalled, their PTY closed
  left,      \* those with a waitpid thread that no task waits for any more
  pc,        \* where each stream and canceller is
  on,        \* the process whose end it waits for, holding the lock
  cut,       \* streams whose task is cancelled
  held,      \* streams whose events() is left suspended at a yield
  put,       \* the answer of a respond() that waits in put()
  raced      \* history: a stream started when it had not the session for itself

registry == <<flow, entry>>
process == <<orch, lock, proc, known, ended, left, on>>
stream == <<cut, held>>
vars == <<registry, done, queue, process, pc, stream, put, raced>>

Init ==
  /\ flow \in Flow /\ entry = TRUE /\ done = FALSE /\ queue = <<>>
  /\ orch = None /\ lock = None /\ proc = [s \in Stream |-> "none"]
  /\ known = {} /\ ended = {} /\ left = {}
  /\ pc = [a \in Actor |-> "unused"] /\ on = [a \in Actor |-> None]
  /\ cut = {} /\ held = {}
  /\ put = None /\ raced = FALSE

At(a, p) == pc[a] = p
Goto(a, p) == pc' = [pc EXCEPT ![a] = p]
Busy(a) == pc[a] \notin {"unused", "open", "over"}
Cli == flow = "cli"
Full == ~Cli /\ queue # <<>>          \* asyncio.Queue(maxsize=1)

\* A stream's finally clause waits for the lock, or with the lock for a process.
Waits(s) == pc[s] \in {"fin", "cancel"} /\ lock # None

-----------------------------------------------------------------------------
\* GET /stream and gen().

Attach(s) ==
  /\ At(s, "unused") /\ entry
  /\ Goto(s, "open")
  /\ UNCHANGED <<registry, done, queue, process, stream, put, raced>>

\* The first step of gen() runs after the handler has returned.
Start(s) ==
  /\ At(s, "open")
  /\ \/ /\ Cli
        /\ orch' = s /\ known' = known \cup {s}
        /\ proc' = [proc EXCEPT ![s] = "running"]
        /\ Goto(s, "read")
     \/ ~Cli /\ Goto(s, "ask") /\ UNCHANGED <<orch, known, proc>>
  /\ raced' = (raced \/ done \/ ~entry \/ \E a \in Actor \ {s} : Busy(a))
  /\ UNCHANGED <<registry, done, queue, lock, ended, left, on, stream, put>>

\* run_interactive_cli_login: the CLI shows a menu or asks for a code.
Ask(s) ==
  /\ At(s, "read") /\ Goto(s, "ask")
  /\ UNCHANGED <<registry, done, queue, process, stream, put, raced>>

\* answers.get() has returned.  A CLI is told the answer; its PTY may be closed,
\* whereupon write() raises.  A key ends the API-key flow, anything else fails it.
Answered(s) ==
  /\ At(s, "ask") /\ queue # <<>>
  /\ queue' = Tail(queue)
  /\ IF Cli THEN Goto(s, IF s \in ended THEN "fin" ELSE "read") /\ UNCHANGED done
            ELSE Goto(s, IF Head(queue) = "key" THEN "store" ELSE "told") /\ done' = TRUE
  /\ UNCHANGED <<registry, process, stream, put, raced>>

\* write_eager() has written the code to the PTY and woken the prompt.
Pasted(s) ==
  /\ Cli /\ At(s, "ask") /\ Goto(s, "read")
  /\ UNCHANGED <<registry, done, queue, process, stream, put, raced>>

\* A watchdog, a prompt nobody answers, an error message of the CLI, or its end.
Fail(s) ==
  /\ pc[s] \in {"read", "ask"} /\ Goto(s, "told")
  /\ done' = (done \/ ~Cli)
  /\ UNCHANGED <<registry, queue, process, stream, put, raced>>

\* The CLI has reported success.  events() then writes Enter to self._orchestrator.
Succeed(s) ==
  /\ At(s, "read")
  /\ Goto(s, IF orch \in ended THEN "fin" ELSE "store")
  /\ UNCHANGED <<registry, done, queue, process, stream, put, raced>>

\* store_credential and validate have returned or raised; either way gen() yields.
Stored(s) ==
  /\ At(s, "store") /\ Goto(s, "told")
  /\ UNCHANGED <<registry, done, queue, process, stream, put, raced>>

\* The last event has been sent, and the generators end.
Told(s) ==
  /\ At(s, "told") /\ Goto(s, IF Cli THEN "fin" ELSE "cancel")
  /\ UNCHANGED <<registry, done, queue, process, stream, put, raced>>

-----------------------------------------------------------------------------
\* The client goes away.

\* Before gen() has begun: there is nothing to clean up.
HangUpEarly(s) ==
  /\ At(s, "open") /\ Goto(s, "over")
  /\ UNCHANGED <<registry, done, queue, process, stream, put, raced>>

\* While the task awaits: it is cancelled.  In store, events() is at a yield.
Dropped(s) ==
  /\ pc[s] \in {"read", "ask", "store"}
  /\ Goto(s, IF Cli /\ ~At(s, "store") THEN "fin" ELSE "cancel")
  /\ cut' = cut \cup {s}
  /\ held' = IF Cli /\ At(s, "store") THEN held \cup {s} ELSE held
  /\ UNCHANGED <<flow, done, queue, process, put, raced>>
HangUpAtAwait(s) == Dropped(s) /\ UNCHANGED entry

\* While an event is being sent: gen() is closed where it yields, by a task that
\* nobody cancels, and events() when it is collected after that.
HangUpAtYield(s) ==
  /\ pc[s] \in {"read", "ask", "told"}
  /\ Goto(s, "cancel")
  /\ held' = IF Cli THEN held \cup {s} ELSE held
  /\ UNCHANGED <<registry, done, queue, process, cut, put, raced>>

\* While the finally clauses of a stream that ended by itself are waiting.
HangUpLate(s) ==
  /\ Waits(s) /\ s \notin cut \cup held
  /\ cut' = cut \cup {s}
  /\ UNCHANGED <<registry, done, queue, process, pc, held, put, raced>>

-----------------------------------------------------------------------------
\* Cleaning up: "fin" and "gc" are the finally clause of events(), "cancel" is
\* session.cancel() and what its caller does next.

After(a) ==
  IF At(a, "fin") THEN "cancel"
  ELSE IF At(a, "cancel") /\ a \in held THEN "gc" ELSE "over"

\* _cleanup() has returned: _done is set, and callers of cancel() remove the entry.
Finish(a) ==
  /\ Goto(a, After(a))
  /\ done' = TRUE
  /\ entry' = (entry /\ ~At(a, "cancel"))
  /\ UNCHANGED flow

\* _cleanup() holding the lock: signal the process whose pid is remembered (the
\* signalled ones are then e) and wait for its end.
Terminate(a, e) ==
  /\ Cli /\ pc[a] \in {"fin", "cancel", "gc"} /\ on[a] = None
  /\ \/ /\ orch \in known
        /\ ended' = e /\ lock' = a /\ on' = [on EXCEPT ![a] = orch]
        /\ UNCHANGED <<registry, done, pc>>
     \/ orch \notin known /\ Finish(a) /\ UNCHANGED <<ended, lock, on>>
  /\ UNCHANGED <<queue, orch, proc, known, left, stream, put, raced>>
BugCleanup(a) == Terminate(a, ended \cup {orch})        \* without the lock
BugNoTerminate(a) == lock = None /\ Terminate(a, ended)  \* wait() without terminate()
Cleanup(a) == lock = None /\ Terminate(a, ended \cup {orch})

\* waitpid() is back; it raises when another thread has got the status, and then
\* the pid stays set.
Returned(a) ==
  /\ on[a] # None /\ proc[on[a]] \in {"reaped", "lost"}
  /\ known' = IF proc[on[a]] = "reaped" THEN known \ {on[a]} ELSE known
  /\ on' = [on EXCEPT ![a] = None]
  /\ Finish(a)
  /\ UNCHANGED <<queue, orch, proc, ended, left, stream, put, raced>>
BugWaited(a) == Returned(a) /\ UNCHANGED lock           \* the lock is not released
Waited(a) == Returned(a) /\ lock' = None

\* A cancelled task leaves _cleanup() where it waits, for the lock or for the
\* process, and what follows it in that finally clause is skipped.
Cut(s) ==
  /\ s \in cut /\ Waits(s)
  /\ \/ /\ on[s] # None
        /\ lock' = None /\ on' = [on EXCEPT ![s] = None]
        /\ left' = left \cup {on[s]}
        /\ proc' = [proc EXCEPT ![on[s]] = IF @ = "reaped" THEN "lost" ELSE @]
     \/ on[s] = None /\ UNCHANGED <<lock, on, left, proc>>
  /\ Goto(s, After(s))
  /\ UNCHANGED <<registry, done, queue, orch, known, ended, stream, put, raced>>

\* cancel() of an API-key session never waits.
BugCancelApi(a) ==                       \* the sentinel goes into a full queue
  /\ ~Cli /\ At(a, "cancel")
  /\ queue' = Append(queue, "cancel")
  /\ Finish(a)
  /\ UNCHANGED <<process, stream, put, raced>>
CancelApi(a) ==
  /\ ~Cli /\ At(a, "cancel")
  /\ queue' = IF Full THEN queue ELSE Append(queue, "cancel")
  /\ Finish(a)
  /\ UNCHANGED <<process, stream, put, raced>>

\* The process ends, and a thread in waitpid gets its status.
Exit(p) ==
  /\ proc[p] = "running" /\ proc' = [proc EXCEPT ![p] = "exited"]
  /\ UNCHANGED <<registry, done, queue, orch, lock, known, ended, left, on, pc, stream, put, raced>>

Reap(p) ==
  /\ proc[p] = "exited"
  /\ \/ (\E a \in Actor : on[a] = p) /\ proc' = [proc EXCEPT ![p] = "reaped"]
     \/ p \in left /\ proc' = [proc EXCEPT ![p] = "lost"]
  /\ UNCHANGED <<registry, done, queue, orch, lock, known, ended, left, on, pc, stream, put, raced>>

-----------------------------------------------------------------------------
\* The other requests, and the sweep.

Cancel(c) ==
  /\ c \notin Sweeper /\ At(c, "unused") /\ entry
  /\ Goto(c, "cancel")
  /\ UNCHANGED <<registry, done, queue, process, stream, put, raced>>

\* The entry is popped at once; cancel() runs as a task of its own.
Sweep(c) ==
  /\ c \in Sweeper /\ At(c, "unused") /\ entry
  /\ entry' = FALSE /\ Goto(c, IF done THEN "over" ELSE "cancel")
  /\ UNCHANGED <<flow, done, queue, process, stream, put, raced>>

\* respond(): put() waits while the queue is full.
Respond(x) ==
  /\ entry /\ ~done /\ put = None /\ (Cli => x = "key" /\ Len(queue) < MaxQueue)
  /\ IF Full THEN put' = x /\ UNCHANGED queue
             ELSE queue' = Append(queue, x) /\ UNCHANGED put
  /\ UNCHANGED <<registry, done, process, pc, stream, raced>>

Unblock ==
  /\ put # None /\ ~Full
  /\ queue' = Append(queue, put) /\ put' = None
  /\ UNCHANGED <<registry, done, process, pc, stream, raced>>

-----------------------------------------------------------------------------
Drive(s) ==
  \/ Attach(s) \/ Start(s) \/ Ask(s) \/ Answered(s) \/ Pasted(s) \/ Fail(s)
  \/ Succeed(s) \/ Stored(s) \/ Told(s)
HangUp(s) == HangUpEarly(s) \/ HangUpAtAwait(s) \/ HangUpAtYield(s) \/ HangUpLate(s) \/ Cut(s)
CleanUp(a) == Cleanup(a) \/ Waited(a) \/ CancelApi(a)

Next ==
  \/ \E s \in Stream : Drive(s) \/ HangUp(s) \/ Exit(s) \/ Reap(s)
  \/ \E a \in Actor : CleanUp(a)
  \/ \E c \in Canceller : Cancel(c) \/ Sweep(c)
  \/ \E x \in Answer : Respond(x)
  \/ Unblock

Spec == Init /\ [][Next]_vars

\* Reading meets the end of the process; a prompt has a deadline.
Eof(s) == s \in ended \/ proc[s] # "running"
Serve(s) ==
  \/ Start(s) \/ Stored(s) \/ Told(s) \/ Answered(s) \/ Cut(s)
  \/ At(s, "ask") /\ Fail(s)
  \/ At(s, "read") /\ Eof(s) /\ (Succeed(s) \/ Fail(s))

\* The event loop runs what can run, a prompt times out, the sweep comes, and a
\* process that got SIGTERM and lost its terminal ends.
Fairness ==
  /\ \A s \in Stream : WF_vars(Serve(s)) /\ WF_vars(s \in ended /\ Exit(s)) /\ WF_vars(Reap(s))
  /\ \A a \in Actor : WF_vars(Waited(a)) /\ WF_vars(CancelApi(a)) /\ WF_vars(Cleanup(a))
  /\ \A c \in Sweeper : WF_vars(Sweep(c))
FairSpec == Spec /\ Fairness

-----------------------------------------------------------------------------
\* Every variable has its type, and the answers of an API-key session are never
\* more than the queue holds.
TypeOK ==
  /\ flow \in Flow /\ entry \in BOOLEAN /\ done \in BOOLEAN /\ raced \in BOOLEAN
  /\ queue \in Seq(Answer \cup {"cancel"}) /\ (~Cli => Len(queue) <= 1)
  /\ orch \in Stream \cup {None} /\ lock \in Actor \cup {None}
  /\ proc \in [Stream -> {"none", "running", "exited", "reaped", "lost"}]
  /\ known \subseteq Stream /\ ended \subseteq Stream /\ left \subseteq Stream
  /\ pc \in [Actor -> {"unused", "open", "read", "ask", "store", "told",
                       "fin", "cancel", "gc", "over"}]
  /\ on \in [Actor -> Stream \cup {None}]
  /\ cut \subseteq Stream /\ held \subseteq Stream
  /\ put \in Answer \cup {None}

\* A session that is no longer in the registry, where nobody can cancel it any
\* more, is done, or the sweep that took it out is cancelling it: the order of
\* cancel() and remove() in the routes and the task that sweep() creates.
RemovedIsDone == ~entry => done \/ \E c \in Sweeper : At(c, "cancel")

\* A CLI whose stream is over has been sent SIGTERM or has ended, if that stream had
\* the session for itself when it started: however the client left, through
\* events()'s finally clause, gen()'s, or the collection of a dropped generator.
CliIsEnded ==
  ~raced => \A s \in Stream : proc[s] = "running" /\ s \notin ended => ~At(s, "over")

\* The same without the condition: "Implementations own their subprocess".
EveryCliIsEnded ==
  \A s \in Stream : proc[s] = "running" /\ s \notin ended => ~At(s, "over")

\* A cleanup signals and waits for a process that is still the server's child, and
\* no pid that has been reaped and given to somebody else, unless a cancelled task
\* left a thread in waitpid behind: what _cleanup_lock is for.
SignalsItsChild ==
  [][\A a \in Actor :
       on'[a] # on[a] /\ on'[a] # None =>
         proc[on'[a]] \in {"running", "exited"} \/ on'[a] \in left]_vars

\* Every session is over in the end, with its streams and processes, whether or not
\* anybody comes to drive it, answers it or hangs up: the TTL sees to it.
LoginEnds ==
  <>[](raced \/ (/\ done /\ ~entry
                 /\ \A s \in Stream : proc[s] # "running" /\ ~Busy(s)))
=============================================================================
