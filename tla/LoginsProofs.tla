----------------------------- MODULE LoginsProofs ----------------------------
(***************************************************************************)
(* Theorems about logins (modules LoginClient and LoginFlow), for any      *)
(* number of them.  At the client: an instance of the composable that is   *)
(* used again is fresh.  At the server: types, a removed session is done,  *)
(* a cleanup signals only the server's own child, and a stream that had    *)
(* the session for itself leaves no process behind.                        *)
(***************************************************************************)
EXTENDS MCLogin, TLAPS

-----------------------------------------------------------------------------
\* The composable in front of logins.

ShownStatus == {"idle", "running", "complete", "failed", "cancelled"}
Heard == {"prompt", "complete", "failed"}
ReadPlace == {"none", "begin", "read", "over"}

\* The types, as the proofs use them; a pipe is changed for one login at a time.
Types ==
  /\ status \in ShownStatus /\ loop \in [Login -> ReadPlace]
  /\ current \in Login \cup {NoLogin} /\ question \in Login \cup {NoLogin}
  /\ pipe \in [Login -> Seq(Heard)] /\ abandoned \in BOOLEAN
  /\ latest \in Login \cup {NoLogin} /\ cause \in Login \cup {NoLogin}
  /\ answers \subseteq Login \X Login
Counted == server \in [Login -> {"none", "live", "ended"}] /\ asked \in [Login -> 0..MaxPrompts]
Caused == cause # NoLogin <=> status \in {"complete", "failed"}

\* A loop that is not over is that of the login shown.
OneLoop == \A r \in Login : loop[r] \in {"begin", "read"} => r = latest /\ status = "running"
\* The refs name nothing, or the login of that loop.
OwnRefs ==
  /\ question # NoLogin => current = question
  /\ status = "idle" => current = NoLogin /\ question = NoLogin
  /\ \A r \in Login : (loop[r] = "begin" => current = NoLogin) /\ (loop[r] = "read" => current = r)
OwnAnswers == \A a \in answers : a[1] = a[2]

\* The inductive invariant: until a login is given up, one loop writes the refs.
Fresh == ~abandoned => OneLoop /\ OwnRefs /\ OwnOutcome /\ OwnAnswers
IInv == Types /\ Counted /\ Caused /\ Fresh

LEMMA InitKeeps == LoginClientInit => IInv
  <1> SUFFICES ASSUME LoginClientInit PROVE IInv OBVIOUS
  <1>1. pipe \in [Login -> Seq(Heard)]
    BY DEF LoginClientInit
  <1>2. loop \in [Login -> ReadPlace]
    BY DEF LoginClientInit, ReadPlace
  <1>3. Types
    BY <1>1, <1>2, PromptAssumption DEF LoginClientInit, Types, ShownStatus, Heard, ReadPlace
  <1>4. Fresh
    BY LoginAssumption DEF LoginClientInit, Fresh, OneLoop, OwnRefs, OwnOutcome, OwnAnswers
  <1>5. Counted
    BY PromptAssumption DEF LoginClientInit, Counted
  <1>6. Caused
    BY DEF LoginClientInit, Caused
  <1> QED BY <1>3, <1>4, <1>5, <1>6 DEF IInv

\* Sessions are counted, and a final status has a cause, whatever is given up.
LEMMA CountedKeeps == Types /\ Counted /\ LoginClientNext => Counted'
  <1> SUFFICES ASSUME Types, Counted, LoginClientNext PROVE Counted' OBVIOUS
  <1> USE PromptAssumption DEF Counted
  <1>1. ASSUME NEW r \in Login, Began(r) \/ AskQuestion(r) \/ SessionEnds(r) PROVE Counted'
    BY <1>1 DEF Began, AskQuestion, SessionEnds
  <1>2. ASSUME NEW r \in Login,
               StartLogin(r) \/ ReceiveEvent(r) \/ LoginStreamEnds(r) \/ NetworkError(r)
        PROVE  Counted'
    BY <1>2 DEF StartLogin, ReceiveEvent, LoginStreamEnds, NetworkError
  <1>3. CASE RespondLogin \/ CancelLogin \/ ResetLogin
    BY <1>3 DEF Types, RespondLogin, CancelLogin, ResetLogin
  <1> QED BY <1>1, <1>2, <1>3 DEF LoginClientNext, ClientStep

LEMMA CausedKeeps == Types /\ Caused /\ LoginClientNext => Caused'
  <1> SUFFICES ASSUME Types, Caused, LoginClientNext PROVE Caused' OBVIOUS
  <1> USE LoginAssumption DEF Caused, Types, ShownStatus
  <1>1. ASSUME NEW r \in Login, StartLogin(r) \/ Began(r) \/ AskQuestion(r) \/ SessionEnds(r)
        PROVE  Caused'
    BY <1>1 DEF StartLogin, Began, AskQuestion, SessionEnds, refs, loginHistory
  <1>2. ASSUME NEW r \in Login, ReceiveEvent(r) PROVE Caused'
    <2>1. pipe[r] \in Seq(Heard) /\ pipe[r] # <<>> BY <1>2 DEF ReceiveEvent
    <2>2. Head(pipe[r]) \in Heard BY <2>1
    <2> QED BY <1>2, <2>2 DEF ReceiveEvent, Outcome, Heard
  <1>3. ASSUME NEW r \in Login, LoginStreamEnds(r) \/ NetworkError(r) PROVE Caused'
    BY <1>3 DEF LoginStreamEnds, NetworkError, Unexpected, Outcome
  <1>4. CASE RespondLogin \/ CancelLogin \/ ResetLogin
    BY <1>4 DEF RespondLogin, CancelLogin, ResetLogin, GivenUp
  <1> QED BY <1>1, <1>2, <1>3, <1>4 DEF LoginClientNext, ClientStep

\* A pipe that grows or shrinks by one event stays a sequence of events.
LEMMA PipeType ==
  ASSUME NEW p \in [Login -> Seq(Heard)], NEW r \in Login
  PROVE  /\ \A e \in Heard : [p EXCEPT ![r] = Append(@, e)] \in [Login -> Seq(Heard)]
         /\ p[r] # <<>> => Head(p[r]) \in Heard /\ [p EXCEPT ![r] = Tail(@)] \in [Login -> Seq(Heard)]
  <1>1. p[r] \in Seq(Heard) OBVIOUS
  <1>2. \A e \in Heard : Append(p[r], e) \in Seq(Heard) BY <1>1
  <1>3. p[r] # <<>> => Head(p[r]) \in Heard /\ Tail(p[r]) \in Seq(Heard) BY <1>1
  <1> QED BY <1>2, <1>3

\* Starting: nothing is shown, so nobody's loop is left.
LEMMA StartKeeps ==
  ASSUME IInv, NEW r \in Login, StartLogin(r)
  PROVE  (Types /\ Fresh)'
  <1> USE DEF IInv, Types, StartLogin
  <1>1. Types'
    BY DEF ShownStatus, ReadPlace
  <1>2. Fresh'
    BY LoginAssumption DEF Fresh, OneLoop, OwnRefs, OwnOutcome, OwnAnswers, ReadPlace
  <1> QED BY <1>1, <1>2

LEMMA BeganKeeps ==
  ASSUME IInv, NEW r \in Login, Began(r)
  PROVE  (Types /\ Fresh)'
  <1> USE DEF IInv, Types, Began, loginHistory
  <1>1. Types'
    BY DEF ReadPlace
  <1>2. Fresh'
    BY LoginAssumption DEF Fresh, OneLoop, OwnRefs, OwnOutcome, OwnAnswers, ReadPlace
  <1> QED BY <1>1, <1>2

\* An event is dispatched to the loop of the login shown.
LEMMA ReceiveKeeps ==
  ASSUME IInv, NEW r \in Login, ReceiveEvent(r)
  PROVE  (Types /\ Fresh)'
  <1>1. /\ pipe' \in [Login -> Seq(Heard)] /\ Head(pipe[r]) \in Heard
    BY PipeType DEF IInv, Types, ReceiveEvent
  <1>2. Types'
    BY <1>1 DEF IInv, Types, ReceiveEvent, Outcome, Ending, ShownStatus, Heard, ReadPlace
  <1>3. ASSUME ~abandoned PROVE OneLoop' /\ OwnRefs' /\ OwnOutcome' /\ OwnAnswers'
    <2>1. loop[r] = "read" /\ r = latest /\ status = "running" /\ current = r
      BY <1>3 DEF IInv, Fresh, OneLoop, OwnRefs, ReceiveEvent
    <2>2. OneLoop'
      BY <1>1, <1>3, <2>1 DEF IInv, Types, Fresh, OneLoop, ReceiveEvent, Outcome, Returns, Ending, Heard, ReadPlace
    <2>3. OwnRefs'
      BY <1>1, <1>3, <2>1, LoginAssumption
      DEF IInv, Types, Fresh, OwnRefs, ReceiveEvent, Outcome, Returns, Ending, Heard, ReadPlace
    <2>4. OwnOutcome' /\ OwnAnswers'
      BY <1>1, <1>3, <2>1 DEF IInv, Fresh, OwnOutcome, OwnAnswers, ReceiveEvent, Outcome, Heard
    <2> QED BY <2>2, <2>3, <2>4
  <1> QED BY <1>2, <1>3 DEF IInv, Fresh, ReceiveEvent

\* A loop that ends, with its stream or an exception.
LEMMA EndKeeps ==
  ASSUME IInv, NEW r \in Login, LoginStreamEnds(r) \/ NetworkError(r)
  PROVE  (Types /\ Fresh)'
  <1> USE DEF LoginStreamEnds, NetworkError, Unexpected, Outcome, Ending
  <1>1. Types'
    BY DEF IInv, Types, ShownStatus, ReadPlace
  <1>2. ASSUME ~abandoned PROVE OneLoop' /\ OwnRefs' /\ OwnOutcome' /\ OwnAnswers'
    <2>1. loop[r] \in {"begin", "read"} /\ r = latest /\ status = "running"
      BY <1>2 DEF IInv, Fresh, OneLoop
    <2>2. OneLoop'
      BY <1>2, <2>1 DEF IInv, Types, Fresh, OneLoop, ReadPlace
    <2>3. OwnRefs'
      BY <1>2, <2>1 DEF IInv, Types, Fresh, OwnRefs, ReadPlace
    <2>4. OwnOutcome' /\ OwnAnswers'
      BY <1>2, <2>1 DEF IInv, Fresh, OwnOutcome, OwnAnswers
    <2> QED BY <2>2, <2>3, <2>4
  <1> QED BY <1>1, <1>2 DEF IInv, Fresh

LEMMA ServerKeeps ==
  ASSUME IInv, NEW r \in Login, AskQuestion(r) \/ SessionEnds(r)
  PROVE  (Types /\ Fresh)'
  <1>1. pipe' \in [Login -> Seq(Heard)]
    <2>1. UNCHANGED pipe \/ \E e \in Heard : Emits(r, e)
      BY DEF AskQuestion, SessionEnds, Heard
    <2>2. pipe \in [Login -> Seq(Heard)]
      BY DEF IInv, Types
    <2>3. ASSUME NEW e \in Heard, Emits(r, e) PROVE pipe' \in [Login -> Seq(Heard)]
      BY <2>2, <2>3, PipeType DEF Emits
    <2> QED BY <2>1, <2>2, <2>3
  <1>2. UNCHANGED <<refs, loop, loginHistory>>
    BY DEF AskQuestion, SessionEnds
  <1> QED
    BY <1>1, <1>2 DEF IInv, Types, Fresh, OneLoop, OwnRefs, OwnOutcome, OwnAnswers, refs, loginHistory

\* The answer goes to the session whose question is shown.
LEMMA RespondKeeps ==
  ASSUME IInv, RespondLogin
  PROVE  (Types /\ Fresh)'
  <1>1. Types'
    BY DEF IInv, Types, RespondLogin
  <1>2. Fresh'
    BY DEF IInv, Types, Fresh, OneLoop, OwnRefs, OwnOutcome, OwnAnswers, RespondLogin
  <1> QED BY <1>1, <1>2 DEF IInv

\* To cancel or to reset a login that runs is to give it up; otherwise no loop is left.
LEMMA GiveUpKeeps ==
  ASSUME IInv, CancelLogin \/ ResetLogin
  PROVE  (Types /\ Fresh)'
  <1>1. pipe' \in [Login -> Seq(Heard)]
    <2>1. UNCHANGED pipe \/ (current # NoLogin /\ Emits(current, "failed"))
      BY DEF CancelLogin, ResetLogin
    <2>2. pipe \in [Login -> Seq(Heard)] /\ "failed" \in Heard
      BY DEF IInv, Types, Heard
    <2>3. ASSUME current # NoLogin, Emits(current, "failed") PROVE pipe' \in [Login -> Seq(Heard)]
      <3>1. current \in Login
        BY <2>3 DEF IInv, Types
      <3> QED BY <2>2, <2>3, <3>1, PipeType DEF Emits
    <2> QED BY <2>1, <2>2, <2>3
  <1>2. Types'
    BY <1>1 DEF IInv, Types, CancelLogin, ResetLogin, GivenUp, ShownStatus
  <1>3. ASSUME ~abandoned' PROVE OneLoop' /\ OwnRefs' /\ OwnOutcome' /\ OwnAnswers'
    <2>1. ~abandoned /\ status # "running"
      BY <1>3 DEF IInv, Types, CancelLogin, ResetLogin, GivenUp
    <2>2. \A r \in Login : loop'[r] \notin {"begin", "read"}
      BY <2>1 DEF IInv, Fresh, OneLoop, CancelLogin, ResetLogin
    <2> QED
      BY <2>1, <2>2 DEF IInv, Fresh, OneLoop, OwnRefs, OwnOutcome, OwnAnswers, CancelLogin, ResetLogin
  <1> QED BY <1>2, <1>3 DEF IInv, Fresh

LEMMA NextKeeps == IInv /\ [LoginClientNext]_loginClientVars => IInv'
  <1> SUFFICES ASSUME IInv, [LoginClientNext]_loginClientVars PROVE IInv' OBVIOUS
  <1>1. CASE UNCHANGED loginClientVars
    BY <1>1 DEF IInv, Types, Counted, Caused, Fresh, OneLoop, OwnRefs, OwnOutcome, OwnAnswers,
                loginClientVars, refs, loginHistory
  <1>2. CASE LoginClientNext
    BY <1>2, StartKeeps, BeganKeeps, ReceiveKeeps, EndKeeps, ServerKeeps, RespondKeeps, GiveUpKeeps,
          CountedKeeps, CausedKeeps
    DEF IInv, LoginClientNext, ClientStep
  <1> QED BY <1>1, <1>2

\* useLoginSession, reused after a login has ended, shows the outcome of the login it was
\* started for last, and sends answers to the session that asked.
THEOREM ReuseCorrect == LoginClientSpec => []ReuseIsFresh
  <1>1. IInv => ReuseIsFresh
    BY DEF IInv, Fresh, OwnAnswers, ReuseIsFresh
  <1> QED BY <1>1, InitKeeps, NextKeeps, PTL DEF LoginClientSpec

\* The variables of the composable keep their types, and a final status was set by some
\* login, however often logins are given up.
THEOREM RefsTyped == LoginClientSpec => []LoginClientTypeOK
  <1>1. ASSUME IInv PROVE LoginClientTypeOK
    <2>1. \A r \in Login : pipe[r] \in Seq({"prompt", "complete", "failed"})
      BY <1>1 DEF IInv, Types, Heard
    <2> QED BY <1>1, <2>1 DEF IInv, Types, Counted, Caused, LoginClientTypeOK, ShownStatus, ReadPlace
  <1> QED BY <1>1, InitKeeps, NextKeeps, PTL DEF LoginClientSpec

-----------------------------------------------------------------------------
\* The session and its streams.

USE DEF registry, process, stream, At, Goto, Cli, Answer

\* The disjuncts of Next, as a case split.
Steps ==
  \/ \E s \in Stream :
       \/ Attach(s) \/ Start(s) \/ Ask(s) \/ Answered(s) \/ Pasted(s) \/ Fail(s)
       \/ Succeed(s) \/ Stored(s) \/ Told(s)
       \/ HangUpEarly(s) \/ HangUpAtAwait(s) \/ HangUpAtYield(s) \/ HangUpLate(s) \/ Cut(s)
       \/ Exit(s) \/ Reap(s)
  \/ \E a \in Actor : Cleanup(a) \/ Waited(a) \/ CancelApi(a)
  \/ \E c \in Canceller : Cancel(c) \/ Sweep(c)
  \/ \E x \in Answer : Respond(x)
  \/ Unblock

LEMMA Split == Next => Steps
  BY DEF Next, Steps, Drive, HangUp, CleanUp

\* What puts and gets do to a queue.
LEMMA QueueFacts ==
  ASSUME NEW S, NEW q \in Seq(S), NEW x \in S
  PROVE  /\ Append(q, x) \in Seq(S)
         /\ q = <<>> => Len(Append(q, x)) <= 1
         /\ q # <<>> => Tail(q) \in Seq(S) /\ (Len(q) <= 1 => Len(Tail(q)) <= 1)
  OBVIOUS

LEMMA AfterType == \A a : After(a) \in {"cancel", "gc", "over"}
  BY DEF After

-----------------------------------------------------------------------------
\* Every variable keeps its type, for all sets of streams and requests.
LEMMA InitType == Init => TypeOK
<1> SUFFICES ASSUME Init PROVE TypeOK
  OBVIOUS
<1>1. queue \in Seq(Answer \cup {"cancel"}) /\ Len(queue) <= 1
  BY DEF Init
<1> QED
  BY <1>1 DEF Init, TypeOK, Actor

LEMMA StepType == TypeOK /\ [Next]_vars => TypeOK'
<1> SUFFICES ASSUME TypeOK, [Next]_vars PROVE TypeOK'
  OBVIOUS
<1>0. CASE UNCHANGED vars
  BY <1>0 DEF vars, TypeOK, Full
<1>1. ASSUME NEW s \in Stream, Attach(s) \/ Ask(s) \/ Pasted(s) \/ Fail(s) \/ Succeed(s) \/ Stored(s) \/ Told(s)
      PROVE TypeOK'
  BY <1>1 DEF TypeOK, Attach, Ask, Pasted, Fail, Succeed, Stored, Told, Actor
<1>2. ASSUME NEW s \in Stream, Start(s) PROVE TypeOK'
  BY <1>2 DEF TypeOK, Start, Actor
<1>3. ASSUME NEW s \in Stream, Answered(s) PROVE TypeOK'
  <2>1. queue' \in Seq(Answer \cup {"cancel"}) /\ (~Cli' => Len(queue') <= 1)
    BY <1>3 DEF TypeOK, Answered
  <2> QED
    BY <1>3, <2>1 DEF TypeOK, Answered, Actor
<1>4. ASSUME NEW s \in Stream, HangUpEarly(s) \/ HangUpAtAwait(s) \/ HangUpAtYield(s) \/ HangUpLate(s)
      PROVE TypeOK'
  BY <1>4 DEF TypeOK, HangUpEarly, HangUpAtAwait, Dropped, HangUpAtYield, HangUpLate, Actor
<1>5. ASSUME NEW s \in Stream, Cut(s) PROVE TypeOK'
  BY <1>5, AfterType DEF TypeOK, Cut, Actor
<1>6. ASSUME NEW s \in Stream, Exit(s) \/ Reap(s) PROVE TypeOK'
  BY <1>6 DEF TypeOK, Exit, Reap
<1>7. ASSUME NEW a \in Actor, Cleanup(a) PROVE TypeOK'
  BY <1>7, AfterType, ActorAssumption DEF TypeOK, Cleanup, Terminate, Finish
<1>8. ASSUME NEW a \in Actor, Waited(a) PROVE TypeOK'
  BY <1>8, AfterType DEF TypeOK, Waited, Returned, Finish
<1>9. ASSUME NEW a \in Actor, CancelApi(a) PROVE TypeOK'
  BY <1>9, AfterType DEF TypeOK, CancelApi, Finish, Full
<1>10. ASSUME NEW c \in Canceller, Cancel(c) \/ Sweep(c) PROVE TypeOK'
  BY <1>10 DEF TypeOK, Cancel, Sweep, Actor
<1>11. ASSUME NEW x \in Answer, Respond(x) PROVE TypeOK'
  <2>1. queue' \in Seq(Answer \cup {"cancel"}) /\ (~Cli' => Len(queue') <= 1)
    BY <1>11, QueueFacts DEF TypeOK, Respond, Full
  <2> QED
    BY <1>11, <2>1 DEF TypeOK, Respond
<1>12. ASSUME Unblock PROVE TypeOK'
  BY <1>12 DEF TypeOK, Unblock, Full
<1> QED
  BY <1>0, <1>1, <1>2, <1>3, <1>4, <1>5, <1>6, <1>7, <1>8, <1>9, <1>10, <1>11, <1>12, Split DEF Steps

\* Type correctness, with the bound of an API-key session's queue.
THEOREM TypeCorrect == Spec => []TypeOK
  BY InitType, StepType, PTL DEF Spec

-----------------------------------------------------------------------------
\* A session leaves the registry only when it is done, or into the hands of a sweep
\* that is cancelling it.
LEMMA StepRemoved == TypeOK /\ RemovedIsDone /\ [Next]_vars => RemovedIsDone'
<1> SUFFICES ASSUME TypeOK, RemovedIsDone, [Next]_vars PROVE RemovedIsDone'
  OBVIOUS
<1> USE DEF TypeOK, RemovedIsDone, Actor
<1>0. CASE UNCHANGED vars
  BY <1>0 DEF vars
<1>1. ASSUME NEW s \in Stream, Attach(s) \/ Ask(s) \/ Pasted(s) \/ Fail(s) \/ Succeed(s) \/ Stored(s) \/ Told(s)
      PROVE RemovedIsDone'
  BY <1>1, ActorAssumption DEF Attach, Ask, Pasted, Fail, Succeed, Stored, Told
<1>2. ASSUME NEW s \in Stream, Start(s) \/ Answered(s) PROVE RemovedIsDone'
  BY <1>2, ActorAssumption DEF Start, Answered
<1>3. ASSUME NEW s \in Stream, HangUpEarly(s) \/ HangUpAtAwait(s) \/ HangUpAtYield(s) \/ HangUpLate(s)
      PROVE RemovedIsDone'
  BY <1>3, ActorAssumption DEF HangUpEarly, HangUpAtAwait, Dropped, HangUpAtYield, HangUpLate
<1>4. ASSUME NEW s \in Stream, Cut(s) PROVE RemovedIsDone'
  BY <1>4, ActorAssumption DEF Cut
<1>5. ASSUME NEW s \in Stream, Exit(s) \/ Reap(s) PROVE RemovedIsDone'
  BY <1>5 DEF Exit, Reap
<1>6. ASSUME NEW a \in Actor, Cleanup(a) \/ Waited(a) \/ CancelApi(a) PROVE RemovedIsDone'
  BY <1>6 DEF Cleanup, Terminate, Waited, Returned, CancelApi, Finish
<1>7. ASSUME NEW c \in Canceller, Cancel(c) \/ Sweep(c) PROVE RemovedIsDone'
  BY <1>7, ActorAssumption DEF Cancel, Sweep
<1>8. ASSUME NEW x \in Answer, Respond(x) PROVE RemovedIsDone'
  BY <1>8 DEF Respond
<1>9. CASE Unblock
  BY <1>9 DEF Unblock
<1> QED
  BY <1>0, <1>1, <1>2, <1>3, <1>4, <1>5, <1>6, <1>7, <1>8, <1>9, Split DEF Steps

\* cancel() comes before remove(), whatever is cut short.
THEOREM RemovedCorrect == Spec => []RemovedIsDone
<1>1. Init => RemovedIsDone
  BY DEF Init, RemovedIsDone
<1> QED
  BY <1>1, TypeCorrect, StepRemoved, PTL DEF Spec

-----------------------------------------------------------------------------
\* Who holds the lock waits for a process it has signalled.
LockInv == \A a \in Actor :
  /\ on[a] # None <=> lock = a
  /\ on[a] # None => Cli /\ on[a] \in ended /\ pc[a] \in {"fin", "cancel", "gc"}

\* A stream that has not started has no process, and an API-key session none at all;
\* a status is lost only to an abandoned thread; a pid that is remembered although
\* its status was collected belongs to a cleanup that is about to learn of it.
ReapInv == \A p \in Stream :
  /\ pc[p] \in {"unused", "open"} \/ ~Cli => proc[p] = "none"
  /\ p \in known => proc[p] # "none"
  /\ proc[p] = "lost" => p \in left
  /\ p \in known /\ proc[p] = "reaped" => \E a \in Actor : on[a] = p

\* As long as no stream raced: the process that still runs unsignalled is the one the
\* session remembers, and its stream has its cleanup before it; and a cleanup waits
\* for that process.
OwnInv == ~raced =>
  /\ \A s \in Stream : proc[s] = "running" /\ s \notin ended =>
       /\ orch = s /\ s \in known
       /\ pc[s] \in {"read", "ask", "store", "told", "fin", "cancel"}
  /\ \A a \in Actor : on[a] # None => on[a] = orch

CliInv == LockInv /\ ReapInv /\ OwnInv

LEMMA InitCli == Init => CliInv
  BY ActorAssumption DEF Init, CliInv, LockInv, ReapInv, OwnInv, Actor

\* Streams are actors, and no request is one.
LEMMA Actors == Stream \subseteq Actor /\ Canceller \subseteq Actor /\ Stream \cap Canceller = {}
                /\ None \notin Actor /\ None \notin Stream
  BY ActorAssumption DEF Actor

LEMMA StepLock == TypeOK /\ LockInv /\ [Next]_vars => LockInv'
<1> SUFFICES ASSUME TypeOK, LockInv, [Next]_vars PROVE LockInv'
  OBVIOUS
<1> USE Actors DEF TypeOK, LockInv
<1>0. CASE UNCHANGED vars
  BY <1>0 DEF vars
<1>1. ASSUME NEW s \in Stream, Attach(s) \/ Ask(s) \/ Pasted(s) \/ Fail(s) \/ Succeed(s) \/ Stored(s) \/ Told(s)
      PROVE LockInv'
  BY <1>1 DEF Attach, Ask, Pasted, Fail, Succeed, Stored, Told
<1>2. ASSUME NEW s \in Stream, Start(s) \/ Answered(s) PROVE LockInv'
  BY <1>2 DEF Start, Answered
<1>3. ASSUME NEW s \in Stream, HangUpEarly(s) \/ HangUpAtAwait(s) \/ HangUpAtYield(s) \/ HangUpLate(s)
      PROVE LockInv'
  BY <1>3 DEF HangUpEarly, HangUpAtAwait, Dropped, HangUpAtYield, HangUpLate
<1>4. ASSUME NEW s \in Stream, Cut(s) PROVE LockInv'
  BY <1>4 DEF Cut
<1>5. ASSUME NEW s \in Stream, Exit(s) \/ Reap(s) PROVE LockInv'
  BY <1>5 DEF Exit, Reap
<1>6. ASSUME NEW a \in Actor, Cleanup(a) PROVE LockInv'
  BY <1>6 DEF Cleanup, Terminate, Finish
<1>7. ASSUME NEW a \in Actor, Waited(a) PROVE LockInv'
  BY <1>7 DEF Waited, Returned, Finish
<1>8. ASSUME NEW a \in Actor, CancelApi(a) PROVE LockInv'
  BY <1>8 DEF CancelApi, Finish
<1>9. ASSUME NEW c \in Canceller, Cancel(c) \/ Sweep(c) PROVE LockInv'
  BY <1>9 DEF Cancel, Sweep
<1>10. ASSUME NEW x \in Answer, Respond(x) PROVE LockInv'
  BY <1>10 DEF Respond
<1>11. CASE Unblock
  BY <1>11 DEF Unblock
<1> QED
  BY <1>0, <1>1, <1>2, <1>3, <1>4, <1>5, <1>6, <1>7, <1>8, <1>9, <1>10, <1>11, Split DEF Steps

LEMMA StepReap == TypeOK /\ LockInv /\ ReapInv /\ [Next]_vars => ReapInv'
<1> SUFFICES ASSUME TypeOK, LockInv, ReapInv, [Next]_vars PROVE ReapInv'
  OBVIOUS
<1> USE Actors DEF TypeOK, ReapInv
<1>0. CASE UNCHANGED vars
  BY <1>0 DEF vars
<1>1. ASSUME NEW s \in Stream, Attach(s) \/ Ask(s) \/ Pasted(s) \/ Fail(s) \/ Succeed(s) \/ Stored(s) \/ Told(s)
      PROVE ReapInv'
  BY <1>1 DEF Attach, Ask, Pasted, Fail, Succeed, Stored, Told
<1>2. ASSUME NEW s \in Stream, Start(s) \/ Answered(s) PROVE ReapInv'
  BY <1>2 DEF Start, Answered
<1>3. ASSUME NEW s \in Stream, HangUpEarly(s) \/ HangUpAtAwait(s) \/ HangUpAtYield(s) \/ HangUpLate(s)
      PROVE ReapInv'
  BY <1>3 DEF HangUpEarly, HangUpAtAwait, Dropped, HangUpAtYield, HangUpLate
<1>4. ASSUME NEW s \in Stream, Cut(s) PROVE ReapInv'
  BY <1>4, AfterType DEF Cut, Waits
<1>5. ASSUME NEW s \in Stream, Exit(s) \/ Reap(s) PROVE ReapInv'
  BY <1>5 DEF Exit, Reap
<1>6. ASSUME NEW a \in Actor, Cleanup(a) PROVE ReapInv'
  BY <1>6, AfterType DEF Cleanup, Terminate, Finish
<1>7. ASSUME NEW a \in Actor, Waited(a) PROVE ReapInv'
  BY <1>7, AfterType DEF LockInv, Waited, Returned, Finish
<1>8. ASSUME NEW a \in Actor, CancelApi(a) PROVE ReapInv'
  BY <1>8, AfterType DEF CancelApi, Finish
<1>9. ASSUME NEW c \in Canceller, Cancel(c) \/ Sweep(c) PROVE ReapInv'
  BY <1>9 DEF Cancel, Sweep
<1>10. ASSUME NEW x \in Answer, Respond(x) PROVE ReapInv'
  BY <1>10 DEF Respond
<1>11. CASE Unblock
  BY <1>11 DEF Unblock
<1> QED
  BY <1>0, <1>1, <1>2, <1>3, <1>4, <1>5, <1>6, <1>7, <1>8, <1>9, <1>10, <1>11, Split DEF Steps

LEMMA StepOwn == TypeOK /\ CliInv /\ [Next]_vars => OwnInv'
<1> SUFFICES ASSUME TypeOK, CliInv, [Next]_vars PROVE OwnInv'
  OBVIOUS
<1> USE Actors DEF TypeOK, CliInv, OwnInv
<1>0. CASE UNCHANGED vars
  BY <1>0 DEF vars
<1>1. ASSUME NEW s \in Stream, Attach(s) \/ Ask(s) \/ Pasted(s) \/ Fail(s) \/ Succeed(s) \/ Stored(s) \/ Told(s)
      PROVE OwnInv'
  BY <1>1 DEF ReapInv, Attach, Ask, Pasted, Fail, Succeed, Stored, Told
<1>2. ASSUME NEW s \in Stream, Answered(s) PROVE OwnInv'
  BY <1>2 DEF Answered
\* When nobody else is at work, no process runs unsignalled and nobody cleans up.
<1>3. ASSUME NEW s \in Stream, Start(s) PROVE OwnInv'
  <2> SUFFICES ASSUME ~raced' PROVE OwnInv'
    OBVIOUS
  <2>1. ~raced /\ \A a \in Actor \ {s} : pc[a] \in {"unused", "open", "over"}
    BY <1>3 DEF Start, Busy
  <2>2. \A a \in Actor : on[a] = None
    BY <1>3, <2>1 DEF Start, LockInv
  <2>3. \A p \in Stream : proc[p] = "running" => p \in ended
    BY <1>3, <2>1 DEF Start, ReapInv
  <2> QED
    BY <1>3, <2>1, <2>2, <2>3 DEF Start
<1>4. ASSUME NEW s \in Stream, HangUpEarly(s) \/ HangUpAtAwait(s) \/ HangUpAtYield(s) \/ HangUpLate(s)
      PROVE OwnInv'
  BY <1>4 DEF HangUpEarly, HangUpAtAwait, Dropped, HangUpAtYield, HangUpLate
\* A stream is cut while somebody holds the lock, who has signalled the process.
<1>5. ASSUME NEW s \in Stream, Cut(s) PROVE OwnInv'
  <2>1. lock \in Actor /\ on[lock] \in ended /\ (~raced => on[lock] = orch)
    BY <1>5 DEF Cut, Waits, LockInv
  <2> QED
    BY <1>5, <2>1 DEF Cut
<1>6. ASSUME NEW s \in Stream, Exit(s) \/ Reap(s) PROVE OwnInv'
  BY <1>6 DEF Exit, Reap
<1>7. ASSUME NEW a \in Actor, Cleanup(a) PROVE OwnInv'
  BY <1>7 DEF LockInv, Cleanup, Terminate, Finish, After
<1>8. ASSUME NEW a \in Actor, Waited(a) PROVE OwnInv'
  BY <1>8 DEF LockInv, Waited, Returned, Finish
<1>9. ASSUME NEW a \in Actor, CancelApi(a) PROVE OwnInv'
  BY <1>9 DEF ReapInv, CancelApi, Finish
<1>10. ASSUME NEW c \in Canceller, Cancel(c) \/ Sweep(c) PROVE OwnInv'
  BY <1>10 DEF Cancel, Sweep
<1>11. ASSUME NEW x \in Answer, Respond(x) PROVE OwnInv'
  BY <1>11 DEF Respond
<1>12. CASE Unblock
  BY <1>12 DEF Unblock
<1> QED
  BY <1>0, <1>1, <1>2, <1>3, <1>4, <1>5, <1>6, <1>7, <1>8, <1>9, <1>10, <1>11, <1>12, Split DEF Steps

LEMMA CliCorrect == Spec => [](TypeOK /\ CliInv)
<1>1. TypeOK /\ CliInv /\ [Next]_vars => (TypeOK /\ CliInv)'
  BY StepType, StepLock, StepReap, StepOwn DEF CliInv
<1> QED
  BY <1>1, InitType, InitCli, PTL DEF Spec

\* A stream that had the session for itself is not over before its process has been
\* signalled or has ended.
THEOREM CliEnds == Spec => []CliIsEnded
<1>1. TypeOK /\ CliInv => CliIsEnded
  BY DEF CliInv, OwnInv, CliIsEnded
<1> QED
  BY <1>1, CliCorrect, PTL

\* No cleanup signals a pid that the server has reaped, except after a cancelled task
\* has left its waitpid() behind.
SignalsOnce ==
  \A a \in Actor : on'[a] # on[a] /\ on'[a] # None =>
    proc[on'[a]] \in {"running", "exited"} \/ on'[a] \in left

THEOREM SignalsCorrect == Spec => SignalsItsChild
<1>1. TypeOK /\ CliInv /\ [Next]_vars => [SignalsOnce]_vars
  <2> SUFFICES ASSUME TypeOK, CliInv, Next, NEW a \in Actor, on'[a] # on[a], on'[a] # None
               PROVE  proc[on'[a]] \in {"running", "exited"} \/ on'[a] \in left
    BY DEF SignalsOnce
  <2> USE Actors DEF TypeOK
  \* Only a cleanup begins to wait.
  <2>1. Cleanup(a) /\ on'[a] = orch /\ orch \in known
    <3>1. ASSUME NEW s \in Stream, Cut(s) PROVE FALSE
      BY <3>1 DEF Cut
    <3>2. ASSUME NEW b \in Actor, Waited(b) PROVE FALSE
      BY <3>2 DEF Waited, Returned
    <3>3. ASSUME NEW b \in Actor, Cleanup(b) PROVE b = a /\ on'[a] = orch /\ orch \in known
      BY <3>3 DEF Cleanup, Terminate
    <3> HIDE DEF TypeOK
    <3>4. ASSUME NEW s \in Stream,
                 \/ Attach(s) \/ Start(s) \/ Ask(s) \/ Answered(s) \/ Pasted(s) \/ Fail(s)
                 \/ Succeed(s) \/ Stored(s) \/ Told(s)
                 \/ HangUpEarly(s) \/ HangUpAtAwait(s) \/ HangUpAtYield(s) \/ HangUpLate(s)
                 \/ Exit(s) \/ Reap(s)
          PROVE FALSE
      BY <3>4 DEF Attach, Start, Ask, Answered, Pasted, Fail, Succeed, Stored, Told, HangUpEarly,
                  HangUpAtAwait, Dropped, HangUpAtYield, HangUpLate, Exit, Reap
    <3>5. ASSUME NEW b \in Actor, CancelApi(b) PROVE FALSE
      BY <3>5 DEF CancelApi
    <3>6. ASSUME NEW c \in Canceller, Cancel(c) \/ Sweep(c) PROVE FALSE
      BY <3>6 DEF Cancel, Sweep
    <3>7. ASSUME (\E x \in Answer : Respond(x)) \/ Unblock PROVE FALSE
      BY <3>7 DEF Respond, Unblock
    <3> QED
      BY <3>1, <3>2, <3>3, <3>4, <3>5, <3>6, <3>7, Split DEF Steps
  <2>2. \A b \in Actor : on[b] = None
    BY <2>1 DEF Cleanup, CliInv, LockInv
  <2> QED
    BY <2>1, <2>2 DEF CliInv, ReapInv
<1> QED
  BY <1>1, CliCorrect, PTL DEF Spec, SignalsItsChild, SignalsOnce
=============================================================================
