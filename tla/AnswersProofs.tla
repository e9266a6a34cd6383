---------------------------- MODULE AnswersProofs ----------------------------
(***************************************************************************)
(* Theorems about what answers a request (module MCAnswers).  The fan-out, *)
(* for any number of accounts and any length of their answers: the         *)
(* sentinel comes last, what is synthesised is what the client shows, and  *)
(* it keeps the promise of module Gather.  The council, for any number of  *)
(* seats and rounds: it keeps the rules of its own prompts.  The proxy's   *)
(* logins, for any number of them: what is told of one is its own.  An     *)
(* adapter, for any number of lines: it tells what its provider has said.  *)
(* And all of their state keeps its types.                                 *)
(***************************************************************************)
EXTENDS MCAnswers, FiniteSetTheorems, SequenceFacts

-----------------------------------------------------------------------------
\* The fan-out.

Said == {"delta", "error", "complete", "timeout"}
Events == [kind : Said, acct : Account]
Entries == Events \cup {Sentinel}
Elems(q) == {q[i] : i \in 1..Len(q)}
LastOnly(q) == \A i \in 1..Len(q) : q[i] = Sentinel => i = Len(q)

Typed ==
  /\ ready \in SUBSET Account /\ gathered \in BOOLEAN
  /\ task \in [Account -> {"none", "pick", "models", "chat", "over"}]
  /\ queue \in Seq(Entries)

\* No task runs, and so nothing can be put in the queue.
Quiet == \A a \in Account : ~Running(a)

\* The inductive invariant of the queue: only accounts that were asked are in it, and once
\* the sentinel was put there nobody is left to put anything behind it.
FanInv ==
  /\ \A a \in Account : a \in ready <=> task[a] # "none"
  /\ pc \in {"start", "health"} => ready = {}
  /\ pc \in {"start", "health", "drain"} => ~gathered
  /\ ready = {} => queue = <<>>
  /\ \A x \in Elems(queue) : x = Sentinel \/ x.acct \in ready
  /\ LastOnly(queue)
  /\ Sentinel \in Elems(queue) => Quiet
  /\ gathered => queue = <<>> /\ Quiet
IInv == Typed /\ FanInv

-----------------------------------------------------------------------------
\* What the operations on queues do.

LEMMA AppendFacts ==
  ASSUME NEW S, NEW q \in Seq(S), NEW x \in S
  PROVE  /\ Append(q, x) \in Seq(S) /\ Append(q, x) # <<>>
         /\ Elems(Append(q, x)) = Elems(q) \cup {x}
  <1>1. Len(Append(q, x)) = Len(q) + 1 /\ Len(q) \in Nat OBVIOUS
  <1>2. Append(q, x)[Len(q) + 1] = x OBVIOUS
  <1>3. \A i \in 1..Len(q) : Append(q, x)[i] = q[i] OBVIOUS
  <1>4. \A i \in 1..(Len(q) + 1) : i \in 1..Len(q) \/ i = Len(q) + 1 BY <1>1
  <1>5. Elems(Append(q, x)) = Elems(q) \cup {x} BY <1>1, <1>2, <1>3, <1>4 DEF Elems
  <1> QED BY <1>1, <1>5

LEMMA TailFacts ==
  ASSUME NEW S, NEW q \in Seq(S), q # <<>>
  PROVE  /\ Tail(q) \in Seq(S) /\ Head(q) \in S
         /\ Elems(q) = {Head(q)} \cup Elems(Tail(q))
  <1>1. Len(Tail(q)) = Len(q) - 1 /\ Len(q) \in Nat /\ Len(q) > 0 OBVIOUS
  <1>2. Head(q) = q[1] OBVIOUS
  <1>3. \A i \in 1..(Len(q) - 1) : Tail(q)[i] = q[i + 1] OBVIOUS
  <1>4. \A i \in 1..Len(q) : i = 1 \/ (i - 1 \in 1..(Len(q) - 1) /\ (i - 1) + 1 = i) BY <1>1
  <1>5. Elems(q) \subseteq {Head(q)} \cup Elems(Tail(q)) BY <1>1, <1>2, <1>3, <1>4 DEF Elems
  <1>6. {Head(q)} \cup Elems(Tail(q)) \subseteq Elems(q) BY <1>1, <1>2, <1>3 DEF Elems
  <1> QED BY <1>5, <1>6

LEMMA ElemsOfNothing == Elems(<<>>) = {}
  BY DEF Elems

\* The sentinel stays last when something is put before it is there, when it is put
\* there, and when something is taken.
LEMMA LastFacts ==
  ASSUME NEW S, NEW q \in Seq(S)
  PROVE  /\ \A x \in S : Sentinel \notin Elems(q) => LastOnly(Append(q, x))
         /\ q # <<>> /\ LastOnly(q) => LastOnly(Tail(q))
         /\ q # <<>> /\ LastOnly(q) /\ Head(q) = Sentinel => Tail(q) = <<>>
  <1>1. ASSUME NEW x \in S, Sentinel \notin Elems(q) PROVE LastOnly(Append(q, x))
    <2>1. Len(Append(q, x)) = Len(q) + 1 /\ Len(q) \in Nat OBVIOUS
    <2>2. \A i \in 1..Len(q) : Append(q, x)[i] = q[i] OBVIOUS
    <2>3. \A i \in 1..Len(q) : q[i] # Sentinel BY <1>1 DEF Elems
    <2>4. \A i \in 1..(Len(q) + 1) : i \in 1..Len(q) \/ i = Len(q) + 1 BY <2>1
    <2>5. \A i \in 1..Len(Append(q, x)) : Append(q, x)[i] = Sentinel => i = Len(Append(q, x))
      BY <2>1, <2>2, <2>3, <2>4
    <2> QED BY <2>5 DEF LastOnly
  <1>2. ASSUME q # <<>>, LastOnly(q) PROVE LastOnly(Tail(q))
    <2>1. Len(Tail(q)) = Len(q) - 1 /\ Len(q) \in Nat /\ Len(q) > 0 BY <1>2
    <2>2. \A i \in 1..(Len(q) - 1) : Tail(q)[i] = q[i + 1] BY <1>2
    <2>3. ASSUME NEW i \in 1..(Len(q) - 1) PROVE q[i + 1] = Sentinel => i = Len(q) - 1
      <3>1. i + 1 \in 1..Len(q) BY <2>1
      <3>2. q[i + 1] = Sentinel => i + 1 = Len(q) BY <1>2, <3>1 DEF LastOnly
      <3> QED BY <2>1, <3>2
    <2>4. \A i \in 1..Len(Tail(q)) : Tail(q)[i] = Sentinel => i = Len(Tail(q))
      BY <2>1, <2>2, <2>3
    <2> QED BY <2>4 DEF LastOnly
  <1>3. ASSUME q # <<>>, LastOnly(q), Head(q) = Sentinel PROVE Tail(q) = <<>>
    <2>1. Len(q) \in Nat /\ q[1] = Head(q) /\ 1 \in 1..Len(q) BY <1>3
    <2>2. Len(q) = 1 BY <1>3, <2>1 DEF LastOnly
    <2>3. Tail(q) \in Seq(S) BY <1>3
    <2>4. Len(Tail(q)) = 0 BY <1>3, <2>1, <2>2
    <2> QED BY <2>3, <2>4, EmptySeq
  <1> QED BY <1>1, <1>2, <1>3

\* An entry is the sentinel, or says something of an account.
LEMMA EntryFacts ==
  /\ Sentinel \in Entries /\ Sentinel.acct = None
  /\ \A x \in Events : x.acct \in Account /\ x.kind \in Said /\ x # Sentinel
  /\ \A k \in Said, a \in Account : Event(k, a) \in Events /\ Event(k, a).acct = a /\ Event(k, a).kind = k
  /\ \A x \in Entries : x = Sentinel \/ x \in Events
  BY NoneAssumption DEF Entries, Events, Sentinel, Event, Said

-----------------------------------------------------------------------------
\* What steps do to the queue and the tasks.

\* A step of a task: it goes on, or its entry is put in the queue.
Calls(a) ==
  /\ Running(a) /\ UNCHANGED <<mode, pc, ready, gathered, responses, shown, text>>
  /\ task' \in [Account -> {"none", "pick", "models", "chat", "over"}]
  /\ task'[a] # "none" /\ \A b \in Account \ {a} : task'[b] = task[b]
  /\ \/ UNCHANGED queue /\ task'[a] # "over"
     \/ \E k \in Said : queue' = Append(queue, Event(k, a))

LEMMA CallStep ==
  ASSUME Typed, NEW a \in Account, Call(a) \/ TimeOut(a)
  PROVE  Calls(a)
  <1> USE DEF Typed, Calls, Running, clientVars
  <1>1. CASE Pick(a)
    BY <1>1 DEF Pick, LastEvent, Stop, Tell, Said
  <1>2. CASE ListModels(a)
    BY <1>2 DEF ListModels, LastEvent, Stop, Tell, Said
  <1>3. CASE Token(a)
    BY <1>3 DEF Token, Said
  <1>4. CASE ChatEnds(a)
    BY <1>4 DEF ChatEnds, LastEvent, Stop, Tell, Said
  <1>5. CASE TimeOut(a)
    BY <1>5 DEF TimeOut, Expires, LastEvent, Stop, Tell, Said
  <1> QED BY <1>1, <1>2, <1>3, <1>4, <1>5 DEF Call

\* A step of the generator that touches neither: before the fan-out, after it, or out of it.
Elsewhere ==
  /\ UNCHANGED <<mode, ready, task, queue, gathered, responses, shown, text>>
  /\ \/ pc' \notin {"start", "health", "drain", "failed", "closed"} /\ pc \notin {"failed", "closed"}
     \/ pc = "start" /\ pc' = "health"
     \/ pc' \in {"failed", "closed"} /\ pc \notin {"failed", "closed"}

LEMMA ElsewhereStep ==
  ASSUME Persist \/ NobodyReady \/ Resolve \/ StartSynthesis \/ Provider \/ Close
  PROVE  Elsewhere
  <1> USE DEF Elsewhere, Goto, fanVars, clientVars
  <1>1. CASE Persist
    BY <1>1 DEF Persist
  <1>2. CASE NobodyReady
    BY <1>2 DEF NobodyReady
  <1>3. CASE Resolve \/ StartSynthesis
    BY <1>3 DEF Resolve, StartSynthesis, Synth
  <1>4. CASE Provider
    BY <1>4 DEF Provider, PickPrimary, ListPrimaryModels, Synthesise, Synth
  <1>5. CASE Close
    BY <1>5 DEF Close
  <1> QED BY <1>1, <1>2, <1>3, <1>4, <1>5

\* The disjuncts of Next, as the proofs take them.
Steps ==
  \/ Elsewhere
  \/ \E S \in SUBSET Account : Launch(S)
  \/ \E a \in Account : Calls(a)
  \/ Monitor \/ Yield \/ EndOfFan

LEMMA Split == Typed /\ Next => Steps
  <1> SUFFICES ASSUME Typed, Next PROVE Steps OBVIOUS
  <1>1. CASE Generator \/ Provider \/ Monitor \/ Close
    BY <1>1, ElsewhereStep DEF Generator, Steps
  <1>2. CASE \E a \in Account : Call(a) \/ TimeOut(a)
    BY <1>2, CallStep DEF Steps
  <1> QED BY <1>1, <1>2 DEF Next

-----------------------------------------------------------------------------
\* The invariant.

LEMMA InitInv == Init => IInv
  <1> SUFFICES ASSUME Init PROVE IInv OBVIOUS
  <1>1. queue \in Seq(Entries)
    BY DEF Init, NothingSent
  <1>2. Typed
    BY <1>1 DEF Init, NothingSent, Typed
  <1>3. FanInv
    BY ElemsOfNothing DEF Init, NothingSent, FanInv, LastOnly
  <1> QED BY <1>2, <1>3 DEF IInv

\* Entries are put in the queue by tasks that run, and so not behind the sentinel.
LEMMA CallsKeep ==
  ASSUME IInv, NEW a \in Account, Calls(a)
  PROVE  IInv'
  <1>1. a \in ready /\ ~Quiet /\ Sentinel \notin Elems(queue) /\ ~gathered
    BY DEF IInv, FanInv, Calls, Quiet, Running
  <1>2. CASE UNCHANGED queue
    <2>1. Typed'
      BY <1>2 DEF IInv, Typed, Calls
    <2>2. FanInv'
      BY <1>1, <1>2 DEF IInv, FanInv, Calls, Quiet, Running
    <2> QED BY <2>1, <2>2 DEF IInv
  <1>3. ASSUME NEW k \in Said, queue' = Append(queue, Event(k, a)) PROVE IInv'
    <2> DEFINE e == Event(k, a)
    <2>1. e \in Entries /\ e # Sentinel /\ e.acct = a
      BY EntryFacts DEF Entries
    <2>2. queue \in Seq(Entries)
      BY DEF IInv, Typed
    <2> HIDE DEF e
    <2>3. queue' \in Seq(Entries) /\ queue' # <<>> /\ Elems(queue') = Elems(queue) \cup {e}
      BY <1>3, <2>1, <2>2, AppendFacts DEF e
    <2>4. LastOnly(queue')
      BY <1>1, <1>3, <2>1, <2>2, LastFacts DEF e
    <2>5. Typed'
      BY <2>3 DEF IInv, Typed, Calls
    <2>6. FanInv'
      BY <1>1, <2>1, <2>3, <2>4 DEF IInv, FanInv, Calls, Quiet, Running
    <2> QED BY <2>5, <2>6 DEF IInv
  <1> QED BY <1>2, <1>3 DEF Calls

LEMMA LaunchKeeps ==
  ASSUME IInv, NEW S \in SUBSET Account, Launch(S)
  PROVE  IInv'
  <1>1. Typed'
    BY DEF IInv, Typed, Launch
  <1>2. queue = <<>> /\ ~gathered
    BY DEF IInv, FanInv, Launch
  <1>3. FanInv'
    BY <1>2, ElemsOfNothing DEF IInv, FanInv, Launch, Goto, LastOnly
  <1> QED BY <1>1, <1>3 DEF IInv

\* The monitor puts the sentinel when all tasks are over.
LEMMA MonitorKeeps ==
  ASSUME IInv, Monitor
  PROVE  IInv'
  <1>1. queue \in Seq(Entries) /\ Sentinel \in Entries /\ Sentinel \notin Elems(queue)
    BY DEF IInv, Typed, Monitor, Elems, Entries
  <1>2. queue' \in Seq(Entries) /\ queue' # <<>> /\ Elems(queue') = Elems(queue) \cup {Sentinel}
    BY <1>1, AppendFacts DEF Monitor
  <1>3. LastOnly(queue')
    BY <1>1, LastFacts DEF Monitor
  <1>4. Typed'
    BY <1>2 DEF IInv, Typed, Monitor
  <1>5. Quiet'
    BY DEF IInv, FanInv, Monitor, AllOver, Quiet, Running
  <1>6. FanInv'
    BY <1>2, <1>3, <1>5 DEF IInv, FanInv, Monitor
  <1> QED BY <1>4, <1>6 DEF IInv

\* The generator takes an entry; after the sentinel the queue is empty.
LEMMA TakeKeeps ==
  ASSUME IInv, Yield \/ EndOfFan
  PROVE  IInv'
  <1>1. queue \in Seq(Entries) /\ queue # <<>> /\ queue' = Tail(queue) /\ pc = "drain"
    BY DEF IInv, Typed, Yield, EndOfFan, Rest
  <1>2. queue' \in Seq(Entries) /\ Elems(queue) = {Head(queue)} \cup Elems(queue')
    BY <1>1, TailFacts
  <1>3. LastOnly(queue')
    BY <1>1, LastFacts DEF IInv, FanInv
  <1>4. CASE Yield
    <2>1. Typed'
      BY <1>2, <1>4 DEF IInv, Typed, Yield
    <2>2. FanInv'
      BY <1>1, <1>2, <1>3, <1>4 DEF IInv, FanInv, Yield, Quiet, Running
    <2> QED BY <2>1, <2>2 DEF IInv
  <1>5. CASE EndOfFan
    <2>1. Typed'
      BY <1>2, <1>5 DEF IInv, Typed, EndOfFan
    <2>2. queue' = <<>> /\ Quiet
      BY <1>1, <1>2, <1>5, LastFacts DEF IInv, FanInv, EndOfFan
    <2>3. pc' \notin {"start", "health", "drain"}
      BY <1>5 DEF EndOfFan, Goto
    <2>4. FanInv'
      BY <1>2, <1>3, <1>5, <2>2, <2>3 DEF IInv, FanInv, EndOfFan, Quiet, Running
    <2> QED BY <2>1, <2>4 DEF IInv
  <1> QED BY <1>4, <1>5

LEMMA NextInv == IInv /\ [Next]_vars => IInv'
  <1> SUFFICES ASSUME IInv, [Next]_vars PROVE IInv' OBVIOUS
  <1>1. CASE UNCHANGED vars
    BY <1>1 DEF IInv, Typed, FanInv, Quiet, Running, vars, fanVars
  <1>2. CASE Elsewhere
    BY <1>2 DEF IInv, Typed, FanInv, Quiet, Running, Elsewhere
  <1> QED
    BY <1>1, <1>2, Split, CallsKeep, LaunchKeeps, MonitorKeeps, TakeKeeps DEF IInv, Steps

\* send_all's "sentinel MUST be sent no matter what" (_monitor): it comes last, when no
\* task is left that could put anything behind it.
THEOREM SentinelCorrect == Spec => []SentinelIsLast
  <1>1. IInv => SentinelIsLast
    BY DEF IInv, Typed, FanInv, LastOnly, Elems, Quiet, SentinelIsLast
  <1> QED BY <1>1, InitInv, NextInv, PTL DEF Spec

-----------------------------------------------------------------------------
\* What is synthesised is what the client shows.

Shown ==
  /\ responses \in Seq(Account) /\ text \in [Account -> Nat]
  /\ shown \in [Account -> Said \cup {"none"}]
  /\ mode = "compound" => \A a \in Account :
       (a \in Elems(responses) <=> text[a] > 0) /\ (text[a] > 0 => shown[a] # "none")

LEMMA InitShown == Init => Shown
  <1> SUFFICES ASSUME Init PROVE Shown OBVIOUS
  <1>1. responses \in Seq(Account) /\ Elems(responses) = {}
    BY ElemsOfNothing DEF Init, NothingSent
  <1>2. text = [a \in Account |-> 0] /\ shown = [a \in Account |-> "none"]
    BY DEF Init, NothingSent
  <1>3. \A a \in Account : ~(text[a] > 0)
    <2>1. \A a \in Account : text[a] = 0 BY <1>2
    <2>2. ~(0 > 0) OBVIOUS
    <2> QED BY <2>1, <2>2
  <1>4. text \in [Account -> Nat] /\ shown \in [Account -> Said \cup {"none"}]
    BY <1>2
  <1>5. \A a \in Account : (a \in Elems(responses) <=> text[a] > 0) /\ (text[a] > 0 => shown[a] # "none")
    BY <1>1, <1>3
  <1> QED BY <1>1, <1>4, <1>5 DEF Shown

\* An event is shown and collected in one step.
LEMMA YieldShows ==
  ASSUME IInv, Shown, Yield
  PROVE  Shown'
  <1> DEFINE e == Head(queue)
             a == e.acct
  <1>1. queue \in Seq(Entries) /\ queue # <<>> /\ e # Sentinel
    BY DEF IInv, Typed, Yield
  <1>2. e \in Events
    BY <1>1, TailFacts, EntryFacts
  <1>3. a \in Account /\ e.kind \in Said
    BY <1>2, EntryFacts
  <1>4. /\ Collect(e) /\ shown' = Card(e) /\ mode' = mode
        /\ text' = IF e.kind = "delta" THEN [text EXCEPT ![a] = @ + 1] ELSE text
    BY DEF Yield
  <1> HIDE DEF e
  <1>5. /\ responses \in Seq(Account)
        /\ responses' \in Seq(Account)
        /\ Elems(responses') = IF mode = "compound" /\ e.kind = "delta"
                              THEN Elems(responses) \cup {a} ELSE Elems(responses)
    <2>1. responses \in Seq(Account)
      BY DEF Shown
    <2>2. Responding(a) <=> a \in Elems(responses)
      BY DEF Responding, Elems
    <2>3. /\ Append(responses, a) \in Seq(Account)
          /\ Elems(Append(responses, a)) = Elems(responses) \cup {a}
      BY <1>3, <2>1, AppendFacts
    <2>4. responses' = IF mode = "compound" /\ e.kind = "delta" /\ a \notin Elems(responses)
                       THEN Append(responses, a) ELSE responses
      BY <1>4, <2>2 DEF Collect, Counts
    <2>5. a \in Elems(responses) => Elems(responses) \cup {a} = Elems(responses)
      OBVIOUS
    <2> QED BY <2>1, <2>3, <2>4, <2>5
  <1>6. text' \in [Account -> Nat] /\ \A b \in Account \ {a} : text'[b] = text[b]
    BY <1>3, <1>4 DEF Shown
  <1>7. text'[a] = IF e.kind = "delta" THEN text[a] + 1 ELSE text[a]
    BY <1>3, <1>4 DEF Shown
  <1>8. /\ shown' \in [Account -> Said \cup {"none"}]
        /\ \A b \in Account : shown[b] # "none" => shown'[b] # "none"
        /\ e.kind = "delta" => shown'[a] # "none"
    BY <1>3, <1>4 DEF Shown, Card, Said
  <1>9. text[a] \in Nat
    BY <1>3 DEF Shown
  <1> QED BY <1>3, <1>4, <1>5, <1>6, <1>7, <1>8, <1>9 DEF Shown

LEMMA NextShown == IInv /\ Shown /\ [Next]_vars => Shown'
  <1> SUFFICES ASSUME IInv, Shown, [Next]_vars PROVE Shown' OBVIOUS
  <1>1. ASSUME UNCHANGED <<mode, responses, shown, text>> PROVE Shown'
    BY <1>1 DEF Shown
  <1>2. CASE Yield
    BY <1>2, YieldShows
  <1>3. CASE UNCHANGED vars \/ Monitor \/ EndOfFan \/ \E S \in SUBSET Account : Launch(S)
    BY <1>1, <1>3 DEF vars, clientVars, Monitor, EndOfFan, Launch
  <1>4. CASE Elsewhere \/ \E a \in Account : Calls(a)
    BY <1>1, <1>4 DEF Elsewhere, Calls
  <1> QED BY <1>2, <1>3, <1>4, Split DEF IInv, Steps

\* The backends a compound answer is made of are those whose text the client shows.
THEOREM CollectedCorrect == Spec => []CollectedIsShown
  <1>1. Shown => CollectedIsShown
    BY DEF Shown, CollectedIsShown, Responding, Elems
  <1> QED BY <1>1, InitInv, NextInv, InitShown, NextShown, PTL DEF Spec

-----------------------------------------------------------------------------
\* FanOut implements Gather.

Settles == {a \in ready : task[a] = "over" /\ ~\E x \in Elems(queue) : x.acct = a}
LEMMA SettledIs == Settled = Settles /\ Settled' = Settles'
  BY DEF Settled, Settles, Queued, Elems

LEMMA InitPromise == Init => Promise!Init
  <1> SUFFICES ASSUME Init PROVE Promise!Init OBVIOUS
  <1>1. ready = {} /\ Settled = {} /\ Ended = "no"
    BY DEF Init, NothingSent, Settled, Ended
  <1> QED BY <1>1 DEF Promise!Init

\* A task does not settle its account before its entry is read.
LEMMA CallsPromise ==
  ASSUME IInv, NEW a \in Account, Calls(a)
  PROVE  UNCHANGED Promise!vars
  <1>1. ready' = ready /\ Ended' = Ended
    BY DEF Calls, Ended
  <1>2. a \notin Settled /\ \A b \in Account \ {a} : task'[b] = task[b]
    BY DEF Settled, Calls, Running
  <1>3. CASE UNCHANGED queue
    <2>1. a \notin Settled'
      BY <1>3 DEF Settled, Calls
    <2>2. Settled' = Settled
      BY <1>1, <1>2, <1>3, <2>1 DEF IInv, Typed, Settled, Queued
    <2> QED BY <1>1, <2>2 DEF Promise!vars
  <1>4. ASSUME NEW k \in Said, queue' = Append(queue, Event(k, a)) PROVE UNCHANGED Promise!vars
    <2>1. Event(k, a) \in Entries /\ Event(k, a).acct = a /\ queue \in Seq(Entries)
      BY EntryFacts DEF Entries, IInv, Typed
    <2>2. Elems(queue') = Elems(queue) \cup {Event(k, a)}
      BY <1>4, <2>1, AppendFacts
    <2>3. Settles' = Settles
      BY <1>1, <1>2, <2>1, <2>2, SettledIs DEF IInv, Typed, Settles
    <2> QED BY <1>1, <2>3, SettledIs DEF Promise!vars
  <1> QED BY <1>3, <1>4 DEF Calls

\* The entry that is read may be the last of its account, which then is settled.
LEMMA YieldPromise ==
  ASSUME IInv, Yield
  PROVE  Promise!Next \/ UNCHANGED Promise!vars
  <1> DEFINE a == Head(queue).acct
  <1>1. queue \in Seq(Entries) /\ queue # <<>> /\ Head(queue) # Sentinel
    BY DEF IInv, Typed, Yield
  <1>2. Elems(queue) = {Head(queue)} \cup Elems(queue') /\ Head(queue) \in Events
    BY <1>1, TailFacts, EntryFacts DEF Yield, Rest
  <1>3. a \in ready /\ a \in Account
    BY <1>1, <1>2, EntryFacts DEF IInv, FanInv
  <1>4. Ended = "no" /\ Ended' = "no" /\ UNCHANGED <<ready, task>>
    BY DEF IInv, FanInv, Yield, Ended
  <1>5. a \notin Settles /\ Settles' \in {Settles, Settles \cup {a}}
    BY <1>2, <1>3, <1>4 DEF Settles
  <1>6. CASE Settled' = Settled
    BY <1>4, <1>6 DEF Promise!vars
  <1>7. CASE Settled' = Settled \cup {a}
    <2>1. Promise!Settle(a)
      BY <1>3, <1>4, <1>5, <1>7, SettledIs DEF Promise!Settle
    <2> QED BY <1>3, <2>1 DEF Promise!Next
  <1> QED BY <1>5, <1>6, <1>7, SettledIs

\* The sentinel is read when every account that was asked is settled.
LEMMA EndPromise ==
  ASSUME IInv, EndOfFan
  PROVE  Promise!Next
  <1>1. queue \in Seq(Entries) /\ queue # <<>> /\ Head(queue) = Sentinel /\ queue' = Tail(queue)
    BY DEF IInv, Typed, EndOfFan
  <1>2. Elems(queue) = {Sentinel} \cup Elems(queue') /\ queue' = <<>>
    BY <1>1, TailFacts, LastFacts DEF IInv, FanInv
  <1>3. Elems(queue) = {Sentinel} /\ Elems(queue') = {} /\ Quiet
    BY <1>2, ElemsOfNothing DEF IInv, FanInv
  <1>4. \A a \in ready : task[a] = "over" /\ Sentinel.acct # a
    BY <1>3, EntryFacts, NoneAssumption DEF IInv, FanInv, Typed, Quiet, Running
  <1>5. UNCHANGED <<ready, task>> /\ gathered' = TRUE /\ Ended = "no"
    BY DEF IInv, FanInv, EndOfFan, Ended
  <1>6. Settles = ready /\ Settles' = ready
    BY <1>3, <1>4, <1>5 DEF Settles
  <1>7. Promise!End
    BY <1>5, <1>6, SettledIs DEF Promise!End, Ended
  <1> QED BY <1>7 DEF Promise!Next

LEMMA LaunchPromise ==
  ASSUME IInv, NEW S \in SUBSET Account, Launch(S)
  PROVE  Promise!Next
  <1>1. ready = {} /\ ready' = S /\ Ended = "no" /\ Ended' = "no"
    BY DEF IInv, FanInv, Launch, Goto, Ended
  <1>2. Settled = {} /\ Settled' = {}
    BY <1>1 DEF Settled, Launch
  <1>3. Promise!Ask(S)
    BY <1>1, <1>2 DEF Promise!Ask
  <1> QED BY <1>3 DEF Promise!Next

LEMMA MonitorPromise ==
  ASSUME IInv, Monitor
  PROVE  UNCHANGED Promise!vars
  <1>1. Elems(queue') = Elems(queue) \cup {Sentinel} /\ \A a \in ready : Sentinel.acct # a
    BY AppendFacts, EntryFacts, NoneAssumption DEF IInv, Typed, Monitor, Entries
  <1>2. UNCHANGED <<ready, task, pc, gathered>>
    BY DEF Monitor
  <1>3. Settles' = Settles
    BY <1>1, <1>2 DEF Settles
  <1> QED BY <1>2, <1>3, SettledIs DEF Promise!vars, Ended

\* Leaving the stream, or failing, before the sentinel was read.
LEMMA ElsewherePromise ==
  ASSUME IInv, Elsewhere
  PROVE  Promise!Next \/ UNCHANGED Promise!vars
  <1>1. ready' = ready /\ Settled' = Settled
    BY DEF Elsewhere, Settled, Queued
  <1>2. Ended' = Ended \/ (Ended = "no" /\ Ended' = "abandoned")
    BY DEF Elsewhere, Ended
  <1>3. CASE Ended' = Ended
    BY <1>1, <1>3 DEF Promise!vars
  <1>4. CASE Ended = "no" /\ Ended' = "abandoned"
    BY <1>1, <1>4 DEF Promise!Abandon, Promise!Next
  <1> QED BY <1>2, <1>3, <1>4

LEMMA NextPromise == IInv /\ [Next]_vars => [Promise!Next]_(Promise!vars)
  <1> SUFFICES ASSUME IInv, [Next]_vars PROVE Promise!Next \/ UNCHANGED Promise!vars
    OBVIOUS
  <1>1. CASE UNCHANGED vars
    BY <1>1 DEF vars, fanVars, Promise!vars, Settled, Queued, Ended
  <1> QED
    BY <1>1, Split, CallsPromise, YieldPromise, EndPromise, LaunchPromise, MonitorPromise,
       ElsewherePromise DEF IInv, Steps

\* The fan-out keeps its promise: accounts are settled once each, and it ends when all
\* are (docstring of send_all), for any number of accounts.
THEOREM PromiseKept == Spec => KeepsPromise
  <1> QED BY InitInv, NextInv, InitPromise, NextPromise, PTL DEF Spec, KeepsPromise, Promise!Spec

-----------------------------------------------------------------------------
\* The council.

CChoice == 0..Len(options)
CouncilTyped ==
  /\ options \in OptionLists /\ rounds \in 0..MaxRounds /\ round \in 0..rounds
  /\ stage \in {"seat", "ask", "debate", "chair", "over", "closed"}
  /\ seated \in SUBSET Seat
  /\ answer \in [Seat -> {NotAsked, Asked, Failed} \cup CChoice] /\ vote \in [Seat -> CChoice]
  /\ transcript = <<>> \/ transcript \in [Seat -> CChoice]
  /\ saw \in [Seat -> {<<>>} \cup [Seat -> CChoice]]
  /\ calls \in Nat
  /\ decision \in [choice: CChoice, by: {"nobody", "chairman", "majority", "tie"}]
  /\ wire \in Seq({"decision", "error", "end"})
  /\ got \in {"nothing", "decision", "error"} /\ exit \in {"none", "0", "1"}

\* What is paid for: a call for every seat, and per rebuttal round for every member seated.
Paid ==
  LET before == NSeats + round * Cardinality(seated) IN
  /\ stage = "seat" => calls = 0 /\ round = 0 /\ seated = {}
  /\ stage = "ask" /\ round = 0 => seated = {}
  /\ stage \in {"ask", "debate"} => calls = before
  /\ stage = "chair" => round = rounds /\ calls = before + 1
  /\ calls <= NSeats + round * NSeats + 1
  /\ stage = "over" /\ decision = Undecided =>
       calls <= NSeats + rounds * Cardinality(seated) \/ \A i \in seated : vote[i] = NoVote

Prompted ==
  stage = "ask" /\ round > 0 =>
    transcript = vote /\ \A i \in seated : answer[i] # Asked => saw[i] = transcript

Reported ==
  /\ decision # Undecided => stage = "over"
  /\ got = "decision" \/ (\E n \in 1..Len(wire) : wire[n] = "decision") => decision # Undecided
  /\ exit # "none" => (exit = "0" <=> got = "decision")

CouncilInv == CouncilTyped /\ Paid /\ Prompted /\ MajorityRight /\ Reported

LEMMA OptionCount == CouncilTyped => Len(options) \in Nat /\ Len(options) >= 2
  BY OptionAssumption DEF CouncilTyped

LEMMA SeatSets ==
  ASSUME NEW S, S \subseteq Seat
  PROVE  IsFiniteSet(S) /\ Cardinality(S) \in Nat /\ Cardinality(S) <= NSeats
  <1>1. IsFiniteSet(Seat) /\ Cardinality(Seat) = NSeats
    <2>1. NSeats \in Nat /\ 1 \in Int /\ NSeats \in Int
      BY SeatAssumption
    <2>2. IsFiniteSet(1..NSeats) /\ Cardinality(1..NSeats) = (IF 1 > NSeats THEN 0 ELSE NSeats - 1 + 1)
      BY <2>1, FS_Interval
    <2> QED BY <2>1, <2>2 DEF Seat
  <1> QED BY <1>1, FS_Subset, FS_CardinalityType

LEMMA Bounds == NSeats \in Nat /\ MaxRounds \in Nat
  BY SeatAssumption, RoundAssumption

\* The rules follow from the invariant.
LEMMA CouncilInvKeeps == CouncilInv => CouncilKeepsRules
  <1> SUFFICES ASSUME CouncilInv PROVE CouncilKeepsRules
    OBVIOUS
  <1>0. CouncilTyped /\ Paid /\ Prompted /\ MajorityRight /\ Reported
    BY DEF CouncilInv
  <1>1. QuotaBound
    <2>1. round \in Nat /\ round <= MaxRounds /\ NSeats \in Nat /\ MaxRounds \in Nat /\ NSeats <= NSeats
      BY <1>0, Bounds DEF CouncilTyped
    <2>2. round * NSeats <= MaxRounds * NSeats /\ round * NSeats \in Nat /\ MaxRounds * NSeats \in Nat
      BY <2>1, Product
    <2>3. NSeats * (MaxRounds + 1) = MaxRounds * NSeats + NSeats
      BY <2>1
    <2>4. calls \in Nat /\ calls <= NSeats + round * NSeats + 1
      BY <1>0 DEF CouncilTyped, Paid
    <2> QED BY <2>1, <2>2, <2>3, <2>4 DEF QuotaBound
  <1>2. SameTranscript
    BY <1>0 DEF Prompted, SameTranscript
  <1>3. VerdictNotBlocked
    <2>1. Cardinality(seated) \in Nat /\ NSeats \in Nat /\ calls \in Nat /\ rounds \in Nat
      BY <1>0, SeatSets, Bounds DEF CouncilTyped
    <2>2. rounds * Cardinality(seated) \in Nat
      BY <2>1
    <2> QED BY <1>0, <2>1, <2>2 DEF Paid, VerdictNotBlocked
  <1>4. ExitRight
    BY <1>0 DEF Reported, ExitRight
  <1> QED BY <1>0, <1>1, <1>2, <1>3, <1>4 DEF CouncilKeepsRules

LEMMA NothingAskedTyped ==
  ASSUME NothingAsked, stage \in {"seat", "over"}, exit \in {"none", "1"}
  PROVE  CouncilInv
  <1>1. rounds \in 0..MaxRounds
    <2>1. PICK r \in Requested : rounds = Clamp(r)
      BY DEF NothingAsked
    <2>2. r \in Int /\ MaxRounds \in Nat
      BY RoundAssumption
    <2> QED BY <2>1, <2>2 DEF Clamp
  <1>2. Len(options) \in Nat /\ 0 \in CChoice
    BY OptionAssumption DEF NothingAsked, CChoice
  <1>3. CouncilTyped
    <2>1. decision \in [choice: CChoice, by: {"nobody", "chairman", "majority", "tie"}]
      BY <1>2 DEF NothingAsked, Undecided
    <2>2. vote \in [Seat -> CChoice] /\ saw \in [Seat -> {<<>>} \cup [Seat -> CChoice]]
      BY <1>2 DEF NothingAsked, NoVote
    <2>3. answer \in [Seat -> {NotAsked, Asked, Failed} \cup CChoice]
      BY DEF NothingAsked
    <2> QED BY <1>1, <2>1, <2>2, <2>3 DEF NothingAsked, CouncilTyped
  <1>4. Paid
    <2>1. Cardinality(seated) = 0 /\ seated = {}
      BY FS_EmptySet DEF NothingAsked
    <2>2. calls = 0 /\ round = 0 /\ NSeats \in Nat /\ rounds \in Nat
      BY <1>1, Bounds DEF NothingAsked
    <2> QED BY <2>1, <2>2 DEF Paid
  <1>5. Prompted /\ MajorityRight /\ Reported
    BY DEF NothingAsked, Prompted, MajorityRight, Reported, Undecided
  <1> QED BY <1>3, <1>4, <1>5 DEF CouncilInv

LEMMA CouncilSteps ==
  [CouncilNext]_councilVars =>
    \/ SeatMembers \/ RoundEnds \/ NextRound \/ AskChair \/ Receive \/ Raise \/ Adjourn \/ Break
    \/ \E i \in Seat : Answered(i) \/ CallFails(i)
    \/ \E c \in 0..Len(options) : ChairEnds(c)
    \/ UNCHANGED councilVars
  BY DEF CouncilNext, CouncilWork, MemberCall, MemberTimeOut

LEMMA WireFacts ==
  ASSUME wire \in Seq({"decision", "error", "end"}), NEW e \in {"decision", "error"}
  PROVE  LET w == wire \o <<e, "end">> IN
         /\ w \in Seq({"decision", "error", "end"})
         /\ (\E n \in 1..Len(w) : w[n] = "decision") =>
              e = "decision" \/ \E n \in 1..Len(wire) : wire[n] = "decision"
  <1>1. <<e, "end">> \in Seq({"decision", "error", "end"}) /\ Len(<<e, "end">>) = 2
    OBVIOUS
  <1>2. wire \o <<e, "end">> \in Seq({"decision", "error", "end"})
    BY <1>1
  <1>3. Len(wire \o <<e, "end">>) = Len(wire) + 2 /\ Len(wire) \in Nat
    BY <1>1
  <1>4. ASSUME NEW n \in 1..Len(wire \o <<e, "end">>), (wire \o <<e, "end">>)[n] = "decision"
        PROVE  e = "decision" \/ \E m \in 1..Len(wire) : wire[m] = "decision"
    <2>1. CASE n \in 1..Len(wire)
      BY <1>4, <2>1
    <2>2. CASE n = Len(wire) + 1
      BY <1>1, <1>3, <1>4, <2>2
    <2>3. CASE n = Len(wire) + 2
      BY <1>1, <1>3, <1>4, <2>3
    <2> QED BY <1>3, <1>4, <2>1, <2>2, <2>3
  <1> QED BY <1>2, <1>4

\* The greatest count is reached, the least of the options that reach it exists.
LEMMA TallyFacts ==
  ASSUME CouncilTyped
  PROVE  /\ \A k \in 1..Len(options) : Tally[k] = Cardinality(For(k)) /\ Tally[k] \in Nat
         /\ Winners(Tally) # {} =>
              Least(Winners(Tally)) \in Winners(Tally)
              /\ \A k \in Winners(Tally) : Least(Winners(Tally)) <= k
         /\ Winners(Tally) = {} => \A i \in seated : vote[i] = NoVote
  <1> DEFINE L == Len(options)
  <1>0. L \in Nat
    BY OptionCount
  <1>1. ASSUME NEW k \in 1..L
        PROVE  /\ Tally[k] = Cardinality(For(k)) /\ Tally[k] \in Nat /\ Tally[k] <= NSeats
               /\ Tally[k] = 0 <=> For(k) = {}
    <2>1. Tally[k] = Cardinality(For(k))
      BY DEF Tally, For
    <2>2. For(k) \subseteq Seat
      BY DEF For, CouncilTyped
    <2> QED BY <2>1, <2>2, SeatSets, FS_EmptySet
  <1>2. Winners(Tally) \subseteq 1..L /\ Winners(Tally) \subseteq Nat
    BY <1>0 DEF Winners
  <1>3. ASSUME Winners(Tally) # {}
        PROVE  Least(Winners(Tally)) \in Winners(Tally)
               /\ \A k \in Winners(Tally) : Least(Winners(Tally)) <= k
    <2>1. \E n \in Winners(Tally) : \A m \in Winners(Tally) : n <= m
      BY <1>2, <1>3, NatMin
    <2> QED BY <2>1 DEF Least
  <1>4. ASSUME NEW i \in seated, vote[i] # NoVote
        PROVE  Winners(Tally) # {}
    <2> DEFINE T == {Tally[k] : k \in 1..L}
    <2>1. vote[i] \in 1..L
      BY <1>0, <1>4 DEF CouncilTyped, CChoice, NoVote
    <2>2. Tally[vote[i]] # 0
      <3>1. i \in For(vote[i])
        BY <1>4 DEF For
      <3> QED BY <1>1, <2>1, <3>1
    <2>3. T \subseteq Nat /\ Tally[vote[i]] \in T /\ \A x \in T : x <= NSeats
      BY <1>1, <2>1
    <2>4. NSeats \in Nat
      BY Bounds
    <2>5. PICK x \in T : \A y \in T : y <= x
      <3> HIDE DEF T
      <3> QED BY <2>3, <2>4, NatMax
    <2>6. PICK k \in 1..L : x = Tally[k]
      OBVIOUS
    <2>7. \A j \in 1..L : Tally[j] <= Tally[k]
      BY <2>5, <2>6
    <2>8. Tally[k] # 0
      <3>1. Tally[vote[i]] <= Tally[k] /\ Tally[vote[i]] \in Nat /\ Tally[k] \in Nat
        BY <1>1, <2>1, <2>7
      <3> QED BY <2>2, <3>1
    <2> QED BY <2>7, <2>8 DEF Winners
  <1> QED BY <1>1, <1>3, <1>4

LEMMA MajorityFacts ==
  ASSUME CouncilTyped, Winners(Tally) # {}
  PROVE  LET c == Majority.choice IN
         /\ c \in 1..Len(options) /\ Majority.by \in {"majority", "tie"} /\ For(c) # {}
         /\ \A k \in 1..Len(options) :
              /\ Cardinality(For(k)) <= Cardinality(For(c))
              /\ Cardinality(For(k)) = Cardinality(For(c)) => c <= k
         /\ Majority.by = "tie" <=>
              \E k \in 1..Len(options) : /\ options[k] # options[c]
                                         /\ Cardinality(For(k)) = Cardinality(For(c))
  <1> DEFINE c == Least(Winners(Tally))
  <1>0. Majority.choice = c
        /\ Majority.by = IF \E j \in Winners(Tally) : options[j] # options[c] THEN "tie" ELSE "majority"
    BY DEF Majority
  <1>1. c \in Winners(Tally) /\ \A k \in Winners(Tally) : c <= k
    BY TallyFacts
  <1>2. \A k \in 1..Len(options) : Tally[k] = Cardinality(For(k)) /\ Tally[k] \in Nat
    BY TallyFacts
  <1>3. c \in 1..Len(options) /\ Tally[c] # 0 /\ \A k \in 1..Len(options) : Tally[k] <= Tally[c]
    BY <1>1 DEF Winners
  <1> HIDE DEF c
  <1>4. For(c) # {}
    BY <1>2, <1>3, FS_EmptySet
  <1>5. \A k \in 1..Len(options) : k \in Winners(Tally) <=> Cardinality(For(k)) = Cardinality(For(c))
    BY <1>1, <1>2, <1>3 DEF Winners
  <1>6. \A k \in 1..Len(options) :
              /\ Cardinality(For(k)) <= Cardinality(For(c))
              /\ Cardinality(For(k)) = Cardinality(For(c)) => c <= k
    BY <1>1, <1>2, <1>3, <1>5
  <1>7. Winners(Tally) \subseteq 1..Len(options)
    BY DEF Winners
  <1>8. Majority.by = "tie" <=>
              \E k \in 1..Len(options) : /\ options[k] # options[c]
                                         /\ Cardinality(For(k)) = Cardinality(For(c))
    BY <1>0, <1>5, <1>7
  <1>9. Majority.by \in {"majority", "tie"}
    BY <1>0
  <1> QED BY <1>0, <1>3, <1>4, <1>6, <1>8, <1>9

LEMMA CouncilTypedStep == CouncilTyped /\ [CouncilNext]_councilVars => CouncilTyped'
  <1> SUFFICES ASSUME CouncilTyped, [CouncilNext]_councilVars PROVE CouncilTyped'
    OBVIOUS
  <1>0. Len(options) \in Nat /\ 0 \in CChoice /\ NSeats \in Nat /\ NSeats # 0
    BY OptionCount, SeatAssumption DEF CChoice
  <1>1. ASSUME NEW S, S \subseteq Seat, AskAll(S)
        PROVE  stage' = "ask" /\ calls' \in Nat
               /\ answer' \in [Seat -> {NotAsked, Asked, Failed} \cup CChoice]
    <2>1. Cardinality(S) \in Nat /\ calls \in Nat
      BY <1>1, SeatSets DEF CouncilTyped
    <2> QED BY <1>1, <2>1 DEF AskAll
  <1>2. ASSUME NEW e \in {"decision", "error"}, Conclude(e)
        PROVE  stage' = "over" /\ wire' \in Seq({"decision", "error", "end"})
    BY <1>2, WireFacts DEF Conclude, CouncilTyped
  <1>3. CASE SeatMembers
    <2>1. CASE AskAll(Seat) /\ UNCHANGED wire
      BY <1>1, <1>3, <2>1 DEF SeatMembers, CouncilTyped, debate, cli, CChoice
    <2>2. CASE Conclude("error") /\ UNCHANGED <<answer, calls>>
      BY <1>2, <1>3, <2>2 DEF SeatMembers, CouncilTyped, debate, cli, CChoice
    <2> QED BY <1>3, <2>1, <2>2 DEF SeatMembers
  <1>4. CASE RoundEnds
    <2>1. vote' \in [Seat -> CChoice]
      <3>1. \A i \in Seat : answer[i] # Asked /\ answer[i] # NotAsked /\ answer[i] # Failed =>
              answer[i] \in CChoice
        BY DEF CouncilTyped
      <3>2. \A i \in Seat : vote[i] \in CChoice
        BY DEF CouncilTyped
      <3> QED BY <1>4, <3>1, <3>2 DEF RoundEnds, NewVote
    <2>2. seated' \in SUBSET Seat
      BY <1>4 DEF RoundEnds, CouncilTyped
    <2>3. stage' \in {"over", "debate"} /\ wire' \in Seq({"decision", "error", "end"})
      BY <1>2, <1>4 DEF RoundEnds, CouncilTyped
    <2>4. answer' \in [Seat -> {NotAsked, Asked, Failed} \cup CChoice]
          /\ transcript' = <<>> /\ saw' \in [Seat -> {<<>>} \cup [Seat -> CChoice]]
      BY <1>4 DEF RoundEnds
    <2>5. UNCHANGED <<options, rounds, round, calls, decision, got, exit>>
      BY <1>4 DEF RoundEnds, debate, cli
    <2> QED BY <2>1, <2>2, <2>3, <2>4, <2>5 DEF CouncilTyped, CChoice
  <1>5. CASE NextRound
    <2>1. stage' = "ask" /\ calls' \in Nat
          /\ answer' \in [Seat -> {NotAsked, Asked, Failed} \cup CChoice]
      BY <1>1, <1>5 DEF NextRound, CouncilTyped
    <2>2. round' \in 0..rounds
      BY <1>5, Bounds DEF NextRound, CouncilTyped
    <2>3. UNCHANGED <<options, rounds, seated, vote, saw, decision, wire, got, exit>>
          /\ transcript' = vote
      BY <1>5 DEF NextRound, debate, cli
    <2> QED BY <2>1, <2>2, <2>3 DEF CouncilTyped, CChoice
  <1>6. CASE AskChair
    BY <1>6 DEF AskChair, CouncilTyped, debate, cli, CChoice
  <1>7. CASE Receive
    <2>1. wire # <<>> /\ wire' = Tail(wire) /\ Head(wire) \in {"decision", "error", "end"}
          /\ Tail(wire) \in Seq({"decision", "error", "end"})
      BY <1>7 DEF Receive, CouncilTyped
    <2>2. got' \in {"nothing", "decision", "error"} /\ exit' \in {"none", "0", "1"}
      BY <1>7, <2>1 DEF Receive, CouncilTyped, Verdict
    <2>3. UNCHANGED <<options, rounds, stage, round, seated, answer, vote, transcript, saw, calls, decision>>
      BY <1>7 DEF Receive, debate
    <2> QED BY <2>1, <2>2, <2>3 DEF CouncilTyped, CChoice
  <1>8. CASE Raise
    BY <1>2, <1>8 DEF Raise, CouncilTyped, debate, cli, CChoice
  <1>9. CASE Adjourn
    BY <1>9 DEF Adjourn, CouncilTyped, debate, cli, CChoice
  <1>10. CASE Break
    BY <1>10 DEF Break, CouncilTyped, debate, cli, CChoice, ExitOnDrop, Verdict
  <1>11. ASSUME NEW i \in Seat, Answered(i) \/ CallFails(i) PROVE CouncilTyped'
    <2>1. answer' \in [Seat -> {NotAsked, Asked, Failed} \cup CChoice] /\ vote' = vote
      BY <1>11 DEF Answered, CallFails, CouncilTyped, CChoice, Arrive
    <2>2. saw' \in [Seat -> {<<>>} \cup [Seat -> CChoice]]
      <3>1. transcript \in {<<>>} \cup [Seat -> CChoice]
        BY DEF CouncilTyped
      <3>2. saw' = [saw EXCEPT ![i] = transcript]
        BY <1>11 DEF Answered, CallFails
      <3> QED BY <3>1, <3>2 DEF CouncilTyped
    <2>3. UNCHANGED <<options, rounds, stage, round, seated, transcript, calls, decision, wire, got, exit>>
      BY <1>11 DEF Answered, CallFails, debate, cli
    <2> QED BY <2>1, <2>2, <2>3 DEF CouncilTyped, CChoice
  <1>12. ASSUME NEW c \in 0..Len(options), ChairEnds(c) PROVE CouncilTyped'
    <2>1. stage' = "over" /\ wire' \in Seq({"decision", "error", "end"})
      BY <1>2, <1>12 DEF ChairEnds, Decide
    <2>2. decision' \in [choice: CChoice, by: {"nobody", "chairman", "majority", "tie"}]
      <3>1. CASE Decide([choice |-> c, by |-> "chairman"])
        BY <3>1 DEF Decide, CChoice
      <3>2. CASE MayFallBack(c) /\ Decide(Majority)
        <4>1. Majority.choice \in CChoice /\ Majority.by \in {"majority", "tie"}
          BY <1>0, <3>2, MajorityFacts DEF MayFallBack, CChoice
        <4>2. Majority = [choice |-> Majority.choice, by |-> Majority.by]
          BY DEF Majority
        <4> QED BY <3>2, <4>1, <4>2 DEF Decide
      <3>3. CASE UNCHANGED decision
        BY <3>3 DEF CouncilTyped
      <3> QED BY <1>12, <3>1, <3>2, <3>3 DEF ChairEnds
    <2>3. UNCHANGED <<options, rounds, round, seated, answer, vote, transcript, saw, calls, got, exit>>
      BY <1>12 DEF ChairEnds, debate, cli
    <2> QED BY <2>1, <2>2, <2>3 DEF CouncilTyped, CChoice
  <1>13. CASE UNCHANGED councilVars
    BY <1>13 DEF councilVars, CouncilTyped, CChoice
  <1> QED BY <1>3, <1>4, <1>5, <1>6, <1>7, <1>8, <1>9, <1>10, <1>11, <1>12, <1>13, CouncilSteps

LEMMA PaidStep == CouncilTyped /\ Paid /\ [CouncilNext]_councilVars => Paid'
  <1> SUFFICES ASSUME CouncilTyped, Paid, [CouncilNext]_councilVars PROVE Paid'
    OBVIOUS
  <1> DEFINE C == Cardinality(seated)
  <1>0. C \in Nat /\ NSeats \in Nat /\ calls \in Nat /\ round \in Nat /\ rounds \in Nat /\ round <= rounds
        /\ C <= NSeats
    BY SeatSets, Bounds DEF CouncilTyped
  <1>1. round * C \in Nat /\ rounds * C \in Nat /\ round * NSeats \in Nat
        /\ round * C <= rounds * C /\ round * C <= round * NSeats
    BY <1>0, Product
  <1>2. CASE SeatMembers
    <2>1. calls = 0 /\ round = 0 /\ seated = {} /\ C = 0
      BY <1>2, FS_EmptySet DEF SeatMembers, Paid
    <2>2. round' = 0 /\ seated' = {} /\ rounds' = rounds /\ vote' = vote /\ Cardinality(seated') = 0
      BY <1>2, <2>1 DEF SeatMembers, debate
    <2>3. CASE AskAll(Seat)
      <3>1. Cardinality(Seat) = NSeats
        BY FS_Interval, SeatAssumption DEF Seat
      <3>2. calls' = NSeats /\ stage' = "ask"
        BY <2>1, <2>3, <3>1, <1>0 DEF AskAll
      <3> QED BY <1>0, <2>2, <3>2 DEF Paid
    <2>4. CASE Conclude("error") /\ UNCHANGED <<answer, calls>>
      <3>1. calls' = 0 /\ stage' = "over"
        BY <2>1, <2>4 DEF Conclude
      <3> QED BY <1>0, <2>2, <3>1 DEF Paid
    <2> QED BY <1>2, <2>3, <2>4 DEF SeatMembers
  <1>3. CASE RoundEnds
    <2>1. calls' = calls /\ round' = round /\ rounds' = rounds /\ stage' \in {"over", "debate"}
          /\ calls = NSeats + round * C
          /\ seated' = IF round = 0 THEN {i \in Seat : answer[i] # Failed} ELSE seated
      BY <1>3 DEF RoundEnds, Conclude, debate, Paid
    <2>2. Cardinality(seated') \in Nat
      <3>1. seated' \subseteq Seat
        BY <2>1 DEF CouncilTyped
      <3> QED BY <3>1, SeatSets
    <2>3. rounds * Cardinality(seated') \in Nat
      BY <1>0, <2>2
    <2>4. CASE round = 0
      <3>1. round * C = 0 /\ round' * Cardinality(seated') = 0 /\ round' * NSeats = 0
        BY <1>0, <2>1, <2>2, <2>4
      <3>2. calls' = NSeats /\ calls' <= NSeats + rounds' * Cardinality(seated')
            /\ calls' = NSeats + round' * Cardinality(seated') /\ calls' <= NSeats + round' * NSeats + 1
        BY <1>0, <1>1, <2>1, <2>3, <2>4, <3>1
      <3> QED BY <2>1, <3>2 DEF Paid
    <2>5. CASE round # 0
      <3>1. seated' = seated
        BY <2>1, <2>5
      <3>2. calls' <= NSeats + rounds' * Cardinality(seated')
            /\ calls' = NSeats + round' * Cardinality(seated') /\ calls' <= NSeats + round' * NSeats + 1
        <4>1. rounds' * Cardinality(seated') = rounds * C /\ round' * Cardinality(seated') = round * C
              /\ round' * NSeats = round * NSeats
          BY <2>1, <3>1
        <4> HIDE DEF C
        <4> QED BY <1>0, <1>1, <2>1, <4>1
      <3> QED BY <2>1, <2>5, <3>2 DEF Paid
    <2> QED BY <2>4, <2>5
  <1>4. CASE NextRound
    <2>1. calls' = calls + C /\ round' = round + 1 /\ rounds' = rounds /\ stage' = "ask" /\ seated' = seated
          /\ calls = NSeats + round * C
      BY <1>4 DEF NextRound, AskAll, debate, Paid
    <2>2. (round + 1) * C = round * C + C /\ (round + 1) * NSeats = round * NSeats + NSeats
      BY <1>0
    <2>3. calls' = NSeats + (round + 1) * C
      BY <1>0, <1>1, <2>1, <2>2
    <2>4. calls' <= NSeats + (round + 1) * NSeats + 1
      BY <1>0, <1>1, <2>2, <2>3
    <2> QED BY <1>0, <2>1, <2>3, <2>4 DEF Paid
  <1>5. CASE AskChair
    <2>1. calls' = calls + 1 /\ UNCHANGED <<round, rounds, seated>> /\ stage' = "chair" /\ round = rounds
          /\ calls = NSeats + round * C
      BY <1>5 DEF AskChair, debate, Paid
    <2> QED BY <1>0, <1>1, <2>1 DEF Paid
  <1>6. CASE Raise
    <2>1. UNCHANGED <<calls, round, rounds, seated, vote, decision>> /\ stage' = "over"
          /\ calls <= NSeats + round * C
      <3>1. stage = "seat" => calls = 0
        BY DEF Paid
      <3>2. stage = "debate" => calls = NSeats + round * C
        BY DEF Paid
      <3> QED BY <1>0, <1>1, <1>6, <3>1, <3>2 DEF Raise, Conclude, debate
    <2>2. calls' <= NSeats + rounds * C
      BY <1>0, <1>1, <2>1
    <2> QED BY <1>0, <1>1, <2>1, <2>2 DEF Paid
  <1>7. CASE Adjourn
    BY <1>7 DEF Adjourn, Paid, debate
  <1>8. CASE Receive \/ Break \/ UNCHANGED councilVars
    BY <1>8 DEF Receive, Break, Paid, debate, councilVars
  <1>9. ASSUME NEW i \in Seat, Answered(i) \/ CallFails(i) PROVE Paid'
    BY <1>9 DEF Answered, CallFails, Paid, debate
  <1>10. ASSUME NEW c \in 0..Len(options), ChairEnds(c) PROVE Paid'
    <2>1. UNCHANGED <<calls, round, rounds, seated, vote>> /\ stage' = "over"
      BY <1>10 DEF ChairEnds, Decide, Conclude, debate
    <2>2. calls <= NSeats + round * NSeats + 1
      BY DEF Paid
    <2>3. decision' = Undecided => \A j \in seated : vote[j] = NoVote
      <3>1. CASE Decide([choice |-> c, by |-> "chairman"])
        <4>1. decision'.by = "chairman" /\ Undecided.by = "nobody"
          BY <3>1 DEF Decide, Undecided
        <4> QED BY <4>1
      <3>2. CASE MayFallBack(c) /\ Decide(Majority)
        <4>1. decision'.by \in {"majority", "tie"} /\ Undecided.by = "nobody"
          BY <3>2, MajorityFacts DEF Decide, Undecided, MayFallBack
        <4> QED BY <4>1
      <3>3. CASE c = NoVote /\ ~MayFallBack(c)
        BY <3>3, TallyFacts DEF MayFallBack
      <3> QED BY <1>10, <3>1, <3>2, <3>3 DEF ChairEnds
    <2> QED BY <2>1, <2>2, <2>3 DEF Paid
  <1> QED BY <1>2, <1>3, <1>4, <1>5, <1>6, <1>7, <1>8, <1>9, <1>10, CouncilSteps

LEMMA PromptedStep == CouncilTyped /\ Paid /\ Prompted /\ [CouncilNext]_councilVars => Prompted'
  <1> SUFFICES ASSUME CouncilTyped, Paid, Prompted, [CouncilNext]_councilVars PROVE Prompted'
    OBVIOUS
  <1>1. CASE SeatMembers
    BY <1>1 DEF SeatMembers, Prompted, Paid, AskAll, Conclude
  <1>2. CASE NextRound
    BY <1>2 DEF NextRound, AskAll, Prompted, CouncilTyped
  <1>3. ASSUME NEW i \in Seat, Answered(i) \/ CallFails(i) PROVE Prompted'
    <2>1. UNCHANGED <<round, seated, transcript, vote, stage>> /\ stage = "ask"
      BY <1>3 DEF Answered, CallFails, Arrive
    <2>2. \A j \in Seat : j # i => answer'[j] = answer[j] /\ saw'[j] = saw[j]
      BY <1>3 DEF Answered, CallFails, CouncilTyped
    <2>3. saw'[i] = transcript
      BY <1>3 DEF Answered, CallFails, CouncilTyped
    <2>4. seated \subseteq Seat
      BY DEF CouncilTyped
    <2> QED BY <2>1, <2>2, <2>3, <2>4 DEF Prompted
  <1>4. CASE RoundEnds \/ AskChair \/ Raise \/ Adjourn
    BY <1>4 DEF RoundEnds, AskChair, Raise, Adjourn, Conclude, Prompted
  <1>5. CASE Receive \/ Break \/ UNCHANGED councilVars
    BY <1>5 DEF Receive, Break, Prompted, councilVars
  <1>6. ASSUME NEW c \in 0..Len(options), ChairEnds(c) PROVE Prompted'
    BY <1>6 DEF ChairEnds, Decide, Conclude, Prompted
  <1> QED BY <1>1, <1>2, <1>3, <1>4, <1>5, <1>6, CouncilSteps

LEMMA ReportedStep == CouncilTyped /\ Reported /\ [CouncilNext]_councilVars => Reported'
  <1> SUFFICES ASSUME CouncilTyped, Reported, [CouncilNext]_councilVars PROVE Reported'
    OBVIOUS
  <1>0. decision # Undecided => stage = "over"
    BY DEF Reported
  <1>1. ASSUME Conclude("error"), UNCHANGED <<decision, got, exit>> PROVE Reported'
    <2>1. wire' = wire \o <<"error", "end">> /\ stage' = "over" /\ wire \in Seq({"decision", "error", "end"})
      BY <1>1 DEF Conclude, CouncilTyped
    <2>2. (\E n \in 1..Len(wire') : wire'[n] = "decision") => \E n \in 1..Len(wire) : wire[n] = "decision"
      BY <2>1, WireFacts
    <2> QED BY <1>1, <2>1, <2>2 DEF Reported
  <1>2. CASE SeatMembers
    <2>1. CASE AskAll(Seat) /\ UNCHANGED wire
      BY <1>0, <1>2, <2>1 DEF SeatMembers, Reported, cli
    <2>2. CASE Conclude("error")
      BY <1>1, <1>2, <2>2 DEF SeatMembers, cli
    <2> QED BY <1>2, <2>1, <2>2 DEF SeatMembers
  <1>3. CASE RoundEnds
    <2>1. CASE Conclude("error")
      BY <1>1, <1>3, <2>1 DEF RoundEnds, cli
    <2>2. CASE stage' = "debate" /\ UNCHANGED wire
      BY <1>0, <1>3, <2>2 DEF RoundEnds, Reported, cli
    <2> QED BY <1>3, <2>1, <2>2 DEF RoundEnds
  <1>4. CASE NextRound \/ AskChair \/ Adjourn
    BY <1>0, <1>4 DEF NextRound, AskChair, Adjourn, Reported, cli
  <1>5. CASE Raise
    BY <1>1, <1>5 DEF Raise, cli
  <1>6. CASE Receive
    <2>1. UNCHANGED <<stage, decision>> /\ exit = "none"
      BY <1>6 DEF Receive
    <2>2. wire \in Seq({"decision", "error", "end"}) /\ wire # <<>> /\ wire' = Tail(wire)
      BY <1>6 DEF Receive, CouncilTyped
    <2>3. Len(wire) \in Nat /\ Len(wire) >= 1 /\ Len(wire') = Len(wire) - 1 /\ Head(wire) = wire[1]
          /\ \A n \in 1..Len(wire') : wire'[n] = wire[n + 1] /\ n + 1 \in 1..Len(wire)
      BY <2>2
    <2>4. (\E n \in 1..Len(wire') : wire'[n] = "decision") => decision # Undecided
      BY <2>3 DEF Reported
    <2>5. got' = "decision" => decision # Undecided
      <3>1. got' = got \/ got' = Head(wire)
        BY <1>6 DEF Receive
      <3> QED BY <2>3, <3>1 DEF Reported
    <2>6. exit' # "none" => (exit' = "0" <=> got' = "decision")
      BY <1>6 DEF Receive, Verdict
    <2> QED BY <1>0, <2>1, <2>4, <2>5, <2>6 DEF Reported
  <1>7. CASE Break
    BY <1>7 DEF Break, ExitOnDrop, Verdict, Reported
  <1>8. ASSUME NEW i \in Seat, Answered(i) \/ CallFails(i) PROVE Reported'
    BY <1>8 DEF Answered, CallFails, Reported, cli
  <1>9. ASSUME NEW c \in 0..Len(options), ChairEnds(c) PROVE Reported'
    <2>1. CASE Conclude("error") /\ UNCHANGED decision
      BY <1>1, <1>9, <2>1 DEF ChairEnds, cli
    <2>2. ASSUME NEW d, Decide(d), d.by # "nobody" PROVE Reported'
      <3>1. decision' # Undecided
        BY <2>2 DEF Decide, Undecided
      <3> QED BY <1>9, <2>2, <3>1 DEF ChairEnds, Decide, Conclude, cli, Reported
    <2>3. CASE Decide([choice |-> c, by |-> "chairman"])
      BY <2>2, <2>3
    <2>4. CASE MayFallBack(c) /\ Decide(Majority)
      BY <2>2, <2>4, MajorityFacts DEF MayFallBack
    <2> QED BY <1>9, <2>1, <2>3, <2>4 DEF ChairEnds
  <1>10. CASE UNCHANGED councilVars
    BY <1>10 DEF councilVars, Reported
  <1> QED BY <1>2, <1>3, <1>4, <1>5, <1>6, <1>7, <1>8, <1>9, <1>10, CouncilSteps

LEMMA MajorityStep ==
  CouncilTyped /\ Reported /\ MajorityRight /\ [CouncilNext]_councilVars => MajorityRight'
  <1> SUFFICES ASSUME CouncilTyped, Reported, MajorityRight, [CouncilNext]_councilVars
               PROVE  MajorityRight'
    OBVIOUS
  <1>1. CASE UNCHANGED <<options, seated, vote, decision>>
    <2>1. \A k : For(k)' = For(k)
      BY <1>1 DEF For
    <2> QED BY <1>1, <2>1 DEF MajorityRight
  <1>2. CASE UNCHANGED decision /\ stage # "over"
    <2>1. decision'.by = "nobody"
      BY <1>2 DEF Reported, Undecided
    <2> QED BY <2>1 DEF MajorityRight
  <1>3. CASE \E c \in 0..Len(options) : ChairEnds(c)
    <2>1. PICK c \in 0..Len(options) : ChairEnds(c)
      BY <1>3
    <2>2. UNCHANGED <<options, seated, vote>>
      BY <2>1 DEF ChairEnds, debate
    <2>3. \A k : For(k)' = For(k)
      BY <2>2 DEF For
    <2>4. CASE Decide([choice |-> c, by |-> "chairman"])
      BY <2>4 DEF Decide, MajorityRight
    <2>5. CASE MayFallBack(c) /\ Decide(Majority)
      BY <2>2, <2>3, <2>5, MajorityFacts DEF Decide, MayFallBack, MajorityRight
    <2>6. CASE UNCHANGED decision
      BY <1>1, <2>2, <2>6
    <2> QED BY <2>1, <2>4, <2>5, <2>6 DEF ChairEnds
  <1>4. CASE SeatMembers \/ NextRound \/ AskChair \/ Receive \/ Raise \/ Adjourn \/ Break
    BY <1>1, <1>4 DEF SeatMembers, NextRound, AskChair, Receive, Raise, Adjourn, Break, debate
  <1>5. CASE RoundEnds
    BY <1>2, <1>5 DEF RoundEnds
  <1>6. CASE \E i \in Seat : Answered(i) \/ CallFails(i)
    BY <1>1, <1>6 DEF Answered, CallFails, debate, Arrive
  <1>7. CASE UNCHANGED councilVars
    BY <1>1, <1>7 DEF councilVars
  <1> QED BY <1>3, <1>4, <1>5, <1>6, <1>7, CouncilSteps

LEMMA CouncilStep == CouncilInv /\ [CouncilNext]_councilVars => CouncilInv'
  BY CouncilTypedStep, PaidStep, PromptedStep, MajorityStep, ReportedStep DEF CouncilInv

\* A council keeps its rules: the quota, ...
THEOREM CouncilCorrect == Answers => []CouncilKeepsRules
  <1>1. Requests => CouncilInv
    BY NothingAskedTyped DEF Requests, NoCouncil, CouncilInit
  <1>2. CouncilInv /\ [Handled]_<<part, vars, councilVars, plVars, psVars>> => CouncilInv'
    BY CouncilStep DEF Handled
  <1> QED BY <1>1, <1>2, CouncilInvKeeps, PTL DEF Answers

-----------------------------------------------------------------------------
\* The logins of the proxy.

Ending == {"completed", "failed"}
ProxyTyped ==
  /\ running \in [Login -> {"unused", "starting", "open", "granted", "ok", "bad"}]
  /\ dirs \in SUBSET Login /\ reaping \in SUBSET Login
  /\ table \in Seq(Login) /\ Len(table) <= StateMax /\ IsInjective(table)
  /\ entryOf \in [Login -> {"unknown", "running"} \cup Ending]
  /\ screen \in {"idle", "running", "device_auth", "success", "error"}
  /\ begins \in SUBSET WizardLogin /\ current \in WizardLogin \cup {NoLogin}
  /\ polling \in WizardLogin \cup {NoLogin} /\ ticks \in Seq(WizardLogin \X Ending)
  /\ agPc \in {"unused", "starting", "asked", "told", "ending", "over"}
  /\ agQueue \in {"empty", "url", "cancel"}
Flags == crossed \in BOOLEAN /\ restarted \in BOOLEAN /\ agProc \in BOOLEAN /\ agDone \in BOOLEAN
         /\ agCut \in BOOLEAN

\* The table holds registered logins only, and while fewer than the cap are registered,
\* all of them.
Tabled ==
  /\ IsFiniteSet(Registered)
  /\ ~restarted =>
       /\ \A i \in 1..Len(table) : table[i] \in Registered
       /\ ~Crowded => \A l \in Registered : Contains(table, l)
       /\ \A l \in Login : entryOf[l] = "running" => l \in reaping

\* A final state in the table, or on its way to the wizard, is that of a finished login.
Finals ==
  /\ \A l \in Login : entryOf[l] \in Ending => FlowEnded(l)
  /\ \A i \in 1..Len(ticks) : FlowEnded(ticks[i][1])

\* The session keeps its hold on the process until it has killed it.
AgHeld ==
  LET clean == ~Alive(Antigravity) /\ Antigravity \notin dirs IN
  /\ agPc \in {"unused", "starting", "asked", "told"} => ~agCut
  /\ ~restarted /\ ~agCut =>
       /\ agPc = "asked" => agProc
       /\ agPc \in {"told", "ending"} => agProc \/ clean
       /\ agPc = "over" => clean

\* Everything on its way to a step that was never reset is about the login it shows.
OwnOnly ==
  /\ current = NoLogin => screen = "idle" /\ begins = {} /\ polling = NoLogin /\ ticks = <<>>
  /\ ~crossed /\ ~restarted =>
       /\ screen = "idle" => begins = {} /\ polling = NoLogin /\ ticks = <<>>
       /\ begins \subseteq {current} /\ polling \in {current, NoLogin}
       /\ \A i \in 1..Len(ticks) : ticks[i][1] = current
       /\ screen = "success" => running[current] \notin {"unused", "starting"}
       /\ screen = "error" => FlowEnded(current)

ProxyInv == ProxyTyped /\ Tabled /\ Finals /\ AgHeld /\ OwnOnly

LEMMA Apart == NoLogin \notin WizardLogin /\ Antigravity \notin WizardLogin /\ Antigravity \notin OtherLogin
               /\ Antigravity \in Login /\ WizardLogin \subseteq Login /\ OtherLogin \subseteq Login
  BY LoginsAssumption DEF Login

LEMMA ProxyInvTells == ProxyInv => ProxyIsTrue
  <1> SUFFICES ASSUME ProxyInv PROVE ProxyIsTrue
    OBVIOUS
  <1>1. EntriesAreTrue
    <2>1. \A l \in Registered : entryOf[l] # "unknown"
      BY DEF Registered
    <2> QED BY <2>1 DEF ProxyInv, Tabled, EntriesAreTrue, StateOf
  <1>2. AgLeavesNothing
    BY DEF ProxyInv, AgHeld, AgLeavesNothing
  <1>3. ShownIsOwn
    BY DEF ProxyInv, OwnOnly, ShownIsOwn, FlowEnded, Alive
  <1> QED BY <1>1, <1>2, <1>3 DEF ProxyIsTrue

LEMMA RoomFacts ==
  ASSUME NEW t \in Seq(Login), Len(t) <= StateMax, IsInjective(t)
  PROVE  LET m == MakesRoom(t) IN
         /\ m \in Seq(Login) /\ Len(m) < StateMax /\ IsInjective(m)
         /\ \A i \in 1..Len(m) : Contains(t, m[i])
         /\ Len(t) < StateMax => m = t
  <1>0. StateMax \in Nat /\ StateMax # 0
    BY CapAssumption
  <1>1. CASE Len(t) < StateMax
    BY <1>0, <1>1 DEF MakesRoom, Contains
  <1>2. CASE Len(t) = StateMax
    <2>1. t # <<>> /\ Len(t) \in Nat /\ Len(t) >= 1
      BY <1>0, <1>2
    <2>2. Tail(t) \in Seq(Login) /\ Len(Tail(t)) = Len(t) - 1
          /\ \A i \in 1..Len(Tail(t)) : i + 1 \in 1..Len(t) /\ Tail(t)[i] = t[i + 1]
      BY <2>1
    <2>3. MakesRoom(t) = Tail(t)
      BY <1>0, <1>2 DEF MakesRoom
    <2>4. \A a, b \in DOMAIN Tail(t) : Tail(t)[a] = Tail(t)[b] => a = b
      <3>1. ASSUME NEW a \in 1..Len(Tail(t)), NEW b \in 1..Len(Tail(t)), Tail(t)[a] = Tail(t)[b]
            PROVE  a = b
        <4>1. t[a + 1] = t[b + 1] /\ a + 1 \in DOMAIN t /\ b + 1 \in DOMAIN t
          BY <2>2, <3>1
        <4>2. a + 1 = b + 1
          BY <4>1 DEF IsInjective
        <4> QED BY <4>2, <2>1, <2>2
      <3> QED BY <2>2, <3>1
    <2> QED BY <1>0, <1>2, <2>1, <2>2, <2>3, <2>4 DEF Contains, IsInjective
  <1> QED BY <1>0, <1>1, <1>2

LEMMA JoinFacts ==
  ASSUME NEW t \in Seq(Login), IsInjective(t), NEW l \in Login, ~Contains(t, l)
  PROVE  /\ Append(t, l) \in Seq(Login) /\ IsInjective(Append(t, l)) /\ Len(Append(t, l)) = Len(t) + 1
         /\ \A i \in 1..Len(Append(t, l)) : Append(t, l)[i] = l \/ Contains(t, Append(t, l)[i])
         /\ Contains(Append(t, l), l)
         /\ \A k : Contains(t, k) => Contains(Append(t, l), k)
  <1>1. Append(t, l) \in Seq(Login) /\ Len(Append(t, l)) = Len(t) + 1 /\ Len(t) \in Nat
        /\ Append(t, l)[Len(t) + 1] = l /\ \A i \in 1..Len(t) : Append(t, l)[i] = t[i]
    OBVIOUS
  <1>2. \A i \in 1..Len(Append(t, l)) : i \in 1..Len(t) \/ i = Len(t) + 1
    BY <1>1
  <1>3. \A i \in 1..Len(t) : t[i] # l
    BY DEF Contains
  <1>4. ASSUME NEW a \in DOMAIN Append(t, l), NEW b \in DOMAIN Append(t, l),
               Append(t, l)[a] = Append(t, l)[b]
        PROVE  a = b
    <2>1. a \in 1..Len(t) \/ a = Len(t) + 1
      BY <1>1, <1>2
    <2>2. b \in 1..Len(t) \/ b = Len(t) + 1
      BY <1>1, <1>2
    <2>3. CASE a \in 1..Len(t) /\ b \in 1..Len(t)
      <3>1. t[a] = t[b] /\ a \in DOMAIN t /\ b \in DOMAIN t
        BY <1>1, <1>4, <2>3
      <3> QED BY <3>1 DEF IsInjective
    <2>4. CASE ~(a \in 1..Len(t) /\ b \in 1..Len(t))
      BY <1>1, <1>3, <1>4, <2>1, <2>2, <2>4
    <2> QED BY <2>3, <2>4
  <1>5. Contains(Append(t, l), l)
    BY <1>1 DEF Contains
  <1>6. \A i \in 1..Len(Append(t, l)) : Append(t, l)[i] = l \/ Contains(t, Append(t, l)[i])
    BY <1>1, <1>2 DEF Contains
  <1>7. \A k : Contains(t, k) => Contains(Append(t, l), k)
    BY <1>1 DEF Contains
  <1>8. IsInjective(Append(t, l))
    BY <1>4 DEF IsInjective
  <1> QED BY <1>1, <1>5, <1>6, <1>7, <1>8

LEMMA RecordFacts ==
  ASSUME ProxyTyped, NEW l \in Login, NEW s \in {"running"} \cup Ending, Record(l, s)
  PROVE  /\ table' \in Seq(Login) /\ Len(table') <= StateMax /\ IsInjective(table')
         /\ entryOf' \in [Login -> {"unknown", "running"} \cup Ending]
         /\ entryOf'[l] = s /\ \A k \in Login : k # l => entryOf'[k] = entryOf[k]
         /\ \A i \in 1..Len(table') : table'[i] = l \/ Contains(table, table'[i])
         /\ Contains(table', l)
         /\ Len(table) < StateMax => \A k : Contains(table, k) => Contains(table', k)
  <1> DEFINE m == MakesRoom(table)
  <1>0. StateMax \in Nat
    BY CapAssumption
  <1>1. /\ m \in Seq(Login) /\ Len(m) < StateMax /\ IsInjective(m)
        /\ \A i \in 1..Len(m) : Contains(table, m[i])
        /\ Len(table) < StateMax => m = table
    BY RoomFacts DEF ProxyTyped
  <1>2. table' = (IF Contains(m, l) THEN m ELSE Append(m, l)) /\ entryOf' = [entryOf EXCEPT ![l] = s]
    BY DEF Record
  <1>3. /\ entryOf' \in [Login -> {"unknown", "running"} \cup Ending]
        /\ entryOf'[l] = s /\ \A k \in Login : k # l => entryOf'[k] = entryOf[k]
    BY <1>2 DEF ProxyTyped
  <1> HIDE DEF m
  <1>4. CASE Contains(m, l)
    BY <1>0, <1>1, <1>2, <1>3, <1>4
  <1>5. CASE ~Contains(m, l)
    <2>1. table' = Append(m, l)
      BY <1>2, <1>5
    <2>2. Len(m) \in Nat /\ Len(m) + 1 <= StateMax
      BY <1>0, <1>1
    <2>3. \A i \in 1..Len(table') : table'[i] = l \/ Contains(table, table'[i])
      <3>1. \A k : Contains(m, k) => Contains(table, k)
        BY <1>1 DEF Contains
      <3> QED BY <1>1, <1>5, <2>1, <3>1, JoinFacts
    <2>4. table' \in Seq(Login) /\ Len(table') <= StateMax /\ IsInjective(table') /\ Contains(table', l)
      BY <1>1, <1>5, <2>1, <2>2, JoinFacts
    <2>5. Len(table) < StateMax => \A k : Contains(table, k) => Contains(table', k)
      BY <1>1, <1>5, <2>1, JoinFacts
    <2> QED BY <1>3, <2>3, <2>4, <2>5
  <1> QED BY <1>4, <1>5

LEMMA TableIsSmall ==
  ASSUME ProxyTyped, Tabled, ~restarted, ~Crowded
  PROVE  Len(table) < StateMax
  <1> DEFINE D == 1..Len(table)
  <1>1. table \in [D -> Registered] /\ Len(table) \in Nat
    BY DEF ProxyTyped, Tabled
  <1>2. table \in Injection(D, Registered)
    BY <1>1 DEF ProxyTyped, Injection, IsInjective
  <1>3. IsFiniteSet(Registered)
    BY DEF Tabled
  <1>4. Cardinality(D) <= Cardinality(Registered)
    <2> HIDE DEF D
    <2> QED BY <1>2, <1>3, FS_Injection
  <1>5. Cardinality(D) = Len(table)
    <2>1. 1 \in Int /\ Len(table) \in Int
      BY <1>1
    <2>2. Cardinality(1..Len(table)) = IF 1 > Len(table) THEN 0 ELSE Len(table) - 1 + 1
      BY <2>1, FS_Interval
    <2> QED BY <1>1, <2>2
  <1>6. Cardinality(Registered) \in Nat /\ StateMax \in Nat
    BY <1>3, FS_CardinalityType, CapAssumption
  <1> QED BY <1>1, <1>4, <1>5, <1>6 DEF Crowded

\* _record_login_state() keeps the table.
LEMMA RecordKeeps ==
  ASSUME ProxyTyped, Tabled, NEW l \in Login, NEW s \in {"running"} \cup Ending, Record(l, s),
         restarted' = restarted, s = "running" => l \in reaping',
         \A k \in reaping : k # l => k \in reaping'
  PROVE  Tabled'
  <1>1. Registered' = Registered \cup {l}
    BY RecordFacts DEF Registered, Ending
  <1>2. IsFiniteSet(Registered') /\ Cardinality(Registered) <= Cardinality(Registered')
    <2>1. IsFiniteSet(Registered) /\ Cardinality(Registered) \in Nat
      BY FS_CardinalityType DEF Tabled
    <2>2. /\ IsFiniteSet(Registered \cup {l})
          /\ Cardinality(Registered \cup {l}) =
               IF l \in Registered THEN Cardinality(Registered) ELSE Cardinality(Registered) + 1
      BY <2>1, FS_AddElement
    <2> QED BY <1>1, <2>1, <2>2
  <1>3. ASSUME ~restarted, ~Crowded'
        PROVE  \A k \in Registered' : Contains(table', k)
    <2>1. ~Crowded
      <3>1. Cardinality(Registered) \in Nat /\ Cardinality(Registered') \in Nat /\ StateMax \in Nat
        BY <1>2, FS_CardinalityType, CapAssumption DEF Tabled
      <3> QED BY <1>2, <1>3, <3>1 DEF Crowded
    <2>2. Len(table) < StateMax
      BY <1>3, <2>1, TableIsSmall
    <2> QED BY <1>1, <1>3, <2>1, <2>2, RecordFacts DEF Tabled
  <1>4. ASSUME ~restarted
        PROVE  \A i \in 1..Len(table') : table'[i] \in Registered'
    <2>1. \A k : Contains(table, k) => k \in Registered
      BY <1>4 DEF Tabled, Contains
    <2> QED BY <1>1, <2>1, RecordFacts
  <1>5. ASSUME ~restarted
        PROVE  \A k \in Login : entryOf'[k] = "running" => k \in reaping'
    <2>1. \A k \in Login : k # l => entryOf'[k] = entryOf[k]
      BY RecordFacts
    <2>2. entryOf'[l] = s
      BY RecordFacts
    <2> QED BY <1>5, <2>1, <2>2 DEF Tabled
  <1> QED BY <1>2, <1>3, <1>4, <1>5 DEF Tabled

Serves(l) == SignsIn(l) \/ FinishesLogin(l) \/ GivesUp(l) \/ RunProxyLogin(l) \/ BeginFails(l)
LEMMA ProxySteps ==
  [PLNext]_plVars =>
    \/ \E l \in Login : Serves(l) \/ ReapEnded(l) \/ ReapTimeout(l) \/ OtherBegins(l)
    \/ \E l \in Login, reply \in Reply : BeginReplied(l, reply)
    \/ ServerStops \/ CallbackTaken \/ Tick \/ (\E i \in DOMAIN ticks : Polled(i)) \/ Reset
    \/ AgStarts \/ (\E reply \in Reply : AgStarted(reply)) \/ AgRespond \/ AgAnswered
    \/ AgStreamEnds \/ AgCancel \/ AgEnds \/ Restart
    \/ UNCHANGED plVars
  BY DEF PLNext, Serves

LEMMA LaunchedFacts ==
  ASSUME ProxyTyped, NEW l \in Login, NEW reply \in Reply, Launched(l, reply)
  PROVE  /\ running' \in [Login -> {"unused", "starting", "open", "granted", "ok", "bad"}]
         /\ dirs' \in SUBSET Login /\ dirs' \subseteq dirs
         /\ reply # "started" => FlowEnded(l)' /\ l \notin dirs'
         /\ reply = "imported" => running'[l] = "ok"
         /\ reply = "error" => running'[l] = "bad"
         /\ running'[l] \in {"open", "ok", "bad"}
         /\ FlowEnded(l) => FlowEnded(l)'
         /\ \A k \in Login : k # l => running'[k] = running[k]
  <1>1. running' = [running EXCEPT ![l] = IF reply = "imported" THEN "ok"
                ELSE IF reply = "started" /\ Alive(l) THEN "open" ELSE "bad"]
    BY DEF Launched, Becomes
  <1>2. running'[l] = (IF reply = "imported" THEN "ok"
                ELSE IF reply = "started" /\ Alive(l) THEN "open" ELSE "bad")
        /\ running' \in [Login -> {"unused", "starting", "open", "granted", "ok", "bad"}]
        /\ \A k \in Login : k # l => running'[k] = running[k]
    BY <1>1 DEF ProxyTyped
  <1>3. dirs' = IF reply = "started" THEN dirs ELSE dirs \ {l}
    BY DEF Launched
  <1>4. FlowEnded(l) => FlowEnded(l)'
    BY <1>2 DEF FlowEnded, Alive
  <1>5. reply # "started" => FlowEnded(l)' /\ l \notin dirs'
    BY <1>2, <1>3 DEF FlowEnded
  <1> QED BY <1>2, <1>3, <1>4, <1>5 DEF ProxyTyped

LEMMA PolledFacts ==
  ASSUME ProxyTyped, NEW i \in DOMAIN ticks, ticks' = RemoveAt(ticks, i)
  PROVE  /\ ticks' \in Seq(WizardLogin \X Ending)
         /\ \A k \in 1..Len(ticks') : \E j \in 1..Len(ticks) : ticks'[k] = ticks[j]
  <1> DEFINE a == SubSeq(ticks, 1, i - 1)
             b == SubSeq(ticks, i + 1, Len(ticks))
             T == WizardLogin \X Ending
  <1>0. ticks \in Seq(T) /\ Len(ticks) \in Nat /\ i \in 1..Len(ticks) /\ i \in Nat /\ i >= 1 /\ i <= Len(ticks)
    BY DEF ProxyTyped
  <1>1. a \in Seq(T) /\ \A k \in 1..Len(a) : \E j \in 1..Len(ticks) : a[k] = ticks[j]
    <2>1. a \in Seq(T) /\ Len(a) = i - 1 /\ \A k \in 1..i - 1 : a[k] = ticks[k]
      BY <1>0
    <2> QED BY <1>0, <2>1
  <1>2. b \in Seq(T) /\ \A k \in 1..Len(b) : \E j \in 1..Len(ticks) : b[k] = ticks[j]
    <2>1. b \in Seq(T) /\ Len(b) = Len(ticks) - i /\ \A k \in 1..Len(ticks) - i : b[k] = ticks[i + k]
      BY <1>0
    <2>2. \A k \in 1..Len(b) : i + k \in 1..Len(ticks)
      BY <1>0, <2>1
    <2> QED BY <2>1, <2>2
  <1> HIDE DEF a, b, T
  <1>3. a \o b \in Seq(T) /\ \A k \in 1..Len(a \o b) : \E j \in 1..Len(ticks) : (a \o b)[k] = ticks[j]
    <2>1. a \o b \in Seq(T) /\ Len(a \o b) = Len(a) + Len(b) /\ Len(a) \in Nat /\ Len(b) \in Nat
      BY <1>1, <1>2
    <2>2. ASSUME NEW k \in 1..Len(a \o b) PROVE \E j \in 1..Len(ticks) : (a \o b)[k] = ticks[j]
      <3>1. CASE k <= Len(a)
        <4>1. (a \o b)[k] = a[k] /\ k \in 1..Len(a)
          BY <1>1, <1>2, <2>1, <3>1
        <4> QED BY <1>1, <4>1
      <3>2. CASE k > Len(a)
        <4>1. (a \o b)[k] = b[k - Len(a)] /\ k - Len(a) \in 1..Len(b)
          BY <1>1, <1>2, <2>1, <3>2
        <4> QED BY <1>2, <4>1
      <3> QED BY <2>1, <3>1, <3>2
    <2> QED BY <2>1, <2>2
  <1>4. ticks' = a \o b
    BY DEF RemoveAt, a, b
  <1> QED BY <1>3, <1>4 DEF T

LEMMA ProxyTypedStep == ProxyTyped /\ [PLNext]_plVars => ProxyTyped'
  <1> SUFFICES ASSUME ProxyTyped, [PLNext]_plVars PROVE ProxyTyped'
    OBVIOUS
  <1> DEFINE States == {"unused", "starting", "open", "granted", "ok", "bad"}
  <1>0. \A l \in WizardLogin \cup OtherLogin \cup {Antigravity} : l \in Login
    BY DEF Login
  <1>1. ASSUME NEW l \in Login, NEW s \in States, Becomes(l, s) PROVE running' \in [Login -> States]
    BY <1>1 DEF Becomes, ProxyTyped
  <1>2. ASSUME NEW l \in Login, Serves(l) PROVE ProxyTyped'
    <2>1. CASE SignsIn(l) \/ FinishesLogin(l) \/ GivesUp(l)
      BY <1>1, <1>2, <2>1 DEF SignsIn, FinishesLogin, GivesUp, ProxyTyped, served, wizard, antigravity
    <2>2. CASE RunProxyLogin(l)
      BY <1>1, <2>2 DEF RunProxyLogin, Spawns, ProxyTyped, served, wizard, antigravity
    <2>3. CASE BeginFails(l)
      BY <2>3 DEF BeginFails, ProxyTyped, served, wizard, antigravity
    <2> QED BY <1>2, <2>1, <2>2, <2>3 DEF Serves
  <1>3. ASSUME NEW l \in Login, ReapEnded(l) \/ ReapTimeout(l) PROVE ProxyTyped'
    <2>1. PICK s \in Ending : Reaped(l, s)
      BY <1>3 DEF ReapEnded, ReapTimeout, Ending
    <2>2. running' \in [Login -> States]
      BY <1>1, <1>3 DEF ReapEnded, ReapTimeout, ProxyTyped
    <2>3. Record(l, s)
      BY <2>1 DEF Reaped
    <2>4. table' \in Seq(Login) /\ Len(table') <= StateMax /\ IsInjective(table')
          /\ entryOf' \in [Login -> {"unknown", "running"} \cup Ending]
      BY <2>3, RecordFacts
    <2> QED BY <2>1, <2>2, <2>4 DEF Reaped, ProxyTyped, wizard, antigravity
  <1>4. ASSUME NEW l \in Login, OtherBegins(l) PROVE ProxyTyped'
    <2>1. running' \in [Login -> States]
      BY <1>1, <1>4 DEF OtherBegins
    <2>2. table' \in Seq(Login) /\ Len(table') <= StateMax /\ IsInjective(table')
          /\ entryOf' \in [Login -> {"unknown", "running"} \cup Ending]
      BY <1>4, RecordFacts DEF OtherBegins
    <2> QED BY <1>4, <2>1, <2>2 DEF OtherBegins, ProxyTyped, wizard, antigravity
  <1>5. ASSUME NEW l \in Login, NEW reply \in Reply, BeginReplied(l, reply) PROVE ProxyTyped'
    <2>1. running' \in [Login -> States] /\ dirs' \in SUBSET Login
      BY <1>5, LaunchedFacts DEF BeginReplied, Registers
    <2>2. /\ table' \in Seq(Login) /\ Len(table') <= StateMax /\ IsInjective(table')
          /\ entryOf' \in [Login -> {"unknown", "running"} \cup Ending] /\ reaping' \in SUBSET Login
      <3>1. CASE reply = "started"
        <4>1. Record(l, "running") /\ reaping' = reaping \cup {l}
          BY <1>5, <3>1 DEF BeginReplied, Registers
        <4> QED BY <4>1, RecordFacts DEF ProxyTyped
      <3>2. CASE reply # "started"
        BY <1>5, <3>2 DEF BeginReplied, Registers, served, ProxyTyped
      <3> QED BY <3>1, <3>2
    <2>3. screen' \in {"idle", "running", "device_auth", "success", "error"}
          /\ polling' \in WizardLogin \cup {NoLogin}
      BY <1>5 DEF BeginReplied, Reply, ProxyTyped
    <2>4. begins' \in SUBSET WizardLogin /\ UNCHANGED <<current, ticks, agPc, agQueue>>
      BY <1>5 DEF BeginReplied, antigravity, ProxyTyped
    <2> QED BY <2>1, <2>2, <2>3, <2>4 DEF ProxyTyped
  <1>6. CASE ServerStops
    BY <1>6 DEF ServerStops, ProxyTyped, served, wizard, antigravity
  <1>7. CASE CallbackTaken
    BY <1>0, <1>1, <1>7 DEF CallbackTaken, ProxyTyped, served, antigravity
  <1>8. CASE Tick
    <2>1. polling \in WizardLogin /\ StateOf(polling) \in Ending
      BY <1>8 DEF Tick, ProxyTyped, Decided, Ending
    <2>2. ticks' \in Seq(WizardLogin \X Ending)
      <3>1. <<polling, StateOf(polling)>> \in WizardLogin \X Ending
        BY <2>1
      <3>2. ticks' = Append(ticks, <<polling, StateOf(polling)>>)
        BY <1>8 DEF Tick
      <3> QED BY <3>1, <3>2, AppendProperties DEF ProxyTyped
    <2> QED BY <1>8, <2>2 DEF Tick, ProxyTyped, served, antigravity
  <1>9. ASSUME NEW i \in DOMAIN ticks, Polled(i) PROVE ProxyTyped'
    <2>1. ticks' \in Seq(WizardLogin \X Ending)
      BY <1>9, PolledFacts DEF Polled
    <2> QED BY <1>9, <2>1 DEF Polled, ProxyTyped, served, antigravity
  <1>10. CASE Reset \/ AgRespond \/ Restart \/ UNCHANGED plVars
    <2>1. CASE Reset
      BY <2>1 DEF Reset, Resets, ProxyTyped, served, antigravity
    <2>2. CASE AgRespond
      BY <2>2 DEF AgRespond, ProxyTyped, served, wizard
    <2>3. CASE Restart
      <3>1. table' \in Seq(Login) /\ Len(table') <= StateMax /\ IsInjective(table')
        BY <2>3, CapAssumption DEF Restart, IsInjective
      <3> QED BY <2>3, <3>1 DEF Restart, ProxyTyped, wizard
    <2>4. CASE UNCHANGED plVars
      BY <2>4 DEF plVars, ProxyTyped, served, wizard, antigravity
    <2> QED BY <1>10, <2>1, <2>2, <2>3, <2>4
  <1>11. CASE AgStarts
    BY <1>0, <1>1, <1>11 DEF AgStarts, AgGoes, Spawns, ProxyTyped, served, wizard
  <1>12. ASSUME NEW reply \in Reply, AgStarted(reply) PROVE ProxyTyped'
    <2>1. running' \in [Login -> States] /\ dirs' \in SUBSET Login
      BY <1>0, <1>12, LaunchedFacts DEF AgStarted
    <2> QED BY <1>12, <2>1 DEF AgStarted, AgGoes, ProxyTyped, served, wizard
  <1>13. CASE AgAnswered \/ AgStreamEnds
    <2>1. running' \in [Login -> States]
      BY <1>0, <1>1, <1>13 DEF AgAnswered, AgStreamEnds, ProxyTyped
    <2> QED BY <1>13, <2>1 DEF AgAnswered, AgStreamEnds, AgGoes, ProxyTyped, served, wizard
  <1>14. CASE AgCancel \/ AgEnds
    <2>1. AgKills
      BY <1>14 DEF AgCancel, AgEnds
    <2>2. running' \in [Login -> States] /\ dirs' \in SUBSET Login
      BY <1>0, <1>1, <2>1 DEF AgKills, ProxyTyped
    <2>3. agPc' \in {"unused", "starting", "asked", "told", "ending", "over"}
      BY <1>14 DEF AgCancel, AgEnds, AgGoes, ProxyTyped
    <2> QED BY <2>1, <2>2, <2>3 DEF AgKills, ProxyTyped, served, wizard
  <1> QED BY <1>2, <1>3, <1>4, <1>5, <1>6, <1>7, <1>8, <1>9, <1>10, <1>11, <1>12, <1>13, <1>14, ProxySteps

\* What never happens to a process: a finished login stays so, one that has been
\* launched is not launched again, and only its session launches the antigravity one.
Onward ==
  \A l \in Login :
    /\ FlowEnded(l) => FlowEnded(l)'
    /\ running[l] \notin {"unused", "starting"} => running'[l] \notin {"unused", "starting"}
    /\ l = Antigravity /\ running[l] = "unused" /\ agPc # "unused" => running'[l] = "unused"

LEMMA ProcessSteps == ProxyTyped /\ [PLNext]_plVars => Onward
  <1> SUFFICES ASSUME ProxyTyped, [PLNext]_plVars PROVE Onward
    OBVIOUS
  <1>0. \A l \in WizardLogin \cup OtherLogin \cup {Antigravity} : l \in Login
    BY DEF Login
  <1>1. CASE UNCHANGED running
    BY <1>1 DEF Onward, FlowEnded
  <1>2. ASSUME NEW l \in Login, NEW s \in {"open", "granted", "ok", "bad"}, Becomes(l, s),
               running[l] # "unused" \/ l # Antigravity, ~FlowEnded(l)
        PROVE  Onward
    <2>1. running'[l] = s /\ \A k \in Login : k # l => running'[k] = running[k]
      BY <1>2 DEF Becomes, ProxyTyped
    <2> QED BY <1>2, <2>1 DEF Onward, FlowEnded
  <1>3. ASSUME NEW l \in Login, running[l] = "unused", Becomes(l, "starting"),
               l # Antigravity \/ agPc = "unused"
        PROVE  Onward
    <2>1. running'[l] = "starting" /\ \A k \in Login : k # l => running'[k] = running[k]
      BY <1>3 DEF Becomes, ProxyTyped
    <2> QED BY <1>3, <2>1 DEF Onward, FlowEnded
  <1>4. ASSUME NEW l \in Login, NEW reply \in Reply, Launched(l, reply)
        PROVE  Onward
    <2>1. FlowEnded(l) => FlowEnded(l)'
      BY <1>4, LaunchedFacts
    <2>2. running'[l] \in {"open", "ok", "bad"} /\ \A k \in Login : k # l => running'[k] = running[k]
      BY <1>4, LaunchedFacts
    <2>3. running[l] \in {"starting", "bad"}
      BY <1>4 DEF Launched
    <2> QED BY <2>1, <2>2, <2>3 DEF Onward, FlowEnded
  <1>5. ASSUME NEW l \in Login, Serves(l) PROVE Onward
    <2>1. CASE SignsIn(l) \/ FinishesLogin(l) \/ GivesUp(l)
      BY <1>2, <2>1 DEF SignsIn, FinishesLogin, GivesUp, FlowEnded
    <2>2. CASE RunProxyLogin(l)
      BY <1>3, <2>2, Apart DEF RunProxyLogin, Spawns
    <2>3. CASE BeginFails(l)
      BY <1>1, <2>3 DEF BeginFails
    <2> QED BY <1>5, <2>1, <2>2, <2>3 DEF Serves
  <1>6. ASSUME NEW l \in Login, ReapEnded(l) \/ ReapTimeout(l) PROVE Onward
    BY <1>1, <1>2, <1>6 DEF ReapEnded, ReapTimeout, Alive, FlowEnded
  <1>7. ASSUME NEW l \in Login, OtherBegins(l) PROVE Onward
    BY <1>2, <1>7, Apart DEF OtherBegins, FlowEnded
  <1>8. CASE ServerStops
    <2>1. \A l \in Login : running'[l] = IF Alive(l) THEN "bad" ELSE running[l]
      BY <1>8 DEF ServerStops
    <2> QED BY <2>1 DEF Onward, Alive, FlowEnded
  <1>9. CASE CallbackTaken
    BY <1>0, <1>2, <1>9 DEF CallbackTaken, ProxyTyped, FlowEnded
  <1>10. CASE AgStarts
    BY <1>0, <1>3, <1>10 DEF AgStarts, Spawns
  <1>11. CASE AgAnswered \/ AgStreamEnds
    BY <1>0, <1>1, <1>2, <1>11 DEF AgAnswered, AgStreamEnds, Alive, FlowEnded
  <1>12. CASE AgCancel \/ AgEnds
    <2>1. AgKills
      BY <1>12 DEF AgCancel, AgEnds
    <2> QED BY <1>0, <1>1, <1>2, <2>1 DEF AgKills, Alive, FlowEnded
  <1>13. CASE Tick \/ (\E i \in DOMAIN ticks : Polled(i)) \/ Reset \/ AgRespond \/ Restart \/ UNCHANGED plVars
    BY <1>1, <1>13 DEF Tick, Polled, Reset, Resets, AgRespond, Restart, plVars
  <1>14. ASSUME NEW l \in Login, NEW reply \in Reply, BeginReplied(l, reply) PROVE Onward
    BY <1>4, <1>14 DEF BeginReplied, Registers
  <1>15. ASSUME NEW reply \in Reply, AgStarted(reply) PROVE Onward
    BY <1>0, <1>4, <1>15 DEF AgStarted
  <1>16. CASE \E l \in Login : Serves(l) \/ ReapEnded(l) \/ ReapTimeout(l) \/ OtherBegins(l)
    BY <1>5, <1>6, <1>7, <1>16
  <1>17. CASE \E l \in Login, reply \in Reply : BeginReplied(l, reply)
    BY <1>14, <1>17
  <1>18. CASE \E reply \in Reply : AgStarted(reply)
    BY <1>15, <1>18
  <1>19. Onward
    BY <1>8, <1>9, <1>10, <1>11, <1>12, <1>13, <1>16, <1>17, <1>18, ProxySteps
  <1> QED BY <1>19

LEMMA ServedStays ==
  ASSUME Tabled, UNCHANGED served, restarted' = restarted
  PROVE  Tabled'
  BY DEF Tabled, served, Registered, Crowded, Contains

LEMMA TabledStep == ProxyTyped /\ Tabled /\ [PLNext]_plVars => Tabled'
  <1> SUFFICES ASSUME ProxyTyped, Tabled, [PLNext]_plVars PROVE Tabled'
    OBVIOUS
  <1>1. ASSUME NEW l \in Login, Serves(l) PROVE Tabled'
    <2>1. UNCHANGED served /\ restarted' = restarted
      BY <1>1 DEF Serves, SignsIn, FinishesLogin, GivesUp, RunProxyLogin, BeginFails
    <2> QED BY <2>1, ServedStays
  <1>2. ASSUME NEW l \in Login, ReapEnded(l) \/ ReapTimeout(l) PROVE Tabled'
    <2>1. PICK s \in Ending : Reaped(l, s)
      BY <1>2 DEF ReapEnded, ReapTimeout, Ending
    <2>2. Record(l, s) /\ reaping' = reaping \ {l} /\ restarted' = restarted /\ s # "running"
      BY <2>1 DEF Reaped, Ending
    <2> QED BY <2>2, RecordKeeps
  <1>3. ASSUME NEW l \in Login, OtherBegins(l) PROVE Tabled'
    <2>1. Record(l, "running") /\ reaping' = reaping \cup {l} /\ restarted' = restarted
      BY <1>3 DEF OtherBegins
    <2> QED BY <2>1, RecordKeeps
  <1>4. ASSUME NEW l \in Login, NEW reply \in Reply, BeginReplied(l, reply) PROVE Tabled'
    <2>1. CASE reply = "started"
      <3>1. Record(l, "running") /\ reaping' = reaping \cup {l} /\ restarted' = restarted
        BY <1>4, <2>1 DEF BeginReplied, Registers
      <3> QED BY <3>1, RecordKeeps
    <2>2. CASE reply # "started"
      <3>1. UNCHANGED served /\ restarted' = restarted
        BY <1>4, <2>2 DEF BeginReplied, Registers
      <3> QED BY <3>1, ServedStays
    <2> QED BY <2>1, <2>2
  <1>5. CASE Restart
    <2>1. Registered' = {}
      BY <1>5 DEF Restart, Registered
    <2>2. restarted'
      BY <1>5 DEF Restart
    <2> QED BY <2>1, <2>2, FS_EmptySet DEF Tabled
  <1>6. CASE \/ ServerStops \/ CallbackTaken \/ Tick \/ (\E i \in DOMAIN ticks : Polled(i)) \/ Reset
             \/ AgStarts \/ (\E reply \in Reply : AgStarted(reply)) \/ AgRespond \/ AgAnswered
             \/ AgStreamEnds \/ AgCancel \/ AgEnds \/ UNCHANGED plVars
    <2>1. UNCHANGED served /\ restarted' = restarted
      BY <1>6 DEF ServerStops, CallbackTaken, Tick, Polled, Reset, Resets, AgStarts, AgStarted, AgRespond,
                  AgAnswered, AgStreamEnds, AgCancel, AgEnds, AgKills, plVars, served
    <2> QED BY <2>1, ServedStays
  <1> QED BY <1>1, <1>2, <1>3, <1>4, <1>5, <1>6, ProxySteps

LEMMA FinalsStep == ProxyTyped /\ Finals /\ [PLNext]_plVars => Finals'
  <1> SUFFICES ASSUME ProxyTyped, Finals, [PLNext]_plVars PROVE Finals'
    OBVIOUS
  <1>0. \A l \in Login : FlowEnded(l) => FlowEnded(l)'
    BY ProcessSteps DEF Onward
  <1>1. \A i \in 1..Len(ticks) : ticks[i][1] \in Login
    BY DEF ProxyTyped, Login
  <1>2. (\A l \in Login : entryOf'[l] \in Ending => FlowEnded(l)')
    <2>1. ASSUME NEW l \in Login, NEW s \in {"running"} \cup Ending, Record(l, s),
                 s \in Ending => FlowEnded(l)'
          PROVE  \A k \in Login : entryOf'[k] \in Ending => FlowEnded(k)'
      <3>1. entryOf'[l] = s /\ \A k \in Login : k # l => entryOf'[k] = entryOf[k]
        BY <2>1, RecordFacts
      <3> QED BY <1>0, <2>1, <3>1 DEF Finals
    <2>2. CASE UNCHANGED entryOf
      BY <1>0, <2>2 DEF Finals
    <2>3. ASSUME NEW l \in Login, ReapEnded(l) \/ ReapTimeout(l)
          PROVE  \A k \in Login : entryOf'[k] \in Ending => FlowEnded(k)'
      <3>1. PICK s \in Ending : Reaped(l, s)
        BY <2>3 DEF ReapEnded, ReapTimeout, Ending
      <3>2. FlowEnded(l)'
        BY <1>0, <2>3 DEF ReapEnded, ReapTimeout, Becomes, ProxyTyped, FlowEnded
      <3> QED BY <2>1, <3>1, <3>2 DEF Reaped
    <2>4. ASSUME NEW l \in Login, NEW reply \in Reply, BeginReplied(l, reply)
          PROVE  \A k \in Login : entryOf'[k] \in Ending => FlowEnded(k)'
      <3>1. CASE reply = "started"
        BY <2>1, <2>4, <3>1 DEF BeginReplied, Registers, Ending
      <3>2. CASE reply # "started"
        BY <2>2, <2>4, <3>2 DEF BeginReplied, Registers, served
      <3> QED BY <3>1, <3>2
    <2>5. ASSUME NEW l \in Login, OtherBegins(l)
          PROVE  \A k \in Login : entryOf'[k] \in Ending => FlowEnded(k)'
      BY <2>1, <2>5 DEF OtherBegins, Ending
    <2>6. ASSUME NEW l \in Login, Serves(l) PROVE UNCHANGED entryOf
      BY <2>6 DEF Serves, SignsIn, FinishesLogin, GivesUp, RunProxyLogin, BeginFails, served
    <2>7. CASE Restart
      BY <2>7 DEF Restart, Ending
    <2>8. CASE \/ ServerStops \/ CallbackTaken \/ Tick \/ (\E i \in DOMAIN ticks : Polled(i)) \/ Reset
             \/ AgStarts \/ (\E reply \in Reply : AgStarted(reply)) \/ AgRespond \/ AgAnswered
             \/ AgStreamEnds \/ AgCancel \/ AgEnds \/ UNCHANGED plVars
      <3>1. UNCHANGED entryOf
        BY <2>8 DEF ServerStops, CallbackTaken, Tick, Polled, Reset, Resets, AgStarts, AgStarted, AgRespond,
                    AgAnswered, AgStreamEnds, AgCancel, AgEnds, AgKills, plVars, served
      <3> QED BY <2>2, <3>1
    <2> QED BY <2>2, <2>3, <2>4, <2>5, <2>6, <2>7, <2>8, ProxySteps
  <1>3. \A i \in 1..Len(ticks') : running'[ticks'[i][1]] \in {"ok", "bad"}
    <2>0. \A i \in 1..Len(ticks) : running'[ticks[i][1]] \in {"ok", "bad"}
      BY <1>0, <1>1 DEF Finals, FlowEnded
    <2>1. CASE UNCHANGED ticks
      BY <2>0, <2>1
    <2>2. CASE Tick
      <3>1. ticks' = Append(ticks, <<polling, StateOf(polling)>>) /\ polling \in Login
            /\ entryOf[polling] \in Ending
        BY <2>2 DEF Tick, ProxyTyped, Login, Decided, StateOf, Ending
      <3>2. running'[polling] \in {"ok", "bad"}
        BY <1>0, <3>1 DEF Finals, FlowEnded
      <3>3. ticks \in Seq(WizardLogin \X Ending)
        BY DEF ProxyTyped
      <3>4. \A i \in 1..Len(ticks') : (i \in 1..Len(ticks) /\ ticks'[i] = ticks[i])
                                      \/ ticks'[i] = <<polling, StateOf(polling)>>
        BY <3>1, <3>3, AppendProperties
      <3> QED BY <2>0, <3>2, <3>4
    <2>3. ASSUME NEW i \in DOMAIN ticks, Polled(i) PROVE \A j \in 1..Len(ticks') : running'[ticks'[j][1]] \in {"ok", "bad"}
      <3>1. \A k \in 1..Len(ticks') : \E j \in 1..Len(ticks) : ticks'[k] = ticks[j]
        BY <2>3, PolledFacts DEF Polled
      <3> QED BY <2>0, <3>1
    <2>4. CASE \/ ServerStops \/ CallbackTaken \/ Reset
             \/ AgStarts \/ (\E reply \in Reply : AgStarted(reply)) \/ AgRespond \/ AgAnswered
             \/ AgStreamEnds \/ AgCancel \/ AgEnds \/ Restart \/ UNCHANGED plVars
      <3>1. UNCHANGED ticks
        BY <2>4 DEF ServerStops, CallbackTaken, Reset, Resets, AgStarts, AgStarted, AgRespond, Restart,
                    AgAnswered, AgStreamEnds, AgCancel, AgEnds, AgKills, plVars, wizard
      <3> QED BY <2>1, <3>1
    <2>5. ASSUME NEW l \in Login, Serves(l) \/ ReapEnded(l) \/ ReapTimeout(l) \/ OtherBegins(l)
          PROVE  UNCHANGED ticks
      BY <2>5 DEF Serves, SignsIn, FinishesLogin, GivesUp, RunProxyLogin, BeginFails, ReapEnded,
                  ReapTimeout, Reaped, OtherBegins, wizard
    <2>6. ASSUME NEW l \in Login, NEW reply \in Reply, BeginReplied(l, reply) PROVE UNCHANGED ticks
      BY <2>6 DEF BeginReplied
    <2> QED BY <2>1, <2>2, <2>3, <2>4, <2>5, <2>6, ProxySteps
  <1> QED BY <1>2, <1>3 DEF Finals, FlowEnded

LEMMA AgHeldStep == ProxyTyped /\ AgHeld /\ [PLNext]_plVars => AgHeld'
  <1> SUFFICES ASSUME ProxyTyped, AgHeld, [PLNext]_plVars PROVE AgHeld'
    OBVIOUS
  <1> DEFINE ag == Antigravity
  <1>0. ag \in Login /\ ag \notin WizardLogin /\ ag \notin OtherLogin
    BY Apart
  <1>1. /\ FlowEnded(ag) => FlowEnded(ag)'
        /\ running[ag] = "unused" /\ agPc # "unused" => running'[ag] = "unused"
    BY <1>0, ProcessSteps DEF Onward
  <1>2. agPc # "unused" /\ ~Alive(ag) => ~Alive(ag)'
    <2>1. running[ag] \in {"unused", "starting", "open", "granted", "ok", "bad"}
      BY <1>0 DEF ProxyTyped
    <2> QED BY <1>1, <2>1 DEF Alive, FlowEnded
  <1>3. ASSUME UNCHANGED <<agPc, agProc, agCut, restarted>>, ag \in dirs' => ag \in dirs
        PROVE  AgHeld'
    BY <1>2, <1>3 DEF AgHeld, Alive
  <1>4. ASSUME NEW l \in Login, Serves(l) \/ ReapEnded(l) \/ ReapTimeout(l) \/ OtherBegins(l)
        PROVE  AgHeld'
    <2>1. UNCHANGED <<agPc, agProc, agCut, restarted>>
      BY <1>4 DEF Serves, SignsIn, FinishesLogin, GivesUp, RunProxyLogin, BeginFails, ReapEnded, ReapTimeout,
                  Reaped, OtherBegins, antigravity
    <2>2. ag \in dirs' => ag \in dirs
      BY <1>0, <1>4 DEF Serves, SignsIn, FinishesLogin, GivesUp, RunProxyLogin, Spawns, BeginFails, ReapEnded,
                  ReapTimeout, Reaped, OtherBegins
    <2> QED BY <1>3, <2>1, <2>2
  <1>5. ASSUME NEW l \in Login, NEW reply \in Reply, BeginReplied(l, reply) PROVE AgHeld'
    BY <1>3, <1>5, LaunchedFacts DEF BeginReplied, Registers, antigravity
  <1>6. CASE ServerStops \/ CallbackTaken \/ Tick \/ (\E i \in DOMAIN ticks : Polled(i)) \/ Reset
             \/ AgRespond \/ UNCHANGED plVars
    BY <1>3, <1>6 DEF ServerStops, CallbackTaken, Tick, Polled, Reset, Resets, AgRespond, plVars, antigravity
  <1>7. CASE AgStarts
    BY <1>7 DEF AgStarts, AgGoes, AgHeld
  <1>8. ASSUME NEW reply \in Reply, AgStarted(reply) PROVE AgHeld'
    <2>1. agPc = "starting" /\ Launched(ag, reply) /\ UNCHANGED <<agCut, restarted>>
          /\ agPc' = (IF reply = "started" THEN "asked" ELSE "told") /\ agProc' = (reply = "started")
      BY <1>8 DEF AgStarted, AgGoes
    <2>2. reply # "started" => FlowEnded(ag)' /\ ag \notin dirs'
      BY <1>0, <2>1, LaunchedFacts
    <2>3. CASE reply = "started"
      BY <2>1, <2>3 DEF AgHeld
    <2>4. CASE reply # "started"
      BY <2>1, <2>2, <2>4 DEF AgHeld, Alive, FlowEnded
    <2> QED BY <2>3, <2>4
  <1>9. CASE AgAnswered
    <2>1. agPc = "asked" /\ agPc' = "told" /\ UNCHANGED <<dirs, agProc, agCut, restarted>>
      BY <1>9 DEF AgAnswered, AgGoes
    <2> QED BY <2>1 DEF AgHeld
  <1>10. CASE AgStreamEnds
    <2>1. agPc' = "ending" /\ UNCHANGED <<dirs, agProc, restarted>> /\ agCut' = (agPc = "starting")
          /\ agPc \in {"starting", "asked", "told"}
      BY <1>10 DEF AgStreamEnds, AgGoes
    <2> QED BY <1>2, <2>1 DEF AgHeld, Alive
  <1>11. ASSUME AgKills, agPc # "unused", agPc' = agPc \/ (agPc = "ending" /\ agPc' = "over")
         PROVE  AgHeld'
    <2>1. UNCHANGED <<agProc, agCut, restarted>>
      BY <1>11 DEF AgKills
    <2>2. agProc => ~Alive(ag)' /\ ag \notin dirs'
      <3>1. agProc /\ Alive(ag) => ~Alive(ag)'
        BY <1>0, <1>11 DEF AgKills, Becomes, ProxyTyped, Alive
      <3>2. agProc => ag \notin dirs'
        BY <1>11 DEF AgKills
      <3> QED BY <1>2, <1>11, <3>1, <3>2
    <2>3. ag \in dirs' => ag \in dirs
      BY <1>11 DEF AgKills
    <2> QED BY <1>2, <1>11, <2>1, <2>2, <2>3 DEF AgHeld, Alive
  <1>12. CASE AgCancel \/ AgEnds
    <2>1. AgKills /\ agPc # "unused"
      BY <1>12 DEF AgCancel, AgEnds
    <2>2. agPc' = agPc \/ (agPc = "ending" /\ agPc' = "over")
      <3>1. CASE AgCancel
        BY <3>1 DEF AgCancel
      <3>2. CASE AgEnds
        BY <3>2 DEF AgEnds, AgGoes
      <3> QED BY <1>12, <3>1, <3>2
    <2> QED BY <1>11, <2>1, <2>2
  <1>13. CASE Restart
    BY <1>13 DEF Restart, AgHeld
  <1> QED BY <1>4, <1>5, <1>6, <1>7, <1>8, <1>9, <1>10, <1>12, <1>13, ProxySteps

LEMMA OwnOnlyStep == ProxyTyped /\ Finals /\ OwnOnly /\ [PLNext]_plVars => OwnOnly'
  <1> SUFFICES ASSUME ProxyTyped, Finals, OwnOnly, [PLNext]_plVars PROVE OwnOnly'
    OBVIOUS
  <1>0. NoLogin \notin WizardLogin /\ \A l \in WizardLogin : l \in Login
    BY Apart
  <1>1. \A l \in Login : /\ FlowEnded(l) => FlowEnded(l)'
                         /\ running[l] \notin {"unused", "starting"} => running'[l] \notin {"unused", "starting"}
    BY ProcessSteps DEF Onward
  <1>2. ASSUME UNCHANGED wizard, restarted' = restarted
        PROVE  OwnOnly'
    <2>1. current = NoLogin => OwnOnly'
      BY <1>2 DEF OwnOnly, wizard
    <2>2. current \in Login => OwnOnly'
      BY <1>1, <1>2 DEF OwnOnly, wizard, FlowEnded
    <2> QED BY <1>0, <2>1, <2>2 DEF ProxyTyped
  <1>3. ASSUME NEW l \in Login, Serves(l) \/ ReapEnded(l) \/ ReapTimeout(l) \/ OtherBegins(l)
        PROVE  OwnOnly'
    <2>1. CASE RunProxyLogin(l)
      BY <1>0, <2>1 DEF RunProxyLogin, OwnOnly
    <2>2. CASE BeginFails(l)
      <3>1. current # NoLogin
        BY <2>2 DEF BeginFails, OwnOnly
      <3> QED BY <2>2, <3>1 DEF BeginFails, OwnOnly
    <2>3. CASE SignsIn(l) \/ FinishesLogin(l) \/ GivesUp(l) \/ ReapEnded(l) \/ ReapTimeout(l) \/ OtherBegins(l)
      <3>1. UNCHANGED wizard /\ restarted' = restarted
        BY <2>3 DEF SignsIn, FinishesLogin, GivesUp, ReapEnded, ReapTimeout, Reaped, OtherBegins
      <3> QED BY <1>2, <3>1
    <2> QED BY <1>3, <2>1, <2>2, <2>3 DEF Serves
  <1>4. ASSUME NEW l \in Login, NEW reply \in Reply, BeginReplied(l, reply)
        PROVE  OwnOnly'
    <2>1. l \in begins /\ begins' = begins \ {l} /\ UNCHANGED <<current, ticks, crossed, restarted>>
      BY <1>4 DEF BeginReplied
    <2>2. current # NoLogin
      BY <2>1 DEF OwnOnly
    <2>3. /\ reply # "started" => FlowEnded(l)'
          /\ reply = "imported" => running'[l] = "ok"
      BY <1>4, LaunchedFacts DEF BeginReplied, Registers
    <2>4. CASE reply = "started"
      <3>1. screen' = "device_auth" /\ polling' = l
        BY <1>4, <2>4 DEF BeginReplied
      <3> QED BY <2>1, <2>2, <3>1 DEF OwnOnly
    <2>5. CASE reply # "started"
      <3>1. screen' = (IF reply = "imported" THEN "success" ELSE reply) /\ polling' = polling
            /\ reply \in {"error", "imported"}
        BY <1>4, <2>5 DEF BeginReplied, Reply
      <3> QED BY <2>1, <2>2, <2>3, <2>5, <3>1 DEF OwnOnly, FlowEnded
    <2> QED BY <2>4, <2>5
  <1>5. CASE CallbackTaken
    <2>1. /\ polling \in Login /\ running[polling] = "open" /\ running'[polling] = "granted"
          /\ screen' = "success" /\ screen = "device_auth"
          /\ UNCHANGED <<begins, current, polling, ticks, crossed, restarted>>
      BY <1>0, <1>5 DEF CallbackTaken, Becomes, ProxyTyped
    <2>2. current # NoLogin /\ polling # NoLogin
      BY <1>5, <2>1 DEF OwnOnly, CallbackTaken
    <2> QED BY <2>1, <2>2 DEF OwnOnly
  <1>6. CASE Tick
    <2>1. polling # NoLogin /\ ticks' = Append(ticks, <<polling, StateOf(polling)>>)
          /\ UNCHANGED <<running, screen, begins, current, polling, crossed, restarted>>
      BY <1>6 DEF Tick
    <2>2. \A i \in 1..Len(ticks') : (i \in 1..Len(ticks) /\ ticks'[i] = ticks[i])
                                    \/ ticks'[i] = <<polling, StateOf(polling)>>
      <3>1. ticks \in Seq(WizardLogin \X Ending)
        BY DEF ProxyTyped
      <3> QED BY <2>1, <3>1, AppendProperties
    <2>3. current # NoLogin /\ (~crossed /\ ~restarted => screen # "idle")
      BY <2>1 DEF OwnOnly
    <2>4. ~crossed /\ ~restarted => \A i \in 1..Len(ticks') : ticks'[i][1] = current
      BY <2>1, <2>2 DEF OwnOnly
    <2> QED BY <2>1, <2>3, <2>4 DEF OwnOnly, FlowEnded
  <1>7. ASSUME NEW i \in DOMAIN ticks, Polled(i)
        PROVE  OwnOnly'
    <2>1. ticks' = RemoveAt(ticks, i) /\ polling' = NoLogin
          /\ screen' = (IF ticks[i][2] = "completed" THEN "success" ELSE "error")
          /\ UNCHANGED <<running, begins, current, crossed, restarted>>
      BY <1>7 DEF Polled
    <2>2. i \in 1..Len(ticks) /\ ticks # <<>>
      BY DEF ProxyTyped
    <2>3. current # NoLogin
      BY <2>2 DEF OwnOnly
    <2>4. FlowEnded(ticks[i][1])
      BY <2>2 DEF Finals
    <2>5. \A k \in 1..Len(ticks') : \E j \in 1..Len(ticks) : ticks'[k] = ticks[j]
      BY <2>1, PolledFacts
    <2>6. ~crossed /\ ~restarted => ticks[i][1] = current /\ \A k \in 1..Len(ticks') : ticks'[k][1] = current
      BY <2>2, <2>5 DEF OwnOnly
    <2> QED BY <2>1, <2>3, <2>4, <2>6 DEF OwnOnly, FlowEnded
  <1>8. CASE Reset
    <2>1. screen # "idle" /\ screen' = "idle" /\ polling' = NoLogin
          /\ UNCHANGED <<begins, current, ticks, restarted>>
          /\ (~crossed' => ~crossed /\ begins = {} /\ ticks = <<>>)
      BY <1>8 DEF Reset, Resets
    <2>2. current # NoLogin
      BY <2>1 DEF OwnOnly
    <2> QED BY <2>1, <2>2 DEF OwnOnly
  <1>9. CASE Restart
    BY <1>9 DEF Restart, OwnOnly, wizard
  <1>10. CASE \/ ServerStops \/ AgStarts \/ (\E reply \in Reply : AgStarted(reply)) \/ AgRespond \/ AgAnswered
              \/ AgStreamEnds \/ AgCancel \/ AgEnds \/ UNCHANGED plVars
    <2>1. UNCHANGED wizard /\ restarted' = restarted
      BY <1>10 DEF ServerStops, AgStarts, AgStarted, AgRespond, AgAnswered, AgStreamEnds, AgCancel, AgEnds,
                   AgKills, plVars
    <2> QED BY <1>2, <2>1
  <1> QED BY <1>3, <1>4, <1>5, <1>6, <1>7, <1>8, <1>9, <1>10, ProxySteps

LEMMA ProxyStep == ProxyInv /\ [PLNext]_plVars => ProxyInv'
  BY ProxyTypedStep, TabledStep, FinalsStep, AgHeldStep, OwnOnlyStep DEF ProxyInv

LEMMA ProxyIdleKeeps ==
  ASSUME ProxyIdle, running \in [Login -> {"unused", "bad"}], agPc \in {"unused", "over"}
  PROVE  ProxyInv
  <1>1. ProxyTyped
    <2>1. table \in Seq(Login) /\ Len(table) <= StateMax /\ IsInjective(table)
      BY CapAssumption DEF ProxyIdle, IsInjective
    <2>2. ticks \in Seq(WizardLogin \X Ending)
      BY DEF ProxyIdle
    <2> QED BY <2>1, <2>2 DEF ProxyIdle, ProxyTyped
  <1>2. Tabled
    <2>1. Registered = {}
      BY DEF ProxyIdle, Registered
    <2> QED BY <2>1, FS_EmptySet DEF ProxyIdle, Tabled
  <1>3. Finals
    BY DEF ProxyIdle, Finals, Ending
  <1>4. AgHeld
    BY Apart DEF ProxyIdle, AgHeld, Alive
  <1>5. OwnOnly
    BY DEF ProxyIdle, OwnOnly
  <1> QED BY <1>1, <1>2, <1>3, <1>4, <1>5 DEF ProxyInv

LEMMA ProxyStartKeeps == Requests => ProxyInv
  <1>1. PLInit => ProxyInv
    BY ProxyIdleKeeps DEF PLInit
  <1>2. ProxyStarts => ProxyInv
    BY ProxyIdleKeeps DEF ProxyStarts
  <1> QED BY <1>1, <1>2 DEF Requests

THEOREM ProxyCorrect == Answers => []ProxyIsTrue
  <1>1. ProxyInv /\ [Handled]_<<part, vars, councilVars, plVars, psVars>> => ProxyInv'
    BY ProxyStep DEF Handled
  <1> QED BY <1>1, ProxyStartKeeps, ProxyInvTells, PTL DEF Answers

-----------------------------------------------------------------------------
\* The types of the fan-out: an account responds once, and what synthesises is a compound
\* request that has a response.

OnceEach(q) == \A i, j \in 1..Len(q) : q[i] = q[j] => i = j
Synthesising == {"resolve", "start synthesis", "pick", "models", "synth"}
RequestTypes ==
  /\ mode \in Mode /\ primary \in Kind \cup {None}
  /\ pc \in {"start", "health", "drain", "over", "failed", "closed"} \cup Synthesising
  /\ pc \in Synthesising => mode = "compound"
  /\ mode = "all" => responses = <<>> /\ synth = "none"
  /\ synth \in {"none", "streaming", "complete", "error"}
Collected ==
  /\ OnceEach(responses) /\ heard \in [Account -> Said \cup {"none"}]
  /\ pc = "resolve" => responses # <<>>
CallTypes ==
  picked \in [Account -> Account \cup {None}] /\ tokens \in [Account -> 0..MaxTokens]
FanTypes == RequestTypes /\ Collected /\ CallTypes

LEMMA FanTypesTell == IInv /\ Shown /\ FanTypes => TypeOK
  <1> SUFFICES ASSUME IInv, Shown, FanTypes PROVE TypeOK OBVIOUS
  <1>1. queue \in Seq([kind: {"delta", "error", "complete", "timeout"}, acct: Account] \cup {Sentinel})
    BY DEF IInv, Typed, Entries, Events, Said
  <1>2. /\ mode \in Mode /\ primary \in Kind \cup {None}
        /\ pc \in {"start", "health", "drain", "resolve", "start synthesis", "pick", "models",
                   "synth", "over", "failed", "closed"}
        /\ mode = "all" => responses = <<>> /\ synth = "none"
        /\ synth \in {"none", "streaming", "complete", "error"}
    BY DEF FanTypes, RequestTypes, Synthesising
  <1>3. /\ \A i, j \in 1..Len(responses) : responses[i] = responses[j] => i = j
        /\ picked \in [Account -> Account \cup {None}] /\ tokens \in [Account -> 0..MaxTokens]
        /\ heard \in [Account -> {"none", "delta", "error", "complete", "timeout"}]
    BY DEF FanTypes, Collected, CallTypes, OnceEach, Said
  <1>4. /\ responses \in Seq(Account) /\ text \in [Account -> Nat]
        /\ shown \in [Account -> {"none", "delta", "error", "complete", "timeout"}]
    BY DEF Shown, Said
  <1>5. /\ ready \in SUBSET Account /\ gathered \in BOOLEAN
        /\ task \in [Account -> {"none", "pick", "models", "chat", "over"}]
    BY DEF IInv, Typed
  <1> QED BY <1>1, <1>2, <1>3, <1>4, <1>5 DEF TypeOK

LEMMA FanTypesStart == NothingSent /\ pc \in {"start", "over"} => FanTypes
  <1> SUFFICES ASSUME NothingSent, pc \in {"start", "over"} PROVE FanTypes OBVIOUS
  <1>1. RequestTypes
    BY DEF NothingSent, RequestTypes, Synthesising
  <1>2. Collected
    <2>1. responses = <<>> /\ heard = [a \in Account |-> "none"]
      BY DEF NothingSent
    <2>2. OnceEach(responses)
      BY <2>1 DEF OnceEach
    <2> QED BY <2>1, <2>2 DEF Collected
  <1>3. CallTypes
    BY MaxTokensAssumption DEF NothingSent, CallTypes
  <1> QED BY <1>1, <1>2, <1>3 DEF FanTypes

LEMMA RequestedStep == RequestTypes /\ Collected /\ Shown /\ [Next]_vars => RequestTypes'
  <1> SUFFICES ASSUME RequestTypes, Collected, Shown, [Next]_vars PROVE RequestTypes' OBVIOUS
  <1> USE DEF RequestTypes, Synthesising, Goto
  <1>1. CASE Persist
    BY <1>1 DEF Persist, clientVars
  <1>2. CASE \E S \in SUBSET Account : Launch(S)
    BY <1>2 DEF Launch, clientVars
  <1>3. CASE NobodyReady
    BY <1>3 DEF NobodyReady
  <1>4. CASE Yield
    <2>1. responses' = responses \/ mode = "compound"
      BY <1>4 DEF Yield, Collect
    <2> QED BY <1>4, <2>1 DEF Yield
  <1>5. CASE EndOfFan
    BY <1>5 DEF EndOfFan
  <1>6. CASE Resolve
    <2>1. Head(responses) \in Account
      <3>1. responses \in Seq(Account) /\ responses # <<>>
        BY <1>6 DEF Resolve, Collected, Shown
      <3> QED BY <3>1, TailFacts
    <2>2. KindOf[Head(responses)] \in Kind
      BY <2>1 DEF Kind
    <2> QED BY <1>6, <2>2 DEF Resolve, Synth
  <1>7. CASE StartSynthesis
    BY <1>7 DEF StartSynthesis, Synth
  <1>8. CASE Provider
    BY <1>8 DEF Provider, PickPrimary, ListPrimaryModels, Synthesise, Synth
  <1>9. CASE Monitor
    BY <1>9 DEF Monitor, clientVars
  <1>10. CASE Close
    BY <1>10 DEF Close, clientVars
  <1>11. CASE \E a \in Account : Call(a) \/ TimeOut(a)
    BY <1>11 DEF Call, Pick, ListModels, Token, ChatEnds, TimeOut, clientVars
  <1>12. CASE UNCHANGED vars
    BY <1>12 DEF vars, clientVars
  <1> QED BY <1>1, <1>2, <1>3, <1>4, <1>5, <1>6, <1>7, <1>8, <1>9, <1>10, <1>11, <1>12 DEF Next, Generator

LEMMA CallTypesStep == CallTypes /\ [Next]_vars => CallTypes'
  <1> SUFFICES ASSUME CallTypes, [Next]_vars PROVE CallTypes' OBVIOUS
  <1>1. ASSUME UNCHANGED <<picked, tokens>> PROVE CallTypes'
    BY <1>1 DEF CallTypes
  <1>2. ASSUME NEW a \in Account, Pick(a) PROVE CallTypes'
    <2>1. picked' = picked \/ \E b \in Account : picked' = [picked EXCEPT ![a] = b]
      BY <1>2 DEF Pick
    <2>2. tokens' = tokens
      BY <1>2 DEF Pick
    <2> QED BY <2>1, <2>2 DEF CallTypes
  <1>3. ASSUME NEW a \in Account, Token(a) PROVE CallTypes'
    <2>1. tokens[a] \in 0..MaxTokens /\ tokens[a] < MaxTokens
      BY <1>3 DEF Token, CallTypes
    <2>2. tokens[a] + 1 \in 0..MaxTokens
      BY <2>1, MaxTokensAssumption
    <2>3. tokens' = [tokens EXCEPT ![a] = tokens[a] + 1] /\ picked' = picked
      BY <1>3 DEF Token
    <2> QED BY <2>2, <2>3 DEF CallTypes
  <1>4. CASE Generator \/ Provider \/ Monitor \/ Close \/ UNCHANGED vars
    BY <1>1, <1>4 DEF Generator, Provider, Persist, Launch, NobodyReady, Yield, EndOfFan, Resolve,
       StartSynthesis, PickPrimary, ListPrimaryModels, Synthesise, Synth, Monitor, Close, vars, fanVars
  <1>5. ASSUME NEW a \in Account, ListModels(a) \/ ChatEnds(a) \/ TimeOut(a) PROVE CallTypes'
    BY <1>1, <1>5 DEF ListModels, ChatEnds, TimeOut
  <1> QED BY <1>2, <1>3, <1>4, <1>5 DEF Next, Call

LEMMA OnceAppend ==
  ASSUME NEW q \in Seq(Account), NEW a \in Account, OnceEach(q), a \notin Elems(q)
  PROVE  OnceEach(Append(q, a))
  <1>1. Len(Append(q, a)) = Len(q) + 1 /\ Len(q) \in Nat
    OBVIOUS
  <1>2. Append(q, a)[Len(q) + 1] = a /\ \A i \in 1..Len(q) : Append(q, a)[i] = q[i] /\ q[i] # a
    BY DEF Elems
  <1>3. \A i \in 1..(Len(q) + 1) : i \in 1..Len(q) \/ i = Len(q) + 1
    BY <1>1
  <1>4. \A i, j \in 1..Len(q) : q[i] = q[j] => i = j
    BY DEF OnceEach
  <1>5. ASSUME NEW i \in 1..(Len(q) + 1), NEW j \in 1..(Len(q) + 1), Append(q, a)[i] = Append(q, a)[j]
        PROVE  i = j
    <2>1. CASE i \in 1..Len(q) /\ j \in 1..Len(q)
      BY <1>2, <1>4, <1>5, <2>1
    <2>2. CASE i = Len(q) + 1 /\ j = Len(q) + 1
      BY <2>2
    <2>3. CASE i = Len(q) + 1 /\ j \in 1..Len(q)
      BY <1>2, <1>5, <2>3
    <2>4. CASE j = Len(q) + 1 /\ i \in 1..Len(q)
      BY <1>2, <1>5, <2>4
    <2> QED BY <1>3, <2>1, <2>2, <2>3, <2>4
  <1> QED BY <1>1, <1>5 DEF OnceEach

LEMMA CollectedStep == IInv /\ Shown /\ Collected /\ [Next]_vars => Collected'
  <1> SUFFICES ASSUME IInv, Shown, Collected, [Next]_vars PROVE Collected' OBVIOUS
  <1>1. ASSUME UNCHANGED <<responses, heard>>, pc' = "resolve" => responses # <<>> PROVE Collected'
    BY <1>1 DEF Collected, OnceEach
  <1>2. CASE Yield
    <2> DEFINE e == Head(queue)
    <2>1. queue \in Seq(Entries) /\ queue # <<>> /\ e # Sentinel
      BY <1>2 DEF IInv, Typed, Yield
    <2>2. e \in Events
      BY <2>1, TailFacts, EntryFacts
    <2>3. e.acct \in Account /\ e.kind \in Said
      BY <2>2, EntryFacts
    <2>4. Collect(e) /\ heard' = [heard EXCEPT ![e.acct] = e.kind] /\ pc' = "drain"
      BY <1>2 DEF Yield
    <2> HIDE DEF e
    <2>5. heard' \in [Account -> Said \cup {"none"}]
      BY <2>3, <2>4 DEF Collected
    <2>6. responses' = responses \/ (responses' = Append(responses, e.acct) /\ ~Responding(e.acct))
      BY <2>4 DEF Collect
    <2>7. OnceEach(responses')
      <3>1. CASE responses' = responses
        BY <3>1 DEF Collected
      <3>2. CASE responses' = Append(responses, e.acct) /\ ~Responding(e.acct)
        <4>1. e.acct \notin Elems(responses) /\ responses \in Seq(Account) /\ OnceEach(responses)
          BY <3>2 DEF Responding, Elems, Shown, Collected
        <4> QED BY <2>3, <3>2, <4>1, OnceAppend
      <3> QED BY <2>6, <3>1, <3>2
    <2>8. Collected' <=> OnceEach(responses') /\ heard' \in [Account -> Said \cup {"none"}]
                         /\ (pc' = "resolve" => responses' # <<>>)
      BY DEF Collected, OnceEach
    <2> QED BY <2>4, <2>5, <2>7, <2>8
  <1>3. CASE Persist \/ NobodyReady \/ Resolve \/ StartSynthesis \/ Close \/ Monitor \/ UNCHANGED vars
             \/ \E S \in SUBSET Account : Launch(S)
    <2>1. UNCHANGED <<responses, heard>>
      BY <1>3 DEF Persist, Launch, NobodyReady, Resolve, StartSynthesis, Synth, Monitor, Close, vars, clientVars
    <2>2. pc' = "resolve" => pc = "resolve"
      BY <1>3 DEF Persist, Launch, NobodyReady, Resolve, StartSynthesis, Synth, Monitor, Close, vars, Goto
    <2> QED BY <1>1, <2>1, <2>2 DEF Collected
  <1>4. CASE EndOfFan
    <2>1. UNCHANGED <<responses, heard>>
      BY <1>4 DEF EndOfFan
    <2>2. pc' = "resolve" => responses # <<>>
      BY <1>4 DEF EndOfFan, Goto
    <2> QED BY <1>1, <2>1, <2>2
  <1>5. CASE Provider
    BY <1>1, <1>5 DEF Provider, PickPrimary, ListPrimaryModels, Synthesise, Synth, Goto
  <1>6. CASE \E a \in Account : Call(a) \/ TimeOut(a)
    <2>1. UNCHANGED <<responses, heard, pc>>
      BY <1>6 DEF Call, Pick, ListModels, Token, ChatEnds, TimeOut, clientVars
    <2> QED BY <1>1, <2>1 DEF Collected
  <1> QED BY <1>2, <1>3, <1>4, <1>5, <1>6 DEF Next, Generator

FanAll == IInv /\ Shown /\ FanTypes

LEMMA FanAllStarts == Requests => FanAll
  <1> SUFFICES ASSUME Requests PROVE FanAll OBVIOUS
  <1>1. CASE Init
    BY <1>1, InitInv, InitShown, FanTypesStart DEF Init, FanAll
  <1>2. CASE NoChat
    <2>1. NothingSent /\ pc = "over"
      BY <1>2 DEF NoChat
    <2>2. FanTypes
      BY <2>1, FanTypesStart
    <2>3. Typed
      <3>1. queue \in Seq(Entries)
        BY <2>1 DEF NothingSent
      <3> QED BY <2>1, <3>1 DEF NothingSent, Typed
    <2>4. FanInv
      BY <2>1, ElemsOfNothing DEF NothingSent, FanInv, LastOnly, Quiet, Running
    <2>5. Shown
      <3>1. responses \in Seq(Account) /\ Elems(responses) = {} /\ mode # "compound"
        BY <1>2, <2>1, ElemsOfNothing DEF NothingSent, NoChat
      <3>2. text \in [Account -> Nat] /\ shown \in [Account -> Said \cup {"none"}]
        BY <2>1 DEF NothingSent
      <3> QED BY <3>1, <3>2 DEF Shown
    <2> QED BY <2>2, <2>3, <2>4, <2>5 DEF FanAll, IInv
  <1> QED BY <1>1, <1>2 DEF Requests

LEMMA FanAllStep == FanAll /\ [Next]_vars => FanAll'
  BY NextInv, NextShown, RequestedStep, CollectedStep, CallTypesStep DEF FanAll, FanTypes

-----------------------------------------------------------------------------
\* The types of the council and of the proxy's logins.

LEMMA CouncilTypesTell == CouncilInv => CouncilTypeOK
  <1> SUFFICES ASSUME CouncilInv PROVE CouncilTypeOK OBVIOUS
  <1>1. CouncilTyped /\ CChoice = Voting(options)
    BY DEF CouncilInv, CChoice, Voting
  <1>2. rounds \in Nat
    <2>1. rounds \in 0..MaxRounds /\ MaxRounds \in Nat
      BY <1>1, Bounds DEF CouncilTyped
    <2> QED BY <2>1
  <1>3. /\ \A i \in Seat : answer[i] \in {NotAsked, Asked, Failed} \cup Voting(options)
        /\ \A i \in Seat : saw[i] = <<>> \/ saw[i] \in [Seat -> Voting(options)]
    BY <1>1 DEF CouncilTyped
  <1> QED BY <1>1, <1>2, <1>3 DEF CouncilTyped, CouncilTypeOK

LEMMA FlagsStep == Flags /\ [PLNext]_plVars => Flags'
  <1> SUFFICES ASSUME Flags, [PLNext]_plVars PROVE Flags' OBVIOUS
  <1>1. ASSUME UNCHANGED <<agProc, agDone, agCut>> PROVE Flags' <=> crossed' \in BOOLEAN /\ restarted' \in BOOLEAN
    BY <1>1 DEF Flags
  <1>2. ASSUME UNCHANGED <<crossed, restarted>>
        PROVE  Flags' <=> agProc' \in BOOLEAN /\ agDone' \in BOOLEAN /\ agCut' \in BOOLEAN
    BY <1>2 DEF Flags
  <1>3. ASSUME UNCHANGED <<crossed, restarted, agProc, agDone, agCut>> PROVE Flags'
    BY <1>3 DEF Flags
  <1>4. ASSUME NEW l \in Login,
               SignsIn(l) \/ FinishesLogin(l) \/ GivesUp(l) \/ ReapEnded(l) \/ ReapTimeout(l)
               \/ OtherBegins(l) \/ RunProxyLogin(l) \/ BeginFails(l)
               \/ \E reply \in Reply : BeginReplied(l, reply)
        PROVE  Flags'
    BY <1>3, <1>4 DEF SignsIn, FinishesLogin, GivesUp, ReapEnded, ReapTimeout, Reaped, OtherBegins, RunProxyLogin,
       BeginFails, BeginReplied, wizard, antigravity
  <1>5. CASE ServerStops \/ CallbackTaken \/ Tick \/ (\E i \in DOMAIN ticks : Polled(i)) \/ AgRespond \/ UNCHANGED plVars
    BY <1>3, <1>5 DEF ServerStops, CallbackTaken, Tick, Polled, AgRespond, wizard, antigravity, plVars
  <1>6. CASE Reset
    <2>1. crossed' = (crossed \/ begins # {} \/ ticks # <<>>) /\ restarted' = restarted
          /\ UNCHANGED <<agProc, agDone, agCut>>
      BY <1>6 DEF Reset, Resets, antigravity
    <2>2. crossed' \in BOOLEAN /\ restarted' \in BOOLEAN
      BY <2>1 DEF Flags
    <2> QED BY <1>1, <2>1, <2>2
  <1>7. CASE Restart
    <2>1. crossed' = crossed /\ restarted' = TRUE /\ UNCHANGED <<agProc, agDone, agCut>>
      BY <1>7 DEF Restart, wizard
    <2> QED BY <1>1, <2>1 DEF Flags
  <1>8. CASE AgStarts \/ AgAnswered \/ AgStreamEnds \/ AgCancel \/ AgEnds
    <2>1. UNCHANGED <<crossed, restarted, agProc>>
      BY <1>8 DEF AgStarts, AgAnswered, AgStreamEnds, AgCancel, AgEnds, AgKills, wizard
    <2>2. agDone' = agDone \/ agDone' = TRUE
      BY <1>8 DEF AgStarts, AgAnswered, AgStreamEnds, AgCancel, AgEnds, AgKills
    <2>3. agCut' = agCut \/ agCut' = (agPc = "starting")
      BY <1>8 DEF AgStarts, AgAnswered, AgStreamEnds, AgCancel, AgEnds, AgKills
    <2>4. agDone' \in BOOLEAN /\ agCut' \in BOOLEAN /\ agProc' \in BOOLEAN
      BY <2>1, <2>2, <2>3 DEF Flags
    <2> QED BY <1>2, <2>1, <2>4
  <1>9. ASSUME NEW reply \in Reply, AgStarted(reply) PROVE Flags'
    <2>1. UNCHANGED <<crossed, restarted, agCut>> /\ agProc' = (reply = "started")
          /\ agDone' = (agDone \/ reply # "started")
      BY <1>9 DEF AgStarted, wizard
    <2>2. agDone' \in BOOLEAN /\ agCut' \in BOOLEAN /\ agProc' \in BOOLEAN
      BY <2>1 DEF Flags
    <2> QED BY <1>2, <2>1, <2>2
  <1> QED BY <1>4, <1>5, <1>6, <1>7, <1>8, <1>9 DEF PLNext

LEMMA ProxyTypesTell == ProxyTyped /\ Flags => PLTypeOK
  <1> SUFFICES ASSUME ProxyTyped, Flags PROVE PLTypeOK OBVIOUS
  <1>1. /\ table \in Seq(Login) /\ Len(table) <= StateMax /\ IsInjective(table)
        /\ dirs \subseteq Login /\ reaping \subseteq Login
        /\ begins \subseteq WizardLogin /\ polling \in WizardLogin \cup {NoLogin}
        /\ running \in [Login -> {"unused", "starting", "open", "granted", "ok", "bad"}]
        /\ entryOf \in [Login -> {"unknown", "running", "completed", "failed"}]
        /\ screen \in {"idle", "running", "device_auth", "success", "error"}
        /\ agPc \in {"unused", "starting", "asked", "told", "ending", "over"}
        /\ agQueue \in {"empty", "url", "cancel"}
    BY DEF ProxyTyped, Ending
  <1>2. current \in Login \cup {NoLogin}
    BY DEF ProxyTyped, Login
  <1>3. \A i \in DOMAIN ticks : ticks[i] \in WizardLogin \X {"completed", "failed"}
    <2>1. ticks \in Seq(WizardLogin \X {"completed", "failed"})
      BY DEF ProxyTyped, Ending
    <2> QED BY <2>1
  <1> QED BY <1>1, <1>2, <1>3 DEF Flags, PLTypeOK

LEMMA FlagsStart == Requests => Flags
  BY DEF Requests, PLInit, ProxyStarts, ProxyIdle, Flags

-----------------------------------------------------------------------------
\* The adapter that reads one answer: what its table says of a line.

Ways == {"skip", "token", "done", "fail", "raise", "stop"}
Lines == DOMAIN Claude \ {"call"}

LEMMA TableOf ==
  /\ adapter = "claude" => Reads = Claude
  /\ adapter = "claude_custom" => Reads = ClaudeCustom
  /\ adapter = "openai" => Reads = OpenAI
  /\ adapter = "openai_compat" => Reads = OpenAICompat
  /\ adapter = "antigravity" => Reads = Gemini
  /\ adapter = "cliproxy" => Reads = Cliproxy
  /\ adapter = "goose" => Reads = Goose
  /\ adapter = "aider" => Reads = Aider
  <1>1. adapter = "claude" => Reads = Claude
    BY Zenon DEF Reads
  <1>2. adapter = "claude_custom" => Reads = ClaudeCustom
    BY Zenon DEF Reads
  <1>3. adapter = "openai" => Reads = OpenAI
    BY Zenon DEF Reads
  <1>4. adapter = "openai_compat" => Reads = OpenAICompat
    BY Zenon DEF Reads
  <1>5. adapter = "antigravity" => Reads = Gemini
    BY Zenon DEF Reads
  <1>6. adapter = "cliproxy" => Reads = Cliproxy
    BY Zenon DEF Reads
  <1>7. adapter = "goose" => Reads = Goose
    BY Zenon DEF Reads
  <1>8. adapter = "aider" => Reads = Aider
    BY Zenon DEF Reads
  <1> QED BY <1>1, <1>2, <1>3, <1>4, <1>5, <1>6, <1>7, <1>8

\* A table is one of eight; the CLIs' do nothing but pass on, and the proxy's never fails.
Table(t) ==
  /\ \A k \in Lines : t[k] \in Ways
  /\ t["error"] \in {"skip", "fail"} /\ \A k \in Lines : t[k] = "fail" => k = "error"
PassesOn(t) == \A k \in Lines : t[k] \in {"skip", "token"}

LEMMA LinesAre == Lines = {"text", "finish", "unknown", "empty", "error", "mark"}
  <1>1. DOMAIN Claude = {"text", "finish", "unknown", "empty", "error", "mark", "call"}
    BY DEF Claude
  <1> QED BY <1>1 DEF Lines

\* The tables, field by field.
Row(t, x, fin, un, em, er, mk) ==
  /\ t["text"] = x /\ t["finish"] = fin /\ t["unknown"] = un
  /\ t["empty"] = em /\ t["error"] = er /\ t["mark"] = mk

LEMMA Rows ==
  /\ Row(Claude, "token", "done", "raise", "skip", "skip", "skip")
  /\ Row(ClaudeCustom, "token", "done", "skip", "skip", "fail", "skip")
  /\ Row(OpenAI, "token", "done", "raise", "raise", "skip", "stop")
  /\ Row(OpenAICompat, "token", "done", "skip", "raise", "skip", "stop")
  /\ Row(Gemini, "token", "done", "skip", "skip", "skip", "skip")
  /\ Row(Cliproxy, "token", "done", "skip", "raise", "skip", "stop") /\ Cliproxy["call"] = "keep"
  /\ Row(Goose, "token", "skip", "skip", "skip", "skip", "skip")
  /\ Row(Aider, "skip", "skip", "skip", "skip", "skip", "skip")
  <1> USE DEF Row
  <1>1. Row(Claude, "token", "done", "raise", "skip", "skip", "skip")
    BY DEF Claude
  <1>2. Row(ClaudeCustom, "token", "done", "skip", "skip", "fail", "skip")
    BY DEF Claude, ClaudeCustom
  <1>3. Row(OpenAI, "token", "done", "raise", "raise", "skip", "stop")
    BY DEF Claude, OpenAI
  <1>4. Row(OpenAICompat, "token", "done", "skip", "raise", "skip", "stop")
    BY DEF Claude, OpenAI, OpenAICompat
  <1>5. Row(Gemini, "token", "done", "skip", "skip", "skip", "skip")
    BY DEF Claude, Gemini
  <1>6. Row(Cliproxy, "token", "done", "skip", "raise", "skip", "stop") /\ Cliproxy["call"] = "keep"
    BY DEF Claude, OpenAI, OpenAICompat, Cliproxy
  <1>7. Row(Goose, "token", "skip", "skip", "skip", "skip", "skip")
    BY DEF Claude, Goose
  <1>8. Row(Aider, "skip", "skip", "skip", "skip", "skip", "skip")
    BY DEF Claude, Goose, Aider
  <1> QED BY <1>1, <1>2, <1>3, <1>4, <1>5, <1>6, <1>7, <1>8

LEMMA TableFacts ==
  /\ Table(Claude) /\ Table(ClaudeCustom) /\ Table(OpenAI) /\ Table(OpenAICompat)
  /\ Table(Gemini) /\ Table(Cliproxy) /\ Table(Goose) /\ Table(Aider)
  /\ PassesOn(Goose) /\ PassesOn(Aider) /\ Cliproxy["error"] = "skip" /\ Cliproxy["call"] = "keep"
  BY Rows, LinesAre DEF Row, Table, PassesOn, Ways

LEMMA ReadsFacts ==
  ASSUME adapter \in Adapter
  PROVE  /\ Table(Reads) /\ (Cli => PassesOn(Reads))
         /\ adapter = "cliproxy" => ~Cli /\ Reads["error"] = "skip" /\ Reads["call"] = "keep"
  BY TableOf, TableFacts, AdapterAssumption DEF Cli

-----------------------------------------------------------------------------
\* _drain_tool_calls() tells every call that was begun, each once.

Rank(B, i) == Cardinality({j \in B : j <= i})

LEMMA RankFacts ==
  ASSUME NEW B, B \subseteq Nat, IsFiniteSet(B)
  PROVE  /\ \A i \in B : Rank(B, i) \in 1..Cardinality(B)
         /\ \A i, j \in B : Rank(B, i) = Rank(B, j) => i = j
         /\ \A n \in 1..Cardinality(B) : \E i \in B : Rank(B, i) = n
  <1> DEFINE Upto(i) == {j \in B : j <= i}
             N == Cardinality(B)
  <1>1. N \in Nat
    BY FS_CardinalityType
  <1>2. ASSUME NEW i \in B PROVE Rank(B, i) \in 1..N /\ IsFiniteSet(Upto(i)) /\ Rank(B, i) \in Nat
    <2>1. Upto(i) \in SUBSET B /\ i \in Upto(i)
      OBVIOUS
    <2>2. IsFiniteSet(Upto(i)) /\ Cardinality(Upto(i)) <= N
      BY <2>1, FS_Subset
    <2>3. Cardinality(Upto(i)) \in Nat /\ Cardinality(Upto(i)) # 0
      BY <2>1, <2>2, FS_CardinalityType, FS_EmptySet
    <2> HIDE DEF N
    <2> QED BY <1>1, <2>2, <2>3 DEF Rank
  <1>3. ASSUME NEW i \in B, NEW j \in B, i < j PROVE Rank(B, i) # Rank(B, j)
    <2>1. i \in Nat /\ j \in Nat
      OBVIOUS
    <2>2. Upto(i) \in SUBSET Upto(j) /\ j \in Upto(j) /\ j \notin Upto(i)
      <3>1. \A h \in B : h <= i => h <= j
        <4> TAKE h \in B
        <4>1. h \in Nat
          OBVIOUS
        <4> QED BY <1>3, <2>1, <4>1
      <3>2. j <= j /\ ~(j <= i)
        BY <1>3, <2>1
      <3> QED BY <3>1, <3>2
    <2>3. IsFiniteSet(Upto(j))
      BY <1>2
    <2>4. Cardinality(Upto(j)) = Cardinality(Upto(i)) => Upto(j) = Upto(i)
      BY <2>2, <2>3, FS_Subset
    <2> QED BY <2>2, <2>4 DEF Rank
  <1>4. ASSUME NEW i \in B, NEW j \in B, Rank(B, i) = Rank(B, j) PROVE i = j
    <2>1. i \in Nat /\ j \in Nat
      OBVIOUS
    <2>2. i < j \/ j < i \/ i = j
      BY <2>1
    <2> QED BY <1>3, <1>4, <2>2
  <1>5. \A n \in 1..N : \E i \in B : Rank(B, i) = n
    <2> DEFINE r == [i \in B |-> Rank(B, i)]
    <2>1. r \in [B -> 1..N] /\ \A i \in B : r[i] = Rank(B, i)
      BY <1>2
    <2>2. \A i, j \in B : r[i] = r[j] => i = j
      BY <1>4
    <2> HIDE DEF r
    <2>3. IsInjective(r)
      BY <2>1, <2>2 DEF IsInjective
    <2>4. r \in Injection(B, 1..N)
      BY <2>1, <2>3 DEF Injection
    <2>5. IsFiniteSet(1..N) /\ Cardinality(1..N) = N
      <3>1. 1 \in Int /\ N \in Int /\ (1 > N => N = 0) /\ N - 1 + 1 = N
        BY <1>1
      <3> HIDE DEF N
      <3> QED BY <3>1, FS_Interval
    <2>6. r \in Surjection(B, 1..N)
      BY <2>4, <2>5, FS_Injection
    <2>7. \A n \in 1..N : \E i \in B : r[i] = n
      BY <2>6 DEF Surjection
    <2> QED BY <2>1, <2>7
  <1> QED BY <1>2, <1>4, <1>5

LEMMA PendingFacts ==
  ASSUME IsFiniteSet(Begun)
  PROVE  /\ Pending \in Seq(Begun) /\ Len(Pending) \in Nat /\ DOMAIN Pending = 1..Len(Pending)
         /\ \A i \in Begun : \E n \in 1..Len(Pending) : Pending[n] = i
         /\ \A n, m \in 1..Len(Pending) : Pending[n] = Pending[m] => n = m
  <1> DEFINE N == Cardinality(Begun)
  <1>1. Begun \subseteq Nat /\ N \in Nat
    BY StreamAssumption, FS_CardinalityType DEF Begun
  <1>2. \A i \in Begun : Place(i) = Rank(Begun, i)
    BY DEF Place, Rank
  <1>3. /\ \A i \in Begun : Place(i) \in 1..N
        /\ \A i, j \in Begun : Place(i) = Place(j) => i = j
        /\ \A n \in 1..N : \E i \in Begun : Place(i) = n
    <2>1. /\ \A i \in Begun : Rank(Begun, i) \in 1..N
          /\ \A i, j \in Begun : Rank(Begun, i) = Rank(Begun, j) => i = j
          /\ \A n \in 1..N : \E i \in Begun : Rank(Begun, i) = n
      BY <1>1, RankFacts
    <2> HIDE DEF N
    <2> QED BY <1>2, <2>1
  <1>4. \A n \in 1..N : Pending[n] \in Begun /\ Place(Pending[n]) = n
    <2> TAKE n \in 1..N
    <2>1. Pending[n] = CHOOSE i \in Begun : Place(i) = n
      BY DEF Pending
    <2>2. \E i \in Begun : Place(i) = n
      BY <1>3
    <2> QED BY <2>1, <2>2
  <1>5. Pending = [n \in 1..N |-> Pending[n]]
    BY DEF Pending
  <1> HIDE DEF N
  <1>6. Pending \in Seq(Begun) /\ Len(Pending) = N /\ DOMAIN Pending = 1..N
    BY <1>1, <1>4, <1>5
  <1>7. \A i \in Begun : \E n \in 1..N : Pending[n] = i
    BY <1>3, <1>4
  <1>8. \A n, m \in 1..N : Pending[n] = Pending[m] => n = m
    BY <1>4
  <1> QED BY <1>1, <1>6, <1>7, <1>8

-----------------------------------------------------------------------------
\* What the consumer is given: notes and tool calls.

PartSeq == Seq(0..MaxLines)
Notes == [kind : {"token", "done", "error"}, parts : PartSeq]
CallEvents == [kind : {"tool_call"}, index : Index, parts : PartSeq]
Items == Notes \cup CallEvents

StreamTypes ==
  /\ adapter \in Adapter /\ phase \in {"unused", "asking", "reading", "over", "raised", "cut"}
  /\ lines \in 0..MaxLines /\ child \in {"none", "running", "dead"}
  /\ broke \in {"no", "refused", "said so", "exit status", "lost"}
Told ==
  /\ pending \in [Index -> Seq(1..MaxLines)] /\ sent \in [Index -> Seq(1..MaxLines)]
  /\ told \in Seq(Items) /\ IsFiniteSet(Begun)

LEMMA StreamTypesTell == StreamTypes /\ Told => PSTypeOK
  <1> SUFFICES ASSUME StreamTypes, Told PROVE PSTypeOK OBVIOUS
  <1>1. \A i \in Index : pending[i] \in Seq(1..MaxLines) /\ sent[i] \in Seq(1..MaxLines)
    BY DEF Told
  <1>2. \A n \in DOMAIN told : told[n].kind \in {"token", "tool_call", "done", "error"}
    <2>1. \A n \in DOMAIN told : told[n] \in Items
      <3>1. told \in Seq(Items)
        BY DEF Told
      <3> QED BY <3>1
    <2>2. \A x \in Items : x.kind \in {"token", "tool_call", "done", "error"}
      BY DEF Items, Notes, CallEvents
    <2> QED BY <2>1, <2>2
  <1> QED BY <1>1, <1>2 DEF StreamTypes, PSTypeOK

LEMMA PartsAreSmall == \A q \in Seq(1..MaxLines) : q \in PartSeq
  <1>1. 1..MaxLines \subseteq 0..MaxLines
    BY StreamAssumption
  <1>2. ASSUME NEW q \in Seq(1..MaxLines) PROVE q \in Seq(0..MaxLines)
    BY <1>1, SeqWider
  <1> QED BY <1>2 DEF PartSeq

LEMMA DrainedFacts ==
  ASSUME Told
  PROVE  /\ Drained \in Seq(Items) /\ Len(Drained) = Len(Pending)
         /\ \A n \in 1..Len(Pending) : /\ Pending[n] \in Begun /\ Drained[n].kind = "tool_call"
                                      /\ Drained[n].index = Pending[n] /\ Drained[n].parts = pending[Pending[n]]
  <1>1. Pending \in Seq(Begun) /\ Len(Pending) \in Nat /\ DOMAIN Pending = 1..Len(Pending)
    BY PendingFacts DEF Told
  <1>2. \A n \in 1..Len(Pending) : Pending[n] \in Begun
    BY <1>1
  <1>3. \A i \in Begun : i \in Index /\ pending[i] \in PartSeq
    BY PartsAreSmall DEF Told, Begun
  <1>4. /\ Drained = [n \in 1..Len(Pending) |-> Drained[n]]
        /\ \A n \in 1..Len(Pending) :
             Drained[n] = [kind |-> "tool_call", index |-> Pending[n], parts |-> pending[Pending[n]]]
    BY <1>1 DEF Drained
  <1>5. \A n \in 1..Len(Pending) : Drained[n] \in Items
    BY <1>2, <1>3, <1>4 DEF Items, CallEvents
  <1>6. Drained \in Seq(Items) /\ Len(Drained) = Len(Pending)
    BY <1>1, <1>4, <1>5
  <1> QED BY <1>2, <1>4, <1>6

\* What a step tells: nothing, a note, or the calls that were begun and more notes.
Silent == UNCHANGED <<told, pending, sent>> /\ lines' \in {lines, lines + 1}
Noted(x) == told' = Append(told, x) /\ x.kind # "done" /\ UNCHANGED <<pending, sent>> /\ lines' \in {lines, lines + 1}
Empties(t) ==
  /\ told' = (told \o Drained) \o t /\ pending' = [i \in Index |-> <<>>] /\ UNCHANGED sent
  /\ lines' \in {lines, lines + 1} /\ \A n \in 1..Len(t) : t[n].parts = <<lines'>>
Fragmented(i) ==
  /\ lines' = lines + 1 /\ UNCHANGED told /\ sent' = [sent EXCEPT ![i] = Append(@, lines')]
  /\ \/ pending' = [pending EXCEPT ![i] = Append(@, lines')]
     \/ UNCHANGED pending /\ adapter # "cliproxy"
Tells ==
  \/ Silent
  \/ \E x \in Notes : Noted(x)
  \/ \E t \in Seq(Notes) : Empties(t)
  \/ \E i \in Index : Fragmented(i)

LEMMA LineCases ==
  ASSUME adapter \in Adapter, NEW k \in Lines, Line(k)
  PROVE  \/ Reads[k] = "skip" /\ UNCHANGED <<phase, told, pending>>
         \/ Reads[k] = "token" /\ told' = Append(told, Note("token")) /\ UNCHANGED <<phase, pending>>
         \/ Reads[k] = "done" /\ told' = told \o Drained \o <<Note("done")>> /\ Drain /\ UNCHANGED phase
         \/ Reads[k] = "fail" /\ k = "error" /\ told' = Append(told, Note("error")) /\ phase' = "over" /\ UNCHANGED pending
         \/ Reads[k] = "raise" /\ Fails /\ UNCHANGED pending
         \/ Reads[k] = "stop" /\ Leaves /\ Drain /\ phase' = "over"
  <1>1. Reads[k] \in Ways /\ (Reads[k] = "fail" => k = "error")
    BY ReadsFacts DEF Table
  <1>2. CASE Reads[k] = "skip"
    <2>1. UNCHANGED <<phase, told, pending>>
      BY <1>2, Zenon DEF Line
    <2> QED BY <1>2, <2>1
  <1>3. CASE Reads[k] = "token"
    <2>1. told' = Append(told, Note("token")) /\ UNCHANGED <<phase, pending>>
      BY <1>3, Zenon DEF Line
    <2> QED BY <1>3, <2>1
  <1>4. CASE Reads[k] = "done"
    <2>1. told' = told \o Drained \o <<Note("done")>> /\ Drain /\ UNCHANGED phase
      BY <1>4, Zenon DEF Line
    <2> QED BY <1>4, <2>1
  <1>5. CASE Reads[k] = "fail"
    <2>1. told' = Append(told, Note("error")) /\ phase' = "over" /\ UNCHANGED pending
      BY <1>5, Zenon DEF Line
    <2> QED BY <1>1, <1>5, <2>1
  <1>6. CASE Reads[k] = "raise"
    <2>1. Fails /\ UNCHANGED pending
      BY <1>6, Zenon DEF Line
    <2> QED BY <1>6, <2>1
  <1>7. CASE Reads[k] = "stop"
    <2>1. Leaves /\ Drain /\ phase' = "over"
      BY <1>7, Zenon DEF Line
    <2> QED BY <1>7, <2>1
  <1> QED BY <1>1, <1>2, <1>3, <1>4, <1>5, <1>6, <1>7 DEF Ways

LEMMA LinesKept == StreamTypes /\ [PSNext]_psVars => lines' \in {lines, lines + 1} /\ lines' \in 0..MaxLines
  <1> SUFFICES ASSUME StreamTypes, [PSNext]_psVars PROVE lines' \in {lines, lines + 1} /\ lines' \in 0..MaxLines
    OBVIOUS
  <1>1. lines \in 0..MaxLines /\ MaxLines \in Nat
    BY StreamAssumption DEF StreamTypes
  <1>2. lines' = lines \/ (lines < MaxLines /\ lines' = lines + 1)
    <2>1. CASE \E k \in DOMAIN Claude \ {"call"} : Line(k)
      BY <2>1 DEF Line, Incoming
    <2>2. CASE \E i \in Index : Fragment(i)
      BY <2>2 DEF Fragment, Incoming
    <2>3. CASE Connects \/ Refuses \/ ProviderCloses \/ CliFails \/ ConnectionFails \/ ConsumerLeaves \/ UNCHANGED psVars
      BY <2>3 DEF Connects, Refuses, ProviderCloses, CliFails, Closes, ConnectionFails, ConsumerLeaves, psVars
    <2> QED BY <2>1, <2>2, <2>3 DEF PSNext
  <1> QED BY <1>1, <1>2

LEMMA NoteFacts ==
  ASSUME lines' \in 0..MaxLines, NEW k \in {"token", "done", "error"}
  PROVE  Note(k) \in Notes /\ Note(k).kind = k /\ Note(k).parts = <<lines'>>
  <1>1. <<lines'>> \in PartSeq
    BY DEF PartSeq
  <1>2. Note(k) = [kind |-> k, parts |-> <<lines'>>]
    BY DEF Note, Chunk
  <1> QED BY <1>1, <1>2 DEF Notes

LEMMA LeavesFacts ==
  ASSUME Told, Leaves, lines' \in 0..MaxLines
  PROVE  \E t \in Seq(Notes) : /\ told' = (told \o Drained) \o t
                               /\ \A n \in 1..Len(t) : t[n].parts = <<lines'>>
  <1>1. Note("token") \in Notes /\ Note("token").parts = <<lines'>> /\ Note("done") \in Notes /\ Note("done").parts = <<lines'>>
    BY NoteFacts
  <1>2. PICK a \in Seq(Notes) : /\ a = (IF adapter = "aider" THEN <<Note("token")>> ELSE <<>>)
                                /\ \A n \in 1..Len(a) : a[n].parts = <<lines'>>
    <2>1. CASE adapter = "aider"
      <3>1. <<Note("token")>> \in Seq(Notes) /\ Len(<<Note("token")>>) = 1 /\ <<Note("token")>>[1] = Note("token")
        BY <1>1
      <3>2. \A n \in 1..1 : n = 1
        OBVIOUS
      <3> QED BY <1>1, <2>1, <3>1, <3>2
    <2>2. CASE adapter # "aider"
      <3>1. <<>> \in Seq(Notes) /\ \A n \in 1..Len(<<>>) : FALSE
        OBVIOUS
      <3> QED BY <2>2, <3>1
    <2> QED BY <2>1, <2>2
  <1>3. PICK b \in Seq(Notes) : /\ b = (IF Cli THEN <<Note("done")>> ELSE <<>>)
                                /\ \A n \in 1..Len(b) : b[n].parts = <<lines'>>
    <2>1. CASE Cli
      <3>1. <<Note("done")>> \in Seq(Notes) /\ Len(<<Note("done")>>) = 1 /\ <<Note("done")>>[1] = Note("done")
        BY <1>1
      <3>2. \A n \in 1..1 : n = 1
        OBVIOUS
      <3> QED BY <1>1, <2>1, <3>1, <3>2
    <2>2. CASE ~Cli
      <3>1. <<>> \in Seq(Notes) /\ \A n \in 1..Len(<<>>) : FALSE
        OBVIOUS
      <3> QED BY <2>2, <3>1
    <2> QED BY <2>1, <2>2
  <1>4. told' = ((told \o Drained) \o a) \o b
    BY <1>2, <1>3 DEF Leaves
  <1>5. told \o Drained \in Seq(Items) /\ a \in Seq(Items) /\ b \in Seq(Items)
    <2>1. told \in Seq(Items) /\ Drained \in Seq(Items)
      BY DrainedFacts DEF Told
    <2> QED BY <2>1, Joined DEF Items
  <1>6. told' = (told \o Drained) \o (a \o b)
    BY <1>4, <1>5, ConcatAssociative
  <1>7. /\ a \o b \in Seq(Notes) /\ Len(a \o b) = Len(a) + Len(b) /\ Len(a) \in Nat /\ Len(b) \in Nat
        /\ \A i \in 1..Len(a) : (a \o b)[i] = a[i]
        /\ \A i \in 1..Len(b) : (a \o b)[Len(a) + i] = b[i]
    BY Joined
  <1>8. \A n \in 1..Len(a \o b) : (a \o b)[n].parts = <<lines'>>
    <2> TAKE n \in 1..Len(a \o b)
    <2>1. CASE n \in 1..Len(a)
      BY <1>2, <1>7, <2>1
    <2>2. CASE n \notin 1..Len(a)
      <3>1. n - Len(a) \in 1..Len(b) /\ Len(a) + (n - Len(a)) = n
        BY <1>7, <2>2
      <3> QED BY <1>3, <1>7, <3>1
    <2> QED BY <2>1, <2>2
  <1> QED BY <1>6, <1>7, <1>8

LEMMA FailsFacts ==
  ASSUME Fails, UNCHANGED <<pending, sent>>, lines' \in 0..MaxLines, lines' \in {lines, lines + 1}
  PROVE  Tells
  <1>1. CASE adapter = "cliproxy"
    <2>1. told' = Append(told, Note("error")) /\ Note("error") \in Notes /\ Note("error").kind = "error"
      BY <1>1, NoteFacts DEF Fails
    <2>2. Noted(Note("error"))
      BY <2>1 DEF Noted
    <2> QED BY <2>1, <2>2 DEF Tells
  <1>2. CASE adapter # "cliproxy"
    BY <1>2 DEF Fails, Tells, Silent
  <1> QED BY <1>1, <1>2

LEMMA EmptiesFacts ==
  ASSUME Told, Leaves, Drain, UNCHANGED sent, lines' \in 0..MaxLines, lines' \in {lines, lines + 1}
  PROVE  Tells
  <1>1. PICK t \in Seq(Notes) : told' = (told \o Drained) \o t /\ \A n \in 1..Len(t) : t[n].parts = <<lines'>>
    BY LeavesFacts
  <1>2. Empties(t)
    BY <1>1 DEF Drain, Empties
  <1> QED BY <1>2 DEF Tells

LEMMA TellsStep == StreamTypes /\ Told /\ [PSNext]_psVars => Tells
  <1> SUFFICES ASSUME StreamTypes, Told, [PSNext]_psVars PROVE Tells OBVIOUS
  <1>1. lines' \in {lines, lines + 1} /\ lines' \in 0..MaxLines
    BY LinesKept
  <1>2. CASE Connects \/ ConsumerLeaves \/ UNCHANGED psVars
    BY <1>1, <1>2 DEF Connects, ConsumerLeaves, psVars, Tells, Silent
  <1>3. CASE Refuses
    <2>1. UNCHANGED <<pending, sent>>
      BY <1>3 DEF Refuses
    <2>2. CASE told' = Append(told, Note("error"))
      <3>1. Note("error") \in Notes /\ Note("error").kind = "error"
        BY <1>1, NoteFacts
      <3>2. Noted(Note("error"))
        BY <1>1, <2>1, <2>2, <3>1 DEF Noted
      <3> QED BY <3>1, <3>2 DEF Tells
    <2>3. CASE Fails
      BY <1>1, <2>1, <2>3, FailsFacts
    <2> QED BY <1>3, <2>2, <2>3 DEF Refuses
  <1>4. CASE ConnectionFails
    <2>1. UNCHANGED <<pending, sent>> /\ Fails
      BY <1>4 DEF ConnectionFails
    <2> QED BY <1>1, <2>1, FailsFacts
  <1>5. CASE ProviderCloses \/ CliFails
    <2>1. Leaves /\ Drain /\ UNCHANGED sent
      BY <1>5 DEF ProviderCloses, CliFails, Closes
    <2> QED BY <1>1, <2>1, EmptiesFacts
  <1>6. ASSUME NEW i \in Index, Fragment(i) PROVE Tells
    <2>1. lines' = lines + 1 /\ UNCHANGED told /\ sent' = [sent EXCEPT ![i] = Append(@, lines')]
      BY <1>6 DEF Fragment, Incoming
    <2>2. pending' = [pending EXCEPT ![i] = Append(@, lines')] \/ (UNCHANGED pending /\ adapter # "cliproxy")
      BY <1>6, ReadsFacts DEF Fragment, StreamTypes
    <2>3. Fragmented(i)
      BY <2>1, <2>2 DEF Fragmented
    <2> QED BY <2>3 DEF Tells
  <1>7. ASSUME NEW k \in Lines, Line(k) PROVE Tells
    <2>1. UNCHANGED sent /\ adapter \in Adapter
      BY <1>7 DEF Line, StreamTypes
    <2>2. CASE UNCHANGED <<phase, told, pending>>
      BY <1>1, <2>1, <2>2 DEF Tells, Silent
    <2>3. ASSUME NEW w \in {"token", "error"}, told' = Append(told, Note(w)), UNCHANGED pending PROVE Tells
      <3>1. Note(w) \in Notes /\ Note(w).kind = w
        BY <1>1, NoteFacts
      <3>2. Noted(Note(w))
        BY <1>1, <2>1, <2>3, <3>1 DEF Noted
      <3> QED BY <3>1, <3>2 DEF Tells
    <2>4. CASE told' = told \o Drained \o <<Note("done")>> /\ Drain
      <3>1. PICK t : t = <<Note("done")>>
        OBVIOUS
      <3>2. Note("done") \in Notes /\ Note("done").parts = <<lines'>>
        BY <1>1, NoteFacts
      <3>3. t \in Seq(Notes) /\ \A n \in 1..Len(t) : t[n].parts = <<lines'>>
        BY <3>1, <3>2
      <3>4. Empties(t)
        BY <1>1, <2>1, <2>4, <3>1, <3>3 DEF Empties, Drain
      <3> QED BY <3>3, <3>4 DEF Tells
    <2>5. CASE Fails /\ UNCHANGED pending
      BY <1>1, <2>1, <2>5, FailsFacts
    <2>6. CASE Leaves /\ Drain
      BY <1>1, <2>1, <2>6, EmptiesFacts
    <2> QED BY <1>7, <2>1, <2>2, <2>3, <2>4, <2>5, <2>6, LineCases
  <1> QED BY <1>2, <1>3, <1>4, <1>5, <1>6, <1>7 DEF PSNext, Lines

LEMMA StreamTypesStep == StreamTypes /\ [PSNext]_psVars => StreamTypes'
  <1> SUFFICES ASSUME StreamTypes, [PSNext]_psVars PROVE StreamTypes' OBVIOUS
  <1>1. lines' \in 0..MaxLines
    BY LinesKept
  <1>2. adapter' = adapter
    BY DEF PSNext, Connects, Refuses, ProviderCloses, CliFails, Closes, ConnectionFails, ConsumerLeaves, Line,
           Fragment, psVars
  <1>3. child' \in {child, "running", "dead"}
    BY DEF PSNext, Connects, Refuses, ProviderCloses, CliFails, Closes, ConnectionFails, ConsumerLeaves, Line,
           Fragment, psVars
  <1>4. broke' \in {broke, "refused", "said so", "exit status", "lost"}
    BY DEF PSNext, Connects, Refuses, ProviderCloses, CliFails, Closes, ConnectionFails, ConsumerLeaves, Line,
           Fragment, psVars
  <1>5. phase' \in {phase, "reading", "over", "raised", "cut"}
    <2>1. ASSUME Fails PROVE phase' \in {"over", "raised"}
      BY <2>1 DEF Fails
    <2>2. ASSUME NEW k \in Lines, Line(k) PROVE phase' \in {phase, "over", "raised"}
      BY <2>1, <2>2, LineCases DEF StreamTypes
    <2>3. CASE Connects \/ Refuses \/ ProviderCloses \/ CliFails \/ ConnectionFails \/ ConsumerLeaves \/ UNCHANGED psVars
               \/ \E i \in Index : Fragment(i)
      BY <2>1, <2>3 DEF Connects, Refuses, ProviderCloses, CliFails, Closes, ConnectionFails, ConsumerLeaves,
                        Fragment, psVars
    <2> QED BY <2>2, <2>3 DEF PSNext, Lines
  <1> QED BY <1>1, <1>2, <1>3, <1>4, <1>5 DEF StreamTypes

LEMMA ToldStep == StreamTypes /\ Told /\ [PSNext]_psVars => Told'
  <1> SUFFICES ASSUME StreamTypes, Told, [PSNext]_psVars PROVE Told' OBVIOUS
  <1>1. Tells /\ lines' \in 0..MaxLines
    BY TellsStep, LinesKept
  <1>2. /\ pending \in [Index -> Seq(1..MaxLines)] /\ sent \in [Index -> Seq(1..MaxLines)]
        /\ told \in Seq(Items) /\ IsFiniteSet(Begun)
    BY DEF Told
  <1>3. Begun' = {i \in Index : pending'[i] # <<>>}
    BY DEF Begun
  <1>4. CASE Silent
    BY <1>2, <1>4 DEF Silent, Told, Begun
  <1>5. ASSUME NEW x \in Notes, Noted(x) PROVE Told'
    <2>1. told' \in Seq(Items)
      BY <1>2, <1>5 DEF Noted, Items
    <2> QED BY <1>2, <1>5, <2>1 DEF Noted, Told, Begun
  <1>6. ASSUME NEW t \in Seq(Notes), Empties(t) PROVE Told'
    <2>1. Drained \in Seq(Items) /\ t \in Seq(Items)
      BY DrainedFacts DEF Items
    <2>2. told' \in Seq(Items)
      BY <1>2, <1>6, <2>1, Joined DEF Empties
    <2>3. pending' = [i \in Index |-> <<>>] /\ sent' = sent
      BY <1>6 DEF Empties
    <2>4. Begun' = {}
      BY <1>3, <2>3
    <2>5. pending' \in [Index -> Seq(1..MaxLines)]
      BY <2>3
    <2> QED BY <1>2, <2>2, <2>3, <2>4, <2>5, FS_EmptySet DEF Told
  <1>7. ASSUME NEW i \in Index, Fragmented(i) PROVE Told'
    <2>1. lines' \in 1..MaxLines
      <3>1. PICK l \in Nat : l = lines
        <4>1. lines \in 0..MaxLines
          BY DEF StreamTypes
        <4> QED BY <4>1, StreamAssumption
      <3>2. l + 1 = lines' /\ l + 1 \in 0..MaxLines
        BY <1>1, <1>7, <3>1 DEF Fragmented
      <3>3. l + 1 \in 1..MaxLines
        BY <3>2, StreamAssumption
      <3> QED BY <3>2, <3>3
    <2>2. \A q \in Seq(1..MaxLines) : Append(q, lines') \in Seq(1..MaxLines)
      BY <2>1
    <2>3. sent' \in [Index -> Seq(1..MaxLines)] /\ pending' \in [Index -> Seq(1..MaxLines)] /\ told' = told
      BY <1>2, <1>7, <2>2 DEF Fragmented
    <2>4. IsFiniteSet(Begun')
      <3>1. \A j \in Index \ {i} : pending'[j] = pending[j]
        BY <1>2, <1>7 DEF Fragmented
      <3>2. Begun' \in SUBSET (Begun \cup {i})
        BY <1>3, <3>1 DEF Begun
      <3>3. IsFiniteSet(Begun \cup {i})
        BY <1>2, FS_AddElement
      <3> QED BY <3>2, <3>3, FS_Subset
    <2> QED BY <1>2, <2>3, <2>4 DEF Told
  <1> QED BY <1>1, <1>4, <1>5, <1>6, <1>7 DEF Tells

-----------------------------------------------------------------------------
\* A break is told, and the process of a CLI ends with its answer.

AsFailed == told # <<>> /\ Last(told).kind = "error"
BrokeInv ==
  /\ phase = "asking" => broke = "no"
  /\ phase = "reading" => broke = "no" \/ (broke = "said so" /\ Reads["error"] = "skip")
  /\ phase = "over" => broke = "no" \/ Deaf \/ AsFailed
ChildInv == child = "running" => phase \in {"reading", "cut"} /\ Cli

LEMMA AdapterKept == [PSNext]_psVars => adapter' = adapter /\ Reads' = Reads /\ Cli' = Cli
  <1> SUFFICES ASSUME [PSNext]_psVars PROVE adapter' = adapter /\ Reads' = Reads /\ Cli' = Cli OBVIOUS
  <1>1. adapter' = adapter
    BY DEF PSNext, Connects, Refuses, ProviderCloses, CliFails, Closes, ConnectionFails, ConsumerLeaves, Line,
           Fragment, psVars
  <1>2. Reads' = Reads
    BY <1>1, Zenon DEF Reads
  <1>3. Cli' = Cli
    BY <1>1 DEF Cli
  <1> QED BY <1>1, <1>2, <1>3

\* Who tells an error tells it last.
LEMMA ErrorIsLast ==
  ASSUME Told, told' = Append(told, Note("error"))
  PROVE  AsFailed'
  <1>1. PICK e : e = Note("error") /\ e.kind = "error"
    BY DEF Note, Chunk
  <1>2. PICK q : q = told /\ q \in Seq(Items)
    BY DEF Told
  <1>3. PICK r : r = Append(q, e)
    OBVIOUS
  <1>4. r # <<>> /\ r[Len(r)] = e
    <2>1. Len(q) \in Nat /\ Len(r) = Len(q) + 1 /\ r[Len(q) + 1] = e /\ r \in Seq(Items \cup {e})
      BY <1>2, <1>3
    <2>2. Len(<<>>) = 0
      OBVIOUS
    <2> QED BY <2>1, <2>2
  <1>5. told' = r
    BY <1>1, <1>2, <1>3
  <1> QED BY <1>1, <1>4, <1>5 DEF AsFailed, Last

LEMMA FailsIsTold == Told /\ Fails => (phase' = "over" /\ AsFailed' /\ adapter = "cliproxy") \/ (phase' = "raised" /\ told' = told)
  <1> SUFFICES ASSUME Told, Fails
               PROVE (phase' = "over" /\ AsFailed' /\ adapter = "cliproxy") \/ (phase' = "raised" /\ told' = told)
    OBVIOUS
  <1>1. CASE adapter = "cliproxy"
    BY <1>1, ErrorIsLast DEF Fails
  <1>2. CASE adapter # "cliproxy"
    BY <1>2 DEF Fails
  <1> QED BY <1>1, <1>2

LEMMA BrokeStep == StreamTypes /\ Told /\ BrokeInv /\ [PSNext]_psVars => BrokeInv'
  <1> SUFFICES ASSUME StreamTypes, Told, BrokeInv, [PSNext]_psVars PROVE BrokeInv' OBVIOUS
  <1>1. adapter' = adapter /\ Reads' = Reads /\ Cli' = Cli
    BY AdapterKept
  <1>2. ASSUME phase' = "over", broke' = "no" \/ Deaf' \/ AsFailed' PROVE BrokeInv'
    BY <1>2 DEF BrokeInv
  <1>3. ASSUME phase' \in {"raised", "cut"} PROVE BrokeInv'
    BY <1>3 DEF BrokeInv
  <1>4. CASE Connects
    BY <1>1, <1>4 DEF Connects, BrokeInv
  <1>5. CASE Refuses
    <2>1. CASE told' = Append(told, Note("error")) /\ phase' = "over"
      BY <1>2, <2>1, ErrorIsLast
    <2>2. CASE Fails
      BY <1>2, <1>3, <2>2, FailsIsTold
    <2> QED BY <1>5, <2>1, <2>2 DEF Refuses
  <1>6. CASE ConnectionFails
    BY <1>2, <1>3, <1>6, FailsIsTold DEF ConnectionFails
  <1>7. CASE ProviderCloses \/ CliFails
    <2>1. phase = "reading" /\ phase' = "over" /\ (broke' = broke \/ broke' = "exit status")
      BY <1>7 DEF ProviderCloses, CliFails, Closes
    <2>2. broke' = "no" \/ broke' = "exit status" \/ (broke' = "said so" /\ Reads["error"] = "skip")
      BY <2>1 DEF BrokeInv
    <2>3. broke' = "no" \/ Deaf'
      BY <1>1, <2>2 DEF Deaf
    <2> QED BY <1>2, <2>1, <2>3
  <1>8. CASE ConsumerLeaves
    BY <1>3, <1>8 DEF ConsumerLeaves
  <1>9. CASE UNCHANGED psVars
    <2>1. UNCHANGED <<phase, broke, told>>
      BY <1>9 DEF psVars
    <2> QED BY <1>1, <2>1 DEF BrokeInv, Deaf, AsFailed
  <1>10. ASSUME NEW i \in Index, Fragment(i) PROVE BrokeInv'
    <2>1. UNCHANGED <<phase, broke, told>>
      BY <1>10 DEF Fragment
    <2> QED BY <1>1, <2>1 DEF BrokeInv, Deaf, AsFailed
  <1>11. ASSUME NEW k \in Lines, Line(k) PROVE BrokeInv'
    <2>1. phase = "reading" /\ broke = "no" /\ broke' = (IF k = "error" THEN "said so" ELSE broke)
      BY <1>11 DEF Line, Incoming
    <2>2. Reads["error"] \in {"skip", "fail"} /\ adapter \in Adapter
      BY ReadsFacts DEF Table, StreamTypes
    <2>3. CASE Reads[k] \in {"skip", "token", "done"} /\ UNCHANGED phase
      <3>1. k = "error" => Reads["error"] = "skip"
        BY <2>2, <2>3
      <3>2. phase' = "reading" /\ (broke' = "no" \/ (broke' = "said so" /\ Reads["error"] = "skip"))
        BY <2>1, <2>3, <3>1
      <3> QED BY <1>1, <3>2 DEF BrokeInv
    <2>4. CASE told' = Append(told, Note("error")) /\ phase' = "over"
      BY <1>2, <2>4, ErrorIsLast
    <2>5. CASE Fails
      BY <1>2, <1>3, <2>5, FailsIsTold
    <2>6. CASE Reads[k] = "stop" /\ phase' = "over"
      <3>1. k # "error"
        BY <2>2, <2>6
      <3> QED BY <1>2, <2>1, <2>6, <3>1
    <2> QED BY <1>11, <2>2, <2>3, <2>4, <2>5, <2>6, LineCases
  <1> QED BY <1>4, <1>5, <1>6, <1>7, <1>8, <1>9, <1>10, <1>11 DEF PSNext, Lines

LEMMA ChildStep == StreamTypes /\ Told /\ ChildInv /\ [PSNext]_psVars => ChildInv'
  <1> SUFFICES ASSUME StreamTypes, Told, ChildInv, [PSNext]_psVars PROVE ChildInv' OBVIOUS
  <1>1. adapter' = adapter /\ Reads' = Reads /\ Cli' = Cli
    BY AdapterKept
  <1>2. CASE Connects
    BY <1>1, <1>2 DEF Connects, ChildInv
  <1>3. CASE Refuses \/ ConnectionFails
    BY <1>1, <1>3 DEF Refuses, ConnectionFails, ChildInv
  <1>4. CASE ProviderCloses \/ CliFails
    BY <1>1, <1>4 DEF ProviderCloses, CliFails, Closes, ChildInv
  <1>5. CASE ConsumerLeaves \/ UNCHANGED psVars \/ \E i \in Index : Fragment(i)
    BY <1>1, <1>5 DEF ConsumerLeaves, psVars, Fragment, ChildInv
  <1>6. ASSUME NEW k \in Lines, Line(k) PROVE ChildInv'
    <2>1. child' = child
      BY <1>6 DEF Line
    <2>2. Cli => Reads[k] \in {"skip", "token"}
      BY ReadsFacts DEF PassesOn, StreamTypes
    <2>3. Cli => phase' = phase
      BY <1>6, <2>2, LineCases DEF StreamTypes
    <2> QED BY <1>1, <2>1, <2>3 DEF ChildInv
  <1> QED BY <1>2, <1>3, <1>4, <1>5, <1>6 DEF PSNext, Lines

-----------------------------------------------------------------------------
\* The tool calls of an answer are told whole.

Slice(q, i) == [n \in DOMAIN q |-> IF q[n].kind = "tool_call" /\ q[n].index = i THEN q[n].parts ELSE <<>>]

LEMMA ToldOfIs == \A i : ToldOf(i) = FlattenSeq(Slice(told, i)) /\ ToldOf(i)' = FlattenSeq(Slice(told', i))
  BY DEF ToldOf, Slice

LEMMA SliceType ==
  ASSUME NEW q \in Seq(Items), NEW i
  PROVE  /\ Slice(q, i) \in Seq(PartSeq) /\ Len(Slice(q, i)) = Len(q) /\ Len(q) \in Nat
         /\ \A n \in 1..Len(q) : Slice(q, i)[n] =
              IF q[n].kind = "tool_call" /\ q[n].index = i THEN q[n].parts ELSE <<>>
  <1>1. DOMAIN q = 1..Len(q) /\ Len(q) \in Nat /\ \A n \in 1..Len(q) : q[n] \in Items
    OBVIOUS
  <1>2. \A x \in Items : x.parts \in PartSeq
    BY DEF Items, Notes, CallEvents
  <1>3. <<>> \in PartSeq
    BY DEF PartSeq
  <1>4. /\ Slice(q, i) = [n \in 1..Len(q) |-> Slice(q, i)[n]]
        /\ \A n \in 1..Len(q) : Slice(q, i)[n] =
             IF q[n].kind = "tool_call" /\ q[n].index = i THEN q[n].parts ELSE <<>>
    BY <1>1 DEF Slice
  <1>5. \A n \in 1..Len(q) : Slice(q, i)[n] \in PartSeq
    BY <1>1, <1>2, <1>3, <1>4
  <1>6. Slice(q, i) \in Seq(PartSeq) /\ Len(Slice(q, i)) = Len(q)
    BY <1>1, <1>4, <1>5
  <1> QED BY <1>1, <1>4, <1>6

LEMMA SliceConcat ==
  ASSUME NEW q \in Seq(Items), NEW r \in Seq(Items), NEW i
  PROVE  Slice(q \o r, i) = Slice(q, i) \o Slice(r, i)
  <1>1. PICK p : p = q \o r
    OBVIOUS
  <1>2. /\ p \in Seq(Items) /\ Len(p) = Len(q) + Len(r) /\ Len(q) \in Nat /\ Len(r) \in Nat
        /\ \A n \in 1..Len(q) : p[n] = q[n]
        /\ \A n \in 1..Len(r) : p[Len(q) + n] = r[n]
    BY <1>1, Joined
  <1>3. PICK a \in Seq(PartSeq), b \in Seq(PartSeq), c \in Seq(PartSeq) :
          a = Slice(q, i) /\ b = Slice(r, i) /\ c = Slice(p, i)
    BY <1>2, SliceType
  <1>4. /\ Len(a) = Len(q) /\ Len(b) = Len(r) /\ Len(c) = Len(p)
        /\ \A n \in 1..Len(q) : a[n] = IF q[n].kind = "tool_call" /\ q[n].index = i THEN q[n].parts ELSE <<>>
        /\ \A n \in 1..Len(r) : b[n] = IF r[n].kind = "tool_call" /\ r[n].index = i THEN r[n].parts ELSE <<>>
        /\ \A n \in 1..Len(p) : c[n] = IF p[n].kind = "tool_call" /\ p[n].index = i THEN p[n].parts ELSE <<>>
    BY <1>2, <1>3, SliceType
  <1>5. PICK d \in Seq(PartSeq) : /\ d = a \o b /\ Len(d) = Len(a) + Len(b)
                                  /\ \A n \in 1..Len(a) : d[n] = a[n]
                                  /\ \A n \in 1..Len(b) : d[Len(a) + n] = b[n]
    <2>1. /\ a \o b \in Seq(PartSeq) /\ Len(a \o b) = Len(a) + Len(b)
          /\ \A n \in 1..Len(a) : (a \o b)[n] = a[n]
          /\ \A n \in 1..Len(b) : (a \o b)[Len(a) + n] = b[n]
      BY Joined
    <2> QED BY <2>1
  <1>6. ASSUME NEW n \in 1..Len(p) PROVE c[n] = d[n]
    <2>1. CASE n \in 1..Len(q)
      BY <1>2, <1>4, <1>5, <2>1
    <2>2. CASE n \notin 1..Len(q)
      <3>1. PICK m \in 1..Len(r) : n = Len(q) + m
        <4>1. n - Len(q) \in 1..Len(r) /\ n = Len(q) + (n - Len(q))
          BY <1>2, <2>2
        <4> QED BY <4>1
      <3>2. p[n] = r[m] /\ d[n] = b[m]
        BY <1>2, <1>4, <1>5, <3>1
      <3> QED BY <1>4, <3>1, <3>2
    <2> QED BY <2>1, <2>2
  <1>7. Len(c) = Len(d) /\ \A n \in 1..Len(c) : c[n] = d[n]
    BY <1>2, <1>4, <1>5, <1>6
  <1>8. c = d
    BY <1>7, SeqEqual
  <1> QED BY <1>1, <1>3, <1>5, <1>8

LEMMA SliceFlat ==
  ASSUME NEW q \in Seq(Items), NEW r \in Seq(Items), NEW i
  PROVE  /\ FlattenSeq(Slice(q \o r, i)) = FlattenSeq(Slice(q, i)) \o FlattenSeq(Slice(r, i))
         /\ FlattenSeq(Slice(q, i)) \in PartSeq /\ FlattenSeq(Slice(r, i)) \in PartSeq
  <1>1. Slice(q, i) \in Seq(Seq(0..MaxLines)) /\ Slice(r, i) \in Seq(Seq(0..MaxLines))
    BY SliceType DEF PartSeq
  <1>2. FlattenSeq(Slice(q, i) \o Slice(r, i)) = FlattenSeq(Slice(q, i)) \o FlattenSeq(Slice(r, i))
    BY <1>1, FlattenConcat
  <1>3. FlattenSeq(Slice(q, i)) \in PartSeq /\ FlattenSeq(Slice(r, i)) \in PartSeq
    BY <1>1, FlattenType DEF PartSeq
  <1> QED BY <1>2, <1>3, SliceConcat

\* Notes add nothing to a call.
LEMMA SliceNotes ==
  ASSUME NEW t \in Seq(Notes), NEW i
  PROVE  FlattenSeq(Slice(t, i)) = <<>>
  <1>1. t \in Seq(Items) /\ \A n \in 1..Len(t) : t[n] \in Notes
    <2>1. Notes \subseteq Items
      BY DEF Items
    <2> QED BY <2>1, SeqWider
  <1>2. \A x \in Notes : x.kind # "tool_call"
    BY DEF Notes
  <1>3. Slice(t, i) \in Seq(Seq(0..MaxLines)) /\ \A n \in 1..Len(Slice(t, i)) : Slice(t, i)[n] = <<>>
    BY <1>1, <1>2, SliceType DEF PartSeq
  <1> QED BY <1>3, FlattenEmpties

\* What is drained of a call is what was pending.
LEMMA SliceDrained ==
  ASSUME Told, NEW i \in Index
  PROVE  FlattenSeq(Slice(Drained, i)) = pending[i]
  <1>1. PICK d \in Seq(Items) : d = Drained
    BY DrainedFacts
  <1>2. /\ Len(d) = Len(Pending)
        /\ \A n \in 1..Len(d) : Pending[n] \in Begun /\ d[n].kind = "tool_call"
                                /\ d[n].index = Pending[n] /\ d[n].parts = pending[Pending[n]]
    BY <1>1, DrainedFacts
  <1>3. Slice(d, i) \in Seq(Seq(0..MaxLines)) /\ Len(Slice(d, i)) = Len(d)
    BY SliceType DEF PartSeq
  <1>4. \A n \in 1..Len(d) : Slice(d, i)[n] = IF Pending[n] = i THEN pending[i] ELSE <<>>
    BY <1>2, SliceType
  <1>5. CASE i \in Begun
    <2>1. PICK k \in 1..Len(d) : Pending[k] = i
      BY <1>2, <1>5, PendingFacts DEF Told
    <2>2. \A n \in 1..Len(d) : n # k => Pending[n] # i
      BY <1>2, <2>1, PendingFacts DEF Told
    <2>3. k \in 1..Len(Slice(d, i)) /\ \A n \in 1..Len(Slice(d, i)) : n # k => Slice(d, i)[n] = <<>>
      BY <1>3, <1>4, <2>2
    <2>4. FlattenSeq(Slice(d, i)) = Slice(d, i)[k]
      BY <1>3, <2>3, FlattenOnly
    <2> QED BY <1>1, <1>4, <2>1, <2>4
  <1>6. CASE i \notin Begun
    <2>1. pending[i] = <<>> /\ \A n \in 1..Len(Slice(d, i)) : Slice(d, i)[n] = <<>>
      BY <1>2, <1>3, <1>4, <1>6 DEF Begun
    <2> QED BY <1>1, <1>3, <2>1, FlattenEmpties
  <1> QED BY <1>5, <1>6

\* Every fragment is in a call that was told or in one that is pending, in its order ...
Whole == adapter = "cliproxy" => \A i \in Index : sent[i] = ToldOf(i) \o pending[i]
\* ... and in none that is pending when the stream ends ...
Drains ==
  adapter = "cliproxy" /\ phase = "over" /\ broke \in {"no", "said so"} /\ ~AsFailed =>
    \A i \in Index : pending[i] = <<>>
\* ... or its turn does.
InTime(n) ==
  told[n].parts[1] \in 0..lines /\
    \A i \in Index : \A f \in Range(sent[i]) : f < told[n].parts[1] => f \in ToldBefore(n)
Before == adapter = "cliproxy" => \A n \in DOMAIN told : told[n].kind = "done" => InTime(n)

LEMMA WholeStep == StreamTypes /\ Told /\ Whole /\ [PSNext]_psVars => Whole'
  <1> SUFFICES ASSUME StreamTypes, Told, Whole, [PSNext]_psVars, adapter' = "cliproxy", NEW i \in Index
               PROVE  sent'[i] = ToldOf(i)' \o pending'[i]
    BY DEF Whole
  <1>1. adapter = "cliproxy" /\ sent[i] = ToldOf(i) \o pending[i]
    BY AdapterKept DEF Whole
  <1>2. Tells /\ Told' /\ lines' \in 0..MaxLines
    BY TellsStep, ToldStep, LinesKept
  <1>3. /\ pending[i] \in Seq(1..MaxLines) /\ sent[i] \in Seq(1..MaxLines) /\ told \in Seq(Items)
        /\ pending \in [Index -> Seq(1..MaxLines)] /\ sent \in [Index -> Seq(1..MaxLines)]
    BY DEF Told
  <1>4. /\ ToldOf(i) = FlattenSeq(Slice(told, i)) /\ ToldOf(i)' = FlattenSeq(Slice(told', i))
        /\ pending[i] \in PartSeq /\ ToldOf(i) \in PartSeq
    BY <1>3, ToldOfIs, SliceFlat, PartsAreSmall
  <1>5. CASE Silent
    <2>1. ToldOf(i)' = ToldOf(i)
      BY <1>4, <1>5 DEF Silent
    <2> QED BY <1>1, <1>5, <2>1 DEF Silent
  <1>6. ASSUME NEW x \in Notes, Noted(x) PROVE sent'[i] = ToldOf(i)' \o pending'[i]
    <2>1. PICK t \in Seq(Notes) : t = <<x>>
      <3>1. <<x>> \in Seq(Notes)
        OBVIOUS
      <3> QED BY <3>1
    <2>2. t \in Seq(Items) /\ told' = told \o t
      <3>1. told' = Append(told, x) /\ Notes \subseteq Items
        BY <1>6 DEF Noted, Items
      <3>2. Append(told, x) = told \o <<x>>
        BY <1>3 DEF Items
      <3> QED BY <2>1, <3>1, <3>2, SeqWider
    <2>3. ToldOf(i)' = ToldOf(i) \o <<>>
      <3>1. FlattenSeq(Slice(told \o t, i)) = FlattenSeq(Slice(told, i)) \o FlattenSeq(Slice(t, i))
        BY <1>3, <2>2, SliceFlat
      <3>2. FlattenSeq(Slice(t, i)) = <<>>
        BY SliceNotes
      <3> QED BY <1>4, <2>2, <3>1, <3>2
    <2>4. ToldOf(i) \o <<>> = ToldOf(i)
      BY <1>4 DEF PartSeq
    <2> QED BY <1>1, <1>6, <2>3, <2>4 DEF Noted
  <1>7. ASSUME NEW t \in Seq(Notes), Empties(t) PROVE sent'[i] = ToldOf(i)' \o pending'[i]
    <2>1. Drained \in Seq(Items) /\ t \in Seq(Items)
      <3>1. Notes \subseteq Items
        BY DEF Items
      <3> QED BY <3>1, DrainedFacts, SeqWider
    <2>2. told \o Drained \in Seq(Items)
      BY <1>3, <2>1, Joined
    <2>3. ToldOf(i)' = FlattenSeq(Slice(told \o Drained, i)) \o <<>>
      <3>1. PICK q \in Seq(Items) : q = told \o Drained
        BY <2>2
      <3>2. FlattenSeq(Slice(q \o t, i)) = FlattenSeq(Slice(q, i)) \o FlattenSeq(Slice(t, i))
        BY <2>1, SliceFlat
      <3>3. FlattenSeq(Slice(t, i)) = <<>>
        BY SliceNotes
      <3>4. told' = q \o t
        BY <1>7, <3>1 DEF Empties
      <3> QED BY <1>4, <3>1, <3>2, <3>3, <3>4
    <2>4. FlattenSeq(Slice(told \o Drained, i)) = ToldOf(i) \o pending[i]
      BY <1>3, <1>4, <2>1, SliceFlat, SliceDrained
    <2>5. (ToldOf(i) \o pending[i]) \o <<>> = ToldOf(i) \o pending[i]
      BY <1>1, <1>3
    <2>6. pending'[i] = <<>> /\ sent'[i] = sent[i]
      BY <1>7 DEF Empties
    <2> QED BY <1>1, <2>3, <2>4, <2>5, <2>6
  <1>8. ASSUME NEW j \in Index, Fragmented(j) PROVE sent'[i] = ToldOf(i)' \o pending'[i]
    <2>1. ToldOf(i)' = ToldOf(i)
      BY <1>4, <1>8 DEF Fragmented
    <2>2. pending' = [pending EXCEPT ![j] = Append(@, lines')] /\ sent' = [sent EXCEPT ![j] = Append(@, lines')]
      BY <1>1, <1>8 DEF Fragmented
    <2>3. CASE j # i
      BY <1>1, <1>3, <2>1, <2>2, <2>3
    <2>4. CASE j = i
      <3>1. pending'[i] = Append(pending[i], lines') /\ sent'[i] = Append(sent[i], lines')
        BY <1>3, <2>2, <2>4
      <3>2. PICK a \in Seq(0..MaxLines), b \in Seq(0..MaxLines), l \in 0..MaxLines :
              a = ToldOf(i) /\ b = pending[i] /\ l = lines'
        BY <1>2, <1>4 DEF PartSeq
      <3>3. a \o Append(b, l) = Append(a \o b, l)
        BY ConcatAppend
      <3> QED BY <1>1, <2>1, <3>1, <3>2, <3>3
    <2> QED BY <2>3, <2>4
  <1> QED BY <1>2, <1>5, <1>6, <1>7, <1>8 DEF Tells

LEMMA DrainsStep == StreamTypes /\ Told /\ Drains /\ [PSNext]_psVars => Drains'
  <1> SUFFICES ASSUME StreamTypes, Told, Drains, [PSNext]_psVars, adapter' = "cliproxy", phase' = "over",
                      broke' \in {"no", "said so"}, ~AsFailed'
               PROVE  \A i \in Index : pending'[i] = <<>>
    BY DEF Drains
  <1>1. adapter = "cliproxy" /\ ~Cli
    BY AdapterKept, ReadsFacts DEF StreamTypes
  <1>2. ASSUME Fails PROVE FALSE
    BY <1>2, FailsIsTold, <1>1 DEF Fails
  <1>3. ASSUME Drain PROVE \A i \in Index : pending'[i] = <<>>
    BY <1>3 DEF Drain
  <1>4. CASE Connects \/ ConsumerLeaves \/ Refuses \/ ConnectionFails
    BY <1>4 DEF Connects, ConsumerLeaves, Refuses, ConnectionFails
  <1>5. CASE ProviderCloses \/ CliFails
    BY <1>3, <1>5 DEF ProviderCloses, CliFails, Closes
  <1>6. CASE UNCHANGED psVars
    BY <1>1, <1>6 DEF psVars, Drains, AsFailed
  <1>7. CASE \E i \in Index : Fragment(i)
    BY <1>7 DEF Fragment, Incoming
  <1>8. ASSUME NEW k \in Lines, Line(k) PROVE \A i \in Index : pending'[i] = <<>>
    <2>1. phase = "reading" /\ adapter \in Adapter
      BY <1>8 DEF Line, Incoming, StreamTypes
    <2>2. told' # Append(told, Note("error"))
      BY ErrorIsLast
    <2> QED BY <1>2, <1>3, <1>8, <2>1, <2>2, LineCases
  <1> QED BY <1>4, <1>5, <1>6, <1>7, <1>8 DEF PSNext, Lines

\* What was told stays told, and in time: what comes later has a later number.
LEMMA InTimeStays ==
  ASSUME Told, lines \in Nat, lines' \in {lines, lines + 1}, NEW r \in Seq(Items), told' = told \o r,
         \A i \in Index : \A f \in Range(sent'[i]) : f \in Range(sent[i]) \/ f = lines + 1,
         NEW n \in 1..Len(told), InTime(n)
  PROVE  InTime(n)' /\ told'[n] = told[n]
  <1>1. /\ told \in Seq(Items) /\ Len(told) \in Nat
        /\ \A m \in 1..Len(told) : told'[m] = told[m]
    BY Joined DEF Told
  <1>2. \A m \in 1..n : m \in 1..Len(told)
    BY <1>1
  <1>3. ToldBefore(n)' = ToldBefore(n)
    <2>1. {m \in 1..n : told'[m].kind = "tool_call"} = {m \in 1..n : told[m].kind = "tool_call"}
      BY <1>1, <1>2
    <2>2. \A m \in 1..n : told'[m].parts = told[m].parts
      BY <1>1, <1>2
    <2> QED BY <2>1, <2>2 DEF ToldBefore
  <1>4. told'[n] = told[n]
    BY <1>1
  <1>5. PICK p \in Nat : p = told[n].parts[1] /\ p <= lines
    BY DEF InTime
  <1>6. p \in 0..lines'
    BY <1>5
  <1>7. ASSUME NEW i \in Index, NEW f \in Range(sent'[i]), f < p PROVE f \in ToldBefore(n)
    <2>1. f # lines + 1
      BY <1>5, <1>7
    <2>2. f \in Range(sent[i])
      BY <2>1
    <2> QED BY <1>5, <1>7, <2>2 DEF InTime
  <1> QED BY <1>3, <1>4, <1>5, <1>6, <1>7 DEF InTime

\* The calls of a sequence of events.
CallsOf(q) == UNION {Range(q[m].parts) : m \in {m \in 1..Len(q) : q[m].kind = "tool_call"}}

LEMMA SliceRange ==
  ASSUME NEW q \in Seq(Items), NEW i
  PROVE  Range(FlattenSeq(Slice(q, i))) \subseteq CallsOf(q)
  <1>1. /\ Slice(q, i) \in Seq(Seq(0..MaxLines)) /\ Len(Slice(q, i)) = Len(q) /\ Len(q) \in Nat
        /\ \A n \in 1..Len(q) : Slice(q, i)[n] =
             IF q[n].kind = "tool_call" /\ q[n].index = i THEN q[n].parts ELSE <<>>
    BY SliceType DEF PartSeq
  <1>2. ASSUME NEW n \in 1..Len(q) PROVE Slice(q, i)[n] \in Seq(CallsOf(q))
    <2>1. CASE q[n].kind = "tool_call" /\ q[n].index = i
      <3>1. PICK p \in Seq(0..MaxLines) : p = q[n].parts /\ p = Slice(q, i)[n]
        BY <1>1, <2>1
      <3>2. Range(p) \subseteq CallsOf(q)
        BY <2>1, <3>1 DEF CallsOf
      <3>3. p \in Seq(Range(p))
        BY DEF Range
      <3> QED BY <3>1, <3>2, <3>3, SeqWider
    <2>2. CASE ~(q[n].kind = "tool_call" /\ q[n].index = i)
      <3>1. Slice(q, i)[n] = <<>>
        BY <1>1, <2>2
      <3>2. <<>> \in Seq(CallsOf(q))
        OBVIOUS
      <3> QED BY <3>1, <3>2
    <2> QED BY <2>1, <2>2
  <1>3. FlattenSeq(Slice(q, i)) \in Seq(CallsOf(q))
    BY <1>1, <1>2, FlattenMembers
  <1>4. ASSUME NEW s \in Seq(CallsOf(q)) PROVE Range(s) \subseteq CallsOf(q)
    BY DEF Range
  <1> QED BY <1>3, <1>4

LEMMA DrainedFlat ==
  ASSUME Told, NEW i \in Index
  PROVE  FlattenSeq(Slice(told \o Drained, i)) = ToldOf(i) \o pending[i]
  <1>1. PICK q \in Seq(Items), d \in Seq(Items) : q = told /\ d = Drained
    BY DrainedFacts DEF Told
  <1>2. FlattenSeq(Slice(q \o d, i)) = FlattenSeq(Slice(q, i)) \o FlattenSeq(Slice(d, i))
    BY SliceFlat
  <1>3. FlattenSeq(Slice(d, i)) = pending[i] /\ ToldOf(i) = FlattenSeq(Slice(q, i))
    BY <1>1, SliceDrained, ToldOfIs
  <1> QED BY <1>1, <1>2, <1>3

\* A turn ends behind everything that was sent for it.
LEMMA EndsInTime ==
  ASSUME Told, Whole, adapter = "cliproxy", lines \in Nat, lines' \in {lines, lines + 1},
         NEW t \in Seq(Notes), Empties(t), NEW n \in 1..Len(told'), n \notin 1..Len(told), told'[n].kind = "done"
  PROVE  InTime(n)'
  <1>1. told \in Seq(Items) /\ Drained \in Seq(Items) /\ t \in Seq(Items) /\ Len(told) \in Nat
    <2>1. Notes \subseteq Items
      BY DEF Items
    <2>2. told \in Seq(Items) /\ Drained \in Seq(Items)
      BY DrainedFacts DEF Told
    <2> QED BY <2>1, <2>2, SeqWider
  <1>2. PICK d \in Seq(Items) : d = Drained /\ \A m \in 1..Len(d) : d[m].kind = "tool_call"
    BY <1>1, DrainedFacts
  <1>3. PICK q \in Seq(Items) : /\ q = told \o d /\ Len(q) = Len(told) + Len(d) /\ Len(d) \in Nat
                                /\ \A m \in 1..Len(d) : q[Len(told) + m] = d[m]
    <2>1. /\ told \o d \in Seq(Items) /\ Len(told \o d) = Len(told) + Len(d) /\ Len(d) \in Nat
          /\ \A m \in 1..Len(d) : (told \o d)[Len(told) + m] = d[m]
      BY <1>1, Joined
    <2> QED BY <2>1
  <1>4. /\ told' = q \o t /\ Len(told') = Len(q) + Len(t) /\ Len(q) \in Nat /\ Len(t) \in Nat
        /\ \A m \in 1..Len(q) : told'[m] = q[m]
        /\ \A m \in 1..Len(t) : told'[Len(q) + m] = t[m]
    BY <1>1, <1>2, <1>3, Joined DEF Empties
  <1>5. n \notin 1..Len(q)
    <2>1. ASSUME n \in 1..Len(q) PROVE FALSE
      <3>1. PICK m \in 1..Len(d) : n = Len(told) + m
        <4>1. n - Len(told) \in 1..Len(d) /\ n = Len(told) + (n - Len(told))
          BY <1>1, <1>3, <2>1
        <4> QED BY <4>1
      <3>2. told'[n] = d[m]
        BY <1>3, <1>4, <2>1, <3>1
      <3> QED BY <1>2, <3>2
    <2> QED BY <2>1
  <1>6. PICK m \in 1..Len(t) : n = Len(q) + m
    <2>1. n - Len(q) \in 1..Len(t) /\ n = Len(q) + (n - Len(q))
      BY <1>4, <1>5
    <2> QED BY <2>1
  <1>7. told'[n].parts = <<lines'>>
    BY <1>4, <1>6 DEF Empties
  <1>8. CallsOf(q) \subseteq ToldBefore(n)'
    <2>1. \A k \in 1..Len(q) : k \in 1..n /\ told'[k] = q[k]
      BY <1>4, <1>6
    <2> QED BY <2>1 DEF CallsOf, ToldBefore
  <1>9. ASSUME NEW i \in Index, NEW f \in Range(sent'[i]) PROVE f \in ToldBefore(n)'
    <2>1. sent'[i] = ToldOf(i) \o pending[i]
      BY DEF Whole, Empties
    <2>2. FlattenSeq(Slice(q, i)) = ToldOf(i) \o pending[i]
      BY <1>2, <1>3, DrainedFlat
    <2>3. f \in CallsOf(q)
      BY <2>1, <2>2, SliceRange
    <2> QED BY <1>8, <2>3
  <1>10. told'[n].parts[1] = lines' /\ lines' \in 0..lines'
    <2>1. lines' \in Nat
      OBVIOUS
    <2> QED BY <1>7, <2>1
  <1> QED BY <1>9, <1>10 DEF InTime

LEMMA BeforeStep == StreamTypes /\ Told /\ Whole /\ Before /\ [PSNext]_psVars => Before'
  <1> SUFFICES ASSUME StreamTypes, Told, Whole, Before, [PSNext]_psVars, adapter' = "cliproxy",
                      NEW n \in DOMAIN told', told'[n].kind = "done"
               PROVE  InTime(n)'
    BY DEF Before
  <1>1. adapter = "cliproxy"
    BY AdapterKept
  <1>2. Tells /\ Told' /\ lines' \in {lines, lines + 1} /\ lines \in Nat
    <2>1. lines \in 0..MaxLines
      BY DEF StreamTypes
    <2> QED BY <2>1, StreamAssumption, TellsStep, ToldStep, LinesKept
  <1>3. told \in Seq(Items) /\ DOMAIN told = 1..Len(told) /\ Len(told) \in Nat /\ n \in 1..Len(told')
    <2>1. told \in Seq(Items) /\ told' \in Seq(Items)
      BY <1>2 DEF Told
    <2> QED BY <2>1
  <1>4. ASSUME NEW r \in Seq(Items), told' = told \o r, n \in 1..Len(told),
               \A i \in Index : \A f \in Range(sent'[i]) : f \in Range(sent[i]) \/ f = lines + 1
        PROVE  InTime(n)'
    <2>1. told'[n] = told[n]
      BY <1>3, <1>4, Joined
    <2>2. InTime(n)
      BY <1>1, <1>3, <1>4, <2>1 DEF Before
    <2> QED BY <1>2, <1>4, <2>2, InTimeStays
  <1>5. told = told \o <<>> /\ <<>> \in Seq(Items)
    BY <1>3
  <1>6. CASE Silent
    <2>1. n \in 1..Len(told) /\ told' = told \o <<>> /\ sent' = sent
      BY <1>3, <1>5, <1>6 DEF Silent
    <2> QED BY <1>4, <1>5, <2>1
  <1>7. ASSUME NEW i \in Index, Fragmented(i) PROVE InTime(n)'
    <2>1. n \in 1..Len(told) /\ told' = told \o <<>>
      BY <1>3, <1>5, <1>7 DEF Fragmented
    <2>2. ASSUME NEW j \in Index, NEW f \in Range(sent'[j]) PROVE f \in Range(sent[j]) \/ f = lines + 1
      <3>1. sent[j] \in Seq(1..MaxLines) /\ sent \in [Index -> Seq(1..MaxLines)]
        BY DEF Told
      <3>2. sent'[j] = sent[j] \/ sent'[j] = Append(sent[j], lines + 1)
        BY <1>7, <3>1 DEF Fragmented
      <3>3. ASSUME NEW s \in Seq(1..MaxLines), NEW l PROVE Range(Append(s, l)) \subseteq Range(s) \cup {l}
        BY DEF Range
      <3> QED BY <3>1, <3>2, <3>3
    <2> QED BY <1>4, <1>5, <2>1, <2>2
  <1>8. ASSUME NEW x \in Notes, Noted(x) PROVE InTime(n)'
    <2>1. <<x>> \in Seq(Items) /\ told' = told \o <<x>> /\ sent' = sent
      <3>1. x \in Items
        BY DEF Items
      <3>2. Append(told, x) = told \o <<x>> /\ <<x>> \in Seq(Items)
        BY <1>3, <3>1
      <3> QED BY <1>8, <3>2 DEF Noted
    <2>2. n \in 1..Len(told)
      <3>1. Len(told') = Len(told) + 1 /\ told'[Len(told) + 1] = x /\ x.kind # "done"
        BY <1>3, <1>8 DEF Noted
      <3>2. n # Len(told) + 1
        BY <3>1
      <3> QED BY <1>3, <3>1, <3>2
    <2> QED BY <1>4, <2>1, <2>2
  <1>9. ASSUME NEW t \in Seq(Notes), Empties(t) PROVE InTime(n)'
    <2>1. CASE n \notin 1..Len(told)
      BY <1>1, <1>2, <1>3, <1>9, <2>1, EndsInTime
    <2>2. CASE n \in 1..Len(told)
      <3>1. Drained \in Seq(Items) /\ t \in Seq(Items)
        <4>1. Notes \subseteq Items
          BY DEF Items
        <4> QED BY <4>1, DrainedFacts, SeqWider
      <3>2. told' = told \o (Drained \o t) /\ Drained \o t \in Seq(Items)
        <4>1. (told \o Drained) \o t = told \o (Drained \o t)
          BY <1>3, <3>1, ConcatAssociative
        <4>2. Drained \o t \in Seq(Items)
          BY <3>1, Joined
        <4>3. told' = (told \o Drained) \o t
          BY <1>9 DEF Empties
        <4> QED BY <4>1, <4>2, <4>3
      <3>3. sent' = sent
        BY <1>9 DEF Empties
      <3> QED BY <1>4, <2>2, <3>2, <3>3
    <2> QED BY <2>1, <2>2
  <1> QED BY <1>2, <1>6, <1>7, <1>8, <1>9 DEF Tells

StreamInv == StreamTypes /\ Told /\ BrokeInv /\ ChildInv /\ Whole /\ Drains /\ Before

LEMMA StreamStarts == NothingHeard /\ adapter \in Adapter /\ phase \in {"unused", "asking"} => StreamInv
  <1> SUFFICES ASSUME NothingHeard, adapter \in Adapter, phase \in {"unused", "asking"} PROVE StreamInv
    OBVIOUS
  <1>1. /\ lines = 0 /\ pending = [i \in Index |-> <<>>] /\ told = <<>> /\ child = "none"
        /\ sent = [i \in Index |-> <<>>] /\ broke = "no"
    BY DEF NothingHeard
  <1>2. StreamTypes
    BY <1>1, StreamAssumption DEF StreamTypes
  <1>3. Told
    <2>1. Begun = {}
      BY <1>1 DEF Begun
    <2>2. told \in Seq(Items)
      BY <1>1
    <2>3. pending \in [Index -> Seq(1..MaxLines)] /\ sent \in [Index -> Seq(1..MaxLines)]
      BY <1>1
    <2> QED BY <2>1, <2>2, <2>3, FS_EmptySet DEF Told
  <1>4. BrokeInv /\ ChildInv
    BY <1>1 DEF BrokeInv, ChildInv
  <1>5. Whole
    <2>1. \A i \in Index : ToldOf(i) = <<>>
      <3> TAKE i \in Index
      <3>1. <<>> \in Seq(Notes)
        OBVIOUS
      <3> QED BY <1>1, <3>1, SliceNotes, ToldOfIs
    <2> QED BY <1>1, <2>1 DEF Whole
  <1>6. Drains
    BY <1>1 DEF Drains
  <1>7. Before
    <2>1. DOMAIN told = {}
      BY <1>1
    <2> QED BY <2>1 DEF Before
  <1> QED BY <1>2, <1>3, <1>4, <1>5, <1>6, <1>7 DEF StreamInv

LEMMA StreamStep == StreamInv /\ [PSNext]_psVars => StreamInv'
  BY StreamTypesStep, ToldStep, BrokeStep, ChildStep, WholeStep, DrainsStep, BeforeStep DEF StreamInv

LEMMA StreamTells == StreamInv => ToldInFull
  <1> SUFFICES ASSUME StreamInv PROVE ToldInFull OBVIOUS
  <1>1. CallsAreWhole
    BY DEF StreamInv, Whole, Drains, Before, InTime, AsFailed, CallsAreWhole
  <1>2. BrokenIsTold
    BY DEF StreamInv, BrokeInv, AsFailed, BrokenIsTold
  <1>3. CliHasEnded
    BY DEF StreamInv, ChildInv, CliHasEnded
  <1> QED BY <1>1, <1>2, <1>3 DEF ToldInFull

LEMMA StreamStartsWell == Requests => StreamInv
  <1>1. ASSUME NoAdapter PROVE StreamInv
    <2>1. adapter \in Adapter
      BY <1>1, RestAssumption DEF NoAdapter
    <2> QED BY <1>1, <2>1, StreamStarts DEF NoAdapter
  <1>2. PSInit => StreamInv
    BY StreamStarts DEF PSInit
  <1> QED BY <1>1, <1>2 DEF Requests

\* What chat() of an adapter tells is what its provider has said: ...
THEOREM ToldCorrect == Answers => []ToldInFull
  <1>1. StreamInv /\ [Handled]_<<part, vars, councilVars, plVars, psVars>> => StreamInv'
    <2>1. UNCHANGED <<part, vars, councilVars, plVars, psVars>> => UNCHANGED psVars
      OBVIOUS
    <2> QED BY <2>1, StreamStep DEF Handled
  <1> QED BY <1>1, StreamStartsWell, StreamStep, StreamTells, PTL DEF Answers

-----------------------------------------------------------------------------
\* The types of all that answers a request.

AnswersInv == FanAll /\ CouncilInv /\ ProxyTyped /\ Flags /\ StreamInv

LEMMA AnswersStart == Requests => AnswersInv
  <1>1. Requests => CouncilInv
    BY NothingAskedTyped DEF Requests, NoCouncil, CouncilInit
  <1> QED BY <1>1, FanAllStarts, ProxyStartKeeps, FlagsStart, StreamStartsWell DEF AnswersInv, ProxyInv

LEMMA AnswersStep == AnswersInv /\ [Handled]_<<part, vars, councilVars, plVars, psVars>> => AnswersInv'
  <1> SUFFICES ASSUME AnswersInv, [Handled]_<<part, vars, councilVars, plVars, psVars>> PROVE AnswersInv'
    OBVIOUS
  <1>1. [Next]_vars /\ [CouncilNext]_councilVars /\ [PLNext]_plVars /\ [PSNext]_psVars
    BY DEF Handled
  <1>2. FanAll' /\ CouncilInv'
    BY <1>1, FanAllStep, CouncilStep DEF AnswersInv
  <1>3. ProxyTyped' /\ Flags'
    BY <1>1, ProxyTypedStep, FlagsStep DEF AnswersInv
  <1>4. StreamInv'
    BY <1>1, StreamStep DEF AnswersInv
  <1> QED BY <1>2, <1>3, <1>4 DEF AnswersInv

\* Every variable of what answers a request keeps its type; an account responds once, no login
\* is twice in the proxy's table, and the table stays below its cap.
THEOREM AnswersTyped == Answers => []TypesOK
  <1>1. AnswersInv => TypesOK
    BY FanTypesTell, CouncilTypesTell, ProxyTypesTell, StreamTypesTell DEF AnswersInv, FanAll, StreamInv, TypesOK
  <1> QED BY <1>1, AnswersStart, AnswersStep, PTL DEF Answers
=============================================================================
