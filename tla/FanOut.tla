------------------------------- MODULE FanOut -------------------------------
(***************************************************************************)
(* One chat request in mode "all" or "compound": send_all asks every READY *)
(* account in a task of its own, merges the answers in a queue and ends at *)
(* the sentinel of its monitor; send_compound then has one account         *)
(* synthesise what came back (services/chat_orchestrator.py).  The client  *)
(* is dispatch() of useSmartChat.ts.                                       *)
(*                                                                         *)
(* A provider may hang, fail or end at any point.  A client that leaves    *)
(* has the generator cancelled or closed where it waits; its tasks and its *)
(* monitor are not cancelled with it.                                      *)
(*                                                                         *)
(* Abstracted: texts, except how many deltas came; what the scheduler      *)
(* picks (some account of the kind, or none: see module Scheduler); the    *)
(* numbering of the events on their way (see module ChatSend).             *)
(***************************************************************************)
EXTENDS Naturals, Sequences

CONSTANTS
  Account,
  KindOf,      \* kind of each account
  Mode,        \* modes a request may have: "all", "compound"
  MaxTokens,   \* bound: deltas of one answer
  None
ASSUME NoneAssumption == None \notin Account
ASSUME MaxTokensAssumption == MaxTokens \in Nat
ASSUME KindAssumption == DOMAIN KindOf = Account

Kind == {KindOf[a] : a \in Account}
ASSUME NoKindAssumption == None \notin Kind

VARIABLES
  mode,        \* mode of the request
  primary,     \* its backend_kind, None when it names none; then the one resolved
  pc,          \* where the generator is
  ready,       \* accounts it asks
  task,        \* where the task of each is
  picked,      \* whose credential that task uses
  tokens,      \* deltas it has put
  queue,       \* events between the tasks and the generator; None is the sentinel
  gathered,    \* the sentinel was read
  responses,   \* accounts with a text, in the order of their first delta
  shown,       \* client: card of each account
  text,        \* client: deltas it shows for each
  synth,       \* client: state of the synthesis
  heard        \* history: last event yielded for each account

fanVars == <<ready, task, picked, tokens, queue>>
clientVars == <<shown, text, synth, heard>>
vars == <<mode, primary, pc, fanVars, gathered, responses, clientVars>>

Event(k, a) == [kind |-> k, acct |-> a]
Sentinel == Event("none", None)
Final == {"complete", "timeout"}     \* nothing may follow these
Running(a) == task[a] \in {"pick", "models", "chat"}

NothingSent ==
  /\ mode \in Mode /\ primary \in Kind \cup {None}
  /\ ready = {} /\ task = [a \in Account |-> "none"] /\ picked = [a \in Account |-> None]
  /\ tokens = [a \in Account |-> 0] /\ queue = <<>> /\ gathered = FALSE /\ responses = <<>>
  /\ shown = [a \in Account |-> "none"] /\ text = [a \in Account |-> 0] /\ synth = "none"
  /\ heard = [a \in Account |-> "none"]

Init == NothingSent /\ pc = "start"

Goto(p) == pc' = p

-----------------------------------------------------------------------------
\* send_all up to the first queue.get().

\* append_message and get_messages: they raise when the session was deleted.
Persist ==
  /\ pc = "start" /\ \E p \in {"health", "failed"} : Goto(p)
  /\ UNCHANGED <<mode, primary, fanVars, gathered, responses, clientVars>>

\* get_all_health and one task for each account; it raises when one was deleted
\* while the others were read.
Launch(S) ==
  /\ pc = "health" /\ S # {} /\ ready' = S
  /\ task' = [a \in Account |-> IF a \in S THEN "pick" ELSE "none"]
  /\ Goto("drain")
  /\ UNCHANGED <<mode, primary, picked, tokens, queue, gathered, responses, clientVars>>

\* "No backends available": send_compound finds no responses then.
NobodyReady ==
  /\ pc = "health"
  /\ \/ Goto("failed") /\ UNCHANGED synth
     \/ Goto("over") /\ synth' = IF mode = "compound" THEN "error" ELSE synth
  /\ UNCHANGED <<mode, primary, fanVars, gathered, responses, shown, text, heard>>

-----------------------------------------------------------------------------
\* _call_one, under wait_for.

BugExpires(a) == Running(a) /\ pc = "drain"             \* Expires: the timers go with the stream

\* The task of a ends.
Stop(a) == [task EXCEPT ![a] = "over"]

\* It ends with an event.
Tell(a, k) == Append(queue, Event(k, a))
LastEvent(a, k) == task' = Stop(a) /\ queue' = Tell(a, k)

\* The scheduler picks by kind, so it may choose another account of that kind.
Pick(a) ==
  /\ task[a] = "pick"
  /\ \/ /\ \E b \in Account : KindOf[b] = KindOf[a] /\ picked' = [picked EXCEPT ![a] = b]
        /\ task' = [task EXCEPT ![a] = "models"] /\ UNCHANGED queue
     \/ LastEvent(a, "error") /\ UNCHANGED picked
  /\ UNCHANGED <<mode, primary, pc, ready, tokens, gathered, responses, clientVars>>

ListModels(a) ==
  /\ task[a] = "models"
  /\ \/ task' = [task EXCEPT ![a] = "chat"] /\ UNCHANGED queue
     \/ LastEvent(a, "error")
  /\ UNCHANGED <<mode, primary, pc, ready, picked, tokens, gathered, responses, clientVars>>

\* The provider streams: a token, an error event after which it may go on, or an
\* exception; at its end the account is complete, whatever it reported before.
Token(a) ==
  /\ task[a] = "chat" /\ tokens[a] < MaxTokens
  /\ \E k \in {"delta", "error"} : queue' = Append(queue, Event(k, a))
  /\ tokens' = [tokens EXCEPT ![a] = @ + 1]
  /\ UNCHANGED <<mode, primary, pc, ready, task, picked, gathered, responses, clientVars>>

ChatEnds(a) ==
  /\ task[a] = "chat" /\ \E k \in {"complete", "error"} : LastEvent(a, k)
  /\ UNCHANGED <<mode, primary, pc, ready, picked, tokens, gathered, responses, clientVars>>

\* 30 seconds: the call is cancelled where it waits.
Expires(a) == Running(a)
TimeOut(a) ==
  /\ Expires(a) /\ LastEvent(a, "timeout")
  /\ UNCHANGED <<mode, primary, pc, ready, picked, tokens, gathered, responses, clientVars>>

AllOver == \A a \in ready : task[a] = "over"

\* _monitor puts the sentinel after the last task.
Monitor ==
  /\ ready # {} /\ AllOver /\ ~gathered
  /\ \A i \in 1..Len(queue) : queue[i] # Sentinel
  /\ queue' = Append(queue, Sentinel)
  /\ UNCHANGED <<mode, primary, pc, ready, task, picked, tokens, gathered, responses, clientVars>>

-----------------------------------------------------------------------------
\* The loop over the queue, and what its events do to send_compound and the client.

BugCounts(k) == k \in {"delta", "error"}                \* Counts: an error is a response
BugRest == <<>>                                         \* Rest: all are taken, one is used

\* Events whose text send_compound collects.
Counts(k) == k = "delta"

Responding(a) == \E i \in 1..Len(responses) : responses[i] = a

Collect(e) ==
  responses' = IF mode = "compound" /\ Counts(e.kind) /\ ~Responding(e.acct)
               THEN Append(responses, e.acct) ELSE responses

\* dispatch(): completion alone opens no card, and clears an error.
Card(e) ==
  IF e.kind = "complete" /\ shown[e.acct] = "none" THEN shown
  ELSE [shown EXCEPT ![e.acct] = e.kind]

Rest == Tail(queue)

Yield ==
  /\ pc = "drain" /\ queue # <<>> /\ Head(queue) # Sentinel
  /\ LET e == Head(queue) IN
     /\ queue' = Rest /\ Collect(e)
     /\ shown' = Card(e) /\ heard' = [heard EXCEPT ![e.acct] = e.kind]
     /\ text' = IF e.kind = "delta" THEN [text EXCEPT ![e.acct] = @ + 1] ELSE text
  /\ UNCHANGED <<mode, primary, pc, ready, task, picked, tokens, gathered, synth>>

\* The sentinel: the fan-out is over.
EndOfFan ==
  /\ pc = "drain" /\ queue # <<>> /\ Head(queue) = Sentinel
  /\ queue' = Tail(queue) /\ gathered' = TRUE
  /\ IF mode = "compound" /\ responses # <<>>
     THEN Goto(IF primary = None THEN "resolve" ELSE "start synthesis") /\ UNCHANGED synth
     ELSE Goto("over") /\ synth' = IF mode = "compound" THEN "error" ELSE synth
  /\ UNCHANGED <<mode, primary, ready, task, picked, tokens, responses, shown, text, heard>>

-----------------------------------------------------------------------------
\* The rest of send_compound.

Synth(p, s) ==
  /\ Goto(p) /\ synth' = s
  /\ UNCHANGED <<mode, fanVars, gathered, responses, shown, text, heard>>

\* The kind of the first responder, whose row may be gone.
Resolve ==
  /\ pc = "resolve"
  /\ \/ primary' = KindOf[Head(responses)] /\ Synth("start synthesis", synth)
     \/ Synth("over", "error") /\ UNCHANGED primary

StartSynthesis == pc = "start synthesis" /\ Synth("pick", "streaming") /\ UNCHANGED primary

\* pick() and _impl_for() may raise: nothing catches that before chat_send does.
PickPrimary ==
  /\ pc = "pick" /\ UNCHANGED primary
  /\ \/ Synth("models", synth) \/ Synth("over", "error") \/ Synth("failed", synth)

ListPrimaryModels ==
  /\ pc = "models" /\ UNCHANGED primary
  /\ \/ Synth("synth", synth) \/ Synth("over", "error")

\* An error event of the provider is not looked at.
Synthesise ==
  /\ pc = "synth" /\ UNCHANGED primary
  /\ \/ Synth("over", "complete") \/ Synth("over", "error")

\* The client is gone.
Close ==
  /\ pc \notin {"over", "failed", "closed"} /\ Goto("closed")
  /\ UNCHANGED <<mode, primary, fanVars, gathered, responses, clientVars>>

-----------------------------------------------------------------------------
Generator ==
  \/ Persist \/ (\E S \in SUBSET Account : Launch(S)) \/ NobodyReady
  \/ Yield \/ EndOfFan \/ Resolve \/ StartSynthesis
Provider == PickPrimary \/ ListPrimaryModels \/ Synthesise
Call(a) == Pick(a) \/ ListModels(a) \/ Token(a) \/ ChatEnds(a)

Next ==
  \/ Generator \/ Provider \/ Monitor \/ Close
  \/ \E a \in Account : Call(a) \/ TimeOut(a)

Spec == Init /\ [][Next]_vars

\* The event loop runs what can run and fires timers.  Providers may hang.
Fairness == WF_vars(Generator) /\ WF_vars(Monitor) /\ \A a \in Account : WF_vars(TimeOut(a))
FairSpec == Spec /\ Fairness

-----------------------------------------------------------------------------
\* Every variable has its type; an account responds once, and only
\* compound requests are synthesised.
TypeOK ==
  /\ mode \in Mode /\ primary \in Kind \cup {None}
  /\ pc \in {"start", "health", "drain", "resolve", "start synthesis", "pick", "models",
             "synth", "over", "failed", "closed"}
  /\ ready \in SUBSET Account /\ gathered \in BOOLEAN
  /\ task \in [Account -> {"none", "pick", "models", "chat", "over"}]
  /\ picked \in [Account -> Account \cup {None}] /\ tokens \in [Account -> 0..MaxTokens]
  /\ queue \in Seq([kind: {"delta", "error", "complete", "timeout"}, acct: Account]
                   \cup {Sentinel})
  /\ responses \in Seq(Account)
  /\ \A i, j \in 1..Len(responses) : responses[i] = responses[j] => i = j
  /\ mode = "all" => responses = <<>> /\ synth = "none"
  /\ shown \in [Account -> {"none", "delta", "error", "complete", "timeout"}]
  /\ heard \in [Account -> {"none", "delta", "error", "complete", "timeout"}]
  /\ text \in [Account -> Nat] /\ synth \in {"none", "streaming", "complete", "error"}

\* The sentinel comes last: when it is in the queue, or read, no task can put
\* anything behind it (_monitor, "sentinel MUST be sent no matter what").
SentinelIsLast ==
  /\ \A i \in 1..Len(queue) : queue[i] = Sentinel => i = Len(queue)
  /\ gathered \/ (\E i \in 1..Len(queue) : queue[i] = Sentinel) =>
       \A a \in ready : ~Running(a)
  /\ gathered => queue = <<>>

\* The backends the synthesis is made from are those whose text the client shows.
CollectedIsShown ==
  mode = "compound" =>
    \A a \in Account : Responding(a) <=> shown[a] # "none" /\ text[a] > 0

\* The fan-out ends, hanging providers notwithstanding, and so do the calls that a
\* departed client leaves behind.
FanOutEnds == pc = "drain" ~> pc # "drain"
CallsEnd == (\E a \in Account : Running(a)) ~> (\A a \in Account : ~Running(a))

\* What the fan-out promises; an account is settled once its task has ended and its
\* last event was yielded; where nobody could be asked nothing ends.
Queued(a) == \E i \in 1..Len(queue) : queue[i].acct = a
Settled == {a \in ready : task[a] = "over" /\ ~Queued(a)}
Ended == IF gathered THEN "all"
         ELSE IF pc \in {"failed", "closed"} THEN "abandoned" ELSE "no"
Promise == INSTANCE Gather WITH asked <- ready, settled <- Settled, ended <- Ended
KeepsPromise == Promise!Spec
=============================================================================
