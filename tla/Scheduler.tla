------------------------------ MODULE Scheduler -----------------------------
(***************************************************************************)
(* AccountScheduler (services/scheduler.py) and the usage repository it    *)
(* works on (adapters/storage_sqlite/storage.py), over the shared          *)
(* connection: set_chain, pick, mark_rate_limited and poll_all, and the    *)
(* deletion of accounts.                                                   *)
(*                                                                         *)
(* A step is one statement on the connection (the reads of get_health are  *)
(* one step), the answer of a usage request, or a restart.  Calls of       *)
(* different requests interleave at every step.                            *)
(*                                                                         *)
(* Abstracted: the usage windows of an account are the fullest one; a rate *)
(* limit lasts one tick of the clock; which accounts are ready and hold a  *)
(* credential is given at the start (module Accounts is about that).       *)
(***************************************************************************)
EXTENDS SharedConnection, Integers, Sequences, FiniteSets

CONSTANTS
  Task,       \* coroutines in flight at the same time
  Backend,    \* account ids, numbers in creation order
  Kind,
  KindOf,     \* kind of each account
  None,       \* no kind asked for, no account
  MaxLevel,   \* usage goes from 0 to MaxLevel
  Threshold,  \* RATE_LIMIT_THRESHOLD on that scale
  Chains,     \* sequences of entries that are passed to set_chain
  MaxTime,    \* bound: ticks of the clock
  MaxCalls    \* bound: calls begun and restarts

Level == 0..MaxLevel
Priority == 1..Cardinality(Backend)
Entry == [b: Backend, p: Priority]

ASSUME BackendAssumption == Backend \subseteq Nat /\ IsFiniteSet(Backend) /\ None \notin Backend
ASSUME KindAssumption == KindOf \in [Backend -> Kind] /\ None \notin Kind
ASSUME ChainsAssumption == Chains \subseteq Seq(Entry)
ASSUME LevelAssumption == MaxLevel \in Nat /\ Threshold \in Nat
ASSUME BoundAssumption == MaxTime \in Nat /\ MaxCalls \in Nat

\* The tables: rows and their flags, the chain (0: not in it), rate_limited_until
\* (0: never limited), usage.
Db == [live: SUBSET Backend, ready: SUBSET Backend, creds: SUBSET Backend,
       chain: [Backend -> Priority \cup {0}], until: [Backend -> 0..(MaxTime + 1)],
       usage: [Backend -> Level]]

\* A call in flight; todo holds the chain entries left, or the accounts to poll.
Idle == [op |-> "none", pc |-> "idle", b |-> None, kind |-> None, todo |-> {},
         kept |-> {}, best |-> None, score |-> MaxLevel + 1,
         entries |-> <<>>, asked |-> <<>>, level |-> 0, now |-> 0]

VARIABLES
  call,     \* what each coroutine is doing
  time,     \* the clock
  calls,    \* calls and restarts so far (bounds the run)
  current,  \* history: the chain of the last set_chain that returned
  alone     \* history: no call has begun while another was in flight

vars == <<connVars, call, time, calls, current, alone>>

NoChain == [b \in Backend |-> 0]

Init ==
  /\ \E r \in SUBSET Backend, c \in SUBSET Backend :
       disk = [live |-> Backend, ready |-> r, creds |-> c, chain |-> NoChain,
               until |-> [b \in Backend |-> 0], usage |-> [b \in Backend |-> 0]]
  /\ view = disk /\ tx = FALSE
  /\ call = [t \in Task |-> Idle] /\ time = 0 /\ calls = 0 /\ current = NoChain
  /\ alone = TRUE

At(t, o, p) == call[t].op = o /\ call[t].pc = p
Goto(t, c) == call' = [call EXCEPT ![t] = c]
Move(t, p) == Goto(t, [call[t] EXCEPT !.pc = p])
Return(t) == Goto(t, Idle)
NewCall(t) ==
  /\ call[t] = Idle
  /\ calls < MaxCalls /\ calls' = calls + 1
  /\ alone' = (alone /\ \A u \in Task : call[u] = Idle)

-----------------------------------------------------------------------------
\* Mutated forms.
BugBeats(u, score) == u <= score            \* Beats: a tie goes to the lower priority
BugSetBegin(t) ==                           \* SetBegin: no transaction
  At(t, "set", "begin") /\ Move(t, "delete") /\ UNCHANGED <<connVars, time, calls, current, alone>>
BugSetRollback(t) ==                        \* SetRollback: exception handler missing
  At(t, "set", "rollback") /\ Return(t) /\ UNCHANGED <<connVars, time, calls, current, alone>>
BugWithout(b) ==                            \* Without: no cascade to the chain
  [view EXCEPT !.live = @ \ {b}, !.ready = @ \ {b}, !.creds = @ \ {b}, !.until[b] = 0, !.usage[b] = 0]

-----------------------------------------------------------------------------
\* set_chain: replace the chain in a transaction of its own.

BeginSet(t, es) ==
  /\ NewCall(t)
  /\ Goto(t, [Idle EXCEPT !.op = "set", !.pc = "begin", !.entries = es, !.asked = es])
  /\ UNCHANGED <<connVars, time, current>>

\* BEGIN IMMEDIATE, outside of the try: raises when a transaction is open.
SetBegin(t) ==
  /\ At(t, "set", "begin")
  /\ \/ CanBegin /\ BeginTx /\ Move(t, "delete")
     \/ ~CanBegin /\ Return(t) /\ UNCHANGED connVars
  /\ UNCHANGED <<time, calls, current, alone>>

SetDelete(t) ==
  /\ At(t, "set", "delete")
  /\ Execute([view EXCEPT !.chain = NoChain])
  /\ Move(t, "insert")
  /\ UNCHANGED <<time, calls, current, alone>>

\* The primary key and the foreign key of fallback_chains.
Insertable(e) == e.b \in view.live /\ view.chain[e.b] = 0

SetInsert(t) ==
  /\ At(t, "set", "insert")
  /\ LET es == call[t].entries IN
     \/ es = <<>> /\ Move(t, "commit") /\ UNCHANGED connVars
     \/ /\ es # <<>> /\ Insertable(Head(es))
        /\ Execute([view EXCEPT !.chain[Head(es).b] = Head(es).p])
        /\ Goto(t, [call[t] EXCEPT !.entries = Tail(es)])
     \/ es # <<>> /\ ~Insertable(Head(es)) /\ Move(t, "rollback") /\ UNCHANGED connVars
  /\ UNCHANGED <<time, calls, current, alone>>

\* except BaseException: ROLLBACK, which itself raises without a transaction.
SetRollback(t) ==
  /\ At(t, "set", "rollback")
  /\ IF CanEnd THEN RollbackTx ELSE UNCHANGED connVars
  /\ Return(t)
  /\ UNCHANGED <<time, calls, current, alone>>

\* COMMIT: the call returns only when a transaction was open.
ChainOf(es) ==
  [b \in Backend |-> IF \E i \in DOMAIN es : es[i].b = b
                     THEN es[CHOOSE i \in DOMAIN es : es[i].b = b].p ELSE 0]
SetCommit(t) ==
  /\ At(t, "set", "commit")
  /\ \/ CanEnd /\ Commit /\ current' = ChainOf(call[t].asked)
     \/ ~CanEnd /\ UNCHANGED <<connVars, current>>
  /\ Return(t) /\ UNCHANGED <<time, calls, alone>>

-----------------------------------------------------------------------------
\* Writes of one statement: mark_rate_limited, and the deletion of an account
\* with everything that refers to it.

Without(b) ==
  [view EXCEPT !.live = @ \ {b}, !.ready = @ \ {b}, !.creds = @ \ {b},
               !.until[b] = 0, !.usage[b] = 0, !.chain[b] = 0]

BeginWrite(t, o, b) ==
  /\ NewCall(t)
  /\ Goto(t, [Idle EXCEPT !.op = o, !.pc = "execute", !.b = b])
  /\ UNCHANGED <<connVars, time, current>>

WriteExecute(t) ==
  /\ call[t].pc = "execute"
  /\ LET b == call[t].b IN
     \/ call[t].op = "delete" /\ Execute(Without(b))
     \/ call[t].op = "limit" /\ Execute(IF b \in view.live THEN [view EXCEPT !.until[b] = time + 1] ELSE view)
  /\ Move(t, "commit")
  /\ UNCHANGED <<time, calls, current, alone>>

WriteCommit(t) ==
  /\ At(t, "delete", "commit") \/ At(t, "limit", "commit")
  /\ Commit /\ Return(t)
  /\ UNCHANGED <<time, calls, current, alone>>

Tick ==
  /\ time < MaxTime /\ time' = time + 1
  /\ UNCHANGED <<connVars, call, calls, current, alone>>

-----------------------------------------------------------------------------
\* pick: the usable account with the least usage.

BeginPick(t, k) ==
  /\ NewCall(t)
  /\ Goto(t, [Idle EXCEPT !.op = "pick", !.pc = "chain", !.kind = k])
  /\ UNCHANGED <<connVars, time, current>>

ChainEntries(d) == {[b |-> b, p |-> d.chain[b]] : b \in {x \in Backend : d.chain[x] # 0}}
OfKind(b, k) == k = None \/ KindOf[b] = k

\* The loop starts; all its rate limits are compared to the time at which it did.
Loop(t, c, es) == Goto(t, [c EXCEPT !.pc = "health", !.todo = es, !.kept = {}, !.now = time])

\* get_chain: with a kind the entries are filtered one by one; an empty chain
\* counts as never configured.
PickChain(t) ==
  LET es == ChainEntries(view) IN
  /\ At(t, "pick", "chain")
  /\ \/ es = {} /\ Move(t, "list")
     \/ es # {} /\ call[t].kind = None /\ Loop(t, call[t], es)
     \/ es # {} /\ call[t].kind # None /\ Goto(t, [call[t] EXCEPT !.pc = "filter", !.todo = es])
  /\ UNCHANGED <<connVars, time, calls, current, alone>>

\* get() of an entry's account: one that is gone or of another kind is left out.
PickFilter(t, e) ==
  /\ At(t, "pick", "filter")
  /\ LET c == call[t]
         left == c.todo \ {e}
         kept == IF e.b \in view.live /\ OfKind(e.b, c.kind) THEN c.kept \cup {e} ELSE c.kept IN
     /\ e \in c.todo /\ \A x \in c.todo : e.p <= x.p
     /\ IF left # {} THEN Goto(t, [c EXCEPT !.todo = left, !.kept = kept]) ELSE Loop(t, c, kept)
  /\ UNCHANGED <<connVars, time, calls, current, alone>>

\* Without a chain: every ready account, in the order of the list.
PickList(t) ==
  /\ At(t, "pick", "list")
  /\ Loop(t, call[t], {[b |-> b, p |-> b] : b \in {x \in view.ready : OfKind(x, call[t].kind)}})
  /\ UNCHANGED <<connVars, time, calls, current, alone>>

\* The next account: usable when it is neither rate limited nor above the
\* threshold, better when it has less usage than the best so far.
Free(b, now) == view.until[b] <= now /\ view.usage[b] < Threshold
Beats(u, score) == u < score

\* get_health raises BackendNotFound when the account is gone.
PickHealth(t, e) ==
  /\ At(t, "pick", "health") /\ e \in call[t].todo
  /\ \A x \in call[t].todo : e.p <= x.p
  /\ LET c == [call[t] EXCEPT !.todo = @ \ {e}] IN
     IF e.b \notin view.live THEN Return(t)
     ELSE Goto(t, IF Free(e.b, c.now) /\ Beats(view.usage[e.b], c.score)
                  THEN [c EXCEPT !.best = e.b, !.score = view.usage[e.b]] ELSE c)
  /\ UNCHANGED <<connVars, time, calls, current, alone>>

\* The best account's row and credential: gone raises, no credential gives None.
PickCredential(t) ==
  /\ At(t, "pick", "health") /\ call[t].todo = {}
  /\ IF call[t].best \in view.live /\ call[t].best \in view.creds
     THEN Move(t, "use") ELSE Return(t)
  /\ UNCHANGED <<connVars, time, calls, current, alone>>

\* mark_used: last_used_at, which nothing here reads; then its commit.
PickUse(t) ==
  /\ At(t, "pick", "use")
  /\ Execute(view) /\ Move(t, "used")
  /\ UNCHANGED <<time, calls, current, alone>>

PickReturn(t) ==
  /\ At(t, "pick", "used")
  /\ Commit /\ Return(t)
  /\ UNCHANGED <<time, calls, current, alone>>

-----------------------------------------------------------------------------
\* poll_all: the usage of each ready account, one after the other.

BeginPoll(t) ==
  /\ NewCall(t)
  /\ Goto(t, [Idle EXCEPT !.op = "poll", !.pc = "next", !.todo = view.ready])
  /\ UNCHANGED <<connVars, time, current>>

\* Without a credential the account is skipped; a usage request that fails is
\* logged; one that returns no window only stamps the account.
PollNext(t, b) ==
  /\ At(t, "poll", "next") /\ b \in call[t].todo
  /\ \A x \in call[t].todo : b <= x
  /\ LET c == [call[t] EXCEPT !.todo = @ \ {b}, !.b = b] IN
     \/ Goto(t, c)
     \/ b \in view.creds /\ Goto(t, [c EXCEPT !.pc = "stamp"])
     \/ b \in view.creds /\ \E u \in Level : Goto(t, [c EXCEPT !.pc = "snapshot", !.level = u])
  /\ UNCHANGED <<connVars, time, calls, current, alone>>

\* put_snapshot: fails on the foreign key when the account is gone; the failure
\* stays with that account.
PollSnapshot(t) ==
  /\ At(t, "poll", "snapshot")
  /\ LET b == call[t].b IN
     \/ b \in view.live /\ Execute([view EXCEPT !.usage[b] = call[t].level]) /\ Move(t, "stored")
     \/ b \notin view.live /\ Move(t, "next") /\ UNCHANGED connVars
  /\ UNCHANGED <<time, calls, current, alone>>

\* The commits of put_snapshot and of set_last_polled.
PollCommit(t) ==
  /\ \/ At(t, "poll", "stored") /\ Move(t, "stamp")
     \/ At(t, "poll", "stamp") /\ Move(t, "next")
  /\ Commit
  /\ UNCHANGED <<time, calls, current, alone>>

PollEnd(t) ==
  /\ At(t, "poll", "next") /\ call[t].todo = {}
  /\ Return(t)
  /\ UNCHANGED <<connVars, time, calls, current, alone>>

Restart ==
  /\ calls < MaxCalls /\ calls' = calls + 1
  /\ LoseConnection /\ call' = [t \in Task |-> Idle]
  /\ UNCHANGED <<time, current, alone>>

-----------------------------------------------------------------------------
Step(t) ==
  \/ SetBegin(t) \/ SetDelete(t) \/ SetInsert(t) \/ SetRollback(t) \/ SetCommit(t)
  \/ WriteExecute(t) \/ WriteCommit(t)
  \/ PickChain(t) \/ PickList(t) \/ PickCredential(t) \/ PickUse(t) \/ PickReturn(t)
  \/ \E e \in call[t].todo : PickFilter(t, e) \/ PickHealth(t, e)
  \/ \E b \in call[t].todo : PollNext(t, b)
  \/ PollSnapshot(t) \/ PollCommit(t) \/ PollEnd(t)

Next ==
  \/ \E t \in Task :
       \/ Step(t)
       \/ \E es \in Chains : BeginSet(t, es)
       \/ \E b \in Backend : BeginWrite(t, "limit", b) \/ BeginWrite(t, "delete", b)
       \/ \E k \in Kind \cup {None} : BeginPick(t, k)
       \/ BeginPoll(t)
  \/ Tick
  \/ Restart

Spec == Init /\ [][Next]_vars

-----------------------------------------------------------------------------
\* Properties.

\* The chain never names an account that does not exist, before or after a
\* rollback, and rate limit, usage and credential go with their account.
ChainReferential ==
  \A d \in {disk, view} :
    /\ \A b \in Backend : d.chain[b] # 0 => b \in d.live
    /\ \A b \in Backend : d.until[b] # 0 \/ d.usage[b] # 0 => b \in d.live
    /\ d.ready \cup d.creds \subseteq d.live

\* Every variable has its type, nothing is uncommitted outside a transaction, and what
\* the tables refer to exists.
TypeOK ==
  /\ ChainReferential
  /\ disk \in Db /\ view \in Db /\ tx \in BOOLEAN /\ Settled
  /\ calls \in 0..MaxCalls /\ time \in 0..MaxTime /\ alone \in BOOLEAN
  /\ \A t \in Task : call[t].score \in 0..(MaxLevel + 1) /\ call[t].best \in Backend \cup {None}

\* A transaction is open only while a set_chain runs that will end one: whoever
\* commits or rolls back whose statements, no call leaves the connection inside a
\* transaction, where every later write would be lost by a restart.
NoTxLeaked == tx => \E t \in Task : call[t].op = "set" /\ call[t].pc # "begin"

\* As long as calls do not overlap, set_chain is all or nothing, also when an entry
\* is refused or the server stops half way.
ChainAtomic ==
  alone => \A b \in Backend : disk.chain[b] = IF b \in disk.live THEN current[b] ELSE 0

\* What pick should look at, and the account it should find.
Candidates(d, k) ==
  {e \in IF ChainEntries(d) # {} THEN ChainEntries(d) ELSE {[b |-> b, p |-> b] : b \in d.ready} :
     OfKind(e.b, k)}
Usable(d, k, now) ==
  {e \in Candidates(d, k) : d.until[e.b] <= now /\ d.usage[e.b] < Threshold}
Precedes(d, e, x) == d.usage[e.b] < d.usage[x.b] \/ (d.usage[e.b] = d.usage[x.b] /\ e.p <= x.p)

\* When calls do not overlap, pick ends its loop at the usable account
\* with the least usage, the higher priority at a tie, and with none only when no
\* account is usable.
PickIsBest ==
  \A t \in Task : alone /\ At(t, "pick", "health") /\ call[t].todo = {} =>
    LET usable == Usable(view, call[t].kind, call[t].now) IN
    IF usable = {} THEN call[t].best = None
    ELSE \E e \in usable : e.b = call[t].best /\ \A x \in usable : Precedes(view, e, x)

\* "In autocommit each write lands and releases immediately": when the deletion of
\* an account is acknowledged it is on disk.
DeleteLands == [][\A t \in Task : WriteCommit(t) /\ call[t].op = "delete" =>
                    call[t].b \notin disk'.live]_vars
=============================================================================
