--------------------------- MODULE SchedulerProofs --------------------------
(***************************************************************************)
(* Theorems about the scheduler (module Scheduler), for any number of      *)
(* coroutines, accounts, kinds and chains, and for every level, threshold  *)
(* and bound: its types and references, that no transaction is left open,  *)
(* and, as long as calls do not overlap, that set_chain is all or nothing  *)
(* and that pick finds the best account.                                   *)
(***************************************************************************)
EXTENDS Scheduler, FiniteSetTheorems, TLAPS

Item == [b: Backend, p: Nat]
Ops == {"none", "set", "limit", "delete", "pick", "poll"}
Places == {"idle", "begin", "delete", "insert", "rollback", "commit", "execute", "chain",
           "filter", "list", "health", "use", "used", "next", "snapshot", "stored", "stamp"}
Call == [op: Ops, pc: Places, b: Backend \cup {None}, kind: Kind \cup {None},
         todo: SUBSET (Item \cup Backend), kept: SUBSET Item, best: Backend \cup {None},
         score: 0..(MaxLevel + 1), entries: Seq(Entry), asked: Seq(Entry),
         level: Level, now: 0..MaxTime]

\* What a call works on is what its operation works on.
Fits(c) ==
  /\ c.op = "pick" => c.todo \subseteq Item
  /\ c.op = "poll" => c.todo \subseteq Backend
  /\ c.op \in {"limit", "delete"} => c.b \in Backend
  /\ c.pc = "snapshot" => c.b \in Backend
  /\ c.pc = "execute" => c.op \in {"limit", "delete"}

\* A database of the right type in which every reference has its account.
Sound(d) ==
  /\ d \in Db
  /\ \A b \in Backend : d.chain[b] # 0 => b \in d.live
  /\ \A b \in Backend : d.until[b] # 0 \/ d.usage[b] # 0 => b \in d.live
  /\ d.ready \cup d.creds \subseteq d.live

Connected == Sound(disk) /\ Sound(view) /\ tx \in BOOLEAN /\ Settled
Counted == calls \in 0..MaxCalls /\ time \in 0..MaxTime /\ alone \in BOOLEAN
Called == call \in [Task -> Call] /\ \A t \in Task : Fits(call[t])

-----------------------------------------------------------------------------
\* What the statements make of a database.

LEMMA NumbersAreNumbers ==
  /\ Backend \subseteq Nat /\ Cardinality(Backend) \in Nat /\ Priority \subseteq Nat \ {0}
  /\ MaxLevel \in Nat /\ Level \subseteq Nat /\ 0 \in Level /\ Threshold \in Nat
  /\ MaxTime \in Nat /\ MaxCalls \in Nat
  <1>1. Cardinality(Backend) \in Nat BY BackendAssumption, FS_CardinalityType
  <1> QED BY <1>1, BackendAssumption, LevelAssumption, BoundAssumption DEF Priority, Level

LEMMA EmptiedIsSound ==
  ASSUME NEW d, Sound(d) PROVE Sound([d EXCEPT !.chain = NoChain])
  BY NumbersAreNumbers DEF Sound, Db, NoChain

LEMMA ChainedIsSound ==
  ASSUME NEW d, Sound(d), NEW b \in d.live, NEW p \in Priority
  PROVE  Sound([d EXCEPT !.chain[b] = p])
  BY NumbersAreNumbers DEF Sound, Db

LEMMA LimitedIsSound ==
  ASSUME NEW d, Sound(d), NEW b \in d.live, NEW u \in 0..(MaxTime + 1)
  PROVE  Sound([d EXCEPT !.until[b] = u])
  BY NumbersAreNumbers DEF Sound, Db

LEMMA StoredIsSound ==
  ASSUME NEW d, Sound(d), NEW b \in d.live, NEW u \in Level
  PROVE  Sound([d EXCEPT !.usage[b] = u])
  BY NumbersAreNumbers DEF Sound, Db

\* The deletion, one column after the other.
LEMMA WithoutIsSound ==
  ASSUME NEW b \in Backend, Sound(view)
  PROVE  /\ Sound(Without(b)) /\ Without(b).live = view.live \ {b}
         /\ \A x \in Backend : Without(b).chain[x] = IF x = b THEN 0 ELSE view.chain[x]
  <1> DEFINE d1 == [view EXCEPT !.live = @ \ {b}]
             d2 == [d1 EXCEPT !.ready = @ \ {b}]
             d3 == [d2 EXCEPT !.creds = @ \ {b}]
             d4 == [d3 EXCEPT !.until[b] = 0]
             d5 == [d4 EXCEPT !.usage[b] = 0]
             d6 == [d5 EXCEPT !.chain[b] = 0]
  <1>0. Without(b) = d6 BY DEF Without
  <1> USE NumbersAreNumbers DEF Db
  <1>1. /\ d1 \in Db /\ d1.live = view.live \ {b} /\ d1.ready = view.ready /\ d1.creds = view.creds
        /\ d1.chain = view.chain /\ d1.until = view.until /\ d1.usage = view.usage
    BY DEF Sound
  <1> HIDE DEF d1
  <1>2. /\ d2 \in Db /\ d2.live = d1.live /\ d2.ready = d1.ready \ {b} /\ d2.creds = d1.creds
        /\ d2.chain = d1.chain /\ d2.until = d1.until /\ d2.usage = d1.usage
    BY <1>1
  <1> HIDE DEF d2
  <1>3. /\ d3 \in Db /\ d3.live = d2.live /\ d3.ready = d2.ready /\ d3.creds = d2.creds \ {b}
        /\ d3.chain = d2.chain /\ d3.until = d2.until /\ d3.usage = d2.usage
    BY <1>2
  <1> HIDE DEF d3
  <1>4. /\ d4 \in Db /\ d4.live = d3.live /\ d4.ready = d3.ready /\ d4.creds = d3.creds
        /\ d4.chain = d3.chain /\ d4.usage = d3.usage
        /\ \A x \in Backend : d4.until[x] = IF x = b THEN 0 ELSE d3.until[x]
    BY <1>3
  <1> HIDE DEF d4
  <1>5. /\ d5 \in Db /\ d5.live = d4.live /\ d5.ready = d4.ready /\ d5.creds = d4.creds
        /\ d5.chain = d4.chain /\ d5.until = d4.until
        /\ \A x \in Backend : d5.usage[x] = IF x = b THEN 0 ELSE d4.usage[x]
    BY <1>4
  <1> HIDE DEF d5
  <1>6. /\ d6 \in Db /\ d6.live = d5.live /\ d6.ready = d5.ready /\ d6.creds = d5.creds
        /\ d6.until = d5.until /\ d6.usage = d5.usage
        /\ \A x \in Backend : d6.chain[x] = IF x = b THEN 0 ELSE d5.chain[x]
    BY <1>5
  <1> HIDE DEF d6
  <1>7. /\ d6.live = view.live \ {b} /\ d6.ready = view.ready \ {b} /\ d6.creds = view.creds \ {b}
        /\ \A x \in Backend :
             /\ d6.chain[x] = IF x = b THEN 0 ELSE view.chain[x]
             /\ d6.until[x] = IF x = b THEN 0 ELSE view.until[x]
             /\ d6.usage[x] = IF x = b THEN 0 ELSE view.usage[x]
    BY <1>1, <1>2, <1>3, <1>4, <1>5, <1>6
  <1>8. Sound(d6) BY <1>6, <1>7 DEF Sound
  <1> QED BY <1>0, <1>7, <1>8

LEMMA ExecuteKeeps ==
  ASSUME Connected, NEW d, Sound(d), Execute(d) PROVE Connected'
  BY DEF Connected, Execute, Settled, Sound

LEMMA EndKeeps ==
  ASSUME Connected, Commit \/ RollbackTx \/ LoseConnection PROVE Connected'
  BY DEF Connected, Commit, RollbackTx, LoseConnection, Settled, Sound

LEMMA BeginKeeps ==
  ASSUME Connected, BeginTx PROVE Connected'
  BY DEF Connected, BeginTx, Settled, Sound

LEMMA SameKeeps ==
  ASSUME Connected, UNCHANGED connVars PROVE Connected'
  BY DEF Connected, connVars, Settled, Sound
-----------------------------------------------------------------------------
\* What the steps make of a call.

LEMMA IdleIsCall == Idle \in Call /\ Fits(Idle)
  <1>1. <<>> \in Seq(Entry) OBVIOUS
  <1> QED BY <1>1, NumbersAreNumbers DEF Idle, Call, Fits, Ops, Places

LEMMA Moved ==
  ASSUME NEW c \in Call, NEW p \in Places, NEW r, r = [c EXCEPT !.pc = p]
  PROVE  /\ r \in Call /\ r.pc = p
         /\ r.op = c.op /\ r.b = c.b /\ r.kind = c.kind /\ r.todo = c.todo /\ r.kept = c.kept
         /\ r.best = c.best /\ r.score = c.score /\ r.entries = c.entries /\ r.asked = c.asked
         /\ r.level = c.level /\ r.now = c.now
  BY DEF Call

LEMMA Shortened ==
  ASSUME NEW c \in Call, c.entries # <<>>, NEW r, r = [c EXCEPT !.entries = Tail(c.entries)]
  PROVE  /\ r \in Call /\ r.entries = Tail(c.entries)
         /\ r.op = c.op /\ r.pc = c.pc /\ r.b = c.b /\ r.todo = c.todo /\ r.asked = c.asked
  <1>1. Tail(c.entries) \in Seq(Entry) BY DEF Call
  <1> QED BY <1>1 DEF Call

LEMMA BegunSet ==
  ASSUME NEW es \in Seq(Entry),
         NEW r, r = [Idle EXCEPT !.op = "set", !.pc = "begin", !.entries = es, !.asked = es]
  PROVE  r \in Call /\ Fits(r) /\ r.op = "set" /\ r.pc = "begin" /\ r.entries = es /\ r.asked = es
  BY IdleIsCall DEF Call, Ops, Places, Fits

LEMMA BegunWrite ==
  ASSUME NEW o \in {"limit", "delete"}, NEW b \in Backend,
         NEW r, r = [Idle EXCEPT !.op = o, !.pc = "execute", !.b = b]
  PROVE  r \in Call /\ Fits(r) /\ r.op = o /\ r.pc = "execute"
  BY IdleIsCall DEF Call, Ops, Places, Fits

LEMMA BegunPick ==
  ASSUME NEW k \in Kind \cup {None},
         NEW r, r = [Idle EXCEPT !.op = "pick", !.pc = "chain", !.kind = k]
  PROVE  /\ r \in Call /\ Fits(r) /\ r.op = "pick" /\ r.pc = "chain"
         /\ r.best = None /\ r.score = MaxLevel + 1
  BY IdleIsCall DEF Call, Ops, Places, Fits, Idle

LEMMA BegunPoll ==
  ASSUME NEW s \in SUBSET Backend,
         NEW r, r = [Idle EXCEPT !.op = "poll", !.pc = "next", !.todo = s]
  PROVE  r \in Call /\ Fits(r) /\ r.op = "poll" /\ r.pc = "next"
  BY IdleIsCall DEF Call, Ops, Places, Fits

LEMMA Filtering ==
  ASSUME NEW c \in Call, c.op = "pick", NEW s \in SUBSET Item,
         NEW r, r = [c EXCEPT !.pc = "filter", !.todo = s]
  PROVE  /\ r \in Call /\ Fits(r) /\ r.op = "pick" /\ r.pc = "filter" /\ r.todo = s
         /\ r.kept = c.kept /\ r.kind = c.kind /\ r.best = c.best /\ r.score = c.score
  BY DEF Call, Places, Fits

LEMMA Passed ==
  ASSUME NEW c \in Call, Fits(c), c.op = "pick", NEW s \in SUBSET Item,
         NEW r, r = [c EXCEPT !.todo = s]
  PROVE  /\ r \in Call /\ Fits(r) /\ r.op = "pick" /\ r.pc = c.pc /\ r.todo = s
         /\ r.kind = c.kind /\ r.best = c.best /\ r.score = c.score /\ r.now = c.now
  BY DEF Call, Fits

LEMMA Fetched ==
  ASSUME NEW c \in Call, c.op = "poll", c.todo \subseteq Backend, c.b \in Backend, NEW u \in Level,
         NEW r, r = [c EXCEPT !.pc = "snapshot", !.level = u]
  PROVE  r \in Call /\ Fits(r) /\ r.op = "poll"
  <1>1. /\ r \in Call /\ r.op = "poll" /\ r.todo = c.todo /\ r.b = c.b /\ r.pc = "snapshot"
    BY DEF Call, Places
  <1> QED BY <1>1 DEF Fits

\* A step of one call leaves the others alone.
LEMMA Goes ==
  ASSUME Called, NEW t \in Task, NEW c \in Call, Fits(c), Goto(t, c)
  PROVE  Called' /\ call'[t] = c /\ \A u \in Task \ {t} : call'[u] = call[u]
  BY DEF Called, Goto

LEMMA Returns ==
  ASSUME Called, NEW t \in Task, Return(t)
  PROVE  Called' /\ call'[t] = Idle /\ \A u \in Task \ {t} : call'[u] = call[u]
  BY IdleIsCall, Goes DEF Return

LEMMA Moves ==
  ASSUME Called, NEW t \in Task, NEW p \in Places, p \notin {"snapshot", "execute"}, Move(t, p)
  PROVE  /\ Called' /\ \A u \in Task \ {t} : call'[u] = call[u]
         /\ call'[t].pc = p
         /\ call'[t].op = call[t].op /\ call'[t].b = call[t].b /\ call'[t].kind = call[t].kind
         /\ call'[t].todo = call[t].todo /\ call'[t].kept = call[t].kept
         /\ call'[t].best = call[t].best /\ call'[t].score = call[t].score
         /\ call'[t].entries = call[t].entries /\ call'[t].asked = call[t].asked
         /\ call'[t].level = call[t].level /\ call'[t].now = call[t].now
  <1>1. PICK r : r = [call[t] EXCEPT !.pc = p] OBVIOUS
  <1>2. call[t] \in Call /\ Fits(call[t]) BY DEF Called
  <1>3. /\ r \in Call /\ r.pc = p
        /\ r.op = call[t].op /\ r.b = call[t].b /\ r.kind = call[t].kind /\ r.todo = call[t].todo
        /\ r.kept = call[t].kept /\ r.best = call[t].best /\ r.score = call[t].score
        /\ r.entries = call[t].entries /\ r.asked = call[t].asked
        /\ r.level = call[t].level /\ r.now = call[t].now
    BY <1>1, <1>2, Moved
  <1>4. Fits(r) BY <1>2, <1>3 DEF Fits
  <1>5. Goto(t, r) BY <1>1 DEF Move
  <1>6. Called' /\ call'[t] = r /\ \A u \in Task \ {t} : call'[u] = call[u]
    BY <1>3, <1>4, <1>5, Goes
  <1> QED BY <1>3, <1>6

-----------------------------------------------------------------------------
\* The types, and the references between the tables.

Types == Connected /\ Counted /\ Called

\* The counters.
LEMMA CountKeeps ==
  ASSUME Counted
  PROVE  /\ UNCHANGED <<time, calls, alone>> => Counted'
         /\ \A t \in Task : NewCall(t) /\ UNCHANGED time => Counted'
  <1>1. UNCHANGED <<time, calls, alone>> => Counted' BY DEF Counted
  <1>2. ASSUME NEW t \in Task, NewCall(t), UNCHANGED time PROVE Counted'
    <2>1. calls' = calls + 1 /\ calls < MaxCalls /\ alone' \in BOOLEAN
      BY <1>2 DEF NewCall, Counted
    <2> QED BY <1>2, <2>1, NumbersAreNumbers DEF Counted
  <1> QED BY <1>1, <1>2

LEMMA TypesInit ==
  ASSUME Init PROVE Types
  <1>1. PICK r \in SUBSET Backend, c \in SUBSET Backend :
          disk = [live |-> Backend, ready |-> r, creds |-> c, chain |-> NoChain,
                  until |-> [b \in Backend |-> 0], usage |-> [b \in Backend |-> 0]]
    BY DEF Init
  <1>2. Sound(disk)
    BY <1>1, NumbersAreNumbers DEF Sound, Db, NoChain
  <1>3. Connected BY <1>2 DEF Init, Connected, Settled
  <1>4. Called BY IdleIsCall DEF Init, Called
  <1>5. time = 0 /\ calls = 0 /\ alone = TRUE BY DEF Init
  <1>6. Counted BY <1>5, NumbersAreNumbers DEF Counted
  <1> QED BY <1>3, <1>4, <1>6 DEF Types

\* The steps of set_chain.
LEMMA TypesSet ==
  ASSUME Types, NEW t \in Task,
         SetBegin(t) \/ SetDelete(t) \/ SetInsert(t) \/ SetRollback(t) \/ SetCommit(t)
  PROVE  Types'
  <1> USE DEF Types
  <1>1. Counted' BY CountKeeps DEF SetBegin, SetDelete, SetInsert, SetRollback, SetCommit
  <1>2. CASE SetBegin(t)
    <2>1. CASE CanBegin /\ BeginTx /\ Move(t, "delete")
      BY <1>1, <2>1, BeginKeeps, Moves DEF Places
    <2>2. CASE Return(t) /\ UNCHANGED connVars
      BY <1>1, <2>2, SameKeeps, Returns
    <2> QED BY <1>2, <2>1, <2>2 DEF SetBegin
  <1>3. CASE SetDelete(t)
    <2>1. Execute([view EXCEPT !.chain = NoChain]) /\ Move(t, "insert") BY <1>3 DEF SetDelete
    <2>2. Sound([view EXCEPT !.chain = NoChain]) BY EmptiedIsSound DEF Connected
    <2> QED BY <1>1, <2>1, <2>2, ExecuteKeeps, Moves DEF Places
  <1>4. CASE SetInsert(t)
    <2> DEFINE es == call[t].entries
    <2>1. CASE Move(t, "commit") /\ UNCHANGED connVars
      BY <1>1, <2>1, SameKeeps, Moves DEF Places
    <2>2. CASE /\ es # <<>> /\ Insertable(Head(es))
               /\ Execute([view EXCEPT !.chain[Head(es).b] = Head(es).p])
               /\ Goto(t, [call[t] EXCEPT !.entries = Tail(es)])
      <3>1. call[t] \in Call /\ Fits(call[t]) /\ call[t].pc = "insert" /\ call[t].op = "set"
        BY <1>4 DEF Called, SetInsert, At
      <3>2. es \in Seq(Entry) BY <3>1 DEF Call
      <3>3. Head(es) \in Entry BY <2>2, <3>2
      <3>4. Head(es).b \in view.live /\ Head(es).p \in Priority
        BY <2>2, <3>3 DEF Insertable, Entry
      <3>5. Sound([view EXCEPT !.chain[Head(es).b] = Head(es).p])
        BY <3>4, ChainedIsSound DEF Connected
      <3>6. PICK r : r = [call[t] EXCEPT !.entries = Tail(es)] OBVIOUS
      <3>7. r \in Call /\ r.op = "set" /\ r.pc = "insert"
        BY <2>2, <3>1, <3>6, Shortened
      <3>8. Fits(r) BY <3>7 DEF Fits
      <3> QED BY <1>1, <2>2, <3>5, <3>6, <3>7, <3>8, ExecuteKeeps, Goes
    <2>3. CASE Move(t, "rollback") /\ UNCHANGED connVars
      BY <1>1, <2>3, SameKeeps, Moves DEF Places
    <2> QED BY <1>4, <2>1, <2>2, <2>3 DEF SetInsert
  <1>5. CASE SetRollback(t)
    <2>1. Return(t) /\ (RollbackTx \/ UNCHANGED connVars) BY <1>5 DEF SetRollback
    <2> QED BY <1>1, <2>1, EndKeeps, SameKeeps, Returns
  <1>6. CASE SetCommit(t)
    <2>1. Return(t) /\ (Commit \/ UNCHANGED connVars) BY <1>6 DEF SetCommit
    <2> QED BY <1>1, <2>1, EndKeeps, SameKeeps, Returns
  <1> QED BY <1>2, <1>3, <1>4, <1>5, <1>6

\* The writes of one statement.
LEMMA TypesWrite ==
  ASSUME Types, NEW t \in Task, WriteExecute(t) \/ WriteCommit(t)
  PROVE  Types'
  <1> USE DEF Types
  <1>1. Counted' BY CountKeeps DEF WriteExecute, WriteCommit
  <1>2. CASE WriteExecute(t)
    <2> DEFINE b == call[t].b
    <2>1. Move(t, "commit") BY <1>2 DEF WriteExecute
    <2>2. b \in Backend BY <1>2 DEF WriteExecute, Called, Fits
    <2>3. PICK d : Execute(d) /\ Sound(d)
      <3>1. CASE call[t].op = "delete" /\ Execute(Without(b))
        BY <2>2, <3>1, WithoutIsSound DEF Connected
      <3>2. CASE Execute(IF b \in view.live THEN [view EXCEPT !.until[b] = time + 1] ELSE view)
        <4>1. time + 1 \in 0..(MaxTime + 1) BY NumbersAreNumbers DEF Counted
        <4>2. CASE b \in view.live
          <5>1. Sound([view EXCEPT !.until[b] = time + 1])
            BY <4>1, <4>2, LimitedIsSound DEF Connected
          <5> QED BY <3>2, <4>2, <5>1
        <4>3. CASE b \notin view.live
          BY <3>2, <4>3 DEF Connected
        <4> QED BY <4>2, <4>3
      <3> QED BY <1>2, <3>1, <3>2 DEF WriteExecute
    <2> QED BY <1>1, <2>1, <2>3, ExecuteKeeps, Moves DEF Places
  <1>3. CASE WriteCommit(t)
    <2>1. Commit /\ Return(t) BY <1>3 DEF WriteCommit
    <2> QED BY <1>1, <2>1, EndKeeps, Returns
  <1> QED BY <1>2, <1>3

\* What pick reads is about accounts.
LEMMA ChainItems ==
  ASSUME NEW d, Sound(d)
  PROVE  /\ ChainEntries(d) \in SUBSET Item
         /\ \A e \in ChainEntries(d) : e.b \in d.live /\ e.p = d.chain[e.b] /\ e.p # 0
         /\ \A b \in Backend : d.chain[b] # 0 => \E e \in ChainEntries(d) : e.b = b /\ e.p = d.chain[b]
  <1> DEFINE In(b) == [b |-> b, p |-> d.chain[b]]
  <1>1. \A b \in Backend : d.chain[b] \in Nat
    BY NumbersAreNumbers DEF Sound, Db
  <1>2. \A b \in Backend : In(b) \in Item /\ In(b).b = b /\ In(b).p = d.chain[b]
    BY <1>1 DEF Item
  <1>3. \A b \in Backend : d.chain[b] # 0 => b \in d.live
    BY DEF Sound
  <1>4. ChainEntries(d) = {In(b) : b \in {x \in Backend : d.chain[x] # 0}}
    BY DEF ChainEntries
  <1> HIDE DEF In
  <1> QED BY <1>2, <1>3, <1>4

LEMMA ReadyItems ==
  ASSUME NEW d, Sound(d), NEW k
  PROVE  {[b |-> b, p |-> b] : b \in {x \in d.ready : OfKind(x, k)}} \in SUBSET Item
  BY NumbersAreNumbers DEF Item, Sound, Db

LEMMA LoopKeeps ==
  ASSUME Types, NEW t \in Task, NEW c \in Call, c.op = "pick", NEW s \in SUBSET Item, Loop(t, c, s)
  PROVE  /\ Called' /\ \A u \in Task \ {t} : call'[u] = call[u]
         /\ call'[t].op = "pick" /\ call'[t].pc = "health" /\ call'[t].todo = s
         /\ call'[t].now = time /\ call'[t].kind = c.kind
         /\ call'[t].best = c.best /\ call'[t].score = c.score
  <1>1. PICK r : r = [c EXCEPT !.pc = "health", !.todo = s, !.kept = {}, !.now = time] OBVIOUS
  <1>2. Goto(t, r) BY <1>1 DEF Loop
  <1>3. time \in 0..MaxTime BY DEF Types, Counted
  <1>4. /\ r \in Call /\ Fits(r) /\ r.op = "pick" /\ r.pc = "health" /\ r.todo = s /\ r.now = time
        /\ r.kind = c.kind /\ r.best = c.best /\ r.score = c.score
    BY <1>1, <1>3 DEF Call, Places, Fits
  <1> QED BY <1>2, <1>4, Goes DEF Types

\* A call of pick, and what an element of its todo is.
LEMMA PickingItems ==
  ASSUME Called, NEW t \in Task, call[t].op = "pick"
  PROVE  call[t] \in Call /\ Fits(call[t]) /\ call[t].todo \in SUBSET Item /\ call[t].kept \in SUBSET Item
  BY DEF Called, Fits, Call

\* The steps of pick.
LEMMA TypesPick ==
  ASSUME Types, NEW t \in Task,
         \/ PickChain(t) \/ PickList(t) \/ PickCredential(t) \/ PickUse(t) \/ PickReturn(t)
         \/ \E e \in call[t].todo : PickFilter(t, e) \/ PickHealth(t, e)
  PROVE  Types'
  <1> USE DEF Types
  <1>1. call[t].op = "pick"
    BY DEF PickChain, PickList, PickCredential, PickUse, PickReturn, PickFilter, PickHealth, At
  <1>2. call[t] \in Call /\ Fits(call[t]) /\ call[t].todo \in SUBSET Item /\ call[t].kept \in SUBSET Item
    BY <1>1, PickingItems
  <1>3. CASE PickChain(t)
    <2>0. UNCHANGED connVars /\ Counted' BY <1>3, CountKeeps DEF PickChain
    <2>1. ChainEntries(view) \in SUBSET Item BY ChainItems DEF Connected
    <2>2. CASE Move(t, "list") BY <2>0, <2>2, SameKeeps, Moves DEF Places
    <2>3. CASE Loop(t, call[t], ChainEntries(view)) BY <1>1, <1>2, <2>0, <2>1, <2>3, SameKeeps, LoopKeeps
    <2>4. CASE Goto(t, [call[t] EXCEPT !.pc = "filter", !.todo = ChainEntries(view)])
      <3>1. PICK r : r = [call[t] EXCEPT !.pc = "filter", !.todo = ChainEntries(view)] OBVIOUS
      <3>2. r \in Call /\ Fits(r) BY <1>1, <1>2, <2>1, <3>1, Filtering
      <3> QED BY <2>0, <2>4, <3>1, <3>2, SameKeeps, Goes
    <2> QED BY <1>3, <2>2, <2>3, <2>4 DEF PickChain
  <1>4. ASSUME NEW e \in call[t].todo, PickFilter(t, e) PROVE Types'
    <2> DEFINE left == call[t].todo \ {e}
               kept == IF e.b \in view.live /\ OfKind(e.b, call[t].kind)
                       THEN call[t].kept \cup {e} ELSE call[t].kept
    <2>0. UNCHANGED connVars /\ Counted' BY <1>4, CountKeeps DEF PickFilter
    <2>1. left \in SUBSET Item /\ kept \in SUBSET Item BY <1>2
    <2>2. CASE Loop(t, call[t], kept) BY <1>1, <1>2, <2>0, <2>1, <2>2, SameKeeps, LoopKeeps
    <2>3. CASE Goto(t, [call[t] EXCEPT !.todo = left, !.kept = kept])
      <3> HIDE DEF left, kept
      <3>1. PICK r : r = [call[t] EXCEPT !.todo = left, !.kept = kept] OBVIOUS
      <3>2. call[t].pc = "filter" BY <1>4 DEF PickFilter, At
      <3>3. r \in Call /\ r.op = "pick" /\ r.pc = "filter" /\ r.todo = left
        BY <1>1, <1>2, <2>1, <3>1, <3>2 DEF Call
      <3>4. Fits(r) BY <2>1, <3>3 DEF Fits
      <3> QED BY <2>0, <2>3, <3>1, <3>3, <3>4, SameKeeps, Goes
    <2> QED BY <1>4, <2>2, <2>3 DEF PickFilter
  <1>5. CASE PickList(t)
    <2> DEFINE es == {[b |-> b, p |-> b] : b \in {x \in view.ready : OfKind(x, call[t].kind)}}
    <2>1. es \in SUBSET Item BY ReadyItems DEF Connected
    <2>2. Loop(t, call[t], es) /\ UNCHANGED connVars /\ Counted'
      BY <1>5, CountKeeps DEF PickList
    <2> HIDE DEF es
    <2> QED BY <1>1, <1>2, <2>1, <2>2, SameKeeps, LoopKeeps
  <1>6. ASSUME NEW e \in call[t].todo, PickHealth(t, e) PROVE Types'
    <2>0. UNCHANGED connVars /\ Counted' BY <1>6, CountKeeps DEF PickHealth
    <2>1. PICK c : c = [call[t] EXCEPT !.todo = @ \ {e}] OBVIOUS
    <2>2. call[t].todo \ {e} \in SUBSET Item BY <1>2
    <2>3. c \in Call /\ Fits(c) BY <1>1, <1>2, <2>1, <2>2, Passed
    <2>4. CASE Return(t) BY <2>0, <2>4, SameKeeps, Returns
    <2>5. CASE Goto(t, c) BY <2>0, <2>3, <2>5, SameKeeps, Goes
    <2>6. CASE Goto(t, [c EXCEPT !.best = e.b, !.score = view.usage[e.b]])
      <3>1. e.b \in Backend /\ view.usage[e.b] \in Level
        BY <1>2 DEF Item, Connected, Sound, Db
      <3>2. PICK r : r = [c EXCEPT !.best = e.b, !.score = view.usage[e.b]] OBVIOUS
      <3>3. view.usage[e.b] \in 0..(MaxLevel + 1) BY <3>1, NumbersAreNumbers DEF Level
      <3>4. r \in Call /\ r.op = c.op /\ r.pc = c.pc /\ r.todo = c.todo /\ r.b = c.b
        BY <2>3, <3>1, <3>2, <3>3 DEF Call
      <3>5. Fits(r) BY <2>3, <3>4 DEF Fits
      <3> QED BY <2>0, <2>6, <3>2, <3>4, <3>5, SameKeeps, Goes
    <2> QED BY <1>6, <2>1, <2>4, <2>5, <2>6 DEF PickHealth
  <1>7. CASE PickCredential(t)
    <2>1. (Move(t, "use") \/ Return(t)) /\ UNCHANGED connVars /\ Counted'
      BY <1>7, CountKeeps DEF PickCredential
    <2> QED BY <2>1, SameKeeps, Moves, Returns DEF Places
  <1>8. CASE PickUse(t)
    <2>1. Execute(view) /\ Move(t, "used") /\ Counted' BY <1>8, CountKeeps DEF PickUse
    <2>2. Sound(view) BY DEF Connected
    <2> QED BY <2>1, <2>2, ExecuteKeeps, Moves DEF Places
  <1>9. CASE PickReturn(t)
    <2>1. Commit /\ Return(t) /\ Counted' BY <1>9, CountKeeps DEF PickReturn
    <2> QED BY <2>1, EndKeeps, Returns
  <1> QED BY <1>3, <1>4, <1>5, <1>6, <1>7, <1>8, <1>9

\* The steps of poll_all.
LEMMA TypesPoll ==
  ASSUME Types, NEW t \in Task,
         \/ \E b \in call[t].todo : PollNext(t, b)
         \/ PollSnapshot(t) \/ PollCommit(t) \/ PollEnd(t)
  PROVE  Types'
  <1> USE DEF Types
  <1>0. call[t] \in Call /\ Fits(call[t]) /\ call[t].op = "poll"
    BY DEF Called, PollNext, PollSnapshot, PollCommit, PollEnd, At
  <1>1. ASSUME NEW b \in call[t].todo, PollNext(t, b) PROVE Types'
    <2>0. UNCHANGED connVars /\ Counted' BY <1>1, CountKeeps DEF PollNext
    <2>1. call[t].todo \subseteq Backend BY <1>0 DEF Fits
    <2>2. b \in Backend /\ call[t].todo \ {b} \in SUBSET Backend /\ call[t].pc = "next"
      BY <1>1, <2>1 DEF PollNext, At
    <2>3. PICK c : c = [call[t] EXCEPT !.todo = @ \ {b}, !.b = b] OBVIOUS
    <2>4. c \in Call /\ Fits(c) /\ c.op = "poll" /\ c.b = b /\ c.todo \subseteq Backend
      BY <1>0, <2>2, <2>3 DEF Call, Fits
    <2>5. CASE Goto(t, c) BY <2>0, <2>4, <2>5, SameKeeps, Goes
    <2>6. CASE Goto(t, [c EXCEPT !.pc = "stamp"])
      <3>1. PICK r : r = [c EXCEPT !.pc = "stamp"] OBVIOUS
      <3>2. r \in Call /\ r.op = "poll" /\ r.pc = "stamp" /\ r.todo = c.todo
        BY <2>4, <3>1, Moved DEF Places
      <3>3. Fits(r) BY <2>4, <3>2 DEF Fits
      <3> QED BY <2>0, <2>6, <3>1, <3>2, <3>3, SameKeeps, Goes
    <2>7. ASSUME NEW u \in Level, Goto(t, [c EXCEPT !.pc = "snapshot", !.level = u]) PROVE Types'
      <3>1. PICK r : r = [c EXCEPT !.pc = "snapshot", !.level = u] OBVIOUS
      <3>2. r \in Call /\ Fits(r) BY <2>2, <2>4, <3>1, Fetched
      <3> QED BY <2>0, <2>7, <3>1, <3>2, SameKeeps, Goes
    <2> QED BY <1>1, <2>3, <2>5, <2>6, <2>7 DEF PollNext
  <1>2. CASE PollSnapshot(t)
    <2>0. Counted' BY <1>2, CountKeeps DEF PollSnapshot
    <2>1. CASE /\ call[t].b \in view.live
               /\ Execute([view EXCEPT !.usage[call[t].b] = call[t].level]) /\ Move(t, "stored")
      <3>1. Sound([view EXCEPT !.usage[call[t].b] = call[t].level])
        BY <1>0, <2>1, StoredIsSound DEF Connected, Call
      <3> QED BY <2>0, <2>1, <3>1, ExecuteKeeps, Moves DEF Places
    <2>2. CASE Move(t, "next") /\ UNCHANGED connVars
      BY <2>0, <2>2, SameKeeps, Moves DEF Places
    <2> QED BY <1>2, <2>1, <2>2 DEF PollSnapshot
  <1>3. CASE PollCommit(t)
    <2>1. Commit /\ (Move(t, "stamp") \/ Move(t, "next")) /\ Counted'
      BY <1>3, CountKeeps DEF PollCommit
    <2> QED BY <2>1, EndKeeps, Moves DEF Places
  <1>4. CASE PollEnd(t)
    <2>1. Return(t) /\ UNCHANGED connVars /\ Counted' BY <1>4, CountKeeps DEF PollEnd
    <2> QED BY <2>1, SameKeeps, Returns
  <1> QED BY <1>1, <1>2, <1>3, <1>4

\* Calls that begin.
Begins(t) ==
  \/ \E es \in Chains : BeginSet(t, es)
  \/ \E b \in Backend : BeginWrite(t, "limit", b) \/ BeginWrite(t, "delete", b)
  \/ \E k \in Kind \cup {None} : BeginPick(t, k)
  \/ BeginPoll(t)

LEMMA TypesBegin ==
  ASSUME Types, NEW t \in Task, Begins(t)
  PROVE  Types' /\ UNCHANGED connVars /\ NewCall(t) /\ \E c : Goto(t, c)
  <1> USE DEF Types
  <1>0. UNCHANGED connVars /\ UNCHANGED time /\ NewCall(t)
    BY DEF Begins, BeginSet, BeginWrite, BeginPick, BeginPoll
  <1>1. Counted' BY <1>0, CountKeeps
  <1>2. PICK r : r \in Call /\ Fits(r) /\ Goto(t, r)
    <2>1. ASSUME NEW es \in Chains, BeginSet(t, es) PROVE \E r : r \in Call /\ Fits(r) /\ Goto(t, r)
      <3>1. es \in Seq(Entry) BY ChainsAssumption
      <3>2. PICK r : r = [Idle EXCEPT !.op = "set", !.pc = "begin", !.entries = es, !.asked = es] OBVIOUS
      <3> QED BY <2>1, <3>1, <3>2, BegunSet DEF BeginSet
    <2>2. ASSUME NEW b \in Backend, NEW o \in {"limit", "delete"}, BeginWrite(t, o, b)
          PROVE \E r : r \in Call /\ Fits(r) /\ Goto(t, r)
      <3>1. PICK r : r = [Idle EXCEPT !.op = o, !.pc = "execute", !.b = b] OBVIOUS
      <3> QED BY <2>2, <3>1, BegunWrite DEF BeginWrite
    <2>3. ASSUME NEW k \in Kind \cup {None}, BeginPick(t, k)
          PROVE \E r : r \in Call /\ Fits(r) /\ Goto(t, r)
      <3>1. PICK r : r = [Idle EXCEPT !.op = "pick", !.pc = "chain", !.kind = k] OBVIOUS
      <3> QED BY <2>3, <3>1, BegunPick DEF BeginPick
    <2>4. ASSUME BeginPoll(t) PROVE \E r : r \in Call /\ Fits(r) /\ Goto(t, r)
      <3>1. PICK r : r = [Idle EXCEPT !.op = "poll", !.pc = "next", !.todo = view.ready] OBVIOUS
      <3>2. view.ready \in SUBSET Backend BY DEF Connected, Sound, Db
      <3> QED BY <2>4, <3>1, <3>2, BegunPoll DEF BeginPoll
    <2> QED BY <2>1, <2>2, <2>3, <2>4 DEF Begins
  <1>3. Called' BY <1>2, Goes
  <1> QED BY <1>0, <1>1, <1>2, <1>3, SameKeeps

LEMMA TypesRest ==
  ASSUME Types, Tick \/ Restart \/ UNCHANGED vars
  PROVE  Types'
  <1> USE DEF Types
  <1>1. CASE Tick
    <2>1. Called' BY <1>1 DEF Tick, Called
    <2>2. Counted' BY <1>1, NumbersAreNumbers DEF Tick, Counted
    <2> QED BY <1>1, <2>1, <2>2, SameKeeps DEF Tick
  <1>2. CASE Restart
    <2>1. Called' BY <1>2, IdleIsCall DEF Restart, Called
    <2>2. Counted' BY <1>2, NumbersAreNumbers DEF Restart, Counted
    <2> QED BY <1>2, <2>1, <2>2, EndKeeps DEF Restart
  <1>3. CASE UNCHANGED vars
    <2>1. Called' /\ Counted' BY <1>3 DEF vars, Called, Counted
    <2> QED BY <1>3, <2>1, SameKeeps DEF vars
  <1> QED BY <1>1, <1>2, <1>3

\* Every step is one of these.
LEMMA Split ==
  ASSUME [Next]_vars
  PROVE  \/ \E t \in Task : Step(t) \/ Begins(t)
         \/ Tick \/ Restart \/ UNCHANGED vars
  BY DEF Next, Begins

LEMMA TypesStep == Types /\ [Next]_vars => Types'
  <1> SUFFICES ASSUME Types, [Next]_vars PROVE Types' OBVIOUS
  <1>1. ASSUME NEW t \in Task, Step(t) PROVE Types'
    BY <1>1, TypesSet, TypesWrite, TypesPick, TypesPoll DEF Step
  <1> QED BY <1>1, TypesBegin, TypesRest, Split

\* What the invariant says of calls.
LEMMA TypesImply ==
  ASSUME Types PROVE TypeOK
  <1>1. ChainReferential BY DEF Types, Connected, Sound, ChainReferential
  <1>2. \A t \in Task : call[t].score \in 0..(MaxLevel + 1) /\ call[t].best \in Backend \cup {None}
    BY DEF Types, Called, Call
  <1> QED BY <1>1, <1>2 DEF Types, Connected, Counted, Sound, TypeOK

LEMMA TypesAlways == Spec => []Types
  <1>1. Init => Types BY TypesInit
  <1> QED BY <1>1, TypesStep, PTL DEF Spec

\* Every variable has its type; outside of a transaction nothing is uncommitted; and,
\* before and after every statement, rollback and restart, nothing in the tables refers
\* to an account that was deleted.
THEOREM TypeCorrect == Spec => []TypeOK
  <1>1. Types => TypeOK BY TypesImply
  <1> QED BY <1>1, TypesAlways, PTL

-----------------------------------------------------------------------------
\* Transactions.

\* What a step does to the transaction: nothing, or it ends it, or a set_chain begins one
\* and goes on.
LEMMA TxStep ==
  ASSUME Types, NEW t \in Task, Step(t)
  PROVE  \/ ~tx'
         \/ call'[t].op = "set" /\ call'[t].pc # "begin"
         \/ tx' = tx /\ (call[t].op # "set" \/ call[t].pc = "begin")
  <1>0. Called BY DEF Types
  <1>1. CASE SetBegin(t)
    <2>1. CASE Move(t, "delete")
      BY <1>0, <1>1, <2>1, Moves DEF SetBegin, At, Places
    <2>2. CASE UNCHANGED connVars
      BY <1>1, <2>2 DEF SetBegin, At, connVars
    <2> QED BY <1>1, <2>1, <2>2 DEF SetBegin
  <1>2. CASE SetDelete(t)
    BY <1>0, <1>2, Moves DEF SetDelete, At, Places
  <1>3. CASE SetInsert(t)
    <2>1. ASSUME NEW p \in {"commit", "rollback"}, Move(t, p)
          PROVE call'[t].op = "set" /\ call'[t].pc # "begin"
      BY <1>0, <1>3, <2>1, Moves DEF SetInsert, At, Places
    <2>2. CASE call[t].entries # <<>> /\ Goto(t, [call[t] EXCEPT !.entries = Tail(call[t].entries)])
      <3>1. PICK r : r = [call[t] EXCEPT !.entries = Tail(call[t].entries)] OBVIOUS
      <3>2. call[t] \in Call /\ call[t].op = "set" /\ call[t].pc = "insert"
        BY <1>0, <1>3 DEF Called, SetInsert, At
      <3>3. r.op = "set" /\ r.pc = "insert" BY <2>2, <3>1, <3>2, Shortened
      <3>4. call'[t] = r BY <1>0, <2>2, <3>1 DEF Called, Goto
      <3> QED BY <3>3, <3>4
    <2> QED BY <1>3, <2>1, <2>2 DEF SetInsert
  <1>4. CASE SetRollback(t) \/ SetCommit(t)
    <2>1. tx \in BOOLEAN BY DEF Types, Connected
    <2> QED BY <1>4, <2>1 DEF SetRollback, SetCommit, RollbackTx, Commit, CanEnd, connVars
  <1>5. CASE WriteExecute(t)
    <2>1. call[t].op # "set" BY <1>0, <1>5 DEF Called, Fits, WriteExecute
    <2>2. UNCHANGED tx BY <1>5 DEF WriteExecute, Execute
    <2> QED BY <2>1, <2>2
  <1>6. CASE WriteCommit(t)
    BY <1>6 DEF WriteCommit, Commit
  <1>7. CASE \/ PickChain(t) \/ PickList(t) \/ PickCredential(t) \/ PickUse(t) \/ PickReturn(t)
             \/ \E e \in call[t].todo : PickFilter(t, e) \/ PickHealth(t, e)
    <2>1. call[t].op # "set"
      BY <1>7 DEF PickChain, PickList, PickCredential, PickUse, PickReturn, PickFilter, PickHealth, At
    <2>2. UNCHANGED tx \/ ~tx'
      BY <1>7 DEF PickChain, PickList, PickCredential, PickUse, PickReturn, PickFilter, PickHealth,
                  connVars, Execute, Commit
    <2> QED BY <2>1, <2>2
  <1>8. CASE (\E b \in call[t].todo : PollNext(t, b)) \/ PollSnapshot(t) \/ PollCommit(t) \/ PollEnd(t)
    <2>1. call[t].op # "set"
      BY <1>8 DEF PollNext, PollSnapshot, PollCommit, PollEnd, At
    <2>2. UNCHANGED tx \/ ~tx'
      BY <1>8 DEF PollNext, PollSnapshot, PollCommit, PollEnd, connVars, Execute, Commit
    <2> QED BY <2>1, <2>2
  <1> QED BY <1>1, <1>2, <1>3, <1>4, <1>5, <1>6, <1>7, <1>8 DEF Step

\* A step of one call, or the beginning of one, leaves the other calls as they are.
LEMMA OthersStay ==
  ASSUME Types, NEW t \in Task, Step(t) \/ Begins(t), NEW u \in Task \ {t}
  PROVE  call'[u] = call[u]
  <1>1. ASSUME NEW c, Goto(t, c) PROVE call'[u] = call[u]
    BY <1>1 DEF Goto, Types, Called
  <1>2. CASE Begins(t) BY <1>1, <1>2, TypesBegin
  <1>3. CASE SetBegin(t) \/ SetDelete(t) \/ SetInsert(t) \/ SetRollback(t) \/ SetCommit(t)
    BY <1>1, <1>3 DEF SetBegin, SetDelete, SetInsert, SetRollback, SetCommit, Move, Return
  <1>4. CASE WriteExecute(t) \/ WriteCommit(t)
    BY <1>1, <1>4 DEF WriteExecute, WriteCommit, Move, Return
  <1>5. CASE \/ PickChain(t) \/ PickList(t) \/ PickCredential(t) \/ PickUse(t) \/ PickReturn(t)
             \/ \E e \in call[t].todo : PickFilter(t, e) \/ PickHealth(t, e)
    BY <1>1, <1>5 DEF PickChain, PickList, PickCredential, PickUse, PickReturn, PickFilter,
                      PickHealth, Move, Return, Loop
  <1>6. CASE (\E b \in call[t].todo : PollNext(t, b)) \/ PollSnapshot(t) \/ PollCommit(t) \/ PollEnd(t)
    BY <1>1, <1>6 DEF PollNext, PollSnapshot, PollCommit, PollEnd, Move, Return
  <1> QED BY <1>2, <1>3, <1>4, <1>5, <1>6 DEF Step

LEMMA TxKept == Types /\ NoTxLeaked /\ [Next]_vars => NoTxLeaked'
  <1> SUFFICES ASSUME Types, NoTxLeaked, [Next]_vars PROVE NoTxLeaked' OBVIOUS
  <1>1. ASSUME NEW t \in Task, Step(t) PROVE NoTxLeaked'
    BY <1>1, TxStep, OthersStay DEF NoTxLeaked
  <1>2. ASSUME NEW t \in Task, Begins(t) PROVE NoTxLeaked'
    <2>1. UNCHANGED tx /\ call[t].op = "none"
      BY <1>2, TypesBegin DEF connVars, NewCall, Idle
    <2> QED BY <1>2, <2>1, OthersStay DEF NoTxLeaked
  <1>3. CASE Tick BY <1>3 DEF Tick, connVars, NoTxLeaked
  <1>4. CASE Restart BY <1>4 DEF Restart, LoseConnection, RollbackTx, NoTxLeaked
  <1>5. CASE UNCHANGED vars BY <1>5 DEF vars, connVars, NoTxLeaked
  <1> QED BY <1>1, <1>2, <1>3, <1>4, <1>5, Split

\* However the statements of calls mix, a transaction is open only while a set_chain runs
\* that will end it: none is left open, in which later writes would wait for a commit.
THEOREM TransactionsEnd == Spec => []NoTxLeaked
  <1>1. Init => NoTxLeaked BY DEF Init, NoTxLeaked
  <1> QED BY <1>1, TypesAlways, TxKept, PTL DEF Spec

-----------------------------------------------------------------------------
\* Calls that do not overlap: what holds of the one call in flight.

Solo == \A t, u \in Task : call[t] # Idle /\ call[u] # Idle => t = u

\* set_chain: the first k entries are inserted, and nothing else is.
Inserted(as, es, v) ==
  \E k \in 0..Len(as) :
    /\ Len(es) = Len(as) - k /\ \A i \in 1..Len(es) : es[i] = as[k + i]
    /\ \A i \in 1..k : as[i].b \in v.live /\ v.chain[as[i].b] = as[i].p
    /\ \A b \in Backend : v.chain[b] # 0 => \E i \in 1..k : as[i].b = b

SetFacts(c, v, x) ==
  c.op = "set" =>
    /\ c.pc # "begin" => x
    /\ c.pc \in {"begin", "delete"} => c.entries = c.asked
    /\ c.pc \in {"insert", "commit"} => Inserted(c.asked, c.entries, v)
    /\ c.pc = "commit" => c.entries = <<>>

\* pick: of the candidates seen so far, in the order of their priority, it has the best.
Ok(e, now, v) == v.until[e.b] <= now /\ v.usage[e.b] < Threshold
Best(todo, best, score, now, C, v) ==
  /\ todo \subseteq C
  /\ \A e \in C \ todo : \A x \in todo : e.p <= x.p
  /\ best = None => score = MaxLevel + 1 /\ \A e \in C \ todo : ~Ok(e, now, v)
  /\ best # None => \E e \in C \ todo :
       /\ e.b = best /\ Ok(e, now, v) /\ score = v.usage[e.b]
       /\ \A x \in C \ todo : Ok(x, now, v) => Precedes(v, e, x)

Filters(todo, kept, kind, es) ==
  /\ es # {} /\ todo \subseteq es /\ kept \subseteq es
  /\ \A e \in es : OfKind(e.b, kind) => e \in todo \cup kept
  /\ \A e \in kept : OfKind(e.b, kind)

PickFacts(c, v) ==
  c.op = "pick" =>
    /\ c.pc \in {"chain", "list", "filter"} => c.best = None /\ c.score = MaxLevel + 1
    /\ c.pc = "chain" => c.kept = {}
    /\ c.pc = "list" => ChainEntries(v) = {}
    /\ c.pc = "filter" => Filters(c.todo, c.kept, c.kind, ChainEntries(v))
    /\ c.pc = "health" => Best(c.todo, c.best, c.score, c.now, Candidates(v, c.kind), v)

Agrees(d, chain) == \A b \in Backend : d.chain[b] = IF b \in d.live THEN chain[b] ELSE 0

AloneInv ==
  alone => /\ Solo
           /\ Agrees(disk, current)
           /\ \A t \in Task : SetFacts(call[t], view, tx) /\ PickFacts(call[t], view)

-----------------------------------------------------------------------------
\* The loop of pick over values.

LEMMA CandidatesAreItems ==
  ASSUME NEW v, Sound(v), NEW k
  PROVE  Candidates(v, k) \in SUBSET Item
  <1>1. ChainEntries(v) \in SUBSET Item BY ChainItems
  <1>2. {[b |-> b, p |-> b] : b \in v.ready} \in SUBSET Item
    BY NumbersAreNumbers DEF Item, Sound, Db
  <1> QED BY <1>1, <1>2 DEF Candidates

\* At its start, and at its end.
LEMMA BestAtStart ==
  ASSUME NEW C, NEW now, NEW v
  PROVE  Best(C, None, MaxLevel + 1, now, C, v)
  BY DEF Best

LEMMA BestAtEnd ==
  ASSUME NEW k, NEW now, NEW v, NEW best, NEW score, Best({}, best, score, now, Candidates(v, k), v)
  PROVE  IF Usable(v, k, now) = {} THEN best = None
         ELSE \E e \in Usable(v, k, now) :
                e.b = best /\ \A x \in Usable(v, k, now) : Precedes(v, e, x)
  BY DEF Best, Usable, Ok

\* The next candidate.
LEMMA BestGoesOn ==
  ASSUME NEW v, Sound(v), NEW C \in SUBSET Item, NEW todo, NEW best, NEW score, NEW now,
         Best(todo, best, score, now, C, v), NEW e \in todo, \A x \in todo : e.p <= x.p
  PROVE  IF Ok(e, now, v) /\ v.usage[e.b] < score
         THEN Best(todo \ {e}, e.b, v.usage[e.b], now, C, v)
         ELSE Best(todo \ {e}, best, score, now, C, v)
  <1>0. e \in C /\ C \ (todo \ {e}) = (C \ todo) \cup {e} BY DEF Best
  <1>1. \A x \in C : x.b \in Backend /\ x.b # None /\ x.p \in Nat /\ v.usage[x.b] \in Nat
                      /\ v.usage[x.b] < MaxLevel + 1
    <2>1. ASSUME NEW x \in C
          PROVE  /\ x.b \in Backend /\ x.b # None /\ x.p \in Nat /\ v.usage[x.b] \in Nat
                 /\ v.usage[x.b] < MaxLevel + 1
      <3>1. x.b \in Backend /\ x.p \in Nat /\ x.b # None BY BackendAssumption DEF Item
      <3>2. v.usage \in [Backend -> 0..MaxLevel] BY DEF Sound, Db, Level
      <3>3. v.usage[x.b] \in 0..MaxLevel BY <3>1, <3>2
      <3> QED BY <3>1, <3>3, NumbersAreNumbers
    <2> QED BY <2>1
  <1>2. todo \ {e} \subseteq C /\ \A y \in C \ (todo \ {e}) : \A x \in todo \ {e} : y.p <= x.p
    BY <1>0 DEF Best
  <1>3. \A x \in C \ todo : x.p <= e.p BY DEF Best
  <1>4. CASE Ok(e, now, v) /\ v.usage[e.b] < score
    <2>1. \A x \in C \ todo : Ok(x, now, v) => v.usage[e.b] < v.usage[x.b]
      <3>1. CASE best = None BY <3>1 DEF Best
      <3>2. CASE best # None
        <4>1. PICK f \in C \ todo : /\ score = v.usage[f.b]
                                    /\ \A x \in C \ todo : Ok(x, now, v) => Precedes(v, f, x)
          BY <3>2 DEF Best
        <4>2. \A x \in C \ todo : Ok(x, now, v) => v.usage[f.b] <= v.usage[x.b]
          BY <1>1, <4>1 DEF Precedes
        <4> QED BY <1>0, <1>1, <1>4, <4>1, <4>2
      <3> QED BY <3>1, <3>2
    <2>2. \A x \in C \ (todo \ {e}) : Ok(x, now, v) => Precedes(v, e, x)
      BY <1>0, <1>1, <2>1 DEF Precedes
    <2>3. e.b # None /\ e \in C \ (todo \ {e}) BY <1>0, <1>1
    <2>4. Best(todo \ {e}, e.b, v.usage[e.b], now, C, v)
      BY <1>2, <1>4, <2>2, <2>3 DEF Best
    <2> QED BY <1>4, <2>4
  <1>5. CASE ~(Ok(e, now, v) /\ v.usage[e.b] < score)
    <2>1. CASE best = None
      <3>1. score = MaxLevel + 1 /\ \A x \in C \ todo : ~Ok(x, now, v) BY <2>1 DEF Best
      <3>2. ~Ok(e, now, v) BY <1>0, <1>1, <1>5, <3>1
      <3>3. Best(todo \ {e}, best, score, now, C, v)
        BY <1>0, <1>2, <2>1, <3>1, <3>2 DEF Best
      <3> QED BY <1>5, <3>3
    <2>2. CASE best # None
      <3>1. PICK f \in C \ todo : /\ f.b = best /\ Ok(f, now, v) /\ score = v.usage[f.b]
                                  /\ \A x \in C \ todo : Ok(x, now, v) => Precedes(v, f, x)
        BY <2>2 DEF Best
      <3>2. Ok(e, now, v) => Precedes(v, f, e)
        BY <1>0, <1>1, <1>3, <1>5, <3>1 DEF Precedes
      <3>3. \A x \in C \ (todo \ {e}) : Ok(x, now, v) => Precedes(v, f, x)
        BY <1>0, <3>1, <3>2
      <3>4. f \in C \ (todo \ {e}) BY <1>0
      <3>5. Best(todo \ {e}, best, score, now, C, v)
        BY <1>2, <2>2, <3>1, <3>3, <3>4 DEF Best
      <3> QED BY <1>5, <3>5
    <2> QED BY <2>1, <2>2
  <1> QED BY <1>4, <1>5

-----------------------------------------------------------------------------
\* The loop of set_chain over values.

LEMMA SeqFacts ==
  ASSUME NEW S, NEW q \in Seq(S)
  PROVE  /\ Len(q) \in Nat /\ DOMAIN q = 1..Len(q) /\ \A i \in 1..Len(q) : q[i] \in S
         /\ q # <<>> => /\ Len(q) > 0 /\ 1 \in 1..Len(q) /\ Head(q) = q[1]
                        /\ Tail(q) \in Seq(S) /\ Len(Tail(q)) = Len(q) - 1
                        /\ \A i \in 1..(Len(q) - 1) : Tail(q)[i] = q[i + 1]
  OBVIOUS

LEMMA Indices ==
  ASSUME NEW n \in Nat
  PROVE  /\ 0 \in 0..n /\ n = n - 0 /\ \A i \in 1..n : 0 + i = i
         /\ \A k \in 0..n : 0 = n - k => k = n
         /\ \A k \in 0..n, m \in Nat : m = n - k /\ m > 0 =>
              /\ k + 1 \in 0..n /\ m - 1 = n - (k + 1)
              /\ \A i \in 1..k : i \in 1..n /\ i \in 1..(k + 1)
              /\ \A i \in 1..(k + 1) : i \in 1..k \/ i = k + 1
              /\ k + 1 \in 1..(k + 1)
              /\ \A i \in 1..(m - 1) : i + 1 \in 1..m /\ k + (i + 1) = (k + 1) + i
  OBVIOUS

LEMMA NothingInserted ==
  ASSUME NEW as \in Seq(Entry), NEW v, \A b \in Backend : v.chain[b] = 0
  PROVE  Inserted(as, as, v)
  <1>1. Len(as) \in Nat BY SeqFacts
  <1>2. 0 \in 0..Len(as) /\ Len(as) = Len(as) - 0 /\ \A i \in 1..Len(as) : 0 + i = i
    BY <1>1, Indices
  <1>3. \A i \in 1..0 : FALSE OBVIOUS
  <1>4. \A i \in 1..Len(as) : as[i] = as[0 + i] BY <1>2
  <1>5. /\ \A i \in 1..0 : as[i].b \in v.live /\ v.chain[as[i].b] = as[i].p
        /\ \A b \in Backend : v.chain[b] # 0 => \E i \in 1..0 : as[i].b = b
    BY <1>3
  <1> QED BY <1>2, <1>4, <1>5 DEF Inserted

\* Database w is v with entry e, which v did not have.
Added(e, v, w) ==
  /\ v.chain[e.b] = 0 /\ e.b \in v.live /\ w.live = v.live
  /\ \A b \in Backend : w.chain[b] = IF b = e.b THEN e.p ELSE v.chain[b]

LEMMA OneInserted ==
  ASSUME NEW as \in Seq(Entry), NEW es \in Seq(Entry), es # <<>>,
         NEW v, Inserted(as, es, v), NEW w, Added(Head(es), v, w)
  PROVE  Inserted(as, Tail(es), w)
  <1>0. /\ v.chain[Head(es).b] = 0 /\ Head(es).b \in v.live /\ w.live = v.live
        /\ \A b \in Backend : w.chain[b] = IF b = Head(es).b THEN Head(es).p ELSE v.chain[b]
    BY DEF Added
  <1>1. PICK k \in 0..Len(as) :
          /\ Len(es) = Len(as) - k /\ \A i \in 1..Len(es) : es[i] = as[k + i]
          /\ \A i \in 1..k : as[i].b \in v.live /\ v.chain[as[i].b] = as[i].p
          /\ \A b \in Backend : v.chain[b] # 0 => \E i \in 1..k : as[i].b = b
    BY DEF Inserted
  <1> DEFINE n == Len(as)
             m == Len(es)
  <1>2. /\ n \in Nat /\ m \in Nat /\ m > 0 /\ 1 \in 1..m
        /\ Head(es) = es[1] /\ Head(es) \in Entry
        /\ Len(Tail(es)) = m - 1 /\ \A i \in 1..(m - 1) : Tail(es)[i] = es[i + 1]
        /\ \A i \in 1..n : as[i] \in Entry
    <2>1. Len(as) \in Nat /\ \A i \in 1..Len(as) : as[i] \in Entry BY SeqFacts
    <2>2. /\ Len(es) \in Nat /\ Len(es) > 0 /\ 1 \in 1..Len(es)
          /\ Head(es) = es[1] /\ Len(Tail(es)) = Len(es) - 1
          /\ \A i \in 1..(Len(es) - 1) : Tail(es)[i] = es[i + 1]
      BY SeqFacts
    <2>3. es[1] \in Entry
      <3>1. \A i \in 1..Len(es) : es[i] \in Entry BY SeqFacts
      <3> QED BY <2>2, <3>1
    <2> QED BY <2>1, <2>2, <2>3
  <1>3. /\ k + 1 \in 0..n /\ m - 1 = n - (k + 1)
        /\ \A i \in 1..k : i \in 1..n /\ i \in 1..(k + 1)
        /\ \A i \in 1..(k + 1) : i \in 1..k \/ i = k + 1
        /\ k + 1 \in 1..(k + 1)
        /\ \A i \in 1..(m - 1) : i + 1 \in 1..m /\ k + (i + 1) = (k + 1) + i
    <2>1. m = n - k /\ k \in 0..n BY <1>1
    <2> HIDE DEF n, m
    <2> QED BY <1>2, <2>1, Indices
  <1>4. Head(es) = as[k + 1] BY <1>1, <1>2
  <1>5. \A i \in 1..Len(Tail(es)) : Tail(es)[i] = as[(k + 1) + i]
    <2>1. ASSUME NEW i \in 1..(m - 1) PROVE Tail(es)[i] = as[(k + 1) + i]
      <3>1. Tail(es)[i] = es[i + 1] /\ i + 1 \in 1..m /\ k + (i + 1) = (k + 1) + i BY <1>2, <1>3
      <3>2. es[i + 1] = as[k + (i + 1)] BY <1>1, <3>1
      <3> QED BY <3>1, <3>2
    <2> QED BY <1>2, <2>1
  <1>6. \A e \in Entry : e.b \in Backend /\ e.p # 0 BY NumbersAreNumbers DEF Entry
  <1>7. \A i \in 1..k : as[i].b \in Backend /\ as[i].b # Head(es).b
    <2>1. ASSUME NEW i \in 1..k PROVE as[i].b \in Backend /\ as[i].b # Head(es).b
      <3>1. as[i] \in Entry BY <1>2, <1>3
      <3>2. as[i].b \in Backend /\ as[i].p # 0 BY <1>6, <3>1
      <3>3. v.chain[as[i].b] = as[i].p BY <1>1
      <3> QED BY <1>0, <3>2, <3>3
    <2> QED BY <2>1
  <1>8. \A i \in 1..(k + 1) : as[i].b \in w.live /\ w.chain[as[i].b] = as[i].p
    <2>1. ASSUME NEW i \in 1..k PROVE as[i].b \in w.live /\ w.chain[as[i].b] = as[i].p
      BY <1>0, <1>1, <1>7
    <2>2. w.chain[Head(es).b] = Head(es).p /\ Head(es).b \in w.live BY <1>0, <1>2, <1>6
    <2> QED BY <1>3, <1>4, <2>1, <2>2
  <1>9. \A b \in Backend : w.chain[b] # 0 => \E i \in 1..(k + 1) : as[i].b = b
    <2>1. ASSUME NEW b \in Backend, w.chain[b] # 0, b # Head(es).b
          PROVE \E i \in 1..k : as[i].b = b
      BY <1>0, <1>1, <2>1
    <2> QED BY <1>3, <1>4, <2>1
  <1>10. Len(Tail(es)) = Len(as) - (k + 1) BY <1>2, <1>3
  <1> HIDE DEF n, m
  <1>11. k + 1 \in 0..Len(as) BY <1>3 DEF n
  <1> QED BY <1>5, <1>8, <1>9, <1>10, <1>11 DEF Inserted

\* When the last entry is in, the chain is the one that was asked for.
LEMMA AllInserted ==
  ASSUME NEW as \in Seq(Entry), NEW v, Sound(v), Inserted(as, <<>>, v), NEW b \in Backend
  PROVE  v.chain[b] = IF b \in v.live THEN ChainOf(as)[b] ELSE 0
  <1>1. PICK k \in 0..Len(as) :
          /\ 0 = Len(as) - k
          /\ \A i \in 1..k : as[i].b \in v.live /\ v.chain[as[i].b] = as[i].p
          /\ \A x \in Backend : v.chain[x] # 0 => \E i \in 1..k : as[i].b = x
    BY DEF Inserted
  <1>a. Len(as) \in Nat /\ DOMAIN as = 1..Len(as) BY SeqFacts
  <1>2. k = Len(as) /\ DOMAIN as = 1..k BY <1>1, <1>a, Indices
  <1>3. ChainOf(as)[b] = IF \E i \in DOMAIN as : as[i].b = b
                         THEN as[CHOOSE i \in DOMAIN as : as[i].b = b].p ELSE 0
    BY DEF ChainOf
  <1>4. CASE \E i \in DOMAIN as : as[i].b = b
    <2>1. PICK i \in DOMAIN as : i = (CHOOSE x \in DOMAIN as : as[x].b = b) /\ as[i].b = b
      BY <1>4
    <2> QED BY <1>1, <1>2, <1>3, <1>4, <2>1
  <1>5. CASE ~\E i \in DOMAIN as : as[i].b = b
    BY <1>1, <1>2, <1>3, <1>5
  <1> QED BY <1>4, <1>5

-----------------------------------------------------------------------------
\* The steps of the one call in flight.

Mine(t) ==
  /\ SetFacts(call'[t], view', tx') /\ PickFacts(call'[t], view')
  /\ Agrees(disk', current')

LEMMA IdleFacts == \A v, x : SetFacts(Idle, v, x) /\ PickFacts(Idle, v)
  BY DEF SetFacts, PickFacts, Idle

LEMMA NotIdle ==
  ASSUME Types, NEW t \in Task, Step(t)
  PROVE  call[t] # Idle /\ UNCHANGED alone
  <1>0. Idle.op = "none" /\ Idle.pc = "idle" BY DEF Idle
  <1>1. CASE SetBegin(t) \/ SetDelete(t) \/ SetInsert(t) \/ SetRollback(t) \/ SetCommit(t)
    BY <1>0, <1>1 DEF SetBegin, SetDelete, SetInsert, SetRollback, SetCommit, At
  <1>2. CASE WriteExecute(t) \/ WriteCommit(t)
    BY <1>0, <1>2 DEF WriteExecute, WriteCommit, At
  <1>3. CASE PickChain(t) \/ PickList(t) \/ PickCredential(t) \/ PickUse(t) \/ PickReturn(t)
    BY <1>0, <1>3 DEF PickChain, PickList, PickCredential, PickUse, PickReturn, At
  <1>4. CASE \E e \in call[t].todo : PickFilter(t, e) \/ PickHealth(t, e)
    BY <1>0, <1>4 DEF PickFilter, PickHealth, At
  <1>5. CASE \E b \in call[t].todo : PollNext(t, b)
    BY <1>0, <1>5 DEF PollNext, At
  <1>6. CASE PollSnapshot(t) \/ PollCommit(t) \/ PollEnd(t)
    BY <1>0, <1>6 DEF PollSnapshot, PollCommit, PollEnd, At
  <1> QED BY <1>1, <1>2, <1>3, <1>4, <1>5, <1>6 DEF Step

LEMMA MineIsEnough ==
  ASSUME Types, AloneInv, alone, NEW t \in Task, Step(t), Mine(t)
  PROVE  AloneInv'
  <1>1. \A u \in Task \ {t} : call[u] = Idle /\ call'[u] = Idle
    BY NotIdle, OthersStay DEF AloneInv, Solo
  <1>2. Solo' BY <1>1 DEF Solo
  <1>3. \A u \in Task : SetFacts(call'[u], view', tx') /\ PickFacts(call'[u], view')
    BY <1>1, IdleFacts DEF Mine
  <1> QED BY <1>2, <1>3 DEF AloneInv, Mine

\* Unless it is a set_chain there is no transaction.
LEMMA NoTx ==
  ASSUME Types, NoTxLeaked, AloneInv, alone, NEW t \in Task, Step(t), call[t].op # "set"
  PROVE  ~tx /\ view = disk /\ Sound(view)
  <1>1. \A u \in Task \ {t} : call[u] = Idle BY NotIdle DEF AloneInv, Solo
  <1>2. \A u \in Task \ {t} : call[u].op # "set" BY <1>1 DEF Idle
  <1>3. ~tx BY <1>2 DEF NoTxLeaked
  <1> QED BY <1>3 DEF Types, Connected, Settled

LEMMA AloneSet ==
  ASSUME Types, NoTxLeaked, AloneInv, alone, NEW t \in Task,
         SetBegin(t) \/ SetDelete(t) \/ SetInsert(t) \/ SetRollback(t) \/ SetCommit(t)
  PROVE  Mine(t)
  <1>0. Called BY DEF Types
  <1>1. Agrees(disk, current) /\ SetFacts(call[t], view, tx) BY DEF AloneInv
  <1>2. call[t] \in Call /\ call[t].op = "set"
    BY <1>0 DEF Called, SetBegin, SetDelete, SetInsert, SetRollback, SetCommit, At
  <1>3. call[t].asked \in Seq(Entry) /\ call[t].entries \in Seq(Entry) BY <1>2 DEF Call
  <1>4. ASSUME Return(t), Agrees(disk', current') PROVE Mine(t)
    BY <1>0, <1>4, Returns, IdleFacts DEF Mine
  <1>5. CASE SetBegin(t)
    <2>1. CASE BeginTx /\ Move(t, "delete")
      <3>1. /\ call'[t].op = "set" /\ call'[t].pc = "delete"
            /\ call'[t].entries = call[t].entries /\ call'[t].asked = call[t].asked
        BY <1>0, <1>2, <2>1, Moves DEF Places
      <3>2. call[t].entries = call[t].asked /\ tx' /\ disk' = disk /\ current' = current
        BY <1>1, <1>2, <1>5, <2>1 DEF SetFacts, SetBegin, At, BeginTx
      <3> QED BY <1>1, <3>1, <3>2 DEF Mine, SetFacts, PickFacts
    <2>2. CASE Return(t) /\ UNCHANGED connVars
      BY <1>1, <1>4, <1>5, <2>2 DEF SetBegin, connVars
    <2> QED BY <1>5, <2>1, <2>2 DEF SetBegin
  <1>6. CASE SetDelete(t)
    <2>1. /\ call'[t].op = "set" /\ call'[t].pc = "insert"
          /\ call'[t].entries = call[t].entries /\ call'[t].asked = call[t].asked
      BY <1>0, <1>2, <1>6, Moves DEF SetDelete, Places
    <2>2. call[t].entries = call[t].asked /\ tx
      BY <1>1, <1>2, <1>6 DEF SetFacts, SetDelete, At
    <2>3. tx' /\ disk' = disk /\ current' = current /\ view' = [view EXCEPT !.chain = NoChain]
      BY <1>6, <2>2 DEF SetDelete, Execute
    <2>4. \A b \in Backend : view'.chain[b] = 0
      BY <2>3 DEF Types, Connected, Sound, Db, NoChain
    <2>5. Inserted(call[t].asked, call[t].asked, view') BY <1>3, <2>4, NothingInserted
    <2> QED BY <1>1, <2>1, <2>2, <2>3, <2>5 DEF Mine, SetFacts, PickFacts
  <1>7. CASE SetInsert(t)
    <2> DEFINE es == call[t].entries
    <2>0. tx /\ Inserted(call[t].asked, es, view) /\ current' = current
      BY <1>1, <1>2, <1>7 DEF SetFacts, SetInsert, At
    <2>1. CASE es = <<>> /\ Move(t, "commit") /\ UNCHANGED connVars
      <3>1. /\ call'[t].op = "set" /\ call'[t].pc = "commit"
            /\ call'[t].entries = es /\ call'[t].asked = call[t].asked
        BY <1>0, <1>2, <2>1, Moves DEF Places
      <3> QED BY <1>1, <2>0, <2>1, <3>1 DEF Mine, SetFacts, PickFacts, connVars
    <2>2. CASE /\ es # <<>> /\ Insertable(Head(es))
               /\ Execute([view EXCEPT !.chain[Head(es).b] = Head(es).p])
               /\ Goto(t, [call[t] EXCEPT !.entries = Tail(es)])
      <3>1. PICK r : r = [call[t] EXCEPT !.entries = Tail(es)] OBVIOUS
      <3>2. call[t].pc = "insert" BY <1>7 DEF SetInsert, At
      <3>3. r.entries = Tail(es) /\ r.op = "set" /\ r.pc = "insert" /\ r.asked = call[t].asked
        BY <1>2, <2>2, <3>1, <3>2, Shortened
      <3>4. call'[t] = r BY <1>0, <2>2, <3>1 DEF Called, Goto
      <3>5. Head(es) \in Entry BY <1>3, <2>2, SeqFacts
      <3>6. /\ view' = [view EXCEPT !.chain[Head(es).b] = Head(es).p] /\ tx' /\ disk' = disk
            /\ Head(es).b \in view.live /\ view.chain[Head(es).b] = 0
        BY <2>0, <2>2 DEF Execute, Insertable
      <3>7. view'.live = view.live /\ \A b \in Backend :
              view'.chain[b] = IF b = Head(es).b THEN Head(es).p ELSE view.chain[b]
        BY <3>5, <3>6 DEF Types, Connected, Sound, Db, Entry
      <3>8. Inserted(call[t].asked, Tail(es), view')
        <4>1. call[t].asked \in Seq(Entry) /\ es \in Seq(Entry) BY <1>3
        <4>2. es # <<>> /\ Inserted(call[t].asked, es, view) BY <2>0, <2>2
        <4> HIDE DEF es
        <4>3. Added(Head(es), view, view') BY <3>6, <3>7 DEF Added
        <4> QED BY <4>1, <4>2, <4>3, OneInserted
      <3> QED BY <1>1, <2>0, <3>3, <3>4, <3>6, <3>8 DEF Mine, SetFacts, PickFacts
    <2>3. CASE Move(t, "rollback") /\ UNCHANGED connVars
      <3>1. call'[t].op = "set" /\ call'[t].pc = "rollback"
        BY <1>0, <1>2, <2>3, Moves DEF Places
      <3> QED BY <1>1, <2>0, <2>3, <3>1 DEF Mine, SetFacts, PickFacts, connVars
    <2> QED BY <1>7, <2>1, <2>2, <2>3 DEF SetInsert
  <1>8. CASE SetRollback(t)
    <2>1. disk' = disk /\ current' = current /\ Return(t)
      BY <1>8 DEF SetRollback, RollbackTx, connVars
    <2> QED BY <1>1, <1>4, <2>1
  <1>9. CASE SetCommit(t)
    <2>1. tx /\ call[t].entries = <<>> /\ Inserted(call[t].asked, <<>>, view)
      BY <1>1, <1>2, <1>9 DEF SetFacts, SetCommit, At
    <2>2. disk' = view /\ current' = ChainOf(call[t].asked) /\ Return(t)
      BY <1>9, <2>1 DEF SetCommit, CanEnd, Commit
    <2>3. Sound(view) BY DEF Types, Connected
    <2>4. Agrees(view, ChainOf(call[t].asked)) BY <1>3, <2>1, <2>3, AllInserted DEF Agrees
    <2> QED BY <1>4, <2>2, <2>4
  <1> QED BY <1>5, <1>6, <1>7, <1>8, <1>9

LEMMA AloneWrite ==
  ASSUME Types, NoTxLeaked, AloneInv, alone, NEW t \in Task, WriteExecute(t) \/ WriteCommit(t)
  PROVE  Mine(t)
  <1>0. Called /\ Fits(call[t]) BY DEF Types, Called
  <1>1. call[t].op \in {"limit", "delete"} BY <1>0 DEF Fits, WriteExecute, WriteCommit, At
  <1>2. ~tx /\ view = disk /\ Sound(view) BY <1>1, NoTx DEF Step
  <1>3. Agrees(view, current) BY <1>2 DEF AloneInv
  <1>4. CASE WriteExecute(t)
    <2>1. call'[t].op \in {"limit", "delete"} BY <1>0, <1>1, <1>4, Moves DEF WriteExecute, Places
    <2>2. SetFacts(call'[t], view', tx') /\ PickFacts(call'[t], view')
      BY <2>1 DEF SetFacts, PickFacts
    <2>3. disk' = view' /\ current' = current BY <1>2, <1>4 DEF WriteExecute, Execute
    <2>4. CASE view' = Without(call[t].b)
      <3>1. call[t].b \in Backend BY <1>0, <1>1 DEF Fits
      <3>2. /\ view'.live = view.live \ {call[t].b}
            /\ \A x \in Backend : view'.chain[x] = IF x = call[t].b THEN 0 ELSE view.chain[x]
        BY <1>2, <2>4, <3>1, WithoutIsSound
      <3>3. Agrees(view', current) BY <1>3, <3>2 DEF Agrees
      <3> QED BY <2>2, <2>3, <3>3 DEF Mine
    <2>5. CASE view' = [view EXCEPT !.until[call[t].b] = time + 1]
      <3>1. view'.live = view.live /\ view'.chain = view.chain
        BY <1>2, <2>5 DEF Sound, Db
      <3>2. Agrees(view', current) BY <1>3, <3>1 DEF Agrees
      <3> QED BY <2>2, <2>3, <3>2 DEF Mine
    <2>6. CASE view' = view
      BY <1>3, <2>2, <2>3, <2>6 DEF Mine
    <2> QED BY <1>4, <2>4, <2>5, <2>6 DEF WriteExecute, Execute
  <1>5. CASE WriteCommit(t)
    <2>1. call'[t] = Idle BY <1>0, <1>5, Returns DEF WriteCommit
    <2>2. disk' = view /\ current' = current BY <1>5 DEF WriteCommit, Commit
    <2> QED BY <1>3, <2>1, <2>2, IdleFacts DEF Mine
  <1> QED BY <1>4, <1>5

LEMMA AlonePoll ==
  ASSUME Types, NoTxLeaked, AloneInv, alone, NEW t \in Task,
         (\E b \in call[t].todo : PollNext(t, b)) \/ PollSnapshot(t) \/ PollCommit(t) \/ PollEnd(t)
  PROVE  Mine(t)
  <1>0. Types' BY TypesPoll
  <1>1. call[t].op = "poll" BY DEF PollNext, PollSnapshot, PollCommit, PollEnd, At
  <1>2. ~tx /\ view = disk /\ Sound(view) BY <1>1, NoTx DEF Step
  <1>3. Agrees(view, current) BY <1>2 DEF AloneInv
  <1>4. call[t] \in Call BY DEF Types, Called
  <1>5. call'[t].op \in {"poll", "none"}
    <2>1. ASSUME NEW p \in Places, Move(t, p) PROVE call'[t].op = "poll"
      <3>1. call'[t] = [call[t] EXCEPT !.pc = p] BY <2>1 DEF Types, Called, Move, Goto
      <3> QED BY <1>1, <1>4, <3>1 DEF Call
    <2>2. ASSUME Return(t) PROVE call'[t].op = "none"
      BY <2>2, Returns DEF Idle, Types
    <2>3. ASSUME NEW b \in call[t].todo, PollNext(t, b) PROVE call'[t].op = "poll"
      <3>1. PICK c : c = [call[t] EXCEPT !.todo = @ \ {b}, !.b = b] OBVIOUS
      <3>2. call[t].todo \subseteq Backend BY <1>1 DEF Types, Called, Fits
      <3>3. c \in Call /\ c.op = "poll" BY <1>1, <1>4, <3>1, <3>2 DEF Call
      <3>4. CASE Goto(t, c) BY <3>3, <3>4 DEF Goto, Types, Called
      <3>5. CASE Goto(t, [c EXCEPT !.pc = "stamp"])
        <4>1. call'[t] = [c EXCEPT !.pc = "stamp"] BY <3>5 DEF Goto, Types, Called
        <4> QED BY <3>3, <4>1 DEF Call
      <3>6. ASSUME NEW u \in Level, Goto(t, [c EXCEPT !.pc = "snapshot", !.level = u])
            PROVE call'[t].op = "poll"
        <4>1. call'[t] = [c EXCEPT !.pc = "snapshot", !.level = u]
          BY <3>6 DEF Goto, Types, Called
        <4> QED BY <3>3, <4>1 DEF Call
      <3> QED BY <2>3, <3>1, <3>4, <3>5, <3>6 DEF PollNext
    <2> QED BY <2>1, <2>2, <2>3 DEF PollSnapshot, PollCommit, PollEnd, Places
  <1>6. SetFacts(call'[t], view', tx') /\ PickFacts(call'[t], view')
    BY <1>5 DEF SetFacts, PickFacts
  <1>7. disk' = view' /\ current' = current
    BY <1>2 DEF PollNext, PollSnapshot, PollCommit, PollEnd, connVars, Execute, Commit
  <1>8. view'.live = view.live /\ view'.chain = view.chain
    <2>1. view' = view \/ view' = [view EXCEPT !.usage[call[t].b] = call[t].level]
      BY DEF PollNext, PollSnapshot, PollCommit, PollEnd, connVars, Execute, Commit
    <2> QED BY <1>2, <2>1 DEF Sound, Db
  <1>9. Agrees(view', current) BY <1>3, <1>8 DEF Agrees
  <1> QED BY <1>6, <1>7, <1>9 DEF Mine

LEMMA AlonePick ==
  ASSUME Types, NoTxLeaked, AloneInv, alone, NEW t \in Task,
         \/ PickChain(t) \/ PickList(t) \/ PickCredential(t) \/ PickUse(t) \/ PickReturn(t)
         \/ \E e \in call[t].todo : PickFilter(t, e) \/ PickHealth(t, e)
  PROVE  Mine(t)
  <1>1. call[t].op = "pick"
    BY DEF PickChain, PickList, PickCredential, PickUse, PickReturn, PickFilter, PickHealth, At
  <1>2. ~tx /\ view = disk /\ Sound(view) BY <1>1, NoTx DEF Step
  <1>3. Agrees(view, current) /\ PickFacts(call[t], view) BY <1>2 DEF AloneInv
  <1>4. Called BY DEF Types
  <1>5. call[t] \in Call /\ Fits(call[t]) /\ call[t].todo \in SUBSET Item /\ call[t].kept \in SUBSET Item
    BY <1>1, <1>4, PickingItems
  <1>6. view' = view /\ disk' = view /\ current' = current
    BY <1>2 DEF PickChain, PickList, PickCredential, PickUse, PickReturn, PickFilter, PickHealth,
                connVars, Execute, Commit
  <1>7. ASSUME call'[t].op = "pick", PickFacts(call'[t], view) PROVE Mine(t)
    BY <1>3, <1>6, <1>7 DEF Mine, SetFacts
  <1>8. ASSUME Return(t) PROVE Mine(t)
    BY <1>3, <1>4, <1>6, <1>8, Returns, IdleFacts DEF Mine
  <1>9. ASSUME NEW p \in {"use", "used"}, Move(t, p) PROVE Mine(t)
    <2>1. call'[t].op = "pick" /\ call'[t].pc = p BY <1>1, <1>4, <1>9, Moves DEF Places
    <2> QED BY <1>7, <2>1 DEF PickFacts
  <1>10. ChainEntries(view) \in SUBSET Item BY <1>2, ChainItems
  <1>11. ASSUME NEW s \in SUBSET Item, Loop(t, call[t], s), s = Candidates(view, call[t].kind),
                call[t].best = None, call[t].score = MaxLevel + 1
         PROVE  Mine(t)
    <2>1. /\ call'[t].op = "pick" /\ call'[t].pc = "health" /\ call'[t].todo = s
          /\ call'[t].kind = call[t].kind /\ call'[t].best = None /\ call'[t].score = MaxLevel + 1
      BY <1>1, <1>5, <1>11, LoopKeeps
    <2>2. Best(s, None, MaxLevel + 1, call'[t].now, s, view) BY BestAtStart
    <2> QED BY <1>7, <1>11, <2>1, <2>2 DEF PickFacts
  <1>12. CASE PickChain(t)
    <2> DEFINE es == ChainEntries(view)
    <2>1. call[t].best = None /\ call[t].score = MaxLevel + 1 /\ call[t].kept = {}
      BY <1>1, <1>3, <1>12 DEF PickFacts, PickChain, At
    <2>2. CASE es = {} /\ Move(t, "list")
      <3>1. /\ call'[t].op = "pick" /\ call'[t].pc = "list"
            /\ call'[t].best = None /\ call'[t].score = MaxLevel + 1
        BY <1>1, <1>4, <2>1, <2>2, Moves DEF Places
      <3> QED BY <1>7, <2>2, <3>1 DEF PickFacts
    <2>3. CASE es # {} /\ call[t].kind = None /\ Loop(t, call[t], es)
      <3>1. Candidates(view, None) = es BY <2>3 DEF Candidates, OfKind
      <3> QED BY <1>10, <1>11, <2>1, <2>3, <3>1
    <2>4. CASE es # {} /\ Goto(t, [call[t] EXCEPT !.pc = "filter", !.todo = es])
      <3>1. PICK r : r = [call[t] EXCEPT !.pc = "filter", !.todo = es] OBVIOUS
      <3>2. /\ r.op = "pick" /\ r.pc = "filter" /\ r.todo = es /\ r.kept = {}
            /\ r.best = None /\ r.score = MaxLevel + 1
        BY <1>1, <1>5, <1>10, <2>1, <3>1 DEF Call, Places
      <3>3. call'[t] = r BY <1>4, <2>4, <3>1 DEF Called, Goto
      <3>4. Filters(es, {}, r.kind, es) BY <2>4 DEF Filters
      <3> QED BY <1>7, <3>2, <3>3, <3>4 DEF PickFacts
    <2> QED BY <1>12, <2>2, <2>3, <2>4 DEF PickChain
  <1>13. ASSUME NEW e \in call[t].todo, PickFilter(t, e) PROVE Mine(t)
    <2> DEFINE es == ChainEntries(view)
               k == call[t].kind
               left == call[t].todo \ {e}
               kept == IF e.b \in view.live /\ OfKind(e.b, k) THEN call[t].kept \cup {e} ELSE call[t].kept
    <2>1. /\ call[t].best = None /\ call[t].score = MaxLevel + 1 /\ call[t].pc = "filter"
          /\ Filters(call[t].todo, call[t].kept, k, es)
      BY <1>1, <1>3, <1>13 DEF PickFacts, PickFilter, At
    <2>2. e.b \in view.live BY <1>2, <2>1, ChainItems DEF Filters
    <2>3. Filters(left, kept, k, es) BY <2>1, <2>2 DEF Filters
    <2>4. left \in SUBSET Item /\ kept \in SUBSET Item BY <1>5
    <2>5. (left = {} /\ Loop(t, call[t], kept)) \/ Goto(t, [call[t] EXCEPT !.todo = left, !.kept = kept])
      BY <1>13 DEF PickFilter
    <2> HIDE DEF left, kept
    <2>6. CASE left = {} /\ Loop(t, call[t], kept)
      <3>1. kept = Candidates(view, k) BY <2>3, <2>6 DEF Filters, Candidates
      <3> QED BY <1>11, <2>1, <2>4, <2>6, <3>1
    <2>7. CASE Goto(t, [call[t] EXCEPT !.todo = left, !.kept = kept])
      <3>1. call'[t] = [call[t] EXCEPT !.todo = left, !.kept = kept]
        BY <1>4, <2>7 DEF Called, Goto
      <3>2. /\ call'[t].op = "pick" /\ call'[t].pc = "filter" /\ call'[t].todo = left
            /\ call'[t].kept = kept /\ call'[t].kind = k
            /\ call'[t].best = None /\ call'[t].score = MaxLevel + 1
        BY <1>1, <1>5, <2>1, <2>4, <3>1 DEF Call
      <3> QED BY <1>7, <2>3, <3>2 DEF PickFacts
    <2> QED BY <2>5, <2>6, <2>7
  <1>14. CASE PickList(t)
    <2> DEFINE k == call[t].kind
               ready == {[b |-> b, p |-> b] : b \in {x \in view.ready : OfKind(x, k)}}
    <2>1. call[t].best = None /\ call[t].score = MaxLevel + 1 /\ ChainEntries(view) = {}
      BY <1>1, <1>3, <1>14 DEF PickFacts, PickList, At
    <2>2. ready \in SUBSET Item BY <1>2, ReadyItems
    <2>3. ready = Candidates(view, k) BY <2>1 DEF Candidates
    <2>4. Loop(t, call[t], ready) BY <1>14 DEF PickList
    <2> HIDE DEF ready
    <2> QED BY <1>11, <2>1, <2>2, <2>3, <2>4
  <1>15. ASSUME NEW e \in call[t].todo, PickHealth(t, e) PROVE Mine(t)
    <2> DEFINE C == Candidates(view, call[t].kind)
    <2>1. /\ call[t].pc = "health" /\ \A x \in call[t].todo : e.p <= x.p
          /\ Best(call[t].todo, call[t].best, call[t].score, call[t].now, C, view)
      BY <1>1, <1>3, <1>15 DEF PickFacts, PickHealth, At
    <2>2. C \in SUBSET Item BY <1>2, CandidatesAreItems
    <2> HIDE DEF C
    <2>3. IF Ok(e, call[t].now, view) /\ view.usage[e.b] < call[t].score
          THEN Best(call[t].todo \ {e}, e.b, view.usage[e.b], call[t].now, C, view)
          ELSE Best(call[t].todo \ {e}, call[t].best, call[t].score, call[t].now, C, view)
      BY <1>2, <2>1, <2>2, BestGoesOn
    <2>4. PICK c : c = [call[t] EXCEPT !.todo = @ \ {e}] OBVIOUS
    <2>5. call[t].todo \ {e} \in SUBSET Item BY <1>5
    <2>6. /\ c \in Call /\ c.op = "pick" /\ c.pc = "health" /\ c.todo = call[t].todo \ {e}
          /\ c.kind = call[t].kind /\ c.now = call[t].now
          /\ c.best = call[t].best /\ c.score = call[t].score
      BY <1>1, <1>5, <2>1, <2>4, <2>5 DEF Call
    <2>7. CASE /\ Ok(e, call[t].now, view) /\ view.usage[e.b] < call[t].score
               /\ Goto(t, [c EXCEPT !.best = e.b, !.score = view.usage[e.b]])
      <3>1. call'[t] = [c EXCEPT !.best = e.b, !.score = view.usage[e.b]]
        BY <1>4, <2>7 DEF Called, Goto
      <3>2. /\ call'[t].op = "pick" /\ call'[t].pc = "health" /\ call'[t].todo = c.todo
            /\ call'[t].kind = c.kind /\ call'[t].now = c.now
            /\ call'[t].best = e.b /\ call'[t].score = view.usage[e.b]
        BY <2>6, <3>1 DEF Call
      <3> QED BY <1>7, <2>3, <2>6, <2>7, <3>2 DEF PickFacts, C
    <2>8. CASE ~(Ok(e, call[t].now, view) /\ view.usage[e.b] < call[t].score) /\ Goto(t, c)
      <3>1. call'[t] = c BY <1>4, <2>8 DEF Called, Goto
      <3> QED BY <1>7, <2>3, <2>6, <2>8, <3>1 DEF PickFacts, C
    <2> QED BY <1>8, <1>15, <2>4, <2>6, <2>7, <2>8 DEF PickHealth, Free, Beats, Ok
  <1>16. CASE PickCredential(t) BY <1>8, <1>9, <1>16 DEF PickCredential
  <1>17. CASE PickUse(t) BY <1>9, <1>17 DEF PickUse
  <1>18. CASE PickReturn(t) BY <1>8, <1>18 DEF PickReturn
  <1> QED BY <1>12, <1>13, <1>14, <1>15, <1>16, <1>17, <1>18

\* A call begins alone, or alone is over.
LEMMA AloneBegin ==
  ASSUME Types, AloneInv, NEW t \in Task, Begins(t)
  PROVE  AloneInv'
  <1> SUFFICES ASSUME alone' PROVE AloneInv' BY DEF AloneInv
  <1>1. UNCHANGED connVars /\ NewCall(t) BY TypesBegin
  <1>2. alone /\ \A u \in Task : call[u] = Idle BY <1>1 DEF NewCall
  <1>3. \A u \in Task \ {t} : call'[u] = Idle BY <1>2, OthersStay
  <1>4. UNCHANGED current BY DEF Begins, BeginSet, BeginWrite, BeginPick, BeginPoll
  <1>5. Agrees(disk', current') BY <1>1, <1>2, <1>4 DEF AloneInv, connVars
  <1>6. SetFacts(call'[t], view', tx') /\ PickFacts(call'[t], view')
    <2>1. ASSUME NEW es \in Chains, BeginSet(t, es)
          PROVE SetFacts(call'[t], view', tx') /\ PickFacts(call'[t], view')
      <3>1. es \in Seq(Entry) BY ChainsAssumption
      <3>2. PICK r : r = [Idle EXCEPT !.op = "set", !.pc = "begin", !.entries = es, !.asked = es] OBVIOUS
      <3>3. r.op = "set" /\ r.pc = "begin" /\ r.entries = es /\ r.asked = es BY <3>1, <3>2, BegunSet
      <3>4. call'[t] = r BY <2>1, <3>2 DEF BeginSet, Goto, Types, Called
      <3> QED BY <3>3, <3>4 DEF SetFacts, PickFacts
    <2>2. ASSUME NEW b \in Backend, NEW o \in {"limit", "delete"}, BeginWrite(t, o, b)
          PROVE SetFacts(call'[t], view', tx') /\ PickFacts(call'[t], view')
      <3>1. PICK r : r = [Idle EXCEPT !.op = o, !.pc = "execute", !.b = b] OBVIOUS
      <3>2. r.op = o BY <3>1, BegunWrite
      <3>3. call'[t] = r BY <2>2, <3>1 DEF BeginWrite, Goto, Types, Called
      <3> QED BY <3>2, <3>3 DEF SetFacts, PickFacts
    <2>3. ASSUME NEW k \in Kind \cup {None}, BeginPick(t, k)
          PROVE SetFacts(call'[t], view', tx') /\ PickFacts(call'[t], view')
      <3>1. PICK r : r = [Idle EXCEPT !.op = "pick", !.pc = "chain", !.kind = k] OBVIOUS
      <3>2. /\ r.op = "pick" /\ r.pc = "chain" /\ r.best = None /\ r.score = MaxLevel + 1
            /\ r.kept = {}
        BY <3>1, IdleIsCall DEF Call, Idle
      <3>3. call'[t] = r BY <2>3, <3>1 DEF BeginPick, Goto, Types, Called
      <3> QED BY <3>2, <3>3 DEF SetFacts, PickFacts
    <2>4. ASSUME BeginPoll(t) PROVE SetFacts(call'[t], view', tx') /\ PickFacts(call'[t], view')
      <3>1. PICK r : r = [Idle EXCEPT !.op = "poll", !.pc = "next", !.todo = view.ready] OBVIOUS
      <3>2. view.ready \in SUBSET Backend BY DEF Types, Connected, Sound, Db
      <3>3. r.op = "poll" BY <3>1, <3>2, BegunPoll
      <3>4. call'[t] = r BY <2>4, <3>1 DEF BeginPoll, Goto, Types, Called
      <3> QED BY <3>3, <3>4 DEF SetFacts, PickFacts
    <2> QED BY <2>1, <2>2, <2>3, <2>4 DEF Begins
  <1>7. Solo' BY <1>3 DEF Solo
  <1> QED BY <1>3, <1>5, <1>6, <1>7, IdleFacts DEF AloneInv

LEMMA AloneStep == Types /\ NoTxLeaked /\ AloneInv /\ [Next]_vars => AloneInv'
  <1> SUFFICES ASSUME Types, NoTxLeaked, AloneInv, [Next]_vars PROVE AloneInv' OBVIOUS
  <1>1. ASSUME NEW t \in Task, Step(t) PROVE AloneInv'
    <2>1. UNCHANGED alone BY <1>1, NotIdle
    <2>2. CASE ~alone BY <2>1, <2>2 DEF AloneInv
    <2>3. CASE alone
      <3>1. Mine(t) BY <1>1, <2>3, AloneSet, AloneWrite, AlonePick, AlonePoll DEF Step
      <3> QED BY <1>1, <2>3, <3>1, MineIsEnough
    <2> QED BY <2>2, <2>3
  <1>2. CASE Tick
    BY <1>2 DEF Tick, connVars, AloneInv, Solo
  <1>3. CASE Restart
    <2>1. \A u \in Task : call'[u] = Idle BY <1>3 DEF Restart
    <2>2. UNCHANGED <<disk, current, alone>> BY <1>3 DEF Restart, LoseConnection, RollbackTx
    <2> QED BY <2>1, <2>2, IdleFacts DEF AloneInv, Solo
  <1>4. CASE UNCHANGED vars
    BY <1>4 DEF vars, connVars, AloneInv, Solo
  <1> QED BY <1>1, <1>2, <1>3, <1>4, AloneBegin, Split

LEMMA AloneAlways == Spec => []AloneInv
  <1>1. ASSUME Init PROVE AloneInv
    <2>1. disk.chain = NoChain /\ \A t \in Task : call[t] = Idle BY <1>1 DEF Init
    <2>2. \A b \in Backend : disk.chain[b] = 0 /\ current[b] = 0 BY <1>1, <2>1 DEF Init, NoChain
    <2>3. Agrees(disk, current) BY <2>2 DEF Agrees
    <2> QED BY <2>1, <2>3, IdleFacts DEF AloneInv, Solo
  <1> QED BY <1>1, TypesAlways, TransactionsEnd, AloneStep, PTL DEF Spec

\* As long as calls do not overlap, set_chain replaces the chain whole or not at all: what is
\* on disk is the chain of the last set_chain that returned, less the accounts deleted since,
\* also when an entry was refused half way or the server was restarted.
THEOREM ChainIsAtomic == Spec => []ChainAtomic
  <1>1. AloneInv => ChainAtomic BY DEF AloneInv, Agrees, ChainAtomic
  <1> QED BY <1>1, AloneAlways, PTL

\* As long as calls do not overlap, pick ends its loop at the usable account with the least
\* usage, and with none only when no account is usable.
THEOREM PickFindsBest == Spec => []PickIsBest
  <1>1. AloneInv => PickIsBest
    <2> SUFFICES ASSUME AloneInv, NEW t \in Task, alone, At(t, "pick", "health"), call[t].todo = {}
                 PROVE  LET usable == Usable(view, call[t].kind, call[t].now) IN
                        IF usable = {} THEN call[t].best = None
                        ELSE \E e \in usable : e.b = call[t].best /\ \A x \in usable : Precedes(view, e, x)
      BY DEF PickIsBest
    <2>1. Best({}, call[t].best, call[t].score, call[t].now, Candidates(view, call[t].kind), view)
      BY DEF AloneInv, PickFacts, At
    <2> QED BY <2>1, BestAtEnd
  <1> QED BY <1>1, AloneAlways, PTL
=============================================================================
