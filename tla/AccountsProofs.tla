--------------------------- MODULE AccountsProofs ---------------------------
(***************************************************************************)
(* Theorems about Accounts, for any number of accounts, coroutines, calls  *)
(* and vault keys.  TypeOK is inductive.  The safety properties need what  *)
(* is true of the rows that calls in flight hold: IdsInv says which ids    *)
(* such a row may name, BackedInv what a vouched-for status implies.       *)
(***************************************************************************)
EXTENDS Accounts, TLAPS

\* The steps of a call between get() and its end: it holds a row it read or made.
HoldsRow(t) == call[t].pc \notin {"idle", "get", "sync"}

\* Ids: a live or deleted id was handed out; a pending insert owns a fresh id of
\* its own; every other call, and every pending sync, names an id that was live.
IdsInv ==
  /\ \A b \in live \cup gone : b < nextId
  /\ gone \cap live = {}
  /\ \A t \in Task : call[t].pc = "insert" =>
       call[t].b \in Backend /\ call[t].b < nextId /\ call[t].b \notin live \cup gone
  /\ \A t, u \in Task : call[t].pc = "insert" /\ call[u].pc = "insert" /\ call[t].b = call[u].b => t = u
  /\ \A t \in Task : call[t].pc \notin {"idle", "insert", "sync"} => call[t].b \in live \cup gone
  /\ \A t \in Task : HoldsRow(t) => call[t].snap.kind # Unset
  /\ \A t \in Task : \A s \in todo[t] : s.b \in live \cup gone /\ s.snap.kind # Unset
  /\ \A t \in Task : call[t].pc = "rmtree" => call[t].b \in gone
  /\ \A b \in Backend : creds[b] # Unset => b \in live

\* Once backed, an account stays backed.
Backed(b) == creds[b] # Unset \/ b \in synced \/ b \in gone
Vouched == {"validating", "ready"}

BackedInv ==
  /\ \A b \in live : row[b].status \in Vouched => Backed(b)
  /\ \A t \in Task : HoldsRow(t) /\ call[t].snap.status \in Vouched => Backed(call[t].b)
  /\ \A t \in Task : call[t].pc \in {"dir", "run"} => Backed(call[t].b)
  /\ \A t \in Task : call[t].pc = "status" /\ call[t].status \in Vouched => Backed(call[t].b)

-----------------------------------------------------------------------------
LEMMA NullRowType == NullRow \in Row /\ NullRow.status = "unconfigured" /\ NullRow.err = "none"
  BY DEF NullRow, Row, NoConfig, Config, Status, Err

LEMMA IdleType == Idle \in Call /\ Idle.pc = "idle"
  BY NullRowType DEF Idle, Call, Op, Pc, RowOp, Status, Err

LEMMA MergeType == ASSUME NEW old \in Config, NEW new \in Config PROVE Merge(old, new) \in Config
  BY DEF Merge, Config

\* What the records built by the steps look like.
LEMMA MovedType ==
  ASSUME NEW r \in Call, NEW p \in Pc
  PROVE /\ Moved(r, p) \in Call /\ Moved(r, p).pc = p /\ Moved(r, p).b = r.b
        /\ Moved(r, p).snap = r.snap /\ Moved(r, p).op = r.op
  BY DEF Moved, Call

LEMMA LoadedType ==
  ASSUME NEW r \in Call, NEW p \in Pc, NEW s \in Row
  PROVE /\ Loaded(r, p, s) \in Call /\ Loaded(r, p, s).pc = p /\ Loaded(r, p, s).b = r.b
        /\ Loaded(r, p, s).snap = s /\ Loaded(r, p, s).op = r.op
  BY DEF Loaded, Call

LEMMA WritingType ==
  ASSUME NEW r \in Call, NEW s \in Status, NEW e \in Err
  PROVE /\ Writing(r, s, e) \in Call /\ Writing(r, s, e).pc = "status" /\ Writing(r, s, e).b = r.b
        /\ Writing(r, s, e).snap = r.snap /\ Writing(r, s, e).status = s /\ Writing(r, s, e).err = e
  BY DEF Writing, Call, Pc

LEMMA GettingType ==
  ASSUME NEW o \in Op, NEW b \in Backend \cup {0}
  PROVE Getting(o, b) \in Call /\ Getting(o, b).pc = "get" /\ Getting(o, b).b = b
  BY IdleType DEF Getting, Call, Pc

LEMMA PatchingType ==
  ASSUME NEW o \in Op, NEW b \in Backend, NEW n \in Name \cup {Unset}, NEW c \in Config \cup {Unset}
  PROVE /\ Patching(o, b, n, c) \in Call /\ Patching(o, b, n, c).pc = "get"
        /\ Patching(o, b, n, c).b = b
  BY IdleType DEF Patching, Call, Pc

LEMMA UpdateType ==
  ASSUME NEW b \in Backend, NEW n \in Name \cup {Unset}, NEW c \in UpdateConfigs \cup {Unset}
  PROVE Patching("update", b, n, c) \in Call /\ Patching("update", b, n, c).b = b
  <1>1. "update" \in Op /\ c \in Config \cup {Unset}
    BY ConfigsAssumption DEF Op
  <1> QED
    BY <1>1, PatchingType

LEMMA InsertingType ==
  ASSUME NEW o \in Op, NEW b \in Backend, NEW s \in Row
  PROVE /\ Inserting(o, b, s) \in Call /\ Inserting(o, b, s).pc = "insert"
        /\ Inserting(o, b, s).b = b /\ Inserting(o, b, s).snap = s
  BY IdleType DEF Inserting, Call, Pc

LEMMA SyncingType == Syncing \in Call /\ Syncing.pc = "sync"
  BY IdleType DEF Syncing, Call, Op, Pc

LEMMA FieldTypes ==
  ASSUME NEW r \in Call
  PROVE /\ r.op \in Op /\ r.pc \in Pc /\ r.b \in Backend \cup {0} /\ r.snap \in Row
        /\ r.status \in Status /\ r.err \in Err
        /\ r.name \in Name \cup {Unset} /\ r.cfg \in Config \cup {Unset}
  BY DEF Call

LEMMA RowTypes ==
  ASSUME NEW r \in Row
  PROVE /\ r.kind \in Kind \cup {Unset} /\ r.name \in Name \cup {Unset} /\ r.cfg \in Config
        /\ r.status \in Status /\ r.err \in Err
  BY DEF Row

LEMMA NewRowType ==
  ASSUME NEW k \in Kind, NEW n \in Name, NEW c \in Config
  PROVE /\ NewRow(k, n, c) \in Row /\ NewRow(k, n, c).kind = k
        /\ NewRow(k, n, c).status = "unconfigured" /\ NewRow(k, n, c).err = "none"
  BY NullRowType DEF NewRow, Row

LEMMA PatchedType ==
  ASSUME NEW t \in Task, call[t] \in Call
  PROVE /\ Patched(t) \in Row /\ Patched(t).kind = call[t].snap.kind
        /\ Patched(t).status = call[t].snap.status /\ Patched(t).err = call[t].snap.err
  BY FieldTypes DEF Patched, Row

LEMMA StatusRowType ==
  ASSUME NEW r \in Row, NEW s \in Status, NEW e \in Err
  PROVE /\ StatusRow(r, s, e) \in Row /\ StatusRow(r, s, e).kind = r.kind
        /\ StatusRow(r, s, e).status = s /\ StatusRow(r, s, e).err = e
  BY DEF StatusRow, Row

LEMMA SyncedRowType ==
  ASSUME NEW s \in Sync
  PROVE s.b \in Backend /\ SyncedRow(s) \in Row /\ SyncedRow(s).kind = s.snap.kind
  BY DEF SyncedRow, Sync, Row, Status

LEMMA AfterGetPc ==
  ASSUME NEW o \in Op PROVE AfterGet(o) \in {"write", "rm", "probe", "mkdir", "put", "cred"}
  BY DEF AfterGet

-----------------------------------------------------------------------------
\* Types.

\* Initially every variable has its type.
LEMMA InitType == Init => TypeOK
  BY NullRowType, IdleType, BoundsAssumption DEF Init, TypeOK

\* A step of a call in flight preserves the types.
LEMMA StepType == ASSUME TypeOK, NEW t \in Task, Step(t) PROVE TypeOK'
  <1> USE DEF TypeOK, At, tables, history
  <1> DEFINE c == call[t]
             Put(r) == call' = [call EXCEPT ![t] = r]
             Free == {"idle", "sync"}
  <1>0. c \in Call /\ c.op \in Op /\ c.b \in Backend \cup {0} /\ c.snap \in Row
    BY FieldTypes
  <1>1. ASSUME NEW r \in Call, r.pc \notin Free => r.b \in Backend, Goto(t, r)
        PROVE /\ call' \in [Task -> Call]
              /\ \A u \in Task : call'[u].pc \notin Free => call'[u].b \in Backend
    BY <1>1 DEF Goto
  <1>2. Return(t) => /\ call' \in [Task -> Call]
                     /\ \A u \in Task : call'[u].pc \notin Free => call'[u].b \in Backend
    BY <1>1, IdleType DEF Return
  <1>3. ASSUME NEW p \in Pc, c.b \in Backend, Goto(t, Moved(c, p))
        PROVE /\ call' \in [Task -> Call]
              /\ \A u \in Task : call'[u].pc \notin Free => call'[u].b \in Backend
    BY <1>0, <1>1, <1>3, MovedType
  <1>4. ASSUME NEW s \in Status, NEW e \in Err, c.b \in Backend, StatusNext(t, s, e)
        PROVE /\ call' \in [Task -> Call]
              /\ \A u \in Task : call'[u].pc \notin Free => call'[u].b \in Backend
    BY <1>0, <1>1, <1>4, WritingType DEF StatusNext
  <1>5. ASSUME NEW o \in Op, c.b \in Backend, Become(t, o)
        PROVE /\ call' \in [Task -> Call]
              /\ \A u \in Task : call'[u].pc \notin Free => call'[u].b \in Backend
    BY <1>0, <1>1, <1>5, GettingType DEF Become
  <1>6. ASSUME NEW b, NEW r \in Row PROVE RowUpdate(b, r) \in [Backend -> Row]
    BY DEF RowUpdate
  <1>7. c.pc \notin Free => c.b \in Backend
    OBVIOUS
  <1> HIDE DEF c
  <1>a. CASE CreateInsert(t)
    BY <1>0, <1>3, <1>7, <1>a DEF CreateInsert, Pc, c
  <1>b. CASE CreateDir(t)
    BY <1>0, <1>2, <1>5, <1>7, <1>b DEF CreateDir, Op, RowOp, c
  <1>c. CASE Get(t)
    <2>1. AfterGet(c.op) \in Pc
      BY <1>0, AfterGetPc DEF Pc
    <2>2. CASE c.b \in live
      <3>1. row[c.b] \in Row /\ c.b \in Backend
        BY <2>2 DEF live
      <3> QED
        BY <1>0, <1>1, <1>c, <2>1, <2>2, <3>1, LoadedType DEF Get, c
    <2>3. CASE c.b \notin live
      BY <1>2, <1>c, <2>3 DEF Get, c
    <2> QED
      BY <2>2, <2>3
  <1>d. CASE UpdateWrite(t)
    BY <1>0, <1>2, <1>5, <1>6, <1>7, <1>d, PatchedType DEF UpdateWrite, Op, RowOp, c
  <1>e. CASE DeleteRow(t)
    BY <1>0, <1>3, <1>7, <1>e, NullRowType DEF DeleteRow, Pc, Cascade, c
  <1>f. CASE RmTree(t)
    BY <1>2, <1>f DEF RmTree
  <1>g. CASE BeginLogin(t)
    BY <1>2, <1>7, <1>g DEF BeginLogin, c
  <1>h. CASE Detect(t)
    BY <1>2, <1>4, <1>7, <1>h DEF Detect, Status, Err, c
  <1>i. CASE PutCredential(t)
    BY <1>0, <1>2, <1>4, <1>7, <1>i, RowTypes DEF PutCredential, Status, CredPut, c
  <1>j. CASE ReadCredential(t)
    BY <1>2, <1>3, <1>4, <1>7, <1>j DEF ReadCredential, Pc, Status, Err, c
  <1>k. CASE ResolveConfigDir(t)
    BY <1>2, <1>3, <1>7, <1>k DEF ResolveConfigDir, Pc, c
  <1>l. CASE RunImpl(t)
    BY <1>2, <1>4, <1>7, <1>l DEF RunImpl, Healthy, Status, Err, c
  <1>m. CASE StatusWrite(t)
    <2>1. StatusRow(c.snap, c.status, c.err) \in Row
      BY <1>0, FieldTypes, StatusRowType DEF c
    <2> QED
      BY <1>0, <1>2, <1>5, <1>6, <1>7, <1>m, <2>1 DEF StatusWrite, Op, RowOp, c
  <1>n. ASSUME NEW s \in todo[t], DiscoverSync(t, s) PROVE TypeOK'
    <2>1. s \in Sync /\ s.b \in Backend /\ SyncedRow(s) \in Row
      BY SyncedRowType
    <2>2. row' \in [Backend -> Row] /\ synced' \subseteq Backend /\ todo' \in [Task -> SUBSET Sync]
      BY <1>6, <1>n, <2>1 DEF DiscoverSync
    <2> QED
      BY <1>2, <1>n, <2>2 DEF DiscoverSync
  <1> QED
    BY <1>a, <1>b, <1>c, <1>d, <1>e, <1>f, <1>g, <1>h, <1>i, <1>j, <1>k, <1>l, <1>m, <1>n DEF Step

\* The rows discovery is about to write come from the table.
LEMMA SyncsType ==
  ASSUME TypeOK, NEW found, NEW kindOf, NEW s \in Syncs(found, kindOf)
  PROVE s \in Sync /\ s.b \in live /\ s.snap = row[s.b]
  <1>a. PICK b \in live : \E v : s = SyncOf(b, v)
    BY DEF Syncs
  <1>1. PICK v : s = SyncOf(b, v)
    BY <1>a
  <1>2. b \in Backend /\ row[b] \in Row
    BY DEF live, TypeOK
  <1> QED
    BY <1>1, <1>2 DEF SyncOf, Sync, Verdict

\* So does the arrival of a call, and a restart.
LEMMA NextType == ASSUME TypeOK, [Next]_vars PROVE TypeOK'
  <1> USE DEF TypeOK, At, NewCall, tables, history
  <1>0. ASSUME NEW t \in Task, NEW r \in Call, r.pc \notin {"idle", "sync"} => r.b \in Backend, Goto(t, r)
        PROVE /\ call' \in [Task -> Call]
              /\ \A u \in Task : call'[u].pc \notin {"idle", "sync"} => call'[u].b \in Backend
    BY <1>0 DEF Goto
  <1>1. ASSUME NEW t \in Task, Step(t) PROVE TypeOK'
    BY <1>1, StepType
  <1>2. ASSUME NEW t \in Task, NEW o \in RowOp, NEW b \in Backend, Begin(t, o, b) PROVE TypeOK'
    BY <1>0, <1>2, GettingType, BoundsAssumption DEF Begin, Op
  <1>3. ASSUME NEW t \in Task, NEW b \in Backend, NEW n \in Name \cup {Unset},
               NEW c \in UpdateConfigs \cup {Unset}, BeginUpdate(t, b, n, c)
        PROVE TypeOK'
    <2>1. Goto(t, Patching("update", b, n, c))
      BY <1>3 DEF BeginUpdate
    <2>2. /\ call' \in [Task -> Call]
          /\ \A u \in Task : call'[u].pc \notin {"idle", "sync"} => call'[u].b \in Backend
      BY <1>0, <2>1, UpdateType
    <2>3. /\ calls' \in 0..MaxCalls /\ distinct' \in BOOLEAN
          /\ UNCHANGED <<row, creds, dirs, todo, nextId, vaultKey, gone, synced>>
      BY <1>3, BoundsAssumption DEF BeginUpdate
    <2> QED
      BY <2>2, <2>3
  <1>4. ASSUME NEW t \in Task, NEW o \in {"create", "import"}, NEW k \in Kind, NEW n \in Name,
               NEW c \in CreateConfigs, CreateLookup(t, o, k, n, c)
        PROVE TypeOK'
    <2>0. o \in Op /\ c \in Config
      BY ConfigsAssumption DEF Op
    <2>1. /\ calls' \in 0..MaxCalls /\ distinct' \in BOOLEAN
          /\ UNCHANGED <<row, creds, dirs, todo, vaultKey, gone, synced>>
      BY <1>4, BoundsAssumption DEF CreateLookup
    <2>2. CASE \E b \in Matching(k, c) :
                 /\ Goto(t, Patching(o, b, n, Merge(row[b].cfg, c)))
                 /\ UNCHANGED nextId
      <3>1. PICK b \in Matching(k, c) :
                 /\ Goto(t, Patching(o, b, n, Merge(row[b].cfg, c)))
                 /\ UNCHANGED nextId
        BY <2>2
      <3>2. b \in Backend /\ Merge(row[b].cfg, c) \in Config
        BY <2>0, MergeType, RowTypes DEF Matching, live
      <3> QED
        BY <1>0, <2>0, <2>1, <3>1, <3>2, PatchingType
    <2>3. CASE /\ nextId \in Backend /\ nextId' = nextId + 1
               /\ Goto(t, Inserting(o, nextId, NewRow(k, n, c)))
      <3>1. NewRow(k, n, c) \in Row
        BY <2>0, NewRowType
      <3>2. nextId' \in 1..(MaxBackends + 1)
        BY <2>3, BoundsAssumption DEF Backend
      <3> QED
        BY <1>0, <2>0, <2>1, <2>3, <3>1, <3>2, InsertingType
    <2> QED
      BY <1>4, <2>2, <2>3 DEF CreateLookup
  <1>5. ASSUME NEW t \in Task, NEW found, NEW kindOf, Discover(t, found, kindOf) PROVE TypeOK'
    BY <1>0, <1>5, SyncingType, SyncsType, BoundsAssumption DEF Discover
  <1>6. ASSUME NEW k \in Key, Restart(k) PROVE TypeOK'
    BY <1>6, IdleType, BoundsAssumption DEF Restart
  <1>7. CASE UNCHANGED vars
    BY <1>7 DEF vars
  <1> QED
    BY <1>1, <1>2, <1>3, <1>4, <1>5, <1>6, <1>7 DEF Next

\* Every reachable state of the service is well typed.
THEOREM TypeCorrect == Spec => []TypeOK
  BY InitType, NextType, PTL DEF Spec

-----------------------------------------------------------------------------
\* Ids: deleted accounts stay deleted, credentials keep their row.

LEMMA InitIds == Init => IdsInv
  BY IdleType DEF Init, IdsInv, HoldsRow, live, NullRow

\* Writing a row that a call holds does not change which ids are live.
LEMMA UpdateKeepsLive ==
  ASSUME TypeOK, NEW b \in Backend, NEW r \in Row, r.kind # Unset, row' = RowUpdate(b, r)
  PROVE live' = live
  BY DEF RowUpdate, live, TypeOK

\* A step of a call whose new record r is covered, when live and gone do not change.
LEMMA CallKeepsIds ==
  ASSUME TypeOK, IdsInv, NEW t \in Task, NEW r \in Call, Goto(t, r), r.pc # "insert",
         r.pc \notin {"idle", "sync"} => r.b \in live \cup gone,
         r.pc \notin {"idle", "get", "sync"} => r.snap.kind # Unset,
         r.pc = "rmtree" => r.b \in gone,
         live' = live, gone' = gone, nextId' = nextId, todo' = todo,
         \A b \in Backend : creds'[b] # Unset => creds[b] # Unset \/ b \in live
  PROVE IdsInv'
  BY DEF TypeOK, IdsInv, Goto, HoldsRow

LEMMA StepIds == ASSUME TypeOK, IdsInv, NEW t \in Task, Step(t) PROVE IdsInv'
  <1> USE DEF At, tables, history
  <1> DEFINE c == call[t]
             b == call[t].b
             Frame == live' = live /\ gone' = gone /\ nextId' = nextId /\ todo' = todo
                      /\ \A x \in Backend : creds'[x] # Unset => creds[x] # Unset \/ x \in live
  <1>0. /\ c \in Call /\ c.op \in Op /\ b \in Backend \cup {0} /\ c.snap \in Row
        /\ c.pc \notin {"idle", "sync"} => b \in Backend
    BY FieldTypes DEF TypeOK
  <1>1. /\ c.pc \notin {"idle", "insert", "sync"} => b \in live \cup gone
        /\ c.pc \notin {"idle", "get", "sync"} => c.snap.kind # Unset
    BY DEF IdsInv, HoldsRow
  <1>2. Frame /\ Return(t) => IdsInv'
    BY CallKeepsIds, IdleType DEF Return
  <1>3. ASSUME NEW p \in Pc, Frame, Goto(t, Moved(c, p)), b \in live \cup gone,
               c.snap.kind # Unset, p \notin {"insert", "rmtree"}
        PROVE IdsInv'
    BY <1>0, <1>3, CallKeepsIds, MovedType
  <1>4. ASSUME NEW s \in Status, NEW e \in Err, Frame, StatusNext(t, s, e), b \in live \cup gone,
               c.snap.kind # Unset
        PROVE IdsInv'
    BY <1>0, <1>4, CallKeepsIds, WritingType DEF StatusNext
  <1>5. ASSUME NEW o \in Op, Frame, Become(t, o), b \in live \cup gone PROVE IdsInv'
    BY <1>0, <1>5, CallKeepsIds, GettingType DEF Become
  <1>6. ASSUME UNCHANGED <<row, creds, gone, nextId, todo>> PROVE Frame
    BY <1>6 DEF live
  <1> HIDE DEF c, b, Frame
  <1>a. CASE CreateInsert(t)
    <2>1. c.pc = "insert" /\ b \in Backend /\ b < nextId /\ b \notin live \cup gone
      BY <1>0, <1>a DEF CreateInsert, IdsInv, c, b
    <2>2. live' = live \cup {b}
      BY <1>0, <1>1, <1>a, <2>1 DEF CreateInsert, live, c, b, TypeOK
    <2>3. Moved(c, "newdir").pc = "newdir" /\ Moved(c, "newdir").b = b /\ Moved(c, "newdir").snap = c.snap
      BY <1>0, MovedType DEF Pc, b, c
    <2>4. call' = [call EXCEPT ![t] = Moved(c, "newdir")] /\ UNCHANGED <<creds, todo, nextId, gone>>
      BY <1>a DEF CreateInsert, Goto, c
    <2> QED
      BY <1>1, <2>1, <2>2, <2>3, <2>4 DEF IdsInv, HoldsRow, TypeOK, c, b
  <1>b. CASE CreateDir(t)
    <2>1. Frame
      BY <1>6, <1>b DEF CreateDir
    <2> QED
      BY <1>1, <1>2, <1>5, <1>b, <2>1 DEF CreateDir, Op, RowOp, c, b
  <1>c. CASE Get(t)
    <2>1. Frame
      BY <1>6, <1>c DEF Get
    <2>2. CASE b \in live
      <3>1. row[b] \in Row /\ row[b].kind # Unset
        BY <2>2 DEF live, TypeOK
      <3>2. AfterGet(c.op) \in Pc /\ AfterGet(c.op) \notin {"insert", "rmtree", "idle", "sync"}
        BY <1>0, AfterGetPc DEF Pc
      <3>3. Goto(t, Loaded(c, AfterGet(c.op), row[b]))
        BY <1>c, <2>2 DEF Get, c, b
      <3> QED
        BY <1>0, <2>1, <2>2, <3>1, <3>2, <3>3, CallKeepsIds, LoadedType DEF Frame, b, c
    <2> QED
      BY <1>2, <1>c, <2>1, <2>2 DEF Get, b
  <1>d. CASE UpdateWrite(t)
    <2>1. live' = live
      BY <1>0, <1>1, <1>d, UpdateKeepsLive, PatchedType DEF UpdateWrite, c, b
    <2>2. Frame
      BY <1>d, <2>1 DEF UpdateWrite, Frame
    <2> QED
      BY <1>1, <1>2, <1>5, <1>d, <2>2 DEF UpdateWrite, Op, RowOp, c, b
  <1>e. CASE DeleteRow(t)
    <2>1. b \in Backend /\ b \in live \cup gone /\ c.pc = "rm" /\ c.snap.kind # Unset
      BY <1>0, <1>1, <1>e DEF DeleteRow, c, b
    <2>2. live' = live \ {b} /\ gone' = gone \cup {b} /\ UNCHANGED <<nextId, todo>>
      BY <1>e, <2>1 DEF DeleteRow, live, TypeOK, NullRow, b
    <2>3. Moved(c, "rmtree").pc = "rmtree" /\ Moved(c, "rmtree").b = b /\ Moved(c, "rmtree").snap = c.snap
      BY <1>0, MovedType DEF Pc, b, c
    <2>4. call' = [call EXCEPT ![t] = Moved(c, "rmtree")] /\ creds' = [creds EXCEPT ![b] = Unset]
      BY <1>e DEF DeleteRow, Goto, Cascade, c, b
    <2> QED
      BY <2>1, <2>2, <2>3, <2>4 DEF IdsInv, HoldsRow, TypeOK, c
  <1>f. CASE RmTree(t)
    BY <1>2, <1>6, <1>f DEF RmTree
  <1>g. CASE BeginLogin(t)
    BY <1>2, <1>6, <1>g DEF BeginLogin
  <1>h. CASE Detect(t)
    BY <1>1, <1>2, <1>4, <1>6, <1>h DEF Detect, Status, Err, c, b
  <1>i. CASE PutCredential(t)
    <2>1. Frame
      BY <1>i DEF PutCredential, CredPut, Frame, live, TypeOK
    <2> QED
      BY <1>0, <1>1, <1>2, <1>4, <1>i, <2>1, RowTypes DEF PutCredential, Status, c, b
  <1>j. CASE ReadCredential(t)
    BY <1>1, <1>2, <1>3, <1>4, <1>6, <1>j DEF ReadCredential, Pc, Status, Err, c, b
  <1>k. CASE ResolveConfigDir(t)
    BY <1>1, <1>2, <1>3, <1>6, <1>k DEF ResolveConfigDir, Pc, c, b
  <1>l. CASE RunImpl(t)
    BY <1>1, <1>2, <1>4, <1>6, <1>l DEF RunImpl, Healthy, Status, Err, c, b
  <1>m. CASE StatusWrite(t)
    <2>1. live' = live
      BY <1>0, <1>1, <1>m, UpdateKeepsLive, FieldTypes, StatusRowType DEF StatusWrite, c, b
    <2>2. Frame
      BY <1>m, <2>1 DEF StatusWrite, Frame
    <2> QED
      BY <1>1, <1>2, <1>5, <1>m, <2>2 DEF StatusWrite, Op, RowOp, c, b
  <1>n. ASSUME NEW s \in todo[t], DiscoverSync(t, s) PROVE IdsInv'
    <2>1. s \in Sync /\ SyncedRow(s) \in Row /\ SyncedRow(s).kind # Unset /\ s.b \in Backend
      BY SyncedRowType DEF TypeOK, IdsInv
    <2>2. live' = live
      BY <1>n, <2>1, UpdateKeepsLive DEF DiscoverSync
    <2>3. UNCHANGED <<creds, nextId, gone>>
          /\ (call' = [call EXCEPT ![t] = Idle] \/ call' = call)
          /\ \A u \in Task : todo'[u] \subseteq todo[u]
      BY <1>n DEF DiscoverSync, Return, Goto, TypeOK
    <2> QED
      BY <2>2, <2>3, IdleType DEF IdsInv, HoldsRow, TypeOK
  <1> QED
    BY <1>a, <1>b, <1>c, <1>d, <1>e, <1>f, <1>g, <1>h, <1>i, <1>j, <1>k, <1>l, <1>m, <1>n DEF Step

LEMMA NextIds == ASSUME TypeOK, IdsInv, [Next]_vars PROVE IdsInv'
  <1> USE DEF NewCall, At, tables, history
  <1>0. \A b \in live : b \in Backend /\ row[b] \in Row /\ row[b].kind # Unset
    BY DEF live, TypeOK
  <1>1. ASSUME NEW t \in Task, Step(t) PROVE IdsInv'
    BY <1>1, StepIds
  <1>2. ASSUME NEW t \in Task, NEW o \in RowOp, NEW b \in Backend, Begin(t, o, b) PROVE IdsInv'
    BY <1>2, CallKeepsIds, GettingType DEF Begin, Op, live
  <1>3. ASSUME NEW t \in Task, NEW b \in Backend, NEW n \in Name \cup {Unset},
               NEW c \in UpdateConfigs \cup {Unset}, BeginUpdate(t, b, n, c)
        PROVE IdsInv'
    BY <1>3, CallKeepsIds, PatchingType, ConfigsAssumption DEF BeginUpdate, Op, live
  <1>4. ASSUME NEW t \in Task, NEW o \in {"create", "import"}, NEW k \in Kind, NEW n \in Name,
               NEW c \in CreateConfigs, CreateLookup(t, o, k, n, c)
        PROVE IdsInv'
    <2>0. o \in Op /\ c \in Config
      BY ConfigsAssumption DEF Op
    <2>1. UNCHANGED <<row, creds, todo, gone>> /\ live' = live /\ call[t].pc = "idle"
      BY <1>4 DEF CreateLookup, live
    <2>2. ASSUME NEW b \in Matching(k, c), Goto(t, Patching(o, b, n, Merge(row[b].cfg, c))),
                 UNCHANGED nextId
          PROVE IdsInv'
      <3>1. b \in live /\ Merge(row[b].cfg, c) \in Config
        BY <1>0, <2>0, MergeType, RowTypes DEF Matching
      <3> QED
        BY <1>0, <2>0, <2>1, <2>2, <3>1, CallKeepsIds, PatchingType
    <2>3. CASE nextId \in Backend /\ nextId' = nextId + 1 /\ Goto(t, Inserting(o, nextId, NewRow(k, n, c)))
      <3>1. NewRow(k, n, c) \in Row /\ NewRow(k, n, c).kind # Unset
        BY <2>0, NewRowType, UnsetAssumption
      <3>2. /\ Inserting(o, nextId, NewRow(k, n, c)).pc = "insert"
            /\ Inserting(o, nextId, NewRow(k, n, c)).b = nextId
            /\ Inserting(o, nextId, NewRow(k, n, c)).snap.kind # Unset
        BY <2>0, <2>3, <3>1, InsertingType
      <3>3. nextId \notin live \cup gone /\ \A x \in live \cup gone : x < nextId + 1
        BY <2>3 DEF IdsInv, TypeOK, live, Backend
      <3>4. \A u \in Task : call[u].pc = "insert" => call[u].b # nextId /\ call[u].b < nextId + 1
        BY <2>3 DEF IdsInv, Backend
      <3>5. call' = [call EXCEPT ![t] = Inserting(o, nextId, NewRow(k, n, c))] /\ nextId' = nextId + 1
        BY <2>3 DEF Goto
      <3> QED
        BY <2>1, <2>3, <3>2, <3>3, <3>4, <3>5 DEF IdsInv, HoldsRow, TypeOK, Backend
    <2> QED
      BY <1>4, <2>2, <2>3 DEF CreateLookup
  <1>5. ASSUME NEW t \in Task, NEW found, NEW kindOf, Discover(t, found, kindOf) PROVE IdsInv'
    <2>1. \A s \in Syncs(found, kindOf) : s.b \in live /\ s.snap.kind # Unset
      BY <1>0, SyncsType
    <2>2. call' = [call EXCEPT ![t] = Syncing] /\ todo' = [todo EXCEPT ![t] = Syncs(found, kindOf)]
          /\ UNCHANGED <<row, creds, nextId, gone>> /\ live' = live
      BY <1>5 DEF Discover, Goto, live
    <2> QED
      BY <2>1, <2>2, SyncingType DEF IdsInv, HoldsRow, TypeOK
  <1>6. ASSUME NEW k \in Key, Restart(k) PROVE IdsInv'
    BY <1>6, IdleType DEF Restart, IdsInv, HoldsRow, live
  <1>7. CASE UNCHANGED vars
    BY <1>7 DEF vars, IdsInv, HoldsRow, live
  <1> QED
    BY <1>1, <1>2, <1>3, <1>4, <1>5, <1>6, <1>7 DEF Next

THEOREM IdsCorrect == Spec => []IdsInv
  BY InitType, NextType, InitIds, NextIds, PTL DEF Spec

\* A stored credential belongs to an existing account, for any number of logins
\* racing with any number of deletes.
THEOREM CredentialsReferential == Spec => []CredentialHasRow
  <1>1. IdsInv => CredentialHasRow
    BY DEF IdsInv, CredentialHasRow
  <1> QED
    BY <1>1, IdsCorrect, PTL

\* No call brings a deleted account back.
THEOREM NoResurrection == Spec => []DeletedStaysDeleted
  <1>1. IdsInv => DeletedStaysDeleted
    BY DEF IdsInv, DeletedStaysDeleted
  <1> QED
    BY <1>1, IdsCorrect, PTL

\* Only a deleted account loses its isolation directory.
THEOREM DirectoriesKept == Spec => DirOfLiveAccountKept
  <1>1. ASSUME TypeOK, IdsInv, [Next]_vars
        PROVE [\A b \in dirs \ dirs' : b \notin live /\ b \notin live']_vars
    <2> SUFFICES ASSUME NEW b \in dirs \ dirs', Next PROVE b \notin live /\ b \notin live'
      BY <1>1 DEF vars
    <2>a. ~UNCHANGED dirs
      OBVIOUS
    <2>b. PICK t \in Task : Step(t)
      BY <2>a DEF Next, tables, history, Begin, BeginUpdate, CreateLookup, Discover, Restart
    <2>1. RmTree(t)
      BY <2>b DEF Step, tables, history,
         CreateInsert, CreateDir, Get, UpdateWrite, DeleteRow, RmTree, BeginLogin, Detect,
         PutCredential, ReadCredential, ResolveConfigDir, RunImpl, StatusWrite, DiscoverSync
    <2> QED
      BY <1>1, <2>1 DEF RmTree, IdsInv, At, tables, live, TypeOK
  <1> QED
    BY <1>1, TypeCorrect, IdsCorrect, PTL DEF Spec, DirOfLiveAccountKept

-----------------------------------------------------------------------------
\* A vouched-for status is backed by a credential, or discovery wrote it.

LEMMA BackedStays == ASSUME TypeOK, [Next]_vars, NEW b \in Backend, Backed(b) PROVE Backed(b)'
  <1> USE DEF Backed, TypeOK, tables, history
  <1>1. ASSUME NEW t \in Task, Step(t) PROVE Backed(b)'
    <2>1. CASE DeleteRow(t)
      BY <2>1 DEF DeleteRow, Cascade
    <2>2. CASE PutCredential(t)
      BY <2>2, UnsetAssumption DEF PutCredential, CredPut
    <2>3. ASSUME NEW s \in todo[t], DiscoverSync(t, s) PROVE Backed(b)'
      BY <2>3 DEF DiscoverSync
    <2>4. CASE UNCHANGED <<creds, gone, synced>>
      BY <2>4
    <2> QED
      BY <1>1, <2>1, <2>2, <2>3, <2>4 DEF Step, CreateInsert, CreateDir, Get, UpdateWrite, RmTree,
         BeginLogin, Detect, ReadCredential, ResolveConfigDir, RunImpl, StatusWrite
  <1>2. CASE UNCHANGED <<creds, gone, synced>>
    BY <1>2
  <1> QED
    BY <1>1, <1>2 DEF Next, vars, Begin, BeginUpdate, CreateLookup, Discover, Restart

\* A step of a call whose new record r is covered, and whose row write, if any, is.
LEMMA CallKeepsBacked ==
  ASSUME TypeOK, BackedInv, [Next]_vars, NEW t \in Task, NEW r \in Call, Goto(t, r),
         r.pc \notin {"idle", "get", "sync"} /\ r.snap.status \in Vouched => Backed(r.b)',
         r.pc \in {"dir", "run"} => Backed(r.b)',
         r.pc = "status" /\ r.status \in Vouched => Backed(r.b)',
         \A b \in live' : row'[b].status \in Vouched => Backed(b) \/ Backed(b)'
  PROVE BackedInv'
  <1>1. \A b \in Backend : Backed(b) => Backed(b)'
    BY BackedStays
  <1>2. \A u \in Task : call[u].pc \notin {"idle", "sync"} => call[u].b \in Backend
    BY DEF TypeOK
  <1>3. call' = [call EXCEPT ![t] = r] /\ live' \subseteq Backend
    BY DEF Goto, live
  <1> QED
    BY <1>1, <1>2, <1>3 DEF BackedInv, HoldsRow, TypeOK

LEMMA StepBacked ==
  ASSUME TypeOK, IdsInv, BackedInv, NEW t \in Task, Step(t) PROVE BackedInv'
  <1> USE DEF At, tables, history
  <1> DEFINE c == call[t]
             Still == \A x \in live' : row'[x].status \in Vouched => Backed(x) \/ Backed(x)'
  <1>v. PICK b : b = call[t].b
    OBVIOUS
  <1> USE <1>v
  <1>s. [Next]_vars
    BY DEF Next
  <1>0. /\ c \in Call /\ c.op \in Op /\ b \in Backend \cup {0} /\ c.snap \in Row
        /\ c.pc \notin {"idle", "sync"} => b \in Backend
    BY FieldTypes DEF TypeOK
  <1>1. /\ c.pc \notin {"idle", "get", "sync"} /\ c.snap.status \in Vouched => Backed(b)'
        /\ c.pc \notin {"idle", "get", "sync"} /\ c.snap.status \in Vouched => Backed(b)
        /\ c.pc \in {"dir", "run"} => Backed(b)'
    BY <1>0, <1>s, BackedStays DEF BackedInv, HoldsRow
  <1>2. Still /\ Return(t) => BackedInv'
    BY <1>s, CallKeepsBacked, IdleType DEF Return
  <1>3. ASSUME NEW p \in Pc, Still, Goto(t, Moved(c, p)), c.pc \notin {"idle", "get", "sync"},
               p \notin {"status", "dir"}, p = "run" => c.pc = "dir"
        PROVE BackedInv'
    BY <1>0, <1>1, <1>3, <1>s, CallKeepsBacked, MovedType
  <1>4. ASSUME NEW s \in Status, NEW e \in Err, Still, StatusNext(t, s, e),
               c.pc \notin {"idle", "get", "sync"}, s \in Vouched => Backed(b)'
        PROVE BackedInv'
    BY <1>0, <1>1, <1>4, <1>s, CallKeepsBacked, WritingType DEF StatusNext
  <1>5. ASSUME NEW o \in Op, Still, Become(t, o) PROVE BackedInv'
    BY <1>0, <1>5, <1>s, CallKeepsBacked, GettingType DEF Become
  <1>6. ASSUME UNCHANGED row PROVE Still
    BY <1>6 DEF live, BackedInv
  <1>7. ASSUME NEW r, r.status \in Vouched => Backed(b), row' = RowUpdate(b, r) PROVE Still
    BY <1>7 DEF RowUpdate, live, BackedInv, TypeOK
  <1> HIDE DEF c, Still
  <1>a. CASE CreateInsert(t)
    <2>1. Still
      BY <1>1, <1>a DEF CreateInsert, Still, live, BackedInv, TypeOK, c
    <2> QED
      BY <1>3, <1>a, <2>1 DEF CreateInsert, Pc, c
  <1>b. CASE CreateDir(t)
    BY <1>2, <1>5, <1>6, <1>b DEF CreateDir, Op, RowOp, c
  <1>c. CASE Get(t)
    <2>1. Still
      BY <1>6, <1>c DEF Get
    <2>2. CASE b \in live
      <3>1. row[b] \in Row /\ b \in Backend
        BY <2>2 DEF live, TypeOK
      <3>2. AfterGet(c.op) \in Pc /\ AfterGet(c.op) \notin {"status", "dir", "run"}
        BY <1>0, AfterGetPc DEF Pc
      <3>3. Goto(t, Loaded(c, AfterGet(c.op), row[b]))
        BY <1>c, <2>2 DEF Get, c
      <3>4. row[b].status \in Vouched => Backed(b)'
        BY <1>s, <2>2, <3>1, BackedStays DEF BackedInv
      <3>5. LET r == Loaded(c, AfterGet(c.op), row[b])
            IN r \in Call /\ r.pc = AfterGet(c.op) /\ r.b = b /\ r.snap = row[b]
        BY <1>0, <3>1, <3>2, LoadedType DEF c
      <3> QED
        BY <1>s, <2>1, <3>2, <3>3, <3>4, <3>5, CallKeepsBacked DEF Still
    <2> QED
      BY <1>2, <1>c, <2>1, <2>2 DEF Get
  <1>d. CASE UpdateWrite(t)
    <2>1. Still
      BY <1>0, <1>1, <1>7, <1>d, PatchedType DEF UpdateWrite, c
    <2> QED
      BY <1>2, <1>5, <1>d, <2>1 DEF UpdateWrite, Op, RowOp, c
  <1>e. CASE DeleteRow(t)
    <2>1. Still
      BY <1>e DEF DeleteRow, Still, live, BackedInv, TypeOK, NullRow
    <2> QED
      BY <1>3, <1>e, <2>1 DEF DeleteRow, Pc, c
  <1>f. CASE RmTree(t)
    BY <1>2, <1>6, <1>f DEF RmTree
  <1>g. CASE BeginLogin(t)
    BY <1>2, <1>6, <1>g DEF BeginLogin
  <1>h. CASE Detect(t)
    BY <1>2, <1>4, <1>6, <1>h DEF Detect, Status, Err, Vouched, c
  <1>i. CASE PutCredential(t)
    <2>1. Still
      BY <1>6, <1>i DEF PutCredential
    <2>2. CASE b \in live
      <3>1. b \in Backend /\ creds'[b] = vaultKey
        BY <1>i, <2>2 DEF PutCredential, CredPut, TypeOK, live
      <3>2. Backed(b)'
        BY <3>1, UnsetAssumption DEF Backed, TypeOK
      <3>3. c.snap.err \in Err /\ "validating" \in Status
        BY <1>0, RowTypes DEF Status
      <3> QED
        BY <1>4, <1>i, <2>1, <2>2, <3>2, <3>3 DEF PutCredential, c
    <2> QED
      BY <1>2, <1>i, <2>1, <2>2 DEF PutCredential
  <1>j. CASE ReadCredential(t)
    <2>1. Still
      BY <1>6, <1>j DEF ReadCredential
    <2>2. CASE Goto(t, Moved(c, "dir")) /\ creds[b] = vaultKey
      <3>1. c.pc = "cred" /\ b \in Backend
        BY <1>0, <1>j DEF ReadCredential, c
      <3>2. Backed(b)'
        BY <1>s, <2>2, <3>1, BackedStays, UnsetAssumption DEF Backed, TypeOK
      <3>3. Moved(c, "dir") \in Call /\ Moved(c, "dir").pc = "dir" /\ Moved(c, "dir").b = b
            /\ Moved(c, "dir").snap = c.snap
        BY <1>0, MovedType DEF Pc, c
      <3> QED
        BY <1>1, <1>s, <2>1, <2>2, <3>2, <3>3, CallKeepsBacked DEF Still
    <2> QED
      BY <1>2, <1>4, <1>j, <2>1, <2>2 DEF ReadCredential, Status, Err, Vouched, c
  <1>k. CASE ResolveConfigDir(t)
    BY <1>2, <1>3, <1>6, <1>k DEF ResolveConfigDir, Pc, c
  <1>l. CASE RunImpl(t)
    BY <1>1, <1>2, <1>4, <1>6, <1>l DEF RunImpl, Healthy, Status, Err, c
  <1>m. CASE StatusWrite(t)
    <2>1. c.status \in Vouched => Backed(b)
      BY <1>m DEF StatusWrite, BackedInv, c
    <2>2. StatusRow(c.snap, c.status, c.err).status = c.status
      BY <1>0, FieldTypes, StatusRowType
    <2>3. row' = RowUpdate(b, StatusRow(c.snap, c.status, c.err))
      BY <1>m DEF StatusWrite, c
    <2>4. Still
      BY <1>7, <2>1, <2>2, <2>3
    <2> QED
      BY <1>2, <1>5, <1>m, <2>4 DEF StatusWrite, Op, RowOp, c
  <1>n. ASSUME NEW s \in todo[t], DiscoverSync(t, s) PROVE BackedInv'
    <2>1. s \in Sync /\ s.b \in Backend
      BY SyncedRowType DEF TypeOK
    <2>2. \A x \in live' : row'[x].status \in Vouched => Backed(x)'
      <3>1. CASE s.b \in live
        BY <1>n, <1>s, <2>1, <3>1, BackedStays DEF DiscoverSync, RowUpdate, live, Backed, BackedInv, TypeOK
      <3>2. CASE s.b \notin live
        BY <1>n, <1>s, <3>2, BackedStays DEF DiscoverSync, RowUpdate, live, BackedInv
      <3> QED
        BY <3>1, <3>2
    <2>3. call' = [call EXCEPT ![t] = Idle] \/ call' = call
      BY <1>n DEF DiscoverSync, Return, Goto
    <2>4. CASE call' = call
      <3>1. Goto(t, c) /\ c.pc = "sync"
        BY <1>n, <2>4 DEF Goto, TypeOK, DiscoverSync, c
      <3> QED
        BY <1>0, <1>s, <2>2, <3>1, CallKeepsBacked
    <2>5. CASE call' = [call EXCEPT ![t] = Idle]
      BY <1>s, <2>2, <2>5, IdleType, CallKeepsBacked DEF Goto
    <2> QED
      BY <2>3, <2>4, <2>5
  <1> QED
    BY <1>a, <1>b, <1>c, <1>d, <1>e, <1>f, <1>g, <1>h, <1>i, <1>j, <1>k, <1>l, <1>m, <1>n DEF Step

LEMMA NextBacked == ASSUME TypeOK, IdsInv, BackedInv, [Next]_vars PROVE BackedInv'
  <1> USE DEF NewCall, At, tables, history
  <1>0. ASSUME UNCHANGED row PROVE \A b \in live' : row'[b].status \in Vouched => Backed(b) \/ Backed(b)'
    BY <1>0 DEF live, BackedInv
  <1>1. ASSUME NEW t \in Task, Step(t) PROVE BackedInv'
    BY <1>1, StepBacked
  <1>2. ASSUME NEW t \in Task, NEW o \in RowOp, NEW b \in Backend, Begin(t, o, b) PROVE BackedInv'
    BY <1>0, <1>2, CallKeepsBacked, GettingType DEF Begin, Op
  <1>3. ASSUME NEW t \in Task, NEW b \in Backend, NEW n \in Name \cup {Unset},
               NEW c \in UpdateConfigs \cup {Unset}, BeginUpdate(t, b, n, c)
        PROVE BackedInv'
    BY <1>0, <1>3, CallKeepsBacked, PatchingType, ConfigsAssumption DEF BeginUpdate, Op
  <1>4. ASSUME NEW t \in Task, NEW o \in {"create", "import"}, NEW k \in Kind, NEW n \in Name,
               NEW c \in CreateConfigs, CreateLookup(t, o, k, n, c)
        PROVE BackedInv'
    <2>0. o \in Op /\ c \in Config /\ UNCHANGED row
      BY <1>4, ConfigsAssumption DEF Op, CreateLookup
    <2>1. ASSUME NEW b \in Matching(k, c), Goto(t, Patching(o, b, n, Merge(row[b].cfg, c)))
          PROVE BackedInv'
      <3>1. b \in Backend /\ Merge(row[b].cfg, c) \in Config
        BY <2>0, MergeType, RowTypes DEF Matching, live, TypeOK
      <3> QED
        BY <1>0, <2>0, <2>1, <3>1, CallKeepsBacked, PatchingType
    <2>2. CASE nextId \in Backend /\ Goto(t, Inserting(o, nextId, NewRow(k, n, c)))
      <3>1. NewRow(k, n, c) \in Row /\ NewRow(k, n, c).status = "unconfigured"
        BY <2>0, NewRowType
      <3> QED
        BY <1>0, <2>0, <2>2, <3>1, CallKeepsBacked, InsertingType DEF Vouched
    <2> QED
      BY <1>4, <2>1, <2>2 DEF CreateLookup
  <1>5. ASSUME NEW t \in Task, NEW found, NEW kindOf, Discover(t, found, kindOf) PROVE BackedInv'
    BY <1>0, <1>5, SyncingType, CallKeepsBacked DEF Discover
  <1>6. ASSUME NEW k \in Key, Restart(k) PROVE BackedInv'
    BY <1>6, IdleType DEF Restart, BackedInv, HoldsRow, Backed, live
  <1>7. CASE UNCHANGED vars
    BY <1>7 DEF vars, BackedInv, HoldsRow, Backed, live
  <1> QED
    BY <1>1, <1>2, <1>3, <1>4, <1>5, <1>6, <1>7 DEF Next

\* "validating" and "ready" imply a stored credential, or a sync by discovery,
\* whatever stale rows are written back by whichever calls.
THEOREM StatusIsBacked == Spec => []StatusBacked
  <1>1. Init => BackedInv
    BY IdleType DEF Init, BackedInv, HoldsRow, live, NullRow
  <1>2. IdsInv /\ BackedInv => StatusBacked
    BY DEF IdsInv, BackedInv, StatusBacked, Backed, Vouched, live
  <1> QED
    BY <1>1, <1>2, NextBacked, TypeCorrect, IdsCorrect, PTL DEF Spec

-----------------------------------------------------------------------------
\* A status and its last_error agree, or discovery has written the status.

Paired(s, e) == (s = "error" => e # "none") /\ (s = "ready" => e = "none")
Loose(b) == b \in synced \cup gone
Explained(r, b) == Paired(r.status, r.err) \/ Loose(b)

ExplainedInv ==
  /\ \A b \in live : Explained(row[b], b)
  /\ \A t \in Task : HoldsRow(t) => Explained(call[t].snap, call[t].b)
  /\ \A t \in Task : call[t].pc = "status" => Explained(call[t], call[t].b)

\* Once discovery has written it, or it is gone, an account stays so.
LEMMA LooseStays == ASSUME [Next]_vars, NEW b \in Backend, Loose(b) PROVE Loose(b)'
  <1> USE DEF Loose, tables, history
  <1>1. ASSUME NEW t \in Task, Step(t) PROVE Loose(b)'
    BY <1>1 DEF Step, CreateInsert, CreateDir, Get, UpdateWrite, DeleteRow, RmTree, BeginLogin,
       Detect, PutCredential, ReadCredential, ResolveConfigDir, RunImpl, StatusWrite, DiscoverSync
  <1>2. CASE UNCHANGED <<gone, synced>>
    BY <1>2
  <1> QED
    BY <1>1, <1>2 DEF Next, vars, Begin, BeginUpdate, CreateLookup, Discover, Restart

\* A step of a call whose new record r is explained, and whose row write, if any, is.
LEMMA CallKeepsExplained ==
  ASSUME TypeOK, ExplainedInv, [Next]_vars, NEW t \in Task, NEW r \in Call, Goto(t, r),
         r.pc \notin {"idle", "get", "sync"} => Paired(r.snap.status, r.snap.err) \/ Loose(r.b)',
         r.pc = "status" => Paired(r.status, r.err) \/ Loose(r.b)',
         \A b \in live' : Paired(row'[b].status, row'[b].err) \/ Loose(b) \/ Loose(b)'
  PROVE ExplainedInv'
  <1>1. \A b \in Backend : Loose(b) => Loose(b)'
    BY LooseStays
  <1>2. \A u \in Task : call[u].pc \notin {"idle", "sync"} => call[u].b \in Backend
    BY DEF TypeOK
  <1>3. call' = [call EXCEPT ![t] = r] /\ live' \subseteq Backend
    BY DEF Goto, live
  <1>4. \A b \in live' : Explained(row[b], b)'
    BY <1>1, <1>3 DEF Explained
  <1>5. ASSUME NEW u \in Task, HoldsRow(u)' PROVE Explained(call[u].snap, call[u].b)'
    BY <1>1, <1>2, <1>3, <1>5 DEF ExplainedInv, Explained, HoldsRow, TypeOK
  <1>6. ASSUME NEW u \in Task, call'[u].pc = "status" PROVE Explained(call[u], call[u].b)'
    BY <1>1, <1>2, <1>3, <1>6 DEF ExplainedInv, Explained, TypeOK
  <1> QED
    BY <1>4, <1>5, <1>6 DEF ExplainedInv

LEMMA StepExplained ==
  ASSUME TypeOK, ExplainedInv, NEW t \in Task, Step(t) PROVE ExplainedInv'
  <1> USE DEF At, tables, history
  <1> DEFINE c == call[t]
             Still == \A x \in live' : Paired(row'[x].status, row'[x].err) \/ Loose(x) \/ Loose(x)'
  <1>v. PICK b : b = call[t].b
    OBVIOUS
  <1> USE <1>v
  <1>s. [Next]_vars
    BY DEF Next
  <1>0. /\ c \in Call /\ c.op \in Op /\ b \in Backend \cup {0} /\ c.snap \in Row
        /\ c.pc \notin {"idle", "sync"} => b \in Backend
    BY FieldTypes DEF TypeOK
  <1>1. c.pc \notin {"idle", "get", "sync"} =>
          /\ Paired(c.snap.status, c.snap.err) \/ Loose(b)
          /\ Paired(c.snap.status, c.snap.err) \/ Loose(b)'
    BY <1>0, <1>s, LooseStays DEF ExplainedInv, Explained, HoldsRow
  <1>2. Still /\ Return(t) => ExplainedInv'
    BY <1>s, CallKeepsExplained, IdleType DEF Return
  <1>3. ASSUME NEW p \in Pc, Still, Goto(t, Moved(c, p)), c.pc \notin {"idle", "get", "sync"},
               p # "status"
        PROVE ExplainedInv'
    BY <1>0, <1>1, <1>3, <1>s, CallKeepsExplained, MovedType
  <1>4. ASSUME NEW s \in Status, NEW e \in Err, Still, StatusNext(t, s, e),
               c.pc \notin {"idle", "get", "sync"}, Paired(s, e)
        PROVE ExplainedInv'
    BY <1>0, <1>1, <1>4, <1>s, CallKeepsExplained, WritingType DEF StatusNext
  <1>5. ASSUME NEW o \in Op, Still, Become(t, o) PROVE ExplainedInv'
    BY <1>0, <1>5, <1>s, CallKeepsExplained, GettingType DEF Become
  <1>6. ASSUME UNCHANGED row PROVE Still
    BY <1>6 DEF live, ExplainedInv, Explained
  <1>7. ASSUME NEW r, Paired(r.status, r.err) \/ Loose(b), row' = RowUpdate(b, r) PROVE Still
    BY <1>7 DEF RowUpdate, live, ExplainedInv, Explained, TypeOK
  <1> HIDE DEF c, Still
  <1>a. CASE CreateInsert(t)
    <2>1. Still
      BY <1>1, <1>a DEF CreateInsert, Still, live, ExplainedInv, Explained, TypeOK, c
    <2> QED
      BY <1>3, <1>a, <2>1 DEF CreateInsert, Pc, c
  <1>b. CASE CreateDir(t)
    BY <1>2, <1>5, <1>6, <1>b DEF CreateDir, Op, RowOp, c
  <1>c. CASE Get(t)
    <2>1. Still
      BY <1>6, <1>c DEF Get
    <2>2. CASE b \in live
      <3>1. row[b] \in Row /\ b \in Backend
        BY <2>2 DEF live, TypeOK
      <3>2. AfterGet(c.op) \in Pc /\ AfterGet(c.op) # "status"
        BY <1>0, AfterGetPc DEF Pc
      <3>3. Goto(t, Loaded(c, AfterGet(c.op), row[b]))
        BY <1>c, <2>2 DEF Get, c
      <3>4. Paired(row[b].status, row[b].err) \/ Loose(b)'
        BY <1>s, <2>2, <3>1, LooseStays DEF ExplainedInv, Explained
      <3>5. LET r == Loaded(c, AfterGet(c.op), row[b])
            IN r \in Call /\ r.pc = AfterGet(c.op) /\ r.b = b /\ r.snap = row[b]
        BY <1>0, <3>1, <3>2, LoadedType DEF c
      <3> QED
        BY <1>s, <2>1, <3>2, <3>3, <3>4, <3>5, CallKeepsExplained DEF Still
    <2> QED
      BY <1>2, <1>c, <2>1, <2>2 DEF Get
  <1>d. CASE UpdateWrite(t)
    <2>1. Still
      BY <1>0, <1>1, <1>7, <1>d, PatchedType DEF UpdateWrite, c
    <2> QED
      BY <1>2, <1>5, <1>d, <2>1 DEF UpdateWrite, Op, RowOp, c
  <1>e. CASE DeleteRow(t)
    <2>1. Still
      BY <1>e DEF DeleteRow, Still, live, ExplainedInv, Explained, TypeOK, NullRow
    <2> QED
      BY <1>3, <1>e, <2>1 DEF DeleteRow, Pc, c
  <1>f. CASE RmTree(t)
    BY <1>2, <1>6, <1>f DEF RmTree
  <1>g. CASE BeginLogin(t)
    BY <1>2, <1>6, <1>g DEF BeginLogin
  <1>h. CASE Detect(t)
    BY <1>2, <1>4, <1>6, <1>h DEF Detect, Status, Err, Paired, c
  <1>i. CASE PutCredential(t)
    <2>1. Still
      BY <1>6, <1>i DEF PutCredential
    <2>2. c.snap.err \in Err /\ "validating" \in Status /\ Paired("validating", c.snap.err)
      BY <1>0, RowTypes DEF Status, Paired
    <2> QED
      BY <1>2, <1>4, <1>i, <2>1, <2>2 DEF PutCredential, c
  <1>j. CASE ReadCredential(t)
    BY <1>2, <1>3, <1>4, <1>6, <1>j DEF ReadCredential, Status, Err, Pc, Paired, c
  <1>k. CASE ResolveConfigDir(t)
    BY <1>2, <1>3, <1>6, <1>k DEF ResolveConfigDir, Pc, c
  <1>l. CASE RunImpl(t)
    BY <1>2, <1>4, <1>6, <1>l DEF RunImpl, Healthy, Status, Err, Paired, c
  <1>m. CASE StatusWrite(t)
    <2>1. Paired(c.status, c.err) \/ Loose(b)
      BY <1>m DEF StatusWrite, ExplainedInv, Explained, c
    <2>2. /\ StatusRow(c.snap, c.status, c.err).status = c.status
          /\ StatusRow(c.snap, c.status, c.err).err = c.err
      BY <1>0, FieldTypes, StatusRowType
    <2>3. row' = RowUpdate(b, StatusRow(c.snap, c.status, c.err))
      BY <1>m DEF StatusWrite, c
    <2>4. Still
      BY <1>7, <2>1, <2>2, <2>3
    <2> QED
      BY <1>2, <1>5, <1>m, <2>4 DEF StatusWrite, Op, RowOp, c
  <1>n. ASSUME NEW s \in todo[t], DiscoverSync(t, s) PROVE ExplainedInv'
    <2>1. s \in Sync /\ s.b \in Backend
      BY SyncedRowType DEF TypeOK
    <2>2. Still
      BY <1>n, <2>1 DEF DiscoverSync, RowUpdate, live, Loose, ExplainedInv, Explained, TypeOK, Still
    <2>3. CASE call' = call
      <3>1. Goto(t, c) /\ c.pc = "sync"
        BY <1>n, <2>3 DEF Goto, TypeOK, DiscoverSync, c
      <3> QED
        BY <1>0, <1>s, <2>2, <3>1, CallKeepsExplained DEF Still
    <2> QED
      BY <1>2, <1>n, <2>2, <2>3 DEF DiscoverSync
  <1> QED
    BY <1>a, <1>b, <1>c, <1>d, <1>e, <1>f, <1>g, <1>h, <1>i, <1>j, <1>k, <1>l, <1>m, <1>n DEF Step

LEMMA NextExplained == ASSUME TypeOK, ExplainedInv, [Next]_vars PROVE ExplainedInv'
  <1> USE DEF NewCall, At, tables, history
  <1>0. ASSUME UNCHANGED row
        PROVE \A b \in live' : Paired(row'[b].status, row'[b].err) \/ Loose(b) \/ Loose(b)'
    BY <1>0 DEF live, ExplainedInv, Explained
  <1>1. ASSUME NEW t \in Task, Step(t) PROVE ExplainedInv'
    BY <1>1, StepExplained
  <1>2. ASSUME NEW t \in Task, NEW o \in RowOp, NEW b \in Backend, Begin(t, o, b) PROVE ExplainedInv'
    BY <1>0, <1>2, CallKeepsExplained, GettingType DEF Begin, Op
  <1>3. ASSUME NEW t \in Task, NEW b \in Backend, NEW n \in Name \cup {Unset},
               NEW c \in UpdateConfigs \cup {Unset}, BeginUpdate(t, b, n, c)
        PROVE ExplainedInv'
    <2>1. /\ Patching("update", b, n, c) \in Call
          /\ Patching("update", b, n, c).pc = "get"
      <3>1. "update" \in Op /\ c \in Config \cup {Unset}
        BY ConfigsAssumption DEF Op
      <3> QED BY <3>1, PatchingType
    <2>2. Goto(t, Patching("update", b, n, c)) /\ UNCHANGED row
      BY <1>3 DEF BeginUpdate
    <2> QED
      BY <1>0, <2>1, <2>2, CallKeepsExplained
  <1>4. ASSUME NEW t \in Task, NEW o \in {"create", "import"}, NEW k \in Kind, NEW n \in Name,
               NEW c \in CreateConfigs, CreateLookup(t, o, k, n, c)
        PROVE ExplainedInv'
    <2>0. o \in Op /\ c \in Config /\ UNCHANGED row
      BY <1>4, ConfigsAssumption DEF Op, CreateLookup
    <2>1. ASSUME NEW b \in Matching(k, c), Goto(t, Patching(o, b, n, Merge(row[b].cfg, c)))
          PROVE ExplainedInv'
      <3>1. b \in Backend /\ Merge(row[b].cfg, c) \in Config
        BY <2>0, MergeType, RowTypes DEF Matching, live, TypeOK
      <3> QED
        BY <1>0, <2>0, <2>1, <3>1, CallKeepsExplained, PatchingType
    <2>2. CASE nextId \in Backend /\ Goto(t, Inserting(o, nextId, NewRow(k, n, c)))
      <3>1. /\ NewRow(k, n, c) \in Row
            /\ Paired(NewRow(k, n, c).status, NewRow(k, n, c).err)
        BY <2>0, NewRowType DEF Paired
      <3> QED
        BY <1>0, <2>0, <2>2, <3>1, CallKeepsExplained, InsertingType
    <2> QED
      BY <1>4, <2>1, <2>2 DEF CreateLookup
  <1>5. ASSUME NEW t \in Task, NEW found, NEW kindOf, Discover(t, found, kindOf) PROVE ExplainedInv'
    BY <1>0, <1>5, SyncingType, CallKeepsExplained DEF Discover
  <1>6. ASSUME NEW k \in Key, Restart(k) PROVE ExplainedInv'
    BY <1>6, IdleType DEF Restart, ExplainedInv, Explained, HoldsRow, Loose, live
  <1>7. CASE UNCHANGED vars
    BY <1>7 DEF vars, ExplainedInv, Explained, HoldsRow, Loose, live
  <1> QED
    BY <1>1, <1>2, <1>3, <1>4, <1>5, <1>6, <1>7 DEF Next

\* An account in error says why and a ready one holds no old error, whatever stale rows
\* are written back, unless discovery has set the status.
THEOREM StatusIsExplained == Spec => []StatusExplained
  <1>1. Init => ExplainedInv
    BY IdleType DEF Init, ExplainedInv, HoldsRow, live, NullRow
  <1>2. IdsInv /\ ExplainedInv => StatusExplained
    BY DEF IdsInv, ExplainedInv, Explained, Paired, Loose, StatusExplained, live
  <1> QED
    BY <1>1, <1>2, NextExplained, TypeCorrect, IdsCorrect, PTL DEF Spec

-----------------------------------------------------------------------------
\* No two accounts are the same one.

SameKey(r, s) == SameAccount(r, s.kind, s.cfg)
Apart(a, r) == \A x \in live \ {a} : ~SameKey(row[x], r)

\* What the one call t in flight is about to write keeps the accounts apart: the row it
\* inserts is nobody's, a row it read is as it is in the table, the config it was given
\* matches no other account.
CallApart(t) ==
  /\ call[t].pc = "insert" => Apart(0, call[t].snap)
  /\ HoldsRow(t) /\ call[t].pc # "insert" /\ call[t].b \in live =>
       call[t].snap.kind = row[call[t].b].kind /\ call[t].snap.cfg = row[call[t].b].cfg
  /\ call[t].pc \in {"get", "write"} /\ call[t].b \in live /\ call[t].cfg # Unset =>
       \A x \in live \ {call[t].b} : ~SameAccount(row[x], row[call[t].b].kind, call[t].cfg)
  /\ call[t].pc = "sync" => \A s \in todo[t] : s.b \in live =>
       s.snap.kind = row[s.b].kind /\ s.snap.cfg = row[s.b].cfg

DistinctInv == distinct =>
  /\ \A t, u \in Task : call[t].pc # "idle" /\ call[u].pc # "idle" => t = u
  /\ \A a \in live : Apart(a, row[a])
  /\ \A t \in Task : CallApart(t)

LEMMA SameKeySym ==
  ASSUME NEW r \in Row, NEW s \in Row, SameKey(r, s) PROVE SameKey(s, r)
  BY DEF SameKey, SameAccount

\* A config that is merged of two is another account's only if one of them is.
LEMMA MergeApart ==
  ASSUME NEW r \in Row, NEW k, NEW old \in Config, NEW new \in Config,
         SameAccount(r, k, Merge(old, new))
  PROVE  SameAccount(r, k, old) \/ SameAccount(r, k, new)
  <1>1. /\ Merge(old, new).path = IF new.path # Unset THEN new.path ELSE old.path
        /\ Merge(old, new).env = IF new.env # Unset THEN new.env ELSE old.env
        /\ Merge(old, new).email = IF new.email # Unset THEN new.email ELSE old.email
    BY DEF Merge
  <1> QED
    BY <1>1 DEF SameAccount

\* Kinds and configs that stay as they are, in rows that stay.
Kept == live' \subseteq live /\ \A x \in live' : row'[x].kind = row[x].kind /\ row'[x].cfg = row[x].cfg

LEMMA KeptApart ==
  ASSUME \A a \in live : Apart(a, row[a]), Kept PROVE \A a \in live' : Apart(a, row[a])'
  <1> SUFFICES ASSUME NEW a \in live', NEW x \in live' \ {a} PROVE ~SameKey(row'[x], row'[a])
    BY DEF Apart, SameKey, SameAccount
  <1>1. ~SameKey(row[x], row[a])
    BY DEF Apart, Kept
  <1>2. row'[a].kind = row[a].kind /\ row'[a].cfg = row[a].cfg
    BY DEF Kept
  <1>3. row'[x].kind = row[x].kind /\ row'[x].cfg = row[x].cfg
    BY DEF Kept
  <1> QED
    BY <1>1, <1>2, <1>3 DEF SameKey, SameAccount


LEMMA CallConfigs ==
  /\ \A o \in Op, b \in Backend \cup {0} : Getting(o, b).cfg = Unset
  /\ \A r \in Call, p \in Pc : Moved(r, p).cfg = r.cfg
  /\ \A r \in Call, p \in Pc, s \in Row : Loaded(r, p, s).cfg = r.cfg
  /\ Idle.cfg = Unset
  BY IdleType DEF Getting, Moved, Loaded, Idle, Call

\* A step of the only call in flight: the rows stay apart, and its new record r holds the
\* row as it is and a config that is no other account's.
LEMMA CallKeepsDistinct ==
  ASSUME TypeOK, DistinctInv, distinct, NEW t \in Task, call[t].pc # "idle",
         NEW r \in Call, Goto(t, r), r.pc \notin {"insert", "sync"},
         \A a \in live' : Apart(a, row[a])',
         r.pc \notin {"idle", "get"} /\ r.b \in live' =>
           r.snap.kind = row'[r.b].kind /\ r.snap.cfg = row'[r.b].cfg,
         r.pc \in {"get", "write"} /\ r.b \in live' /\ r.cfg # Unset =>
           \A x \in live' \ {r.b} : ~SameAccount(row'[x], row'[r.b].kind, r.cfg)
  PROVE  DistinctInv'
  <1>1. call' = [call EXCEPT ![t] = r] /\ call'[t] = r
    BY DEF Goto, TypeOK
  <1>2. \A u \in Task : u # t => call'[u].pc = "idle"
    BY <1>1 DEF DistinctInv, TypeOK
  <1>3. ASSUME NEW u \in Task PROVE CallApart(u)'
    BY <1>1, <1>2 DEF CallApart, HoldsRow
  <1>4. \A u, v \in Task : call'[u].pc # "idle" /\ call'[v].pc # "idle" => u = v
    BY <1>2
  <1> QED
    BY <1>3, <1>4 DEF DistinctInv

LEMMA StepDistinct ==
  ASSUME TypeOK, IdsInv, DistinctInv, NEW t \in Task, Step(t) PROVE DistinctInv'
  <1> USE DEF At, tables, history
  <1> DEFINE c == call[t]
             b == call[t].b
             Clear == \A a \in live' : Apart(a, row[a])'
  <1>d. distinct' = distinct
    BY DEF Step, CreateInsert, CreateDir, Get, UpdateWrite, DeleteRow, RmTree, BeginLogin,
       Detect, PutCredential, ReadCredential, ResolveConfigDir, RunImpl, StatusWrite, DiscoverSync
  <1> SUFFICES ASSUME distinct PROVE DistinctInv'
    BY <1>d DEF DistinctInv
  <1>p. c.pc # "idle"
    BY DEF Step, CreateInsert, CreateDir, Get, UpdateWrite, DeleteRow, RmTree, BeginLogin,
       Detect, PutCredential, ReadCredential, ResolveConfigDir, RunImpl, StatusWrite, DiscoverSync
  <1>0. /\ c \in Call /\ c.op \in Op /\ b \in Backend \cup {0} /\ c.snap \in Row
        /\ c.pc \notin {"idle", "sync"} => b \in Backend
        /\ c.status \in Status /\ c.err \in Err
    BY FieldTypes DEF TypeOK
  <1>1. c.pc \notin {"idle", "get", "sync", "insert"} /\ b \in live =>
          c.snap.kind = row[b].kind /\ c.snap.cfg = row[b].cfg
    BY DEF DistinctInv, CallApart, HoldsRow
  <1>r. Kept => Clear
    BY KeptApart DEF DistinctInv
  <1>2. Clear /\ Return(t) => DistinctInv'
    BY <1>p, CallKeepsDistinct, CallConfigs, IdleType DEF Return
  <1>3. ASSUME NEW p \in Pc, Kept, Goto(t, Moved(c, p)), c.pc \notin {"idle", "get", "sync", "insert"},
               p \notin {"write", "insert", "sync", "get"}
        PROVE DistinctInv'
    BY <1>0, <1>1, <1>3, <1>p, <1>r, CallKeepsDistinct, MovedType DEF Kept
  <1>4. ASSUME NEW s \in Status, NEW e \in Err, UNCHANGED row, StatusNext(t, s, e),
               c.pc \notin {"idle", "get", "sync", "insert"}
        PROVE DistinctInv'
    <2>1. Kept
      BY <1>4 DEF Kept, live
    <2> QED
      BY <1>0, <1>1, <1>4, <1>p, <1>r, <2>1, CallKeepsDistinct, WritingType DEF StatusNext, Kept
  <1>5. ASSUME NEW o \in Op, Clear, Become(t, o) PROVE DistinctInv'
    BY <1>0, <1>5, <1>p, CallKeepsDistinct, CallConfigs, GettingType DEF Become
  <1>6. UNCHANGED row => Kept
    BY DEF live, Kept
  \* A row written back with the kind and config it has.
  <1>7. ASSUME NEW r, r.kind = c.snap.kind, r.cfg = c.snap.cfg, row' = RowUpdate(b, r),
               c.pc \notin {"idle", "get", "sync", "insert"}
        PROVE Kept
    BY <1>1, <1>7 DEF RowUpdate, live, Kept, TypeOK
  <1> HIDE DEF c, b, Clear
  <1>a. CASE CreateInsert(t)
    <2>1. /\ b \in Backend \ live /\ c.snap.kind # Unset
          /\ \A x \in live : ~SameKey(row[x], c.snap)
      <3>1. c.pc = "insert"
        BY <1>a DEF CreateInsert, c
      <3>2. b \in Backend \ live /\ c.snap.kind # Unset
        BY <3>1 DEF IdsInv, HoldsRow, c, b
      <3>3. 0 \notin live
        BY BoundsAssumption DEF live, Backend
      <3>4. Apart(0, c.snap)
        BY <3>1 DEF DistinctInv, CallApart, c
      <3> QED BY <3>2, <3>3, <3>4 DEF Apart
    <2>2. row' = [row EXCEPT ![b] = c.snap] /\ live' = live \cup {b} /\ row'[b] = c.snap
      BY <1>a, <2>1 DEF CreateInsert, live, TypeOK, c, b
    <2>3. \A x \in live : row'[x] = row[x] /\ row[x] \in Row
      BY <2>1, <2>2 DEF live, TypeOK
    <2>4. \A x \in live : ~SameKey(c.snap, row[x])
      BY <1>0, <2>1, <2>3, SameKeySym
    <2>5. ASSUME NEW a \in live' PROVE Apart(a, row[a])'
      <3>1. ASSUME NEW x \in live' \ {a} PROVE ~SameKey(row'[x], row'[a])
        BY <2>1, <2>2, <2>3, <2>4, <3>1 DEF DistinctInv, Apart
      <3> QED BY <3>1 DEF Apart, SameKey, SameAccount
    <2>6. Goto(t, Moved(c, "newdir")) /\ "newdir" \in Pc
      BY <1>a DEF CreateInsert, Pc, c
    <2> QED
      BY <1>0, <1>p, <2>2, <2>5, <2>6, CallKeepsDistinct, MovedType DEF c, b
  <1>b. CASE CreateDir(t)
    BY <1>2, <1>5, <1>6, <1>b, <1>r DEF CreateDir, Op, RowOp, c
  <1>c. CASE Get(t)
    <2>1. Kept /\ live' = live /\ row' = row
      BY <1>6, <1>c DEF Get, live
    <2>2. CASE b \in live
      <3>1. row[b] \in Row /\ b \in Backend
        BY <2>2 DEF live, TypeOK
      <3>2. AfterGet(c.op) \in Pc /\ AfterGet(c.op) \notin {"insert", "sync", "get"}
        BY <1>0, AfterGetPc DEF Pc
      <3>3. Goto(t, Loaded(c, AfterGet(c.op), row[b]))
        BY <1>c, <2>2 DEF Get, c, b
      <3>4. LET r == Loaded(c, AfterGet(c.op), row[b])
            IN r \in Call /\ r.pc = AfterGet(c.op) /\ r.b = b /\ r.snap = row[b] /\ r.cfg = c.cfg
        BY <1>0, <3>1, <3>2, LoadedType, CallConfigs DEF c, b
      <3>5. c.cfg # Unset => \A x \in live \ {b} : ~SameAccount(row[x], row[b].kind, c.cfg)
        BY <1>c, <2>2 DEF Get, DistinctInv, CallApart, c, b
      <3>6. LET r == Loaded(c, AfterGet(c.op), row[b])
            IN r.cfg # Unset => \A x \in live' \ {b} : ~SameAccount(row'[x], row'[b].kind, r.cfg)
        BY <2>1, <3>4, <3>5
      <3> QED
        BY <1>p, <1>r, <2>1, <3>2, <3>3, <3>4, <3>6, CallKeepsDistinct DEF Clear, c
    <2> QED
      BY <1>2, <1>c, <1>r, <2>1, <2>2 DEF Get, c, b
  <1>d1. CASE UpdateWrite(t)
    <2>0. c.pc = "write" /\ row' = RowUpdate(b, Patched(t)) /\ Patched(t) \in Row
          /\ Patched(t).kind = c.snap.kind
          /\ Patched(t).cfg = IF c.cfg = Unset THEN c.snap.cfg ELSE c.cfg
      <3>1. Patched(t) \in Row /\ Patched(t).kind = c.snap.kind
        BY <1>0, PatchedType DEF c
      <3>2. Patched(t).cfg = IF c.cfg = Unset THEN c.snap.cfg ELSE c.cfg
        BY <1>0 DEF Patched, Row, c
      <3> QED BY <1>d1, <3>1, <3>2 DEF UpdateWrite, c, b
    <2>1. Clear
      <3>1. CASE c.cfg = Unset \/ b \notin live
        <4>1. Kept
          BY <1>7, <2>0, <3>1 DEF RowUpdate, Kept, live
        <4> QED
          BY <1>r, <4>1
      <3>2. CASE c.cfg # Unset /\ b \in live
        <4>1. Patched(t).kind = row[b].kind
          BY <1>1, <2>0, <3>2
        <4>2. \A x \in live \ {b} : ~SameKey(row[x], Patched(t))
          BY <2>0, <3>2, <4>1 DEF DistinctInv, CallApart, SameKey, c, b
        <4>3. row' = [row EXCEPT ![b] = Patched(t)] /\ row'[b] = Patched(t) /\ b \in Backend
          BY <2>0, <3>2 DEF RowUpdate, live, TypeOK
        <4>4. live' = live
          BY <3>2, <4>1, <4>3 DEF live, TypeOK
        <4>5. \A x \in live \ {b} : row'[x] = row[x] /\ row[x] \in Row
          BY <4>3 DEF live, TypeOK
        <4>6. \A x \in live \ {b} : ~SameKey(Patched(t), row[x])
          BY <2>0, <4>2, <4>5, SameKeySym
        <4>7. ASSUME NEW a \in live' PROVE Apart(a, row[a])'
          <5>1. ASSUME NEW x \in live' \ {a} PROVE ~SameKey(row'[x], row'[a])
            BY <4>2, <4>3, <4>4, <4>5, <4>6, <5>1 DEF DistinctInv, Apart
          <5> QED BY <5>1 DEF Apart, SameKey, SameAccount
        <4> QED
          BY <4>7 DEF Clear
      <3> QED
        BY <3>1, <3>2
    <2> QED
      BY <1>2, <1>5, <1>d1, <2>1 DEF UpdateWrite, Op, RowOp, c, b
  <1>e. CASE DeleteRow(t)
    <2>1. row' = [row EXCEPT ![b] = NullRow] /\ b \in Backend /\ Goto(t, Moved(c, "rmtree"))
          /\ c.pc = "rm"
      BY <1>0, <1>e DEF DeleteRow, c, b
    <2>2. Kept /\ b \notin live'
      BY <2>1 DEF Kept, live, NullRow, TypeOK
    <2> QED
      BY <1>3, <2>1, <2>2 DEF Pc
  <1>f. CASE RmTree(t)
    BY <1>2, <1>6, <1>f, <1>r DEF RmTree
  <1>g. CASE BeginLogin(t)
    BY <1>2, <1>6, <1>g, <1>r DEF BeginLogin
  <1>h. CASE Detect(t)
    BY <1>2, <1>4, <1>6, <1>h, <1>r DEF Detect, Status, Err, c
  <1>i. CASE PutCredential(t)
    BY <1>0, <1>2, <1>4, <1>6, <1>i, <1>r, RowTypes DEF PutCredential, Status, c
  <1>j. CASE ReadCredential(t)
    BY <1>2, <1>3, <1>4, <1>6, <1>j, <1>r DEF ReadCredential, Status, Err, Pc, c
  <1>k. CASE ResolveConfigDir(t)
    BY <1>2, <1>3, <1>6, <1>k, <1>r DEF ResolveConfigDir, Pc, c
  <1>l. CASE RunImpl(t)
    BY <1>2, <1>4, <1>6, <1>l, <1>r DEF RunImpl, Healthy, Status, Err, c
  <1>m. CASE StatusWrite(t)
    <2>1. /\ StatusRow(c.snap, c.status, c.err).kind = c.snap.kind
          /\ StatusRow(c.snap, c.status, c.err).cfg = c.snap.cfg
      BY <1>0 DEF StatusRow, Row
    <2>2. Clear
      BY <1>7, <1>m, <1>r, <2>1 DEF StatusWrite, c, b
    <2> QED
      BY <1>2, <1>5, <1>m, <2>2 DEF StatusWrite, Op, RowOp, c, b
  <1>n. ASSUME NEW s \in todo[t], DiscoverSync(t, s) PROVE DistinctInv'
    <2>1. c.pc = "sync" /\ s \in Sync /\ s.b \in Backend /\ todo[t] \in SUBSET Sync
      BY <1>n, SyncedRowType DEF DiscoverSync, TypeOK, c
    <2>2. \A x \in todo[t] : x.b \in live => x.snap.kind = row[x.b].kind /\ x.snap.cfg = row[x.b].cfg
      BY <2>1 DEF DistinctInv, CallApart, c
    <2>3. SyncedRow(s).kind = s.snap.kind /\ SyncedRow(s).cfg = s.snap.cfg
      BY <2>1 DEF SyncedRow, Sync, Row
    <2>4. Kept
      BY <1>n, <2>1, <2>2, <2>3 DEF DiscoverSync, RowUpdate, Kept, live, TypeOK
    <2>5. CASE call' = call
      <3>1. todo'[t] \subseteq todo[t]
        BY <1>n DEF DiscoverSync, TypeOK
      <3>2. \A x \in todo'[t] : x.b \in live' => x.snap.kind = row'[x.b].kind /\ x.snap.cfg = row'[x.b].cfg
        BY <2>2, <2>4, <3>1 DEF Kept
      <3>3. \A u \in Task \ {t} : call'[u].pc = "idle"
        BY <1>p, <2>5 DEF DistinctInv, c
      <3>4. ASSUME NEW u \in Task PROVE CallApart(u)'
        BY <2>1, <2>5, <3>2, <3>3 DEF CallApart, HoldsRow, c
      <3> QED
        BY <1>r, <2>4, <2>5, <3>4 DEF DistinctInv, Clear
    <2> QED
      BY <1>2, <1>n, <1>r, <2>4, <2>5 DEF DiscoverSync
  <1> QED
    BY <1>a, <1>b, <1>c, <1>d1, <1>e, <1>f, <1>g, <1>h, <1>i, <1>j, <1>k, <1>l, <1>m, <1>n DEF Step

LEMMA PatchingConfig ==
  ASSUME NEW o \in Op, NEW b \in Backend, NEW n \in Name \cup {Unset}, NEW c \in Config \cup {Unset}
  PROVE Patching(o, b, n, c).cfg = c
  <1>1. PICK r : r = [Getting(o, b) EXCEPT !.name = n]
    OBVIOUS
  <1>2. r \in Call
    BY <1>1, GettingType DEF Call
  <1>3. Patching(o, b, n, c) = [r EXCEPT !.cfg = c]
    BY <1>1 DEF Patching, Getting
  <1> QED
    BY <1>2, <1>3 DEF Call

LEMMA ApartStays == ASSUME UNCHANGED row, NEW a, NEW r, Apart(a, r) PROVE Apart(a, r)'
  <1> SUFFICES ASSUME NEW x \in live' \ {a} PROVE ~SameKey(row'[x], r)
    BY DEF Apart, SameKey, SameAccount
  <1> QED
    BY DEF Apart, live

LEMMA NextDistinct == ASSUME TypeOK, IdsInv, DistinctInv, [Next]_vars PROVE DistinctInv'
  <1> USE DEF At, tables, history
  <1> DEFINE Alone(t) == distinct /\ (\A u \in Task : call[u].pc = "idle") /\ UNCHANGED row
  <1>1. ASSUME NEW t \in Task, Step(t) PROVE DistinctInv'
    BY <1>1, StepDistinct
  \* The only call in flight begins: what it is given is no other account's.
  <1>2. ASSUME NEW t \in Task, NEW r \in Call, Goto(t, r), r.pc \in {"insert", "get", "sync"},
               distinct' => Alone(t),
               distinct' /\ r.pc = "insert" => Apart(0, r.snap),
               distinct' /\ r.pc = "get" /\ r.b \in live /\ r.cfg # Unset =>
                 \A x \in live \ {r.b} : ~SameAccount(row[x], row[r.b].kind, r.cfg),
               distinct' /\ r.pc = "sync" => \A s \in todo'[t] : s.snap = row[s.b]
        PROVE  DistinctInv'
    <2> SUFFICES ASSUME distinct' PROVE DistinctInv'
      BY DEF DistinctInv
    <2>1. Alone(t) /\ live' = live /\ row' = row
      BY <1>2 DEF live
    <2>2. call' = [call EXCEPT ![t] = r] /\ call'[t] = r
      BY <1>2 DEF Goto, TypeOK
    <2>3. \A u \in Task : u # t => call'[u].pc = "idle"
      BY <2>1, <2>2 DEF TypeOK
    <2>4. \A a \in live' : Apart(a, row[a])'
      BY <2>1, KeptApart DEF DistinctInv, Kept
    <2>5. CallApart(t)'
      <3>1. ASSUME r.pc = "insert" PROVE Apart(0, call[t].snap)'
        <4>1. Apart(0, r.snap)' BY <1>2, <2>1, <3>1, ApartStays
        <4> QED BY <2>2, <4>1 DEF Apart, SameKey, SameAccount
      <3>2. HoldsRow(t)' => r.pc = "insert"
        BY <1>2, <2>2 DEF HoldsRow
      <3> QED BY <1>2, <2>1, <2>2, <3>1, <3>2 DEF CallApart
    <2>6. ASSUME NEW u \in Task PROVE CallApart(u)'
      BY <2>3, <2>5 DEF CallApart, HoldsRow
    <2> QED
      BY <2>3, <2>4, <2>6 DEF DistinctInv
  <1>3. ASSUME NEW t \in Task, NEW o \in RowOp, NEW b \in Backend, Begin(t, o, b) PROVE DistinctInv'
    <2>1. Getting(o, b) \in Call /\ Getting(o, b).pc = "get" /\ Getting(o, b).cfg = Unset
      BY GettingType, CallConfigs DEF Op
    <2> QED
      BY <1>2, <1>3, <2>1 DEF Begin, NewCall
  <1>4. ASSUME NEW t \in Task, NEW b \in Backend, NEW n \in Name \cup {Unset},
               NEW c \in UpdateConfigs \cup {Unset}, BeginUpdate(t, b, n, c)
        PROVE DistinctInv'
    <2>1. LET r == Patching("update", b, n, c)
          IN r \in Call /\ r.pc = "get" /\ r.b = b /\ r.cfg = c
      <3>1. "update" \in Op /\ c \in Config \cup {Unset}
        BY ConfigsAssumption DEF Op
      <3> QED BY <3>1, PatchingType, PatchingConfig
    <2>2. Goto(t, Patching("update", b, n, c)) /\ (distinct' => Alone(t))
      BY <1>4 DEF BeginUpdate, NewCall
    <2>3. ASSUME distinct', c # Unset, NEW x \in live \ {b} PROVE ~SameAccount(row[x], row[b].kind, c)
      BY <1>4, <2>3 DEF BeginUpdate, NewCall, Matching
    <2> QED
      BY <1>2, <2>1, <2>2, <2>3
  <1>5. ASSUME NEW t \in Task, NEW o \in {"create", "import"}, NEW k \in Kind, NEW n \in Name,
               NEW c \in CreateConfigs, CreateLookup(t, o, k, n, c)
        PROVE DistinctInv'
    <2>0. o \in Op /\ c \in Config /\ (distinct' => Alone(t))
          /\ (distinct' => \A x, y \in Matching(k, c) : x = y)
      BY <1>5, ConfigsAssumption DEF Op, CreateLookup, NewCall
    <2>1. ASSUME NEW b \in Matching(k, c), Goto(t, Patching(o, b, n, Merge(row[b].cfg, c)))
          PROVE DistinctInv'
      <3>1. b \in live /\ b \in Backend /\ row[b] \in Row /\ row[b].cfg \in Config /\ row[b].kind = k
        BY RowTypes DEF Matching, SameAccount, live, TypeOK
      <3>2. Merge(row[b].cfg, c) \in Config
        BY <2>0, <3>1, MergeType
      <3>3. LET r == Patching(o, b, n, Merge(row[b].cfg, c))
            IN r \in Call /\ r.pc = "get" /\ r.b = b /\ r.cfg = Merge(row[b].cfg, c)
        BY <2>0, <3>1, <3>2, PatchingType, PatchingConfig
      <3>4. ASSUME distinct', NEW x \in live \ {b},
                   SameAccount(row[x], row[b].kind, Merge(row[b].cfg, c))
            PROVE FALSE
        <4>1. row[x] \in Row
          BY DEF live, TypeOK
        <4>2. SameAccount(row[x], k, row[b].cfg) \/ SameAccount(row[x], k, c)
          BY <2>0, <3>1, <3>4, <4>1, MergeApart
        <4>3. ~SameAccount(row[x], k, row[b].cfg)
          BY <2>0, <3>1, <3>4 DEF DistinctInv, Apart, SameKey
        <4>4. x \notin Matching(k, c)
          BY <2>0, <3>4
        <4> QED
          BY <4>2, <4>3, <4>4 DEF Matching
      <3> QED
        BY <1>2, <2>0, <2>1, <3>3, <3>4
    <2>2. CASE Matching(k, c) = {} /\ nextId \in Backend /\ Goto(t, Inserting(o, nextId, NewRow(k, n, c)))
      <3>1. NewRow(k, n, c) \in Row /\ NewRow(k, n, c).kind = k /\ NewRow(k, n, c).cfg = c
        <4>1. NewRow(k, n, c).cfg = c
          BY <2>0, NullRowType DEF NewRow, Row
        <4> QED BY <2>0, <4>1, NewRowType
      <3>2. LET r == Inserting(o, nextId, NewRow(k, n, c))
            IN r \in Call /\ r.pc = "insert" /\ r.snap = NewRow(k, n, c)
        BY <2>0, <2>2, <3>1, InsertingType
      <3>3. Apart(0, NewRow(k, n, c))
        BY <2>2, <3>1 DEF Apart, SameKey, Matching
      <3> QED
        BY <1>2, <2>0, <2>2, <3>2, <3>3
    <2> QED
      BY <1>5, <2>1, <2>2 DEF CreateLookup
  <1>6. ASSUME NEW t \in Task, NEW found, NEW kindOf, Discover(t, found, kindOf) PROVE DistinctInv'
    <2>1. \A s \in Syncs(found, kindOf) : s.snap = row[s.b]
      BY SyncsType
    <2>2. todo'[t] = Syncs(found, kindOf)
      BY <1>6 DEF Discover, TypeOK
    <2> QED
      BY <1>2, <1>6, <2>1, <2>2, SyncingType DEF Discover, NewCall
  <1>7. ASSUME NEW k \in Key, Restart(k) PROVE DistinctInv'
    <2>1. Kept /\ (distinct' => distinct) /\ \A u \in Task : call'[u].pc = "idle"
      BY <1>7, IdleType DEF Restart, Kept, live
    <2>2. \A u \in Task : CallApart(u)'
      BY <2>1 DEF CallApart, HoldsRow
    <2> QED
      BY <2>1, <2>2, KeptApart DEF DistinctInv
  <1>8. CASE UNCHANGED vars
    <2>1. Kept /\ distinct' = distinct /\ call' = call /\ todo' = todo /\ live' = live /\ row' = row
      BY <1>8 DEF vars, Kept, live
    <2>2. ASSUME NEW u \in Task, CallApart(u) PROVE CallApart(u)'
      <3>1. ASSUME Apart(0, call[u].snap) PROVE Apart(0, call[u].snap)'
        <4> PICK r : r = call[u].snap OBVIOUS
        <4>1. Apart(0, r)' BY <2>1, <3>1, ApartStays
        <4> QED BY <2>1, <4>1 DEF Apart, SameKey, SameAccount
      <3> QED BY <2>1, <2>2, <3>1 DEF CallApart, HoldsRow
    <2> QED
      BY <2>1, <2>2, KeptApart DEF DistinctInv
  <1> QED
    BY <1>1, <1>3, <1>4, <1>5, <1>6, <1>7, <1>8 DEF Next

\* Calls that do not overlap, and configs that are never those of two accounts, do not
\* make two rows of one account, however long creates merge and updates replace configs.
THEOREM NoDuplicates == Spec => []NoDuplicateAccount
  <1>1. Init => DistinctInv
    BY IdleType DEF Init, DistinctInv, CallApart, HoldsRow, live, NullRow
  <1>2. DistinctInv => NoDuplicateAccount
    BY DEF DistinctInv, NoDuplicateAccount, Apart, SameKey
  <1> QED
    BY <1>1, <1>2, NextDistinct, TypeCorrect, IdsCorrect, PTL DEF Spec
=============================================================================
