--------------------------------- MODULE Pty ---------------------------------
(***************************************************************************)
(* Terminals in the browser: PtyService (services/pty.py), the handle      *)
(* around a PTY and its child (pty/handle.py), the websocket that joins    *)
(* them to a client (routes/pty_ws.py), and the client's socket, which     *)
(* connects again when it is closed (client/pty-socket.ts).                *)
(*                                                                         *)
(* Every read and write is a job of the event loop's thread pool, and a    *)
(* read keeps its thread until the terminal says something.  A job names   *)
(* a file descriptor; a number that has been closed is used again by the   *)
(* next terminal.                                                          *)
(*                                                                         *)
(* Abstracted: bytes; sizes of windows; the child, which may print and end *)
(* at any time; the account behind a session (module Accounts).            *)
(***************************************************************************)
EXTENDS Naturals, Sequences, FiniteSets

CONSTANTS
  MaxPtys,     \* bound: PTY sessions, numbered as they are spawned
  MaxSockets,  \* bound: websockets, numbered as they are opened
  Threads,     \* threads of the pool
  MaxKeys      \* bound: keystrokes
ASSUME PtyAssumption ==
  /\ MaxPtys \in Nat \ {0} /\ MaxSockets \in Nat /\ Threads \in Nat \ {0} /\ MaxKeys \in Nat

Session == 1..MaxPtys
Socket == 1..MaxSockets
NoSession == 0

VARIABLES
  ptyState,   \* where each session is: from its spawn to its end
  fd,         \* the number of its file descriptor
  shut,       \* sessions whose handle is _closed
  handles,    \* PtyService._handles
  rows,       \* live_sessions
  shell,      \* the child of each session
  conn,       \* each websocket: the connection
  joins,      \* and the session it is for
  rd,         \* its reader()
  wr,         \* its writer()
  reads,      \* the terminal its reader's thread waits for
  jobs,       \* jobs that wait for a thread: <<kind, socket>>
  keyed,      \* keystrokes so far
  hurried,    \* history: a session was killed while a job for it waited
  misplaced   \* history: a job has used the terminal of another session

terminal == <<ptyState, fd, shut, handles, rows, shell>>
serving == <<conn, joins, rd, wr, reads, jobs>>
ptyVars == <<terminal, serving, keyed, hurried, misplaced>>

PtyInit ==
  /\ ptyState = [s \in Session |-> "unused"] /\ fd = [s \in Session |-> 0]
  /\ shut = {} /\ handles = {} /\ rows = {} /\ shell = [s \in Session |-> "none"]
  /\ conn = [k \in Socket |-> "unused"] /\ joins = [k \in Socket |-> NoSession]
  /\ rd = [k \in Socket |-> "none"] /\ wr = [k \in Socket |-> "none"]
  /\ reads = [k \in Socket |-> NoSession] /\ jobs = <<>>
  /\ keyed = 0 /\ hurried = FALSE /\ misplaced = FALSE

\* Who has a terminal open, and the lowest number that is free.
Holds(s) == ptyState[s] \in {"spawned", "leaked", "open"}
Taken == {fd[s] : s \in {t \in Session : Holds(t)}}
Free == CHOOSE n \in Session \ Taken : \A m \in Session \ Taken : n <= m
BusyThreads == Cardinality({k \in Socket : reads[k] # NoSession})
Over(k, x) == [x EXCEPT ![k] = "over"]

-----------------------------------------------------------------------------
\* PtyService.

\* The terminal is there first, then its row, then the entry in _handles; a row that
\* cannot be written leaves a terminal nobody knows.
SpawnPty(s) ==
  /\ ptyState[s] = "unused" /\ \A t \in 1..(s - 1) : ptyState[t] # "unused"
  /\ ptyState' = [ptyState EXCEPT ![s] = "spawned"] /\ fd' = [fd EXCEPT ![s] = Free]
  /\ shell' = [shell EXCEPT ![s] = "running"]
  /\ UNCHANGED <<shut, handles, rows, serving, keyed, hurried, misplaced>>

Stores(s, kept) ==
  /\ ptyState[s] = "spawned"
  /\ \/ /\ ptyState' = [ptyState EXCEPT ![s] = "open"]
        /\ rows' = rows \cup {s} /\ handles' = handles \cup {s}
     \/ /\ ptyState' = [ptyState EXCEPT ![s] = "leaked"]
        /\ UNCHANGED rows /\ handles' = handles \cup kept
  /\ UNCHANGED <<fd, shut, shell, serving, keyed, hurried, misplaced>>
RowStored(s) == Stores(s, {})

Signalled(s) == [shell EXCEPT ![s] = IF @ = "running" THEN "signalled" ELSE @]

Popped(s) == handles \ {s}

\* kill(), by this client or another: the handle is popped, closed, and then the row is deleted.
Ends(s) ==
  /\ s \in handles /\ handles' = Popped(s)
  /\ ptyState' = [ptyState EXCEPT ![s] = "killing"]
  /\ shell' = Signalled(s)
  /\ hurried' = (hurried \/ \E i \in DOMAIN jobs : joins[jobs[i][2]] = s)
  /\ UNCHANGED <<rows, fd, serving, keyed, misplaced>>
BugKillPty(s) == Ends(s) /\ UNCHANGED shut           \* _closed is not set
KillPty(s) == Ends(s) /\ shut' = shut \cup {s}

RowEnded(s) ==
  /\ ptyState[s] = "killing" /\ ptyState' = [ptyState EXCEPT ![s] = "gone"]
  /\ rows' = rows \ {s}
  /\ UNCHANGED <<fd, shut, handles, shell, serving, keyed, hurried, misplaced>>

-----------------------------------------------------------------------------
\* The websocket.

Submit(q, kind, k) == Append(q, <<kind, k>>)

\* PtySocket connects, and again when it has been closed, until close().
Connect(k) ==
  /\ conn[k] = "unused" /\ \A j \in 1..(k - 1) : conn[j] # "unused"
  /\ \E s \in {t \in Session : ptyState[t] \in {"open", "killing", "gone"}} :
       /\ \A j \in Socket : joins[j] = s => conn[j] \in {"lost", "closed"}
       /\ joins' = [joins EXCEPT ![k] = s]
       /\ IF s \in handles
          THEN /\ conn' = [conn EXCEPT ![k] = "open"] /\ jobs' = Submit(jobs, "read", k)
               /\ rd' = [rd EXCEPT ![k] = "queued"] /\ wr' = [wr EXCEPT ![k] = "waiting"]
          ELSE conn' = [conn EXCEPT ![k] = "closed"] /\ UNCHANGED <<jobs, rd, wr>>
  /\ UNCHANGED <<terminal, reads, keyed, hurried, misplaced>>

\* The connection breaks: receive_data raises, send_data will.
ConnLost(k) ==
  /\ conn[k] = "open" /\ conn' = [conn EXCEPT ![k] = "lost"]
  /\ wr' = [wr EXCEPT ![k] = IF @ = "waiting" THEN "over" ELSE @]
  /\ UNCHANGED <<terminal, joins, rd, reads, jobs, keyed, hurried, misplaced>>

\* A keystroke arrives: handle.write().
Key(k) ==
  /\ conn[k] = "open" /\ wr[k] = "waiting" /\ keyed < MaxKeys /\ keyed' = keyed + 1
  /\ IF joins[k] \in shut THEN wr' = Over(k, wr) /\ UNCHANGED jobs
     ELSE wr' = [wr EXCEPT ![k] = "queued"] /\ jobs' = Submit(jobs, "write", k)
  /\ UNCHANGED <<terminal, conn, joins, rd, reads, hurried, misplaced>>

\* A job uses its number, whoever has that by now.
Meant(k) == {t \in Session : Holds(t) /\ fd[t] = fd[joins[k]]}

ReadBegins(k) ==
  /\ \/ \E t \in Meant(k) :
          /\ reads' = [reads EXCEPT ![k] = t] /\ rd' = [rd EXCEPT ![k] = "reading"]
          /\ misplaced' = (misplaced \/ t # joins[k])
     \/ /\ Meant(k) = {} /\ rd' = Over(k, rd) /\ UNCHANGED <<reads, misplaced>>
  /\ UNCHANGED wr
Written(k) ==
  /\ \/ \E t \in Meant(k) :
          /\ wr' = [wr EXCEPT ![k] = IF conn[k] = "open" THEN "waiting" ELSE "over"]
          /\ misplaced' = (misplaced \/ t # joins[k])
     \/ Meant(k) = {} /\ wr' = Over(k, wr) /\ UNCHANGED misplaced
  /\ UNCHANGED <<rd, reads>>

\* A thread takes the job that has waited longest.
JobRuns ==
  /\ jobs # <<>> /\ BusyThreads < Threads /\ jobs' = Tail(jobs)
  /\ LET job == Head(jobs) IN
     IF job[1] = "read" THEN ReadBegins(job[2]) ELSE Written(job[2])
  /\ UNCHANGED <<terminal, conn, joins, keyed, hurried>>

\* The terminal prints, and one of those that wait for it gets that.
Returns(k) ==
  /\ reads' = [reads EXCEPT ![k] = NoSession]
  /\ IF conn[k] = "open" /\ joins[k] \notin shut
     THEN rd' = [rd EXCEPT ![k] = "queued"] /\ jobs' = Submit(jobs, "read", k)
     ELSE rd' = Over(k, rd) /\ UNCHANGED jobs
PrintsText(t) ==
  /\ shell[t] \in {"running", "signalled"}
  /\ \E k \in Socket : reads[k] = t /\ Returns(k)
  /\ UNCHANGED <<terminal, conn, joins, wr, keyed, hurried, misplaced>>

\* The child ends, and with it every read of its terminal.
ShellEnds(t) ==
  /\ shell[t] \in {"running", "signalled"} /\ shell' = [shell EXCEPT ![t] = "ended"]
  /\ UNCHANGED <<ptyState, fd, shut, handles, rows, serving, keyed, hurried, misplaced>>
EndRead(k) ==
  /\ reads[k] # NoSession /\ shell[reads[k]] = "ended"
  /\ reads' = [reads EXCEPT ![k] = NoSession] /\ rd' = Over(k, rd)
  /\ UNCHANGED <<terminal, conn, joins, wr, jobs, keyed, hurried, misplaced>>

\* gather() waits for both tasks.
BothOver(k) == rd[k] = "over" /\ wr[k] = "over"
HandlerEnds(k) ==
  /\ conn[k] \in {"open", "lost"} /\ BothOver(k) /\ conn' = [conn EXCEPT ![k] = "closed"]
  /\ UNCHANGED <<terminal, joins, rd, wr, reads, jobs, keyed, hurried, misplaced>>

-----------------------------------------------------------------------------
PtyNext ==
  \/ \E s \in Session :
       \/ SpawnPty(s) \/ RowStored(s) \/ KillPty(s) \/ RowEnded(s)
       \/ PrintsText(s) \/ ShellEnds(s)
  \/ \E k \in Socket : Connect(k) \/ ConnLost(k) \/ Key(k) \/ EndRead(k) \/ HandlerEnds(k)
  \/ JobRuns

\* Tasks, threads and requests go on; SIGTERM ends a shell.
PtyFairness ==
  /\ WF_ptyVars(JobRuns)
  /\ \A s \in Session :
       /\ WF_ptyVars(RowStored(s)) /\ WF_ptyVars(RowEnded(s))
       /\ WF_ptyVars(shell[s] = "signalled" /\ ShellEnds(s))
  /\ \A k \in Socket : WF_ptyVars(EndRead(k)) /\ WF_ptyVars(HandlerEnds(k))

-----------------------------------------------------------------------------
\* Every variable has its type; open terminals have different numbers, and what
\* attach() returns is open.
PtyTypeOK ==
  /\ ptyState \in [Session -> {"unused", "spawned", "leaked", "open", "killing", "gone"}]
  /\ fd \in [Session -> 0..MaxPtys]
  /\ \A s, t \in Session : Holds(s) /\ Holds(t) /\ fd[s] = fd[t] => s = t
  /\ \A s \in handles : Holds(s) /\ s \notin shut
  /\ shut \subseteq Session /\ handles \subseteq Session /\ rows \subseteq Session
  /\ shell \in [Session -> {"none", "running", "signalled", "ended"}]
  /\ conn \in [Socket -> {"unused", "open", "lost", "closed"}]
  /\ joins \in [Socket -> Session \cup {NoSession}]
  /\ rd \in [Socket -> {"none", "queued", "reading", "over"}]
  /\ wr \in [Socket -> {"none", "waiting", "queued", "over"}]
  /\ reads \in [Socket -> Session \cup {NoSession}] /\ BusyThreads <= Threads
  /\ \A i \in DOMAIN jobs : jobs[i] \in {"read", "write"} \X Socket
  /\ keyed \in 0..MaxKeys
  /\ hurried \in BOOLEAN /\ misplaced \in BOOLEAN

\* A session in the table can be attached to, or is being killed; a session that can be
\* attached to is in the table.
RowsMatch == \A s \in Session : s \in rows <=> s \in handles \/ ptyState[s] = "killing"

\* No keystroke goes to, and no output is taken from, the terminal of another session,
\* unless a session was killed while a job for it was waiting for a thread.
OwnTerminal == misplaced => hurried

\* A reader or writer that waits for the pool has one job there, and no job is there
\* without its task: none is lost or run twice when connections and sessions end.
EveryTaskHasItsJob ==
  \A k \in Socket :
    /\ rd[k] = "queued" <=> \E i \in DOMAIN jobs : jobs[i] = <<"read", k>>
    /\ wr[k] = "queued" <=> \E i \in DOMAIN jobs : jobs[i] = <<"write", k>>

\* A keystroke is written sooner or later, unless every thread waits for a terminal
\* that says nothing.
KeysArrive == \A k \in Socket : wr[k] = "queued" ~> wr[k] # "queued" \/ BusyThreads = Threads

\* When the session has been killed and the connection is gone, the handler returns.
HandlersReturn ==
  \A k \in Socket : (conn[k] = "lost" /\ joins[k] \in shut) ~> conn[k] = "closed" \/ hurried

\* Handles, rows, numbers and jobs belong together, whoever closes what when.
PtyIsConsistent == RowsMatch /\ OwnTerminal /\ EveryTaskHasItsJob

\* What waits for a terminal gets its turn.
PtyMoves == KeysArrive /\ HandlersReturn
=============================================================================
