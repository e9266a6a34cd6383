--------------------------- MODULE TerminalsProofs --------------------------
(***************************************************************************)
(* Theorems about what runs a CLI in a process of its own (module          *)
(* MCTerminals), for any length of output, any number of pasted codes, of  *)
(* PTY sessions, websockets, threads and keystrokes: a login is told as    *)
(* the CLI has shown it to have gone, and the handles, rows, descriptors   *)
(* and jobs of the terminals belong together.                              *)
(***************************************************************************)
EXTENDS MCTerminals, FiniteSetTheorems, TLAPS

-----------------------------------------------------------------------------
\* The loop that reads a screen: nothing has ended it while it runs.

LoopInv == (at # "over" => why = "none") /\ SuccessIsKept

LEMMA LoopStarts == NoLoop \/ ILInit => LoopInv
  BY DEF NoLoop, ILInit, NothingOnScreen, LoopInv, SuccessIsKept

LEMMA LoopKeeps ==
  ASSUME LoopInv, [ILNext]_ilVars PROVE LoopInv'
  <1> USE DEF LoopInv, SuccessIsKept
  <1>1. CASE LoopAlone BY <1>1 DEF LoopAlone, flags
  <1>2. CASE UrlWaitOver BY <1>2 DEF UrlWaitOver, LoopOver, Expired, flags
  <1>3. CASE ReadChunk BY <1>3 DEF ReadChunk, LoopOver
  <1>4. CASE EndOfOutput BY <1>4 DEF EndOfOutput, LoopOver, flags
  <1>5. CASE IdleTick BY <1>5 DEF IdleTick, LoopOver, Stalled
  <1>6. CASE MenuAnswered BY <1>6 DEF MenuAnswered, flags
  <1>7. CASE TextAnswered BY <1>7 DEF TextAnswered
  <1>8. CASE NobodyAnswers BY <1>8 DEF NobodyAnswers, LoopOver, flags
  <1>9. CASE TimePasses BY <1>9 DEF TimePasses, flags
  <1>10. CASE FollowUpEnter BY <1>10 DEF FollowUpEnter, flags
  <1>11. CASE AnswersQuestion BY <1>11 DEF AnswersQuestion, flags
  <1>12. CASE PastesCode BY <1>12 DEF PastesCode
  <1>13. CASE UNCHANGED ilVars BY <1>13 DEF ilVars, flags
  <1>14. (\E c \in Word : Screen(c)) \/ Spinner \/ CliExits \/ OpensBrowser \/ ReadsCode => LoopAlone
    BY DEF Screen, Spinner, CliExits, OpensBrowser, ReadsCode
  <1> QED BY <1>1, <1>2, <1>3, <1>4, <1>5, <1>6, <1>7, <1>8, <1>9, <1>10, <1>11, <1>12, <1>13,
             <1>14 DEF ILNext, Iterate

-----------------------------------------------------------------------------
\* The sessions that wait for a marker.

Where == {"idle", "reading", "enter", "waiting", "killed", "over"}
StepsTyped == step \in [Cleaner -> Where]

\* A success marker ends the reading; the verdict is given once; and the device flow
\* forgets nothing it has read.
ReadingInv ==
  /\ "success" \in heard => success /\ step["events"] # "reading"
  /\ told # "nothing" => step["events"] = "over"
  /\ device => buffer = heard

\* Only the task's own thread clears the pid; a status that another thread took was
\* left to it by a wait that ran out of time.
ReapingInv ==
  /\ ~pid => child = "reaped"
  /\ pid /\ child = "reaped" => killed
  /\ orphans \in Nat /\ (orphans > 0 => killed)
  /\ \A c \in Cleaner : step[c] = "killed" => killed

MarkerInv == StepsTyped /\ ReadingInv /\ ReapingInv /\ MarkerIsTrue

LEMMA MarkerStarts == NoMarker \/ MLInit => MarkerInv
  <1> SUFFICES ASSUME NoMarker \/ MLInit PROVE MarkerInv OBVIOUS
  <1>1. /\ StepsTyped /\ NothingRead /\ \A c \in Cleaner : step[c] # "killed"
        /\ ~pid => child = "reaped"
        /\ pid => child # "reaped"
    BY DEF NoMarker, MLInit, StepsTyped, Cleaner, Where
  <1>2. /\ heard = {} /\ told = "nothing" /\ buffer = {} /\ orphans = 0 /\ strayed = FALSE
    BY <1>1 DEF NothingRead
  <1> QED BY <1>1, <1>2 DEF MarkerInv, ReadingInv, ReapingInv, MarkerIsTrue, SuccessIsTold,
                          EndedBeforeTold, StrayOnlyAfterKill, DeviceIsShown

LEMMA MoveFacts ==
  ASSUME StepsTyped, NEW c \in Cleaner, NEW p \in Where, Moves(c, p)
  PROVE  StepsTyped' /\ step'[c] = p /\ \A d \in Cleaner \ {c} : step'[d] = step[d]
  BY DEF StepsTyped, Moves, Where

LEMMA ReadKeeps ==
  ASSUME MarkerInv, (\E t \in SUBSET Token : CliPrints(t)) \/ ReadPiece PROVE MarkerInv'
  <1>0. "events" \in Cleaner /\ "enter" \in Where BY DEF Cleaner, Where
  <1>1. StepsTyped /\ ReadingInv /\ ReapingInv /\ MarkerIsTrue BY DEF MarkerInv
  <1>2. CASE \E t \in SUBSET Token : CliPrints(t)
    <2>1. UNCHANGED <<device, buffer, prompted, success, heard, ending, dropped>>
      BY <1>2 DEF CliPrints
    <2> QED BY <1>1, <2>1 DEF ending, MarkerInv, StepsTyped, ReadingInv, ReapingInv, MarkerIsTrue,
                SuccessIsTold, EndedBeforeTold, StrayOnlyAfterKill, DeviceIsShown
  <1>3. CASE ReadPiece
    <2>1. PICK t : t = Head(unread) OBVIOUS
    <2>2. /\ step["events"] = "reading" /\ buffer' = Kept(t) /\ success' = Succeeds(t)
          /\ prompted' = (prompted \/ Needed \subseteq Kept(t)) /\ heard' = heard \cup t
          /\ IF {"success", "failure"} \cap t # {} THEN Moves("events", "enter") ELSE step' = step
          /\ UNCHANGED <<device, child, pid, orphans, killed, sdone, told, strayed>>
      BY <1>3, <2>1 DEF ReadPiece
    <2>3. /\ StepsTyped' /\ \A c \in Cleaner : step'[c] = "killed" => step[c] = "killed"
          /\ "success" \in t => step'["events"] = "enter"
      <3>1. CASE {"success", "failure"} \cap t # {} BY <1>0, <1>1, <2>2, <3>1, MoveFacts
      <3>2. CASE {"success", "failure"} \cap t = {} BY <1>1, <2>2, <3>2 DEF StepsTyped
      <3> QED BY <3>1, <3>2
    <2>4. told = "nothing" /\ "success" \notin heard BY <1>1, <2>2 DEF ReadingInv
    <2>5. ReadingInv' BY <1>1, <2>2, <2>3, <2>4 DEF ReadingInv, Kept, Succeeds
    <2>6. ReapingInv' BY <1>1, <2>2, <2>3 DEF ReapingInv
    <2>7. device => (({"url", "code"} \subseteq heard') => prompted')
      BY <1>1, <2>2 DEF ReadingInv, Kept, Needed
    <2> QED BY <1>1, <2>2, <2>3, <2>4, <2>5, <2>6, <2>7 DEF MarkerInv, MarkerIsTrue,
                SuccessIsTold, EndedBeforeTold, StrayOnlyAfterKill, DeviceIsShown
  <1> QED BY <1>2, <1>3

\* Steps of the process and of the cleanups read nothing.
StillRead == UNCHANGED <<device, buffer, prompted, success, heard>>

LEMMA MarkerKeeps ==
  ASSUME MarkerInv, [MLNext]_mlVars PROVE MarkerInv'
  <1>0. "events" \in Cleaner /\ Where = {"idle", "reading", "enter", "waiting", "killed", "over"}
    BY DEF Cleaner, Where
  <1>1. StepsTyped /\ ReadingInv /\ ReapingInv /\ MarkerIsTrue BY DEF MarkerInv
  \* It suffices that a step reads nothing and keeps these.
  <1>2. ASSUME StillRead, StepsTyped', ReapingInv',
               step'["events"] = "reading" => step["events"] = "reading",
               step["events"] = "over" => step'["events"] = "over",
               killed => killed',
               strayed' => killed',
               \/ told' = told /\ (child = "reaped" => child' = "reaped")
               \/ /\ told' \in {"complete", "failed"} => child' = "reaped"
                  /\ told' # "nothing" => step'["events"] = "over"
                  /\ success => told' = "complete" \/ (told' = "raised" /\ killed') \/ told' = told
        PROVE  MarkerInv'
    <2>1. ReadingInv' BY <1>1, <1>2 DEF StillRead, ReadingInv
    <2>2. SuccessIsTold'
      BY <1>1, <1>2 DEF StillRead, ReadingInv, MarkerIsTrue, SuccessIsTold
    <2>3. EndedBeforeTold' /\ StrayOnlyAfterKill' /\ DeviceIsShown'
      BY <1>1, <1>2 DEF StillRead, MarkerIsTrue, EndedBeforeTold, StrayOnlyAfterKill, DeviceIsShown
    <2> QED BY <1>2, <2>1, <2>2, <2>3 DEF MarkerInv, MarkerIsTrue
  <1>3. CASE CliEnds \/ OrphanReaps \/ UNCHANGED mlVars
    <2>1. StillRead /\ UNCHANGED <<pid, killed, step, told, strayed>>
      BY <1>3 DEF CliEnds, OrphanReaps, mlVars, reading, ending, StillRead
    <2>2. ReapingInv'
      BY <1>1, <1>3, <2>1 DEF CliEnds, OrphanReaps, mlVars, ending, ReapingInv
    <2>3. child = "reaped" => child' = "reaped"
      BY <1>3 DEF CliEnds, OrphanReaps, mlVars, ending
    <2> QED BY <1>1, <1>2, <2>1, <2>2, <2>3 DEF StepsTyped, MarkerIsTrue, StrayOnlyAfterKill
  <1>4. CASE OutputEnds \/ Disconnects
    <2>1. StillRead /\ UNCHANGED <<child, pid, orphans, killed, told, strayed>> /\ Moves("events", "enter")
          /\ step["events"] = "reading"
      BY <1>4 DEF OutputEnds, Disconnects, reading, StillRead
    <2>2. StepsTyped' /\ step'["events"] = "enter" /\ \A d \in Cleaner \ {"events"} : step'[d] = step[d]
      BY <1>0, <1>1, <2>1, MoveFacts
    <2>3. ReapingInv' BY <1>1, <2>1, <2>2 DEF ReapingInv
    <2> QED BY <1>1, <1>2, <2>1, <2>2, <2>3 DEF MarkerIsTrue, StrayOnlyAfterKill
  <1>5. ASSUME NEW c \in Cleaner, Begins(c) \/ Enters(c) \/ TimesOut(c) \/ Reaps(c) \/ NoChild(c)
        PROVE MarkerInv'
    <2>1. StillRead /\ step[c] \in {"idle", "enter", "waiting", "killed"}
      BY <1>5 DEF Begins, Enters, Signals, TimesOut, OutOfTime, Reaps, Status, NoChild, reading, StillRead
    <2>2. CASE Begins(c)
      <3>1. UNCHANGED <<child, pid, orphans, killed, told, strayed>> /\ Moves(c, "enter")
        BY <2>2 DEF Begins
      <3>2. StepsTyped' /\ step'[c] = "enter" /\ \A d \in Cleaner \ {c} : step'[d] = step[d]
        BY <1>0, <1>1, <3>1, MoveFacts
      <3>3. ReapingInv' BY <1>1, <3>1, <3>2 DEF ReapingInv
      <3> QED BY <1>0, <1>1, <1>2, <2>1, <3>1, <3>2, <3>3 DEF MarkerIsTrue, StrayOnlyAfterKill
    <2>3. ASSUME Cleaned(c), child' = "reaped", killed' = killed, strayed' = strayed, ReapingInv'
          PROVE MarkerInv'
      <3>1. Moves(c, "over") /\ told' = Verdict(c) BY <2>3 DEF Cleaned
      <3>2. StepsTyped' /\ step'[c] = "over" /\ \A d \in Cleaner \ {c} : step'[d] = step[d]
        BY <1>0, <1>1, <3>1, MoveFacts
      <3>3. CASE told' = told BY <1>0, <1>1, <1>2, <2>1, <2>3, <3>2, <3>3 DEF MarkerIsTrue, StrayOnlyAfterKill
      <3>4. CASE c = "events" /\ told' = IF success THEN "complete" ELSE "failed"
        BY <1>0, <1>1, <1>2, <2>1, <2>3, <3>2, <3>4 DEF MarkerIsTrue, StrayOnlyAfterKill
      <3> QED BY <3>1, <3>3, <3>4 DEF Verdict
    <2>4. CASE Enters(c)
      <3>1. UNCHANGED <<child, pid, orphans, killed>> BY <2>4 DEF Enters, Signals
      <3>2. CASE ~pid /\ Cleaned(c) /\ strayed' = strayed
        <4>1. StepsTyped' /\ step'[c] = "over" /\ \A d \in Cleaner \ {c} : step'[d] = step[d]
          BY <1>0, <1>1, <3>2, MoveFacts DEF Cleaned
        <4>2. ReapingInv' BY <1>1, <3>1, <4>1 DEF ReapingInv
        <4> QED BY <1>1, <2>3, <3>1, <3>2, <4>2 DEF ReapingInv
      <3>3. CASE pid /\ Moves(c, "waiting") /\ strayed' = (strayed \/ child = "reaped") /\ told' = told
        <4>1. StepsTyped' /\ step'[c] = "waiting" /\ \A d \in Cleaner \ {c} : step'[d] = step[d]
          BY <1>0, <1>1, <3>3, MoveFacts
        <4>2. ReapingInv' BY <1>1, <3>1, <4>1 DEF ReapingInv
        <4>3. strayed' => killed' BY <1>1, <3>1, <3>3 DEF ReapingInv, MarkerIsTrue, StrayOnlyAfterKill
        <4> QED BY <1>0, <1>2, <2>1, <3>1, <3>3, <4>1, <4>2, <4>3
      <3> QED BY <2>4, <3>2, <3>3 DEF Enters, Signals
    <2>5. CASE TimesOut(c)
      <3>1. /\ UNCHANGED <<child, pid, told, strayed>> /\ Moves(c, "killed") /\ killed' = TRUE
            /\ orphans' = orphans + 1
        BY <2>5 DEF TimesOut, OutOfTime
      <3>2. StepsTyped' /\ step'[c] = "killed" /\ \A d \in Cleaner \ {c} : step'[d] = step[d]
        BY <1>0, <1>1, <3>1, MoveFacts
      <3>3. ReapingInv' BY <1>1, <3>1, <3>2 DEF ReapingInv
      <3> QED BY <1>0, <1>2, <2>1, <3>1, <3>2, <3>3
    <2>6. CASE Reaps(c)
      <3>1. Cleaned(c) /\ child' = "reaped" /\ pid' = FALSE /\ UNCHANGED <<orphans, killed, strayed>>
        BY <2>6 DEF Reaps, Status
      <3>2. StepsTyped' /\ step'[c] = "over" /\ \A d \in Cleaner \ {c} : step'[d] = step[d]
        BY <1>0, <1>1, <3>1, MoveFacts DEF Cleaned
      <3>3. ReapingInv' BY <1>1, <3>1, <3>2 DEF ReapingInv
      <3> QED BY <2>3, <3>1, <3>3
    <2>7. CASE NoChild(c)
      <3>1. /\ child = "reaped" /\ UNCHANGED <<child, pid, orphans, killed, strayed>>
            /\ IF step[c] = "killed" THEN Raised(c) ELSE Cleaned(c)
        BY <2>7 DEF NoChild
      <3>2. StepsTyped' /\ step'[c] = "over" /\ \A d \in Cleaner \ {c} : step'[d] = step[d]
        BY <1>0, <1>1, <3>1, MoveFacts DEF Cleaned, Raised
      <3>3. ReapingInv' BY <1>1, <3>1, <3>2 DEF ReapingInv
      <3>4. CASE step[c] = "killed"
        <4>1. killed /\ (told' = told \/ (c = "events" /\ told' = "raised"))
          BY <1>1, <3>1, <3>4 DEF Raised, ReapingInv
        <4> QED BY <1>0, <1>1, <1>2, <2>1, <3>1, <3>2, <3>3, <4>1 DEF MarkerIsTrue, StrayOnlyAfterKill
      <3>5. CASE step[c] # "killed" BY <2>3, <3>1, <3>3, <3>5
      <3> QED BY <3>4, <3>5
    <2> QED BY <1>5, <2>2, <2>4, <2>5, <2>6, <2>7
  <1> QED BY <1>3, <1>4, <1>5, ReadKeeps DEF MLNext, MarkerCleans

-----------------------------------------------------------------------------
\* Descriptors: there is a lowest free number for one more terminal.

Below == {p \in Nat \X Nat : p[1] < p[2]}

LEMMA Smallest ==
  ASSUME NEW T \in SUBSET Nat, T # {}
  PROVE  \E x \in T : \A y \in T : x <= y
  <1>1. IsWellFoundedOn(Below, Nat) BY NatLessThanWellFounded DEF OpToRel, Below
  <1>2. PICK x \in T : \A y \in T : ~(<<y, x>> \in Below) BY <1>1, WFMin
  <1>3. ASSUME NEW y \in T PROVE x <= y
    <2>1. x \in Nat /\ y \in Nat OBVIOUS
    <2>2. ~(y < x) BY <1>2, <2>1 DEF Below
    <2> QED BY <2>1, <2>2
  <1> QED BY <1>3

LEMMA SomeFree ==
  ASSUME NEW s \in Session, ~Holds(s)
  PROVE  Session \ Taken # {}
  <1> SUFFICES ASSUME Session \subseteq Taken PROVE FALSE OBVIOUS
  <1> DEFINE g == [n \in Session |-> CHOOSE t \in Session : Holds(t) /\ fd[t] = n]
             T == Session \ {s}
  <1>1. \A n \in Session : \E t \in Session : Holds(t) /\ fd[t] = n BY DEF Taken
  <1>2. \A n \in Session : g[n] \in Session /\ Holds(g[n]) /\ fd[g[n]] = n BY <1>1
  <1>3. g \in [Session -> T] BY <1>2
  <1>4. IsFiniteSet(Session) /\ Cardinality(Session) \in Nat
    <2>1. 1 \in Int /\ MaxPtys \in Int BY PtyAssumption
    <2>2. IsFiniteSet(Session) BY <2>1, FS_Interval DEF Session
    <2> QED BY <2>2, FS_CardinalityType
  <1>5. IsFiniteSet(T) /\ Cardinality(T) = Cardinality(Session) - 1 BY <1>4, FS_RemoveElement
  <1>6. Cardinality(T) < Cardinality(Session) BY <1>4, <1>5
  <1> HIDE DEF g, T
  <1>7. \E m, n \in Session : m # n /\ g[m] = g[n] BY <1>3, <1>4, <1>5, <1>6, FS_PigeonHole
  <1> QED BY <1>2, <1>7

LEMMA FreeFacts ==
  ASSUME NEW s \in Session, ~Holds(s)
  PROVE  Free \in Session \ Taken
  <1>1. Session \ Taken \in SUBSET Nat /\ Session \ Taken # {} BY SomeFree DEF Session
  <1>2. \E n \in Session \ Taken : \A m \in Session \ Taken : n <= m BY <1>1, Smallest
  <1> QED BY <1>2 DEF Free

-----------------------------------------------------------------------------
\* The jobs that wait for a thread.

Job == {"read", "write"} \X Socket
Members(q) == {q[i] : i \in 1..Len(q)}
Distinct(q) == \A i, j \in 1..Len(q) : q[i] = q[j] => i = j

LEMMA EmptyJobs == <<>> \in Seq(Job) /\ Members(<<>>) = {} /\ Distinct(<<>>)
  <1>1. <<>> \in Seq(Job) /\ Len(<<>>) = 0 OBVIOUS
  <1>2. \A i \in 1..0 : FALSE OBVIOUS
  <1> QED BY <1>1, <1>2 DEF Members, Distinct

LEMMA MemberFacts ==
  ASSUME NEW S, NEW q \in Seq(S)
  PROVE  DOMAIN q = 1..Len(q) /\ Members(q) \subseteq S
         /\ \A x : x \in Members(q) <=> \E i \in DOMAIN q : q[i] = x
  BY DEF Members

LEMMA SubmitFacts ==
  ASSUME NEW S, NEW q \in Seq(S), NEW x \in S, Distinct(q), x \notin Members(q)
  PROVE  /\ Append(q, x) \in Seq(S) /\ Distinct(Append(q, x))
         /\ Members(Append(q, x)) = Members(q) \cup {x}
  <1> DEFINE r == Append(q, x)
  <1>1. /\ Len(q) \in Nat /\ Len(r) = Len(q) + 1 /\ r[Len(q) + 1] = x
        /\ \A i \in 1..Len(q) : r[i] = q[i]
        /\ r \in Seq(S)
    OBVIOUS
  <1> HIDE DEF r
  <1>2. \A i \in 1..Len(r) : i \in 1..Len(q) \/ i = Len(q) + 1 BY <1>1
  <1>3. Members(r) = Members(q) \cup {x} BY <1>1, <1>2 DEF Members
  <1>4. \A i \in 1..Len(q) : r[i] # x BY <1>1 DEF Members
  <1>5. Distinct(r) BY <1>1, <1>2, <1>4 DEF Distinct
  <1> QED BY <1>1, <1>3, <1>5 DEF r

LEMMA TakeFacts ==
  ASSUME NEW S, NEW q \in Seq(S), Distinct(q), q # <<>>
  PROVE  /\ Head(q) \in S /\ Head(q) \in Members(q)
         /\ Tail(q) \in Seq(S) /\ Distinct(Tail(q))
         /\ Members(Tail(q)) = Members(q) \ {Head(q)}
  <1> DEFINE r == Tail(q)
  <1>1. /\ Len(q) \in Nat /\ Len(q) > 0 /\ Len(r) = Len(q) - 1 /\ r \in Seq(S)
        /\ \A i \in 1..(Len(q) - 1) : r[i] = q[i + 1]
        /\ Head(q) = q[1] /\ q[1] \in S
    OBVIOUS
  <1> HIDE DEF r
  <1>2. \A i \in 1..Len(r) : i + 1 \in 1..Len(q) /\ r[i] = q[i + 1] /\ i + 1 # 1 BY <1>1
  <1>3. \A i \in 1..Len(q) : i = 1 \/ (i - 1 \in 1..Len(r) /\ (i - 1) + 1 = i) BY <1>1
  <1>4. 1 \in 1..Len(q) BY <1>1
  <1>5. Members(r) \subseteq Members(q) \ {q[1]} BY <1>2, <1>4 DEF Members, Distinct
  <1>6. Members(q) \ {q[1]} \subseteq Members(r)
    <2>1. ASSUME NEW x \in Members(q), x # q[1] PROVE x \in Members(r)
      <3>1. PICK i \in 1..Len(q) : x = q[i] BY <2>1 DEF Members
      <3>2. i - 1 \in 1..Len(r) /\ (i - 1) + 1 = i BY <1>3, <2>1, <3>1
      <3>3. r[i - 1] = x BY <1>2, <3>1, <3>2
      <3> QED BY <3>2, <3>3 DEF Members
    <2> QED BY <2>1
  <1>7. Distinct(r)
    <2>1. \A i, j \in 1..Len(r) : i + 1 = j + 1 => i = j BY <1>1
    <2> QED BY <1>2, <2>1 DEF Distinct
  <1>8. Head(q) \in Members(q) BY <1>1, <1>4 DEF Members
  <1> QED BY <1>1, <1>5, <1>6, <1>7, <1>8 DEF r

-----------------------------------------------------------------------------
\* The terminals.

Serving(k) == conn[k] \in {"open", "lost"}

TerminalTyped ==
  /\ ptyState \in [Session -> {"unused", "spawned", "leaked", "open", "killing", "gone"}]
  /\ fd \in [Session -> Nat]
SocketTyped ==
  /\ conn \in [Socket -> {"unused", "open", "lost", "closed"}]
  /\ joins \in [Socket -> Session \cup {NoSession}]
  /\ rd \in [Socket -> {"none", "queued", "reading", "over"}]
  /\ wr \in [Socket -> {"none", "waiting", "queued", "over"}]
  /\ reads \in [Socket -> Session \cup {NoSession}]

\* Open terminals have numbers of their own; handles, rows and _closed follow the state.
TerminalInv ==
  /\ TerminalTyped
  /\ \A s, t \in Session : Holds(s) /\ Holds(t) /\ fd[s] = fd[t] => s = t
  /\ handles = {s \in Session : ptyState[s] = "open"}
  /\ rows = {s \in Session : ptyState[s] \in {"open", "killing"}}
  /\ shut = {s \in Session : ptyState[s] \in {"killing", "gone"}}

\* A websocket that is served has a session that was open; only such a one has tasks
\* that wait for a thread, and a reader waits for a thread or for a terminal.
SocketInv ==
  /\ SocketTyped
  /\ \A k \in Socket :
       /\ Serving(k) => joins[k] \in handles \cup shut
       /\ rd[k] \in {"queued", "reading"} \/ wr[k] = "queued" => Serving(k)
       /\ reads[k] # NoSession => rd[k] = "reading"

\* A task has its job once; and until a session is killed under its jobs, the terminal a
\* job is meant for is open.
JobInv ==
  /\ jobs \in Seq(Job) /\ Distinct(jobs)
  /\ \A k \in Socket :
       /\ rd[k] = "queued" <=> <<"read", k>> \in Members(jobs)
       /\ wr[k] = "queued" <=> <<"write", k>> \in Members(jobs)
  /\ ~hurried => \A x \in Members(jobs) : joins[x[2]] \in handles

PtyInv == TerminalInv /\ SocketInv /\ JobInv /\ OwnTerminal

LEMMA PtyStarts == PtyInit => PtyInv
  <1> SUFFICES ASSUME PtyInit PROVE PtyInv OBVIOUS
  <1>1. TerminalInv BY DEF PtyInit, TerminalInv, TerminalTyped, Holds
  <1>2. SocketInv BY DEF PtyInit, SocketInv, SocketTyped, Serving, NoSession
  <1>3. JobInv BY EmptyJobs DEF PtyInit, JobInv
  <1>4. OwnTerminal BY DEF PtyInit, OwnTerminal
  <1> QED BY <1>1, <1>2, <1>3, <1>4 DEF PtyInv

LEMMA JobFacts ==
  ASSUME NEW x \in Job
  PROVE  /\ x[2] \in Socket /\ (x = <<"read", x[2]>> \/ x = <<"write", x[2]>>)
         /\ \A k : x = <<"read", k>> \/ x = <<"write", k>> => k = x[2]
  BY DEF Job

\* A terminal is spawned: it takes the number of no other.
LEMMA SpawnKeeps ==
  ASSUME PtyInv, NEW s \in Session, SpawnPty(s) PROVE PtyInv'
  <1>1. TerminalInv /\ SocketInv /\ JobInv /\ OwnTerminal BY DEF PtyInv
  <1>2. /\ ptyState[s] = "unused" /\ ptyState' = [ptyState EXCEPT ![s] = "spawned"]
        /\ fd' = [fd EXCEPT ![s] = Free]
        /\ UNCHANGED <<shut, handles, rows, conn, joins, rd, wr, reads, jobs, hurried, misplaced>>
    BY DEF SpawnPty, serving
  <1>3. Free \in Session \ Taken BY <1>2, FreeFacts DEF Holds
  <1>4. Session \subseteq Nat BY DEF Session
  <1>5. /\ ptyState'[s] = "spawned" /\ fd'[s] = Free
        /\ \A t \in Session \ {s} : ptyState'[t] = ptyState[t] /\ fd'[t] = fd[t]
    BY <1>1, <1>2 DEF TerminalInv, TerminalTyped
  <1>6. TerminalInv'
    <2>1. TerminalTyped' BY <1>1, <1>2, <1>3, <1>4 DEF TerminalInv, TerminalTyped
    <2>2. ASSUME NEW t \in Session, NEW u \in Session, Holds(t)', Holds(u)', fd'[t] = fd'[u] PROVE t = u
      <3>1. \A v \in Session \ {s} : Holds(v)' => Holds(v) /\ fd'[v] \in Taken
        BY <1>5 DEF Holds, Taken
      <3> QED BY <1>1, <1>3, <1>5, <2>2, <3>1 DEF TerminalInv
    <2> QED BY <1>1, <1>2, <1>5, <2>1, <2>2 DEF TerminalInv
  <1>7. SocketInv' /\ JobInv' /\ OwnTerminal'
    BY <1>1, <1>2 DEF SocketInv, SocketTyped, Serving, JobInv, OwnTerminal
  <1> QED BY <1>6, <1>7 DEF PtyInv

\* A session moves on: its handle, row and _closed with it.
LEMMA SessionKeeps ==
  ASSUME PtyInv, NEW s \in Session, RowStored(s) \/ KillPty(s) \/ RowEnded(s) PROVE PtyInv'
  <1>1. TerminalInv /\ SocketInv /\ JobInv /\ OwnTerminal BY DEF PtyInv
  <1>2. UNCHANGED <<fd, conn, joins, rd, wr, reads, jobs, misplaced>>
    BY DEF RowStored, Stores, KillPty, Ends, RowEnded, serving
  <1>3. PICK p \in {"leaked", "open", "killing", "gone"} :
          ptyState' = [ptyState EXCEPT ![s] = p] /\ (Holds(s) \/ p = "gone")
          /\ (p = "gone" => ptyState[s] = "killing")
    BY <1>1 DEF RowStored, Stores, KillPty, Ends, RowEnded, Holds, TerminalInv
  <1>4. /\ ptyState'[s] = p /\ \A t \in Session \ {s} : ptyState'[t] = ptyState[t]
    BY <1>1, <1>3 DEF TerminalInv, TerminalTyped
  <1>5. TerminalInv'
    <2>1. TerminalTyped' BY <1>1, <1>2, <1>3 DEF TerminalInv, TerminalTyped
    <2>2. \A t \in Session : Holds(t)' => Holds(t) BY <1>3, <1>4 DEF Holds
    <2>3. /\ handles' = {t \in Session : ptyState'[t] = "open"}
          /\ rows' = {t \in Session : ptyState'[t] \in {"open", "killing"}}
          /\ shut' = {t \in Session : ptyState'[t] \in {"killing", "gone"}}
      BY <1>1, <1>4 DEF TerminalInv, TerminalTyped, RowStored, Stores, KillPty, Ends, Popped, RowEnded
    <2> QED BY <1>1, <1>2, <2>1, <2>2, <2>3 DEF TerminalInv
  <1>6. handles \cup shut \subseteq (handles \cup shut)' /\ (KillPty(s) \/ handles \subseteq handles')
    BY <1>1, <1>3, <1>4, <1>5 DEF TerminalInv, RowStored, Stores, KillPty, Ends, RowEnded
  <1>7. SocketInv' BY <1>1, <1>2, <1>6 DEF SocketInv, SocketTyped, Serving
  <1>8. hurried => hurried' BY DEF RowStored, Stores, KillPty, Ends, RowEnded
  <1>9. ~hurried' => \A x \in Members(jobs) : joins[x[2]] \in handles'
    <2>1. CASE KillPty(s)
      <3>1. DOMAIN jobs = 1..Len(jobs) BY <1>1, MemberFacts DEF JobInv
      <3>2. ~hurried' => \A x \in Members(jobs) : joins[x[2]] # s
        BY <2>1, <3>1 DEF KillPty, Ends, Members
      <3> QED BY <1>1, <1>8, <2>1, <3>2 DEF JobInv, KillPty, Ends, Popped
    <2>2. CASE handles \subseteq handles' BY <1>1, <1>8, <2>2 DEF JobInv
    <2> QED BY <1>6, <2>1, <2>2
  <1>10. JobInv' BY <1>1, <1>2, <1>9 DEF JobInv
  <1>11. OwnTerminal' BY <1>1, <1>2, <1>8 DEF OwnTerminal
  <1> QED BY <1>5, <1>7, <1>10, <1>11 DEF PtyInv

\* What a step of a websocket must keep; the terminals stay as they are.
Rest == UNCHANGED <<ptyState, fd, shut, handles, rows, hurried>>
LEMMA SocketStep ==
  ASSUME PtyInv, Rest, SocketInv', JobInv', OwnTerminal'
  PROVE  PtyInv'
  BY DEF PtyInv, Rest, TerminalInv, TerminalTyped, Holds

LEMMA ConnectKeeps ==
  ASSUME PtyInv, NEW k \in Socket, Connect(k) PROVE PtyInv'
  <1>1. TerminalInv /\ SocketInv /\ JobInv /\ OwnTerminal BY DEF PtyInv
  <1>2. PICK s \in Session :
          /\ ptyState[s] \in {"open", "killing", "gone"} /\ joins' = [joins EXCEPT ![k] = s]
          /\ IF s \in handles
             THEN /\ conn' = [conn EXCEPT ![k] = "open"] /\ jobs' = Append(jobs, <<"read", k>>)
                  /\ rd' = [rd EXCEPT ![k] = "queued"] /\ wr' = [wr EXCEPT ![k] = "waiting"]
             ELSE conn' = [conn EXCEPT ![k] = "closed"] /\ UNCHANGED <<jobs, rd, wr>>
    BY DEF Connect, Submit
  <1>3. conn[k] = "unused" /\ Rest /\ UNCHANGED <<reads, misplaced>>
    BY DEF Connect, terminal, Rest
  <1>4. rd[k] \notin {"queued", "reading"} /\ wr[k] # "queued" /\ reads[k] = NoSession
    BY <1>1, <1>3 DEF SocketInv, Serving
  <1>5. /\ joins' \in [Socket -> Session \cup {NoSession}]
        /\ joins'[k] = s /\ \A j \in Socket \ {k} : joins'[j] = joins[j]
    BY <1>1, <1>2 DEF SocketInv, SocketTyped
  <1>6. s \in handles \cup shut BY <1>1, <1>2 DEF TerminalInv
  <1>7. <<"read", k>> \in Job /\ <<"read", k>> \notin Members(jobs) /\ Members(jobs) \subseteq Job
    BY <1>1, <1>4, MemberFacts DEF Job, JobInv
  <1>8. \A x \in Members(jobs) : x[2] \in Socket \ {k}
    BY <1>1, <1>4, <1>7, JobFacts DEF JobInv
  <1>9. CASE s \in handles
    <2>1. /\ conn'[k] = "open" /\ rd'[k] = "queued" /\ wr'[k] = "waiting"
          /\ \A j \in Socket \ {k} : conn'[j] = conn[j] /\ rd'[j] = rd[j] /\ wr'[j] = wr[j]
          /\ conn' \in [Socket -> {"unused", "open", "lost", "closed"}]
          /\ rd' \in [Socket -> {"none", "queued", "reading", "over"}]
          /\ wr' \in [Socket -> {"none", "waiting", "queued", "over"}]
      BY <1>1, <1>2, <1>9 DEF SocketInv, SocketTyped
    <2>2. SocketInv'
      BY <1>1, <1>3, <1>4, <1>5, <1>6, <2>1 DEF SocketInv, SocketTyped, Serving, Rest
    <2>3. /\ jobs' \in Seq(Job) /\ Distinct(jobs') /\ Members(jobs') = Members(jobs) \cup {<<"read", k>>}
      <3>1. PICK x \in Job : x = <<"read", k>> BY <1>7
      <3>2. jobs' = Append(jobs, x) /\ x \notin Members(jobs) /\ jobs \in Seq(Job) /\ Distinct(jobs)
        BY <1>1, <1>2, <1>7, <1>9, <3>1 DEF JobInv
      <3>3. /\ jobs' \in Seq(Job) /\ Distinct(jobs') /\ Members(jobs') = Members(jobs) \cup {x}
        BY <3>2, SubmitFacts
      <3> QED BY <3>1, <3>3
    <2>4. \A j \in Socket : <<"read", j>> = <<"read", k>> => j = k OBVIOUS
    <2>5. \A j \in Socket : <<"write", j>> # <<"read", k>> OBVIOUS
    <2>6. \A j \in Socket : /\ rd'[j] = "queued" <=> <<"read", j>> \in Members(jobs')
                            /\ wr'[j] = "queued" <=> <<"write", j>> \in Members(jobs')
      BY <1>1, <1>4, <2>1, <2>3, <2>4, <2>5 DEF JobInv
    <2>7. ~hurried => \A x \in Members(jobs') : joins'[x[2]] \in handles
      BY <1>1, <1>5, <1>8, <1>9, <2>3 DEF JobInv
    <2>8. JobInv' BY <1>3, <2>3, <2>6, <2>7 DEF JobInv, Rest
    <2> QED BY <1>1, <1>3, <2>2, <2>8, SocketStep DEF OwnTerminal, Rest
  <1>10. CASE s \notin handles
    <2>1. /\ conn'[k] = "closed" /\ \A j \in Socket \ {k} : conn'[j] = conn[j]
          /\ conn' \in [Socket -> {"unused", "open", "lost", "closed"}] /\ UNCHANGED <<jobs, rd, wr>>
      BY <1>1, <1>2, <1>10 DEF SocketInv, SocketTyped
    <2>2. SocketInv'
      BY <1>1, <1>3, <1>4, <1>5, <2>1 DEF SocketInv, SocketTyped, Serving, Rest
    <2>3. JobInv' BY <1>1, <1>3, <1>5, <1>8, <2>1 DEF JobInv, Rest
    <2> QED BY <1>1, <1>3, <2>2, <2>3, SocketStep DEF OwnTerminal, Rest
  <1> QED BY <1>9, <1>10

\* A job is submitted for a task of socket k that had none.
LEMMA SubmitKeeps ==
  ASSUME TerminalInv, SocketInv, JobInv, Rest, UNCHANGED joins,
         NEW x \in Job, Serving(x[2]), joins[x[2]] \notin shut,
         x \notin Members(jobs), jobs' = Append(jobs, x),
         \A j \in Socket : /\ rd'[j] = "queued" <=> rd[j] = "queued" \/ x = <<"read", j>>
                           /\ wr'[j] = "queued" <=> wr[j] = "queued" \/ x = <<"write", j>>
  PROVE  JobInv'
  <1>1. /\ jobs' \in Seq(Job) /\ Distinct(jobs') /\ Members(jobs') = Members(jobs) \cup {x}
    BY SubmitFacts DEF JobInv
  <1>2. joins[x[2]] \in handles BY JobFacts DEF SocketInv
  <1>3. ~hurried => \A y \in Members(jobs') : joins[y[2]] \in handles BY <1>1, <1>2 DEF JobInv
  <1>4. \A j \in Socket : /\ rd'[j] = "queued" <=> <<"read", j>> \in Members(jobs')
                          /\ wr'[j] = "queued" <=> <<"write", j>> \in Members(jobs')
    BY <1>1 DEF JobInv
  <1> QED BY <1>1, <1>3, <1>4 DEF JobInv, Rest

LEMMA TaskKeeps ==
  ASSUME PtyInv, NEW k \in Socket, ConnLost(k) \/ Key(k) \/ EndRead(k) \/ HandlerEnds(k) PROVE PtyInv'
  <1>1. TerminalInv /\ SocketInv /\ JobInv /\ OwnTerminal BY DEF PtyInv
  <1>2. Rest /\ UNCHANGED <<joins, misplaced>>
    BY DEF ConnLost, Key, EndRead, HandlerEnds, terminal, Rest
  <1>3. OwnTerminal' BY <1>1, <1>2 DEF OwnTerminal, Rest
  <1>4. CASE ConnLost(k)
    <2>1. /\ conn[k] = "open" /\ conn' = [conn EXCEPT ![k] = "lost"]
          /\ wr' = [wr EXCEPT ![k] = IF @ = "waiting" THEN "over" ELSE @]
          /\ UNCHANGED <<rd, reads, jobs>>
      BY <1>4 DEF ConnLost
    <2>2. \A j \in Socket : wr'[j] = "queued" <=> wr[j] = "queued"
      BY <1>1, <2>1 DEF SocketInv, SocketTyped
    <2>3. SocketInv' BY <1>1, <1>2, <2>1, <2>2 DEF SocketInv, SocketTyped, Serving, Rest
    <2>4. JobInv' BY <1>1, <1>2, <2>1, <2>2 DEF JobInv, Rest
    <2> QED BY <1>2, <1>3, <2>3, <2>4, SocketStep
  <1>5. CASE Key(k)
    <2>1. conn[k] = "open" /\ wr[k] = "waiting" /\ UNCHANGED <<conn, rd, reads>>
      BY <1>5 DEF Key
    <2>2. CASE joins[k] \in shut
      <3>1. wr' = [wr EXCEPT ![k] = "over"] /\ jobs' = jobs BY <1>5, <2>2 DEF Key, Over
      <3>2. \A j \in Socket : wr'[j] = "queued" <=> wr[j] = "queued"
        BY <1>1, <2>1, <3>1 DEF SocketInv, SocketTyped
      <3>3. SocketInv' BY <1>1, <1>2, <2>1, <3>1, <3>2 DEF SocketInv, SocketTyped, Serving, Rest
      <3>4. JobInv' BY <1>1, <1>2, <2>1, <3>1, <3>2 DEF JobInv, Rest
      <3> QED BY <1>2, <1>3, <3>3, <3>4, SocketStep
    <2>3. CASE joins[k] \notin shut
      <3>1. wr' = [wr EXCEPT ![k] = "queued"] /\ jobs' = Append(jobs, <<"write", k>>)
        BY <1>5, <2>3 DEF Key, Submit
      <3>2. \A j \in Socket : wr'[j] = "queued" <=> wr[j] = "queued" \/ j = k
        BY <1>1, <3>1 DEF SocketInv, SocketTyped
      <3>3. SocketInv' BY <1>1, <1>2, <2>1, <3>1, <3>2 DEF SocketInv, SocketTyped, Serving, Rest
      <3>4. PICK x \in Job : x = <<"write", k>> BY DEF Job
      <3>5. x[2] = k /\ \A j \in Socket : x # <<"read", j>> /\ (x = <<"write", j>> <=> j = k)
        BY <3>4
      <3>6. Serving(k) /\ x \notin Members(jobs) BY <1>1, <2>1, <3>4 DEF JobInv, Serving
      <3>7. JobInv' BY <1>1, <1>2, <2>1, <2>3, <3>1, <3>2, <3>4, <3>5, <3>6, SubmitKeeps
      <3> QED BY <1>2, <1>3, <3>3, <3>7, SocketStep
    <2> QED BY <2>2, <2>3
  <1>6. CASE EndRead(k)
    <2>1. /\ reads[k] # NoSession /\ reads' = [reads EXCEPT ![k] = NoSession]
          /\ rd' = [rd EXCEPT ![k] = "over"] /\ UNCHANGED <<conn, wr, jobs>>
      BY <1>6 DEF EndRead, Over
    <2>2. /\ rd[k] # "queued" /\ rd'[k] = "over" /\ reads'[k] = NoSession
          /\ \A j \in Socket \ {k} : rd'[j] = rd[j] /\ reads'[j] = reads[j]
      BY <1>1, <2>1 DEF SocketInv, SocketTyped
    <2>3. SocketInv' BY <1>1, <1>2, <2>1, <2>2 DEF SocketInv, SocketTyped, Serving, Rest
    <2>4. JobInv' BY <1>1, <1>2, <2>1, <2>2 DEF JobInv, Rest
    <2> QED BY <1>2, <1>3, <2>3, <2>4, SocketStep
  <1>7. CASE HandlerEnds(k)
    <2>1. /\ rd[k] = "over" /\ wr[k] = "over" /\ conn' = [conn EXCEPT ![k] = "closed"]
          /\ UNCHANGED <<rd, wr, reads, jobs>>
      BY <1>7 DEF HandlerEnds, BothOver
    <2>2. SocketInv' BY <1>1, <1>2, <2>1 DEF SocketInv, SocketTyped, Serving, Rest
    <2>3. JobInv' BY <1>1, <1>2, <2>1 DEF JobInv, Rest
    <2> QED BY <1>2, <1>3, <2>2, <2>3, SocketStep
  <1> QED BY <1>4, <1>5, <1>6, <1>7

LEMMA PrintKeeps ==
  ASSUME PtyInv, NEW t \in Session, PrintsText(t) \/ ShellEnds(t) PROVE PtyInv'
  <1>1. TerminalInv /\ SocketInv /\ JobInv /\ OwnTerminal BY DEF PtyInv
  <1>2. Rest /\ UNCHANGED <<conn, joins, wr, misplaced>>
    BY DEF PrintsText, ShellEnds, terminal, serving, Rest
  <1>3. OwnTerminal' BY <1>1, <1>2 DEF OwnTerminal, Rest
  <1>4. CASE ShellEnds(t)
    <2>1. UNCHANGED serving BY <1>4 DEF ShellEnds
    <2>2. SocketInv' /\ JobInv'
      BY <1>1, <1>2, <2>1 DEF serving, SocketInv, SocketTyped, Serving, JobInv, Rest
    <2> QED BY <1>2, <1>3, <2>2, SocketStep
  <1>5. CASE PrintsText(t)
    <2>1. PICK k \in Socket : reads[k] = t /\ Returns(k) BY <1>5 DEF PrintsText
    <2>2. rd[k] = "reading" /\ reads' = [reads EXCEPT ![k] = NoSession]
      BY <1>1, <2>1 DEF SocketInv, Returns, Session, NoSession
    <2>3. /\ reads' \in [Socket -> Session \cup {NoSession}]
          /\ reads'[k] = NoSession /\ \A j \in Socket \ {k} : reads'[j] = reads[j]
      BY <1>1, <2>2 DEF SocketInv, SocketTyped
    <2>4. CASE conn[k] = "open" /\ joins[k] \notin shut
      <3>1. rd' = [rd EXCEPT ![k] = "queued"] /\ jobs' = Append(jobs, <<"read", k>>)
        BY <2>1, <2>4 DEF Returns, Submit
      <3>2. /\ rd' \in [Socket -> {"none", "queued", "reading", "over"}] /\ rd'[k] = "queued"
            /\ \A j \in Socket \ {k} : rd'[j] = rd[j]
        BY <1>1, <3>1 DEF SocketInv, SocketTyped
      <3>3. SocketInv' BY <1>1, <1>2, <2>3, <2>4, <3>2 DEF SocketInv, SocketTyped, Serving, Rest
      <3>4. PICK x \in Job : x = <<"read", k>> BY DEF Job
      <3>5. x[2] = k /\ \A j \in Socket : x # <<"write", j>> /\ (x = <<"read", j>> <=> j = k)
        BY <3>4
      <3>6. Serving(k) /\ x \notin Members(jobs) BY <1>1, <2>2, <2>4, <3>4 DEF JobInv, Serving
      <3>7. JobInv' BY <1>1, <1>2, <2>4, <3>1, <3>2, <3>4, <3>5, <3>6, SubmitKeeps
      <3> QED BY <1>2, <1>3, <3>3, <3>7, SocketStep
    <2>5. CASE ~(conn[k] = "open" /\ joins[k] \notin shut)
      <3>1. rd' = [rd EXCEPT ![k] = "over"] /\ jobs' = jobs BY <2>1, <2>5 DEF Returns, Over
      <3>2. /\ rd' \in [Socket -> {"none", "queued", "reading", "over"}] /\ rd'[k] = "over"
            /\ \A j \in Socket \ {k} : rd'[j] = rd[j]
        BY <1>1, <3>1 DEF SocketInv, SocketTyped
      <3>3. SocketInv' BY <1>1, <1>2, <2>3, <3>2 DEF SocketInv, SocketTyped, Serving, Rest
      <3>4. JobInv' BY <1>1, <1>2, <2>2, <3>1, <3>2 DEF JobInv, Rest
      <3> QED BY <1>2, <1>3, <3>3, <3>4, SocketStep
    <2> QED BY <2>4, <2>5
  <1> QED BY <1>4, <1>5

\* The job at the head names the number its terminal had: whose that is now.
LEMMA MeantFacts ==
  ASSUME TerminalInv, JobInv, NEW x \in Members(jobs), x \in Job, NEW t \in Meant(x[2]), t # joins[x[2]]
  PROVE  hurried
  <1>1. Holds(t) /\ t \in Session /\ fd[t] = fd[joins[x[2]]] BY DEF Meant
  <1>2. SUFFICES ASSUME ~hurried PROVE FALSE OBVIOUS
  <1>3. joins[x[2]] \in Session /\ Holds(joins[x[2]]) BY <1>2 DEF JobInv, TerminalInv, Holds
  <1> QED BY <1>1, <1>3 DEF TerminalInv

LEMMA JobKeeps ==
  ASSUME PtyInv, JobRuns PROVE PtyInv'
  <1>1. TerminalInv /\ SocketInv /\ JobInv /\ OwnTerminal BY DEF PtyInv
  <1>2. /\ Rest /\ UNCHANGED <<conn, joins>> /\ jobs # <<>> /\ jobs' = Tail(jobs)
    BY DEF JobRuns, terminal, Rest
  <1>3. PICK x : x = Head(jobs) OBVIOUS
  <1>4. /\ x \in Job /\ x \in Members(jobs) /\ jobs' \in Seq(Job) /\ Distinct(jobs')
        /\ Members(jobs') = Members(jobs) \ {x}
    BY <1>1, <1>2, <1>3, TakeFacts DEF JobInv
  <1>5. PICK k \in Socket : k = x[2] BY <1>4, JobFacts
  <1>6. x = <<"read", k>> \/ x = <<"write", k>> BY <1>4, <1>5, JobFacts
  <1>7. ~hurried => \A y \in Members(jobs') : joins[y[2]] \in handles BY <1>1, <1>4 DEF JobInv
  <1>8. ASSUME misplaced' = misplaced \/ \E t \in Meant(k) : misplaced' = (misplaced \/ t # joins[k])
        PROVE OwnTerminal'
    <2>1. \A t \in Meant(k) : t # joins[k] => hurried BY <1>1, <1>4, <1>5, MeantFacts
    <2> QED BY <1>1, <1>2, <1>8, <2>1 DEF OwnTerminal, Rest
  <1>9. CASE x = <<"read", k>>
    <2>1. ReadBegins(k) BY <1>3, <1>9 DEF JobRuns
    <2>2. rd[k] = "queued" /\ Serving(k) BY <1>1, <1>4, <1>9 DEF JobInv, SocketInv
    <2>3. /\ wr' = wr /\ OwnTerminal'
          /\ \/ rd' = [rd EXCEPT ![k] = "over"] /\ reads' = reads
             \/ \E t \in Session : rd' = [rd EXCEPT ![k] = "reading"] /\ reads' = [reads EXCEPT ![k] = t]
      BY <1>8, <2>1 DEF ReadBegins, Over, Meant
    <2>4. /\ SocketTyped' /\ rd'[k] \in {"reading", "over"} /\ \A j \in Socket \ {k} : rd'[j] = rd[j]
          /\ \A j \in Socket : reads'[j] # NoSession => rd'[j] = "reading"
      BY <1>1, <1>2, <2>2, <2>3 DEF SocketInv, SocketTyped
    <2>5. SocketInv' BY <1>1, <1>2, <2>2, <2>3, <2>4 DEF SocketInv, Serving, Rest
    <2>6. /\ \A j \in Socket : <<"read", j>> = x <=> j = k
          /\ \A j \in Socket : <<"write", j>> # x
      BY <1>9
    <2>7. JobInv' BY <1>1, <1>2, <1>4, <1>7, <2>3, <2>4, <2>6 DEF JobInv, Rest
    <2> QED BY <1>2, <2>3, <2>5, <2>7, SocketStep
  <1>10. CASE x = <<"write", k>>
    <2>1. Written(k) BY <1>3, <1>10 DEF JobRuns
    <2>2. wr[k] = "queued" /\ Serving(k) BY <1>1, <1>4, <1>10 DEF JobInv, SocketInv
    <2>3. /\ rd' = rd /\ reads' = reads /\ OwnTerminal'
          /\ \E p \in {"waiting", "over"} : wr' = [wr EXCEPT ![k] = p]
      BY <1>8, <2>1 DEF Written, Over
    <2>4. /\ SocketTyped' /\ wr'[k] # "queued" /\ \A j \in Socket \ {k} : wr'[j] = wr[j]
      BY <1>1, <1>2, <2>3 DEF SocketInv, SocketTyped
    <2>5. SocketInv' BY <1>1, <1>2, <2>2, <2>3, <2>4 DEF SocketInv, Serving, Rest
    <2>6. /\ \A j \in Socket : <<"write", j>> = x <=> j = k
          /\ \A j \in Socket : <<"read", j>> # x
      BY <1>10
    <2>7. JobInv' BY <1>1, <1>2, <1>4, <1>7, <2>3, <2>4, <2>6 DEF JobInv, Rest
    <2> QED BY <1>2, <2>3, <2>5, <2>7, SocketStep
  <1> QED BY <1>6, <1>9, <1>10

LEMMA PtyKeeps ==
  ASSUME PtyInv, [PtyNext]_ptyVars PROVE PtyInv'
  <1>1. CASE UNCHANGED ptyVars
    BY <1>1 DEF ptyVars, terminal, serving, PtyInv, TerminalInv, TerminalTyped, Holds, SocketInv,
                SocketTyped, Serving, JobInv, OwnTerminal
  <1> QED BY <1>1, SpawnKeeps, SessionKeeps, PrintKeeps, ConnectKeeps, TaskKeeps, JobKeeps DEF PtyNext

-----------------------------------------------------------------------------
\* The theorems.

IInv == LoopInv /\ MarkerInv /\ PtyInv

LEMMA Always == Terminals => []IInv
  <1>1. TerminalsInit => IInv
    BY LoopStarts, MarkerStarts, PtyStarts DEF TerminalsInit, IInv
  <1>2. ASSUME IInv, [TerminalsNext]_<<part, ilVars, mlVars, ptyVars>> PROVE IInv'
    <2>1. [ILNext]_ilVars /\ [MLNext]_mlVars /\ [PtyNext]_ptyVars BY <1>2 DEF TerminalsNext
    <2> QED BY <1>2, <2>1, LoopKeeps, MarkerKeeps, PtyKeeps DEF IInv
  <1> QED BY <1>1, <1>2, PTL DEF Terminals

\* A login on a terminal is told as the CLI has shown it to have gone: no watchdog, no other
\* cleanup and no later chunk takes a success back, and the end is told of a process that
\* has been waited for.
THEOREM TellsWhatWent == Terminals => []ToldAsItWent
  <1>1. IInv => ToldAsItWent BY DEF IInv, LoopInv, MarkerInv, ToldAsItWent
  <1> QED BY <1>1, Always, PTL

\* The handles of terminals, their rows, numbers and jobs belong together, in whatever order
\* sessions are killed, connections break and threads become free.
THEOREM StaysConsistent == Terminals => []PtyIsConsistent
  <1>1. ASSUME IInv PROVE PtyIsConsistent
    <2>1. TerminalInv /\ JobInv /\ OwnTerminal BY <1>1 DEF IInv, PtyInv
    <2>2. RowsMatch BY <2>1 DEF TerminalInv, RowsMatch
    <2>3. EveryTaskHasItsJob
      <3>1. \A x : x \in Members(jobs) <=> \E i \in DOMAIN jobs : jobs[i] = x
        BY <2>1, MemberFacts DEF JobInv
      <3> QED BY <2>1, <3>1 DEF JobInv, EveryTaskHasItsJob
    <2> QED BY <2>1, <2>2, <2>3 DEF PtyIsConsistent
  <1> QED BY <1>1, Always, PTL

-----------------------------------------------------------------------------
\* The types of the loop that reads a screen: every question is one of a menu or a prompt
\* that was printed, and is answered once.

Question == {"menu", "prompt"}
Asks(q) == {i \in 1..Len(q) : q[i] \in Question}
Counts(c) == IF c \in Question THEN 1 ELSE 0

LEMMA AsksCount ==
  ASSUME NEW q \in Seq(Chunk)
  PROVE  IsFiniteSet(Asks(q)) /\ Cardinality(Asks(q)) \in Nat
  <1>1. Len(q) \in Int /\ 1 \in Int
    OBVIOUS
  <1>2. IsFiniteSet(1..Len(q)) /\ Asks(q) \in SUBSET (1..Len(q))
    BY <1>1, FS_Interval DEF Asks
  <1>3. IsFiniteSet(Asks(q))
    BY <1>2, FS_Subset
  <1> QED BY <1>3, FS_CardinalityType

LEMMA AsksNothing == Cardinality(Asks(<<>>)) = 0
  <1>1. Asks(<<>>) = {}
    BY DEF Asks
  <1> QED BY <1>1, FS_EmptySet

LEMMA AsksAppend ==
  ASSUME NEW q \in Seq(Chunk), NEW c \in Chunk
  PROVE  /\ Append(q, c) \in Seq(Chunk)
         /\ Cardinality(Asks(Append(q, c))) = Cardinality(Asks(q)) + Counts(c)
  <1> DEFINE r == Append(q, c)
             n == Len(q) + 1
  <1>1. /\ r \in Seq(Chunk) /\ Len(q) \in Nat /\ Len(r) = Len(q) + 1 /\ r[Len(q) + 1] = c
        /\ \A i \in 1..Len(q) : r[i] = q[i]
    OBVIOUS
  <1>2. n \notin 1..Len(q) /\ \A i : i \in 1..Len(r) <=> i \in 1..Len(q) \/ i = n
    BY <1>1
  <1>3. r[n] = c /\ \A i \in 1..Len(q) : r[i] = q[i]
    BY <1>1
  <1>4. r \in Seq(Chunk)
    BY <1>1
  <1> HIDE DEF r, n
  <1>5. Asks(r) = IF c \in Question THEN Asks(q) \cup {n} ELSE Asks(q)
    BY <1>2, <1>3 DEF Asks
  <1>6. n \notin Asks(q)
    BY <1>2 DEF Asks
  <1>7. IsFiniteSet(Asks(q)) /\ Cardinality(Asks(q)) \in Nat
    BY AsksCount
  <1>8. Cardinality(Asks(r)) = Cardinality(Asks(q)) + Counts(c)
    <2>1. Cardinality(Asks(q) \cup {n}) = Cardinality(Asks(q)) + 1
      BY <1>6, <1>7, FS_AddElement
    <2>2. CASE c \in Question
      BY <1>5, <2>1, <2>2 DEF Counts
    <2>3. CASE c \notin Question
      BY <1>5, <1>7, <2>3 DEF Counts
    <2> QED BY <2>2, <2>3
  <1> QED BY <1>4, <1>8 DEF r

LEMMA AsksTail ==
  ASSUME NEW q \in Seq(Chunk), q # <<>>
  PROVE  /\ Tail(q) \in Seq(Chunk) /\ Head(q) \in Chunk
         /\ Cardinality(Asks(q)) = Cardinality(Asks(Tail(q))) + Counts(Head(q))
  <1> DEFINE r == Tail(q)
             S == Asks(q) \ {1}
  <1>1. /\ r \in Seq(Chunk) /\ Len(q) \in Nat /\ Len(q) > 0 /\ Len(r) = Len(q) - 1
        /\ \A i \in 1..(Len(q) - 1) : r[i] = q[i + 1]
        /\ Head(q) = q[1] /\ q[1] \in Chunk
    OBVIOUS
  <1> HIDE DEF r
  <1>2. IsFiniteSet(Asks(q)) /\ IsFiniteSet(Asks(r)) /\ Cardinality(Asks(q)) \in Nat /\ Cardinality(Asks(r)) \in Nat
    BY <1>1, AsksCount
  <1>3. \A i : i \in S <=> i \in 1..Len(q) /\ i # 1 /\ q[i] \in Question
    BY DEF Asks
  <1>4. \A i : i \in Asks(r) <=> i \in 1..(Len(q) - 1) /\ q[i + 1] \in Question
    BY <1>1 DEF Asks
  <1>5. 1 \in Asks(q) <=> Head(q) \in Question
    BY <1>1 DEF Asks
  <1>6. IsFiniteSet(S) /\ Cardinality(S) = IF 1 \in Asks(q) THEN Cardinality(Asks(q)) - 1 ELSE Cardinality(Asks(q))
    BY <1>2, FS_RemoveElement
  <1>7. ExistsBijection(S, Asks(r))
    <2> HIDE DEF S
    <2> DEFINE f == [i \in S |-> i - 1]
    <2>1. f \in [S -> Asks(r)]
      <3>1. \A i \in S : i - 1 \in 1..(Len(q) - 1) /\ (i - 1) + 1 = i
        BY <1>1, <1>3
      <3>2. \A i \in S : i - 1 \in Asks(r)
        BY <1>3, <1>4, <3>1
      <3> QED BY <3>2
    <2>2. \A i, j \in S : f[i] = f[j] => i = j
      <3>1. S \subseteq Int
        BY <1>1, <1>3
      <3> QED BY <3>1
    <2>3. \A k \in Asks(r) : \E i \in S : f[i] = k
      <3>1. \A k \in Asks(r) : k + 1 \in 1..Len(q) /\ k + 1 # 1 /\ (k + 1) - 1 = k
        BY <1>1, <1>4
      <3>2. \A k \in Asks(r) : k + 1 \in S
        BY <1>3, <1>4, <3>1
      <3> QED BY <3>1, <3>2
    <2> HIDE DEF f
    <2>4. f \in Bijection(S, Asks(r))
      <3>1. IsInjective(f)
        BY <2>1, <2>2 DEF IsInjective
      <3>2. f \in Injection(S, Asks(r))
        BY <2>1, <3>1 DEF Injection
      <3>3. f \in Surjection(S, Asks(r))
        BY <2>1, <2>3 DEF Surjection
      <3> QED BY <3>2, <3>3 DEF Bijection
    <2> QED BY <2>4 DEF ExistsBijection
  <1>8. Cardinality(Asks(r)) = Cardinality(S)
    BY <1>6, <1>7, FS_Bijection
  <1>9. Cardinality(Asks(q)) = Cardinality(Asks(r)) + Counts(Head(q))
    BY <1>2, <1>5, <1>6, <1>8 DEF Counts
  <1> QED BY <1>1, <1>9 DEF r

Pends == at = "read" /\ "menu" \in recent
Asked == IF open THEN 1 ELSE 0
Waiting == IF Pends THEN 1 ELSE 0
Unanswered == replies + Asked + Waiting + Cardinality(Asks(printed))

\* Codes are typed by pastes and by answers.
Budget == Unanswered <= words /\ Unanswered + typed <= words + pastes

ScreenTyped ==
  /\ wants \in {"nothing", "menu", "code"} /\ typed \in Nat /\ words \in 0..MaxWords
  /\ printed \in Seq(Chunk)
  /\ at \in {"read", "menu", "text", "over"} /\ recent \subseteq {"menu", "line"}
  /\ idle \in 0..LongIdle /\ replies \in Nat /\ pastes \in 0..MaxPastes
  /\ why \in {"none", "watchdog", "error", "eof", "timeout", "complete"}
ScreenFlags ==
  /\ captured \in BOOLEAN /\ commandSent \in BOOLEAN /\ urlSeen \in BOOLEAN
  /\ succeeded \in BOOLEAN /\ eager \in BOOLEAN /\ late \in BOOLEAN /\ open \in BOOLEAN
ScreenInv == ScreenTyped /\ ScreenFlags /\ Budget

LEMMA OneFacts ==
  /\ Asked \in {0, 1} /\ (~open => Asked = 0) /\ Waiting \in {0, 1} /\ (~Pends => Waiting = 0)
  /\ Asked' \in {0, 1} /\ (~open' => Asked' = 0) /\ Waiting' \in {0, 1} /\ (~Pends' => Waiting' = 0)
  /\ \A c : Counts(c) \in {0, 1} /\ (c \notin Question => Counts(c) = 0)
  BY DEF Asked, Waiting, Counts

LEMMA ScreenStarts == NoLoop \/ ILInit => ScreenInv
  <1> SUFFICES ASSUME NoLoop \/ ILInit PROVE ScreenInv
    OBVIOUS
  <1>1. NothingOnScreen /\ at \in {"over", "read"} /\ commandSent \in BOOLEAN
    BY DEF NoLoop, ILInit
  <1>2. ScreenTyped
    BY <1>1, WordAssumption DEF NothingOnScreen, ScreenTyped, LongIdle
  <1>3. ScreenFlags
    BY <1>1 DEF NothingOnScreen, ScreenFlags
  <1>4. replies = 0 /\ Asked = 0 /\ Waiting = 0 /\ Cardinality(Asks(printed)) = 0 /\ typed = 0
        /\ words = 0 /\ pastes = 0
    BY <1>1, AsksNothing, OneFacts DEF NothingOnScreen, Pends
  <1>5. Budget
    BY <1>4 DEF Budget, Unanswered
  <1> QED BY <1>2, <1>3, <1>5 DEF ScreenInv

\* What a step may do to the flags.
LEMMA FlagsKept == ASSUME ScreenFlags, ScreenTyped, [ILNext]_ilVars PROVE ScreenFlags'
  <1> USE DEF ScreenFlags
  <1>1. CASE UNCHANGED <<flags, late, open, captured>>
    BY <1>1 DEF flags
  <1>2. CASE OpensBrowser
    BY <1>2 DEF OpensBrowser, LoopAlone, flags, clocks, user
  <1>3. CASE ReadChunk
    <2>1. PICK c : c = Head(printed)
      OBVIOUS
    <2>2. /\ UNCHANGED <<captured, commandSent, late>>
          /\ urlSeen' = (urlSeen \/ captured \/ c = "url") /\ succeeded' = (succeeded \/ c = "success")
          /\ eager' = FALSE \/ eager' = eager
          /\ open' = TRUE \/ open' = open
      BY <1>3, <2>1 DEF ReadChunk, Seen, cliVars
    <2> QED BY <2>2
  <1>4. CASE IdleTick
    <2>1. /\ UNCHANGED <<captured, succeeded, eager>> /\ urlSeen' = (urlSeen \/ captured)
          /\ open' = TRUE \/ open' = open
      BY <1>4 DEF IdleTick
    <2>2. \E b : commandSent' = (commandSent \/ b) /\ late' = (late /\ ~b)
      BY <1>4 DEF IdleTick
    <2>3. commandSent' \in BOOLEAN /\ late' \in BOOLEAN
      BY <2>2
    <2> QED BY <2>1, <2>3
  <1>5. CASE MenuAnswered
    BY <1>5 DEF MenuAnswered, Refreshed, flags
  <1>6. CASE TextAnswered
    BY <1>6 DEF TextAnswered, Refreshed
  <1>7. CASE AnswersQuestion
    BY <1>7 DEF AnswersQuestion, cliVars, flags, clocks
  <1>8. CASE PastesCode
    BY <1>8 DEF PastesCode, clocks
  <1>9. CASE TimePasses
    BY <1>9 DEF TimePasses, cliVars, flags, user
  <1>10. (\E c \in Word : Screen(c)) \/ Spinner \/ CliExits \/ ReadsCode \/ UrlWaitOver \/ EndOfOutput
         \/ NobodyAnswers \/ FollowUpEnter \/ UNCHANGED ilVars
         => UNCHANGED <<flags, late, open, captured>>
    BY DEF Screen, Spinner, CliExits, ReadsCode, UrlWaitOver, EndOfOutput, NobodyAnswers, FollowUpEnter,
           ilVars, LoopAlone, flags, clocks, user, cliVars
  <1> QED BY <1>1, <1>2, <1>3, <1>4, <1>5, <1>6, <1>7, <1>8, <1>9, <1>10 DEF ILNext, Iterate

LEMMA BudgetFacts ==
  ASSUME ScreenInv
  PROVE  /\ replies \in Nat /\ typed \in Nat /\ words \in Nat /\ pastes \in Nat /\ MaxWords \in Nat
         /\ MaxPastes \in Nat /\ words <= MaxWords /\ pastes <= MaxPastes
         /\ Cardinality(Asks(printed)) \in Nat
         /\ Asked \in {0, 1} /\ Waiting \in {0, 1}
         /\ Unanswered = replies + Asked + Waiting + Cardinality(Asks(printed))
         /\ Unanswered <= words /\ Unanswered + typed <= words + pastes
  <1>1. printed \in Seq(Chunk) /\ replies \in Nat /\ typed \in Nat /\ words \in 0..MaxWords /\ pastes \in 0..MaxPastes
    BY DEF ScreenInv, ScreenTyped
  <1>2. Cardinality(Asks(printed)) \in Nat
    BY <1>1, AsksCount
  <1> QED BY <1>1, <1>2, OneFacts, WordAssumption DEF ScreenInv, Budget, Unanswered

\* It suffices that no question and no code comes from nowhere.
LEMMA BudgetStep ==
  ASSUME ScreenInv, ScreenTyped', Unanswered' \in Int,
         Unanswered' <= Unanswered + (words' - words),
         Unanswered' + typed' <= Unanswered + typed + (words' - words) + (pastes' - pastes)
  PROVE  ScreenTyped' /\ Budget'
  <1>1. /\ typed \in Nat /\ words \in Nat /\ pastes \in Nat /\ Unanswered \in Nat
        /\ Unanswered <= words /\ Unanswered + typed <= words + pastes
    BY BudgetFacts
  <1>2. words' \in Nat /\ pastes' \in Nat /\ typed' \in Nat
    BY WordAssumption DEF ScreenTyped
  <1>3. Unanswered' <= words' /\ Unanswered' + typed' <= words' + pastes'
    <2>1. PICK v \in Int, y \in Int, q \in Int, s \in Int :
            v = Unanswered' /\ y = words' /\ q = pastes' /\ s = typed'
      BY <1>2
    <2>2. v <= Unanswered + (y - words) /\ v + s <= Unanswered + typed + (y - words) + (q - pastes)
      BY <2>1
    <2>3. v <= y /\ v + s <= y + q
      BY <1>1, <2>2
    <2> QED BY <2>1, <2>3
  <1> QED BY <1>3 DEF Budget

\* What the CLI prints.
LEMMA PrintTyped ==
  ASSUME ScreenInv, LoopAlone,
         (\E c \in Word : Screen(c)) \/ Spinner \/ CliExits \/ OpensBrowser \/ ReadsCode
  PROVE  ScreenTyped' /\ Budget'
  <1>1. ScreenTyped
    BY DEF ScreenInv
  <1>2. UNCHANGED <<at, recent, idle, replies, pastes, why, open, Pends>>
    BY DEF LoopAlone, clocks, user, Pends
  <1>3. Asked' = Asked /\ Waiting' = Waiting
    BY <1>2 DEF Asked, Waiting
  <1>4. ASSUME NEW c \in Word, Screen(c) PROVE ScreenTyped' /\ Budget'
    <2>1. /\ printed' = Append(printed, c) /\ words < MaxWords /\ words' = words + 1
          /\ typed' \in {typed, typed - 1} /\ (typed' = typed - 1 => typed > 0)
          /\ wants' \in {"nothing", "menu", "code"}
      <3>1. printed' = Append(printed, c) /\ words < MaxWords /\ words' = words + 1 /\ wants = "nothing"
        BY <1>4 DEF Screen, Prints
      <3>2. typed' = IF c = "prompt" /\ typed > 0 THEN typed - 1 ELSE typed
        BY <1>4 DEF Screen
      <3>3. wants' = CASE c = "menu" -> "menu" [] c = "prompt" /\ typed = 0 -> "code" [] OTHER -> wants
        BY <1>4 DEF Screen
      <3>4. wants' \in {"nothing", "menu", "code"}
        BY <3>1, <3>3, Zenon
      <3> QED BY <3>1, <3>2, <3>4
    <2>2. c \in Chunk /\ printed \in Seq(Chunk)
      BY <1>1 DEF Chunk, ScreenTyped
    <2>3. /\ printed' \in Seq(Chunk)
          /\ Cardinality(Asks(printed))' = Cardinality(Asks(printed)) + Counts(c)
      BY <2>1, <2>2, AsksAppend
    <2>4. ScreenTyped'
      <3>1. typed' \in Nat /\ words' \in 0..MaxWords
        BY <1>1, <2>1, WordAssumption DEF ScreenTyped
      <3> QED BY <1>1, <1>2, <2>1, <2>3, <3>1 DEF ScreenTyped
    <2>5. Counts(c) \in {0, 1}
      BY OneFacts
    <2>6. Unanswered' = replies + Asked + Waiting + Cardinality(Asks(printed))'
      BY <1>2, <1>3 DEF Unanswered
    <2>7. Unanswered' <= Unanswered + 1 /\ Unanswered' \in Int
      <3>1. PICK n \in Nat, r \in Nat : n = Cardinality(Asks(printed)) /\ r = replies
        BY BudgetFacts
      <3>2. PICK a \in Int, w \in Int, k \in Int : a = Asked /\ w = Waiting /\ k = Counts(c)
        BY <2>5, BudgetFacts
      <3>3. k <= 1
        BY <2>5, <3>2
      <3>4. Cardinality(Asks(printed))' = n + k
        BY <2>3, <3>1, <3>2
      <3>5. Unanswered' = r + a + w + (n + k)
        BY <2>6, <3>1, <3>2, <3>4
      <3>6. Unanswered = r + a + w + n
        BY <3>1, <3>2, BudgetFacts
      <3> QED BY <3>3, <3>5, <3>6
    <2>8. /\ Unanswered' <= Unanswered + (words' - words)
          /\ Unanswered' + typed' <= Unanswered + typed + (words' - words) + (pastes' - pastes)
      <3>1. PICK u \in Int, t \in Int : u = Unanswered' /\ t = typed'
        BY <2>4, <2>7 DEF ScreenTyped
      <3>2. u <= Unanswered + 1 /\ t <= typed
        BY <2>1, <2>7, <3>1, BudgetFacts
      <3>3. u + t <= Unanswered + typed + 1
        BY <3>2, BudgetFacts
      <3>4. words' - words = 1 /\ pastes' - pastes = 0
        BY <1>2, <2>1, BudgetFacts
      <3> QED BY <3>1, <3>2, <3>3, <3>4, BudgetFacts
    <2> QED BY <2>4, <2>7, <2>8, BudgetStep
  <1>5. CASE Spinner \/ CliExits
    <2>1. PICK c \in {"spinner", "eof"} : printed' = Append(printed, c)
      BY <1>5 DEF Spinner, CliExits, Prints
    <2>2. UNCHANGED <<wants, typed, words>>
      BY <1>5 DEF Spinner, CliExits, cliVars
    <2>3. c \in Chunk /\ printed \in Seq(Chunk) /\ c \notin Question
      BY <1>1, <2>1 DEF Chunk, ScreenTyped, Question
    <2>4. /\ printed' \in Seq(Chunk)
          /\ Cardinality(Asks(printed))' = Cardinality(Asks(printed)) + Counts(c)
      BY <2>1, <2>3, AsksAppend
    <2>5. Counts(c) = 0
      BY <2>3, OneFacts
    <2>6. ScreenTyped'
      BY <1>1, <1>2, <2>2, <2>4 DEF ScreenTyped
    <2>7. Unanswered' = replies + Asked + Waiting + Cardinality(Asks(printed))'
      BY <1>2, <1>3 DEF Unanswered
    <2>8. Unanswered' = Unanswered /\ Unanswered' \in Int
      BY <2>4, <2>5, <2>7, BudgetFacts
    <2> QED BY <1>2, <2>2, <2>6, <2>8, BudgetFacts, BudgetStep
  <1>6. CASE OpensBrowser \/ ReadsCode
    <2>1. /\ UNCHANGED <<wants, words, printed>> /\ typed' \in {typed, typed - 1} /\ (typed' = typed - 1 => typed > 0)
      <3>1. CASE OpensBrowser
        BY <1>1, <3>1 DEF OpensBrowser, ScreenTyped
      <3>2. CASE ReadsCode
        BY <1>1, <3>2 DEF ReadsCode, ScreenTyped
      <3> QED BY <1>6, <3>1, <3>2
    <2>2. ScreenTyped'
      BY <1>1, <1>2, <2>1 DEF ScreenTyped
    <2>3. Unanswered' = Unanswered
      BY <1>2, <1>3, <2>1 DEF Unanswered
    <2> QED BY <1>2, <2>1, <2>2, <2>3, BudgetFacts, BudgetStep
  <1> QED BY <1>4, <1>5, <1>6

\* What the loop reads: a question becomes one that is asked, or one that is swallowed.
LEMMA ReadTyped ==
  ASSUME ScreenInv, ReadChunk
  PROVE  ScreenTyped' /\ Budget'
  <1>1. ScreenTyped
    BY DEF ScreenInv
  <1>2. PICK c : c = Head(printed)
    OBVIOUS
  <1>3. /\ at = "read" /\ printed # <<>> /\ printed' = Tail(printed) /\ idle' = 0 /\ Seen(c)
        /\ UNCHANGED <<wants, typed, words, replies, pastes>>
        /\ IF c = "error" THEN LoopOver("error") /\ eager' = FALSE /\ UNCHANGED open
           ELSE /\ UNCHANGED why
                /\ IF Swallow(c) THEN eager' = FALSE /\ UNCHANGED <<at, open>>
                   ELSE IF c = "prompt" THEN at' = "text" /\ open' = TRUE /\ UNCHANGED eager
                   ELSE UNCHANGED <<at, open, eager>>
    BY <1>2 DEF ReadChunk, cliVars
  <1>4. printed \in Seq(Chunk)
    BY <1>1 DEF ScreenTyped
  <1>5. /\ printed' \in Seq(Chunk) /\ c \in Chunk
        /\ Cardinality(Asks(printed)) = Cardinality(Asks(printed))' + Counts(c)
    BY <1>2, <1>3, <1>4, AsksTail
  <1>6. recent' \subseteq {"menu", "line"} /\ ("menu" \in recent' => c = "menu" \/ "menu" \in recent)
    BY <1>1, <1>3 DEF Seen, ScreenTyped
  <1>7. ScreenTyped'
    BY <1>1, <1>3, <1>5, <1>6 DEF ScreenTyped, LoopOver, LongIdle
  <1>8. Cardinality(Asks(printed))' \in Nat
    BY <1>5, AsksCount
  <1>9. Asked' + Waiting' <= Asked + Waiting + Counts(c)
    <2>1. CASE c = "error"
      <3>1. ~Pends' /\ open' = open
        BY <1>3, <2>1 DEF LoopOver, Pends
      <3>2. Asked' = Asked
        BY <3>1 DEF Asked
      <3> QED BY <3>1, <3>2, OneFacts
    <2>2. CASE c = "prompt" /\ ~Swallow(c)
      <3>1. ~Pends' /\ c \in Question
        BY <1>3, <2>2 DEF Pends, Question
      <3>2. Counts(c) = 1
        BY <3>1 DEF Counts
      <3>3. PICK a \in Int, b \in Int : a = Asked' /\ b = Waiting'
        BY OneFacts
      <3>4. a <= 1 /\ b = 0
        BY <3>1, <3>3, OneFacts
      <3>5. Asked \in {0, 1} /\ Waiting \in {0, 1}
        BY OneFacts
      <3>6. a + b <= Asked + Waiting + Counts(c)
        BY <3>2, <3>4, <3>5
      <3> QED BY <3>3, <3>6
    <2>3. CASE c # "error" /\ (c = "prompt" => Swallow(c))
      <3>1. at' = at /\ open' = open
        BY <1>3, <2>3
      <3>2. Pends' => Pends \/ c \in Question
        BY <1>3, <1>6, <3>1 DEF Pends, Question
      <3>3. Asked' = Asked
        BY <3>1 DEF Asked
      <3> QED BY <3>2, <3>3, OneFacts DEF Counts, Waiting
    <2> QED BY <2>1, <2>2, <2>3
  <1>10. Asked' \in {0, 1} /\ Waiting' \in {0, 1} /\ Counts(c) \in {0, 1}
    BY OneFacts
  <1>11. Unanswered' = replies + Asked' + Waiting' + Cardinality(Asks(printed))'
    BY <1>3 DEF Unanswered
  <1>12. Unanswered' <= Unanswered /\ Unanswered' \in Int
    <2>1. PICK a \in Int, b \in Int, n \in Int : a = Asked' /\ b = Waiting' /\ n = Cardinality(Asks(printed))'
      BY <1>8, <1>10
    <2>2. a + b + n <= Asked + Waiting + Counts(c) + n
      <3>1. a + b <= Asked + Waiting + Counts(c)
        BY <1>9, <2>1
      <3>2. Asked \in Int /\ Waiting \in Int /\ Counts(c) \in Int
        BY OneFacts
      <3> QED BY <3>1, <3>2
    <2>3. Cardinality(Asks(printed)) = n + Counts(c)
      BY <1>5, <2>1
    <2>4. Unanswered' = replies + a + b + n
      BY <1>11, <2>1
    <2> QED BY <1>10, <2>2, <2>3, <2>4, BudgetFacts
  <1> QED BY <1>3, <1>7, <1>12, BudgetFacts, BudgetStep


\* The other steps of the loop, and the user's.
LEMMA LoopTyped ==
  ASSUME ScreenInv, UrlWaitOver \/ EndOfOutput \/ NobodyAnswers \/ TimePasses \/ FollowUpEnter
  PROVE  ScreenTyped' /\ Budget'
  <1>1. ScreenTyped
    BY DEF ScreenInv
  <1>2. /\ UNCHANGED <<words, typed, recent, replies, pastes, open>>
        /\ wants' \in {"nothing", "menu", "code"} /\ idle' = idle
        /\ (at' = at \/ at' = "over") /\ (why' = why \/ why' \in {"watchdog", "complete", "eof", "timeout"})
    <2>1. CASE UrlWaitOver \/ EndOfOutput \/ NobodyAnswers
      BY <1>1, <2>1 DEF UrlWaitOver, EndOfOutput, NobodyAnswers, LoopOver, cliVars, clocks, user, ScreenTyped
    <2>2. CASE TimePasses
      BY <1>1, <2>2 DEF TimePasses, cliVars, user, ScreenTyped
    <2>3. CASE FollowUpEnter
      BY <1>1, <2>3 DEF FollowUpEnter, PickWritten, clocks, user, ScreenTyped
    <2> QED BY <2>1, <2>2, <2>3
  <1>3. printed' = printed \/ printed' = <<>> \/ (printed # <<>> /\ printed' = Tail(printed))
    BY DEF UrlWaitOver, EndOfOutput, NobodyAnswers, TimePasses, FollowUpEnter, cliVars
  <1>4. /\ printed' \in Seq(Chunk) /\ Cardinality(Asks(printed))' \in Nat
        /\ Cardinality(Asks(printed))' <= Cardinality(Asks(printed))
    <2>1. printed \in Seq(Chunk) /\ Cardinality(Asks(printed)) \in Nat
      BY <1>1, BudgetFacts DEF ScreenTyped
    <2>2. CASE printed' = printed
      BY <2>1, <2>2
    <2>3. CASE printed' = <<>>
      <3>1. Cardinality(Asks(printed))' = 0
        BY <2>3, AsksNothing
      <3>2. printed' \in Seq(Chunk)
        BY <2>3
      <3> QED BY <2>1, <3>1, <3>2
    <2>4. CASE printed # <<>> /\ printed' = Tail(printed)
      <3>1. PICK q \in Seq(Chunk) : q = Tail(printed)
        BY <2>1, <2>4
      <3>2. Cardinality(Asks(printed)) = Cardinality(Asks(q)) + Counts(Head(printed)) /\ Cardinality(Asks(q)) \in Nat
        BY <2>1, <2>4, <3>1, AsksTail, AsksCount
      <3>3. Counts(Head(printed)) \in {0, 1}
        BY OneFacts
      <3>4. Cardinality(Asks(q)) <= Cardinality(Asks(printed))
        BY <3>2, <3>3
      <3>5. printed' = q
        BY <2>4, <3>1
      <3> QED BY <3>2, <3>4, <3>5
    <2> QED BY <1>3, <2>2, <2>3, <2>4
  <1>5. ScreenTyped'
    BY <1>1, <1>2, <1>4 DEF ScreenTyped
  <1>6. Asked' = Asked /\ Waiting' \in Int /\ (Waiting' = Waiting \/ Waiting' = 0)
    <2>1. CASE at' = at
      BY <1>2, <2>1, OneFacts DEF Asked, Waiting, Pends
    <2>2. CASE at' = "over"
      BY <1>2, <2>2, OneFacts DEF Asked, Waiting, Pends
    <2> QED BY <1>2, <2>1, <2>2
  <1>7. Unanswered' \in Int /\ Unanswered' <= Unanswered
    <2>1. PICK b \in Int, n \in Int : b = Waiting' /\ n = Cardinality(Asks(printed))'
      BY <1>4, <1>6
    <2>2. Unanswered' = replies + Asked + b + n
      BY <1>2, <1>6, <2>1 DEF Unanswered
    <2>3. (b = Waiting \/ b = 0) /\ n <= Cardinality(Asks(printed))
      BY <1>4, <1>6, <2>1
    <2> QED BY <2>2, <2>3, BudgetFacts
  <1> QED BY <1>2, <1>5, <1>7, BudgetFacts, BudgetStep

LEMMA IdleTyped ==
  ASSUME ScreenInv, IdleTick
  PROVE  ScreenTyped' /\ Budget'
  <1>1. ScreenTyped
    BY DEF ScreenInv
  <1>2. /\ at = "read" /\ UNCHANGED <<words, printed, recent, replies, pastes, typed>>
        /\ wants' \in {"nothing", "menu", "code"} /\ idle' \in 0..LongIdle
    <2>1. at = "read" /\ UNCHANGED <<words, printed, recent, replies, pastes>>
      BY DEF IdleTick
    <2>2. \E quiet, b : quiet = (IF idle < LongIdle THEN idle + 1 ELSE LongIdle)
                        /\ idle' = (IF b THEN 0 ELSE quiet)
                        /\ (IF b THEN CommandWritten ELSE UNCHANGED <<wants, typed>>)
      BY DEF IdleTick
    <2> QED BY <1>1, <2>1, <2>2 DEF CommandWritten, ScreenTyped, LongIdle
  <1>3. \/ "menu" \in recent /\ at' = "menu" /\ open' = TRUE /\ why' = why
        \/ open' = open /\ at' = "over" /\ why' \in {"watchdog", "complete"}
        \/ open' = open /\ at' = at /\ why' = why
    BY DEF IdleTick, LoopOver
  <1>4. ScreenTyped'
    BY <1>1, <1>2, <1>3 DEF ScreenTyped
  <1>5. PICK a \in Int, b \in Int : a = Asked' /\ b = Waiting'
    BY OneFacts
  <1>6. a + b <= Asked + Waiting
    <2>1. CASE "menu" \in recent /\ at' = "menu"
      <3>1. Waiting = 1 /\ b = 0 /\ a \in {0, 1}
        BY <1>2, <1>5, <2>1, OneFacts DEF Waiting, Pends
      <3> QED BY <3>1, OneFacts
    <2>2. CASE open' = open /\ at' = "over"
      <3>1. a = Asked /\ b = 0
        BY <1>5, <2>2 DEF Asked, Waiting, Pends
      <3> QED BY <3>1, OneFacts
    <2>3. CASE open' = open /\ at' = at
      <3>1. a = Asked /\ b = Waiting
        BY <1>2, <1>5, <2>3 DEF Asked, Waiting, Pends
      <3> QED BY <3>1, OneFacts
    <2> QED BY <1>3, <2>1, <2>2, <2>3
  <1>7. Unanswered' = replies + a + b + Cardinality(Asks(printed))
    BY <1>2, <1>5 DEF Unanswered
  <1>8. Unanswered' \in Int /\ Unanswered' <= Unanswered
    BY <1>6, <1>7, BudgetFacts
  <1> QED BY <1>2, <1>4, <1>8, BudgetFacts, BudgetStep

LEMMA AnswerTyped ==
  ASSUME ScreenInv, MenuAnswered \/ TextAnswered \/ AnswersQuestion \/ PastesCode
  PROVE  ScreenTyped' /\ Budget'
  <1>1. ScreenTyped
    BY DEF ScreenInv
  <1>2. /\ UNCHANGED <<words, printed, why>> /\ at' \in {at, "read"}
        /\ (recent' = recent \/ recent' = {}) /\ (idle' = idle \/ idle' = 0)
        /\ (at' # at => recent' = {})
    BY DEF MenuAnswered, TextAnswered, AnswersQuestion, PastesCode, Refreshed, cliVars, clocks
  <1>3. wants' \in {"nothing", "menu", "code"}
    <2>1. wants' = wants \/ PickWritten \/ CodeWritten
      BY DEF MenuAnswered, TextAnswered, AnswersQuestion, PastesCode, cliVars
    <2> QED BY <1>1, <2>1 DEF ScreenTyped, PickWritten, CodeWritten
  <1>4. Waiting' \in Int /\ Waiting' <= Waiting
    BY <1>2, OneFacts DEF Waiting, Pends
  <1>5. PICK b \in Int : b = Waiting' /\ b <= Waiting
    BY <1>4
  <1>6. ASSUME NEW r \in Nat, NEW a \in Int, NEW t \in Nat, NEW p \in 0..MaxPastes,
               replies' = r, Asked' = a, typed' = t, pastes' = p,
               r + a <= replies + Asked, r + a + t + pastes <= replies + Asked + typed + p
        PROVE  ScreenTyped' /\ Budget'
    <2>1. ScreenTyped'
      <3>1. at' \in {"read", "menu", "text", "over"} /\ recent' \subseteq {"menu", "line"} /\ idle' \in 0..LongIdle
        <4>1. at \in {"read", "menu", "text", "over"} /\ recent \subseteq {"menu", "line"} /\ idle \in 0..LongIdle
          BY <1>1 DEF ScreenTyped
        <4>2. recent' \subseteq {"menu", "line"}
          BY <1>2, <4>1
        <4>3. 0 \in 0..LongIdle
          BY DEF LongIdle
        <4>4. idle' \in 0..LongIdle
          BY <1>2, <4>1, <4>3, Zenon
        <4> QED BY <1>2, <4>1, <4>2, <4>4
      <3>2. replies' \in Nat /\ typed' \in Nat /\ pastes' \in 0..MaxPastes
        BY <1>6
      <3>3. words' \in 0..MaxWords /\ printed' \in Seq(Chunk)
            /\ why' \in {"none", "watchdog", "error", "eof", "timeout", "complete"}
        BY <1>1, <1>2 DEF ScreenTyped
      <3> QED BY <1>3, <3>1, <3>2, <3>3 DEF ScreenTyped
    <2>2. Unanswered' = r + a + b + Cardinality(Asks(printed))
      BY <1>2, <1>5, <1>6 DEF Unanswered
    <2>3. Unanswered' \in Int /\ Unanswered' <= Unanswered
      BY <1>6, <1>5, <2>2, BudgetFacts
    <2>4. r + a + b + Cardinality(Asks(printed)) + t <= Unanswered + typed + (p - pastes)
      BY <1>6, <1>5, BudgetFacts
    <2>5. words' = words /\ words - words = 0
      BY <1>2, BudgetFacts
    <2> QED BY <1>2, <1>6, <2>1, <2>2, <2>3, <2>4, <2>5, BudgetFacts, BudgetStep
  <1>7. CASE MenuAnswered
    <2>1. replies > 0 /\ replies' = replies - 1 /\ typed' = typed /\ pastes' = pastes /\ Asked' = Asked
      BY <1>7 DEF MenuAnswered, PickWritten, Asked
    <2>2. replies - 1 \in Nat /\ Asked \in Int /\ typed \in Nat /\ pastes \in 0..MaxPastes
      BY <1>1, <2>1, OneFacts DEF ScreenTyped
    <2>3. replies - 1 + Asked <= replies + Asked /\ replies - 1 + Asked + typed + pastes <= replies + Asked + typed + pastes
      BY <2>2, BudgetFacts
    <2> QED BY <1>6, <2>1, <2>2, <2>3
  <1>8. CASE TextAnswered
    <2>1. pastes' = pastes /\ Asked' = Asked
      BY <1>8 DEF TextAnswered, Asked
    <2>2. \/ UNCHANGED <<typed, replies>>
          \/ replies > 0 /\ replies' = replies - 1 /\ (typed' = typed \/ typed' = typed + 1)
      BY <1>8 DEF TextAnswered, CodeWritten
    <2>3. Asked \in Int /\ typed \in Nat /\ pastes \in 0..MaxPastes /\ replies \in Nat
      BY <1>1, OneFacts DEF ScreenTyped
    <2>4. CASE UNCHANGED <<typed, replies>>
      BY <1>6, <2>1, <2>3, <2>4
    <2>5. ASSUME replies > 0, replies' = replies - 1, NEW t \in {typed, typed + 1}, typed' = t
          PROVE  ScreenTyped' /\ Budget'
      <3>1. replies - 1 \in Nat /\ t \in Nat
        BY <2>3, <2>5
      <3>2. replies - 1 + Asked <= replies + Asked /\ replies - 1 + Asked + t + pastes <= replies + Asked + typed + pastes
        BY <2>3, <2>5
      <3> QED BY <1>6, <2>1, <2>3, <2>5, <3>1, <3>2
    <2> QED BY <2>2, <2>4, <2>5
  <1>9. CASE AnswersQuestion
    <2>1. /\ open /\ open' = FALSE /\ replies' = replies + 1 /\ UNCHANGED <<typed, pastes>>
      BY <1>9 DEF AnswersQuestion, cliVars
    <2>2. Asked = 1 /\ Asked' = 0
      BY <2>1 DEF Asked
    <2>3. typed \in Nat /\ pastes \in 0..MaxPastes /\ replies \in Nat /\ replies + 1 \in Nat
      BY <1>1 DEF ScreenTyped
    <2>4. replies + 1 + 0 <= replies + Asked /\ replies + 1 + 0 + typed + pastes <= replies + Asked + typed + pastes
      BY <2>2, <2>3
    <2> QED BY <1>6, <2>1, <2>2, <2>3, <2>4
  <1>10. CASE PastesCode
    <2>1. /\ pastes < MaxPastes /\ pastes' = pastes + 1 /\ replies' = replies /\ Asked' = Asked
          /\ (typed' = typed \/ typed' = typed + 1)
      BY <1>10 DEF PastesCode, CodeWritten, Asked
    <2>2. Asked \in Int /\ typed \in Nat /\ pastes + 1 \in 0..MaxPastes /\ replies \in Nat /\ pastes \in Nat
      BY <1>1, <2>1, OneFacts, WordAssumption DEF ScreenTyped
    <2>3. PICK t \in {typed, typed + 1} : typed' = t
      BY <2>1
    <2>4. t \in Nat /\ replies + Asked <= replies + Asked
          /\ replies + Asked + t + pastes <= replies + Asked + typed + (pastes + 1)
      BY <2>2, <2>3
    <2> QED BY <1>6, <2>1, <2>2, <2>3, <2>4
  <1> QED BY <1>7, <1>8, <1>9, <1>10

LEMMA ScreenKeeps == ASSUME ScreenInv, [ILNext]_ilVars PROVE ScreenInv'
  <1>1. ScreenFlags'
    BY FlagsKept DEF ScreenInv
  <1>2. CASE UNCHANGED ilVars
    <2>1. UNCHANGED <<wants, typed, words, printed, at, recent, idle, replies, pastes, why, open>>
      BY <1>2 DEF ilVars, cliVars, clocks, user
    <2> QED BY <1>1, <2>1 DEF ScreenInv, ScreenTyped, Budget, Unanswered, Asked, Waiting, Pends
  <1>3. CASE ILNext
    <2>1. (\E c \in Word : Screen(c)) \/ Spinner \/ CliExits \/ OpensBrowser \/ ReadsCode => LoopAlone
      BY DEF Screen, Spinner, CliExits, OpensBrowser, ReadsCode
    <2>2. ScreenTyped' /\ Budget'
      BY <1>3, <2>1, PrintTyped, ReadTyped, LoopTyped, IdleTyped, AnswerTyped DEF ILNext, Iterate
    <2> QED BY <1>1, <2>2 DEF ScreenInv
  <1> QED BY <1>2, <1>3

LEMMA ScreenSaysSo == ScreenInv => ILTypeOK
  <1> SUFFICES ASSUME ScreenInv PROVE ILTypeOK
    OBVIOUS
  <1>1. ScreenTyped /\ ScreenFlags
    BY DEF ScreenInv
  <1>2. \A i \in DOMAIN printed : printed[i] \in Chunk
    BY <1>1 DEF ScreenTyped
  <1>3. Unanswered \in Nat /\ replies <= Unanswered
    BY BudgetFacts
  <1>4. typed \in 0..(MaxWords + MaxPastes) /\ replies \in 0..MaxWords
    BY <1>3, BudgetFacts
  <1> QED BY <1>1, <1>2, <1>4 DEF ScreenTyped, ScreenFlags, ILTypeOK

-----------------------------------------------------------------------------
\* The types of the sessions that wait for a marker: who waits holds the lock, and each
\* cleanup leaves at most one thread behind.

Spent == {c \in Cleaner : step[c] \in {"killed", "over"}}
Locked == \A c \in Cleaner : step[c] \in {"waiting", "killed"} <=> holder = c
Orphaned == orphans \in Nat /\ orphans <= Cardinality(Spent)
MarkerTyped ==
  /\ pieces \in 0..MaxPieces /\ unread \in Seq(SUBSET Token)
  /\ buffer \subseteq Token /\ heard \subseteq Token
  /\ child \in {"running", "exited", "reaped"} /\ holder \in Cleaner \cup {Nothing}
  /\ told \in {"nothing", "complete", "failed", "raised"}
MarkerFlags ==
  /\ device \in BOOLEAN /\ prompted \in BOOLEAN /\ success \in BOOLEAN /\ pid \in BOOLEAN
  /\ killed \in BOOLEAN /\ dropped \in BOOLEAN /\ sdone \in BOOLEAN /\ strayed \in BOOLEAN
MarkerTypes == StepsTyped /\ MarkerTyped /\ MarkerFlags /\ Locked /\ Orphaned

LEMMA SpentFinite ==
  /\ IsFiniteSet(Cleaner) /\ Cardinality(Cleaner) \in Nat
  /\ \A S \in SUBSET Cleaner : IsFiniteSet(S) /\ Cardinality(S) \in Nat /\ Cardinality(S) <= Cardinality(Cleaner)
  <1>1. Cleaner = (({"events"} \cup {"finally"}) \cup {"request"})
    BY DEF Cleaner
  <1>2. IsFiniteSet(Cleaner)
    BY <1>1, FS_Singleton, FS_Union
  <1> QED BY <1>2, FS_CardinalityType, FS_Subset

LEMMA MarkerTypesStart == NoMarker \/ MLInit => MarkerTypes
  <1> SUFFICES ASSUME NoMarker \/ MLInit PROVE MarkerTypes
    OBVIOUS
  <1>1. /\ NothingRead /\ child \in {"running", "exited", "reaped"} /\ pid \in BOOLEAN /\ sdone \in BOOLEAN
        /\ StepsTyped /\ \A c \in Cleaner : step[c] \notin {"waiting", "killed"}
    BY DEF NoMarker, MLInit, StepsTyped, Cleaner, Where
  <1>2. MarkerTyped
    <2>1. unread = <<>> /\ <<>> \in Seq(SUBSET Token)
      BY <1>1 DEF NothingRead
    <2> QED BY <1>1, <2>1, PieceAssumption DEF NothingRead, MarkerTyped
  <1>3. MarkerFlags
    BY <1>1 DEF NoMarker, MLInit, NothingRead, MarkerFlags
  <1>4. Locked
    BY <1>1 DEF NothingRead, Locked, Nothing, Cleaner
  <1>5. Orphaned
    <2>1. Spent \in SUBSET Cleaner /\ orphans = 0
      BY <1>1 DEF Spent, NothingRead
    <2> QED BY <2>1, SpentFinite DEF Orphaned
  <1> QED BY <1>1, <1>2, <1>3, <1>4, <1>5 DEF MarkerTypes

\* A cleanup that is spent stays so.
LEMMA SpentGrows ==
  ASSUME Orphaned, Spent \subseteq Spent', orphans' = orphans PROVE Orphaned'
  <1>1. Spent \in SUBSET Cleaner /\ Spent' \in SUBSET Cleaner
    BY DEF Spent
  <1>2. PICK S \in SUBSET Cleaner : S = Spent'
    BY <1>1
  <1>3. IsFiniteSet(S) /\ Cardinality(S) \in Nat /\ Cardinality(Spent) \in Nat
    BY <1>1, SpentFinite
  <1>4. Cardinality(Spent) <= Cardinality(S)
    BY <1>2, <1>3, FS_Subset
  <1>5. orphans \in Nat /\ orphans <= Cardinality(S)
    BY <1>3, <1>4 DEF Orphaned
  <1>6. Cardinality(S) = Cardinality(Spent)'
    BY <1>2
  <1> QED BY <1>5, <1>6 DEF Orphaned

LEMMA MarkerTypesKept == ASSUME MarkerTypes, [MLNext]_mlVars PROVE MarkerTypes'
  <1>0. /\ StepsTyped /\ MarkerTyped /\ MarkerFlags /\ Locked /\ Orphaned
        /\ Where = {"idle", "reading", "enter", "waiting", "killed", "over"} /\ "events" \in Cleaner
        /\ Nothing \notin Cleaner
    BY DEF MarkerTypes, Where, Cleaner, Nothing
  <1>1. MarkerFlags'
    <2> USE DEF MarkerFlags
    <2>1. CASE (\E t \in SUBSET Token : CliPrints(t)) \/ CliEnds \/ OutputEnds \/ OrphanReaps \/ UNCHANGED mlVars
      BY <1>0, <2>1 DEF CliPrints, CliEnds, OutputEnds, OrphanReaps, mlVars, reading, ending
    <2>2. CASE ReadPiece
      <3>1. PICK t : t = Head(unread)
        OBVIOUS
      <3>2. /\ prompted' = (prompted \/ Needed \subseteq Kept(t)) /\ success' = ("success" \in t)
            /\ UNCHANGED <<device, pid, killed, sdone, strayed, dropped>>
        BY <2>2, <3>1 DEF ReadPiece, Succeeds
      <3> QED BY <1>0, <3>2
    <2>3. CASE Disconnects
      BY <1>0, <2>3 DEF Disconnects, reading
    <2>4. ASSUME NEW c \in Cleaner, Begins(c) \/ Enters(c) PROVE MarkerFlags'
      <3>1. /\ UNCHANGED <<device, prompted, success, pid, killed, dropped>>
            /\ sdone' = TRUE \/ sdone' = sdone
            /\ strayed' = (strayed \/ child = "reaped") \/ strayed' = strayed
        BY <2>4 DEF Begins, Enters, Signals, Cleaned, reading
      <3> QED BY <1>0, <3>1
    <2>5. ASSUME NEW c \in Cleaner, TimesOut(c) \/ Reaps(c) \/ NoChild(c) PROVE MarkerFlags'
      <3>1. /\ UNCHANGED <<device, prompted, success, dropped, strayed>>
            /\ sdone' = TRUE \/ sdone' = sdone
            /\ pid' = FALSE \/ pid' = pid
            /\ killed' = TRUE \/ killed' = killed
        BY <2>5 DEF TimesOut, OutOfTime, Reaps, Status, NoChild, Cleaned, Raised, reading
      <3> QED BY <1>0, <3>1
    <2> QED BY <2>1, <2>2, <2>3, <2>4, <2>5 DEF MLNext, MarkerCleans
  \* Steps that leave the cleanups alone, or start one.
  <1>2. ASSUME MarkerTyped', orphans' = orphans, holder' = holder, NEW c \in Cleaner,
               step' = step \/ (step[c] \in {"idle", "reading"} /\ Moves(c, "enter"))
        PROVE  MarkerTypes'
    <2>1. StepsTyped' /\ \A d \in Cleaner : step'[d] = step[d] \/ (step[d] \in {"idle", "reading"} /\ step'[d] = "enter")
      <3>1. CASE step' = step
        BY <1>0, <3>1 DEF StepsTyped
      <3>2. CASE step[c] \in {"idle", "reading"} /\ Moves(c, "enter")
        BY <1>0, <3>2, MoveFacts
      <3> QED BY <1>2, <3>1, <3>2
    <2>2. Locked'
      BY <1>0, <1>2, <2>1 DEF Locked
    <2>3. Spent \subseteq Spent'
      BY <2>1 DEF Spent
    <2> QED BY <1>0, <1>1, <1>2, <2>1, <2>2, <2>3, SpentGrows DEF MarkerTypes
  <1>3. CASE \E t \in SUBSET Token : CliPrints(t)
    <2>1. PICK t \in SUBSET Token : CliPrints(t)
      BY <1>3
    <2>2. /\ unread' = Append(unread, t) /\ pieces < MaxPieces /\ pieces' = pieces + 1
          /\ UNCHANGED <<buffer, heard, child, holder, told, orphans, step>>
      BY <2>1 DEF CliPrints, ending
    <2>3. pieces' \in 0..MaxPieces /\ unread' \in Seq(SUBSET Token)
      BY <1>0, <2>2, PieceAssumption DEF MarkerTyped
    <2>4. MarkerTyped'
      BY <1>0, <2>2, <2>3 DEF MarkerTyped
    <2> QED BY <1>0, <1>2, <2>2, <2>4
  <1>4. CASE ReadPiece
    <2>1. PICK t : t = Head(unread)
      OBVIOUS
    <2>2. /\ step["events"] = "reading" /\ unread # <<>> /\ unread' = Tail(unread) /\ buffer' = Kept(t)
          /\ heard' = heard \cup t /\ UNCHANGED <<pieces, child, holder, told, orphans>>
          /\ Moves("events", "enter") \/ step' = step
      BY <1>4, <2>1 DEF ReadPiece
    <2>3. unread \in Seq(SUBSET Token)
      BY <1>0 DEF MarkerTyped
    <2>4. t \in SUBSET Token /\ unread' \in Seq(SUBSET Token)
      BY <2>1, <2>2, <2>3
    <2>5. MarkerTyped'
      BY <1>0, <2>2, <2>4 DEF MarkerTyped, Kept
    <2> QED BY <1>0, <1>2, <2>2, <2>5
  <1>5. CASE CliEnds \/ OutputEnds \/ Disconnects \/ UNCHANGED mlVars
    <2>1. /\ UNCHANGED <<pieces, unread, buffer, heard, holder, told, orphans>>
          /\ child' = child \/ child' = "exited"
          /\ step' = step \/ (step["events"] = "reading" /\ Moves("events", "enter"))
      BY <1>5 DEF CliEnds, OutputEnds, Disconnects, mlVars, reading, ending
    <2>2. MarkerTyped'
      BY <1>0, <2>1 DEF MarkerTyped
    <2> QED BY <1>0, <1>2, <2>1, <2>2
  <1>6. CASE OrphanReaps
    <2>1. /\ UNCHANGED <<pieces, unread, buffer, heard, holder, told, step>>
          /\ child' = "reaped" /\ orphans > 0 /\ orphans' = orphans - 1
      BY <1>6 DEF OrphanReaps, reading
    <2>2. MarkerTyped' /\ StepsTyped' /\ Locked' /\ Spent' = Spent
      BY <1>0, <2>1 DEF MarkerTyped, StepsTyped, Locked, Spent
    <2>3. Spent \in SUBSET Cleaner
      BY DEF Spent
    <2>4. Cardinality(Spent) \in Nat
      BY <2>3, SpentFinite
    <2>5. Orphaned'
      BY <1>0, <2>1, <2>2, <2>4 DEF Orphaned
    <2> QED BY <1>1, <2>2, <2>5 DEF MarkerTypes
  <1>7. ASSUME NEW c \in Cleaner, MarkerCleans(c) PROVE MarkerTypes'
    <2>1. UNCHANGED <<pieces, unread, buffer, heard>> /\ (child' = child \/ child' = "reaped")
      BY <1>7 DEF MarkerCleans, Begins, Enters, Signals, TimesOut, OutOfTime, Reaps, Status, NoChild, reading
    <2>2. told' = told \/ told' \in {"complete", "failed", "raised"}
      BY <1>7 DEF MarkerCleans, Begins, Enters, Signals, TimesOut, OutOfTime, Reaps, Status, NoChild,
                  Cleaned, Raised, Verdict
    <2>3. holder' \in {holder, c, Nothing}
      BY <1>7 DEF MarkerCleans, Begins, Enters, Signals, TimesOut, OutOfTime, Reaps, Status, NoChild
    <2>4. MarkerTyped'
      BY <1>0, <2>1, <2>2, <2>3 DEF MarkerTyped
    <2>5. CASE Begins(c)
      BY <1>2, <2>4, <2>5 DEF Begins
    \* The end of a cleanup.
    <2>6. ASSUME Moves(c, "over"), orphans' = orphans,
                 \/ step[c] \notin {"waiting", "killed"} /\ holder' = holder
                 \/ step[c] \in {"waiting", "killed"} /\ holder' = Nothing
          PROVE  MarkerTypes'
      <3>1. StepsTyped' /\ step'[c] = "over" /\ \A d \in Cleaner \ {c} : step'[d] = step[d]
        BY <1>0, <2>6, MoveFacts
      <3>2. Spent \subseteq Spent'
        BY <3>1 DEF Spent
      <3>3. Locked'
        BY <1>0, <2>6, <3>1 DEF Locked
      <3> QED BY <1>0, <1>1, <2>4, <2>6, <3>1, <3>2, <3>3, SpentGrows DEF MarkerTypes
    <2>7. CASE Enters(c)
      <3>1. holder = Nothing /\ step[c] = "enter" /\ orphans' = orphans
            /\ \/ Moves(c, "over") /\ holder' = holder
               \/ Moves(c, "waiting") /\ holder' = c
        BY <2>7 DEF Enters, Signals, Cleaned
      <3>2. CASE Moves(c, "over") /\ holder' = holder
        BY <2>6, <3>1, <3>2
      <3>3. CASE Moves(c, "waiting") /\ holder' = c
        <4>1. StepsTyped' /\ step'[c] = "waiting" /\ \A d \in Cleaner \ {c} : step'[d] = step[d]
          BY <1>0, <3>3, MoveFacts
        <4>2. Spent \subseteq Spent'
          BY <3>1, <4>1 DEF Spent
        <4>3. Locked'
          BY <1>0, <3>1, <3>3, <4>1 DEF Locked
        <4> QED BY <1>0, <1>1, <2>4, <3>1, <4>1, <4>2, <4>3, SpentGrows DEF MarkerTypes
      <3> QED BY <3>1, <3>2, <3>3
    <2>8. CASE TimesOut(c)
      <3>1. step[c] = "waiting" /\ orphans' = orphans + 1 /\ Moves(c, "killed") /\ holder' = holder
        BY <2>8 DEF TimesOut, OutOfTime
      <3>2. StepsTyped' /\ step'[c] = "killed" /\ \A d \in Cleaner \ {c} : step'[d] = step[d]
        BY <1>0, <3>1, MoveFacts
      <3>3. Locked'
        BY <1>0, <3>1, <3>2 DEF Locked
      <3>4. c \notin Spent /\ Spent \in SUBSET Cleaner
        BY <3>1 DEF Spent
      <3>5. IsFiniteSet(Spent) /\ Cardinality(Spent) \in Nat
        BY <3>4, SpentFinite
      <3>6. Cardinality(Spent \cup {c}) = Cardinality(Spent) + 1
        BY <3>4, <3>5, FS_AddElement
      <3>7. Spent' = Spent \cup {c}
        BY <3>2 DEF Spent
      <3>8. Cardinality(Spent)' = Cardinality(Spent) + 1
        BY <3>6, <3>7
      <3>9. Orphaned'
        BY <1>0, <3>1, <3>5, <3>8 DEF Orphaned
      <3> QED BY <1>1, <2>4, <3>2, <3>3, <3>9 DEF MarkerTypes
    <2>9. CASE Reaps(c) \/ NoChild(c)
      <3>1. step[c] \in {"waiting", "killed"} /\ holder' = Nothing /\ orphans' = orphans /\ Moves(c, "over")
        BY <2>9 DEF Reaps, Status, NoChild, Cleaned, Raised
      <3> QED BY <2>6, <3>1
    <2> QED BY <1>7, <2>5, <2>7, <2>8, <2>9 DEF MarkerCleans
  <1> QED BY <1>3, <1>4, <1>5, <1>6, <1>7 DEF MLNext

LEMMA MarkerSaysSo == MarkerTypes => MLTypeOK
  <1> SUFFICES ASSUME MarkerTypes PROVE MLTypeOK
    OBVIOUS
  <1>1. Spent \in SUBSET Cleaner
    BY DEF Spent
  <1>2. Cardinality(Spent) <= Cardinality(Cleaner) /\ Cardinality(Spent) \in Nat /\ Cardinality(Cleaner) \in Nat
    BY <1>1, SpentFinite
  <1>3. orphans \in 0..Cardinality(Cleaner)
    BY <1>2 DEF MarkerTypes, Orphaned
  <1> QED BY <1>3 DEF MarkerTypes, StepsTyped, Where, MarkerTyped, MarkerFlags, Locked, MLTypeOK

-----------------------------------------------------------------------------
\* The types of the terminals: no more threads wait for one than there are.

Readers == {k \in Socket : reads[k] # NoSession}
PtyTypes ==
  /\ fd \in [Session -> 0..MaxPtys] /\ shell \in [Session -> {"none", "running", "signalled", "ended"}]
  /\ keyed \in 0..MaxKeys /\ hurried \in BOOLEAN /\ misplaced \in BOOLEAN
  /\ BusyThreads <= Threads

LEMMA ReadersFinite ==
  /\ IsFiniteSet(Socket)
  /\ \A S \in SUBSET Socket : IsFiniteSet(S) /\ Cardinality(S) \in Nat
  /\ Readers \in SUBSET Socket /\ BusyThreads = Cardinality(Readers)
  <1>1. 1 \in Int /\ MaxSockets \in Int
    BY PtyAssumption
  <1>2. IsFiniteSet(Socket)
    BY <1>1, FS_Interval DEF Socket
  <1> QED BY <1>2, FS_CardinalityType, FS_Subset DEF Readers, BusyThreads

LEMMA PtyTypesStart == PtyInit => PtyTypes
  <1> SUFFICES ASSUME PtyInit PROVE PtyTypes
    OBVIOUS
  <1>1. Readers = {} /\ Cardinality({}) = 0
    BY FS_EmptySet DEF PtyInit, Readers
  <1>2. BusyThreads = 0
    BY <1>1, ReadersFinite
  <1>3. BusyThreads <= Threads
    BY <1>2, PtyAssumption
  <1>4. fd \in [Session -> 0..MaxPtys] /\ keyed \in 0..MaxKeys
    BY PtyAssumption DEF PtyInit
  <1> QED BY <1>3, <1>4 DEF PtyInit, PtyTypes

\* A reader that is served waits no more.
LEMMA ReadersShrink == ASSUME BusyThreads <= Threads, Readers' \subseteq Readers PROVE (BusyThreads <= Threads)'
  <1>1. PICK S \in SUBSET Readers : S = Readers'
    OBVIOUS
  <1>2. IsFiniteSet(Readers) /\ Cardinality(Readers) \in Nat /\ BusyThreads = Cardinality(Readers)
        /\ Readers \in SUBSET Socket
    BY ReadersFinite
  <1>3. Cardinality(S) <= Cardinality(Readers) /\ Cardinality(S) \in Nat
    BY <1>2, FS_Subset, FS_CardinalityType
  <1>4. Cardinality(S) <= Threads
    BY <1>2, <1>3, PtyAssumption
  <1>5. BusyThreads' = Cardinality(S)
    BY <1>1 DEF BusyThreads, Readers
  <1> QED BY <1>4, <1>5

LEMMA PtyTypesKept == ASSUME PtyInv, PtyTypes, [PtyNext]_ptyVars PROVE PtyTypes'
  <1>1. /\ fd \in [Session -> 0..MaxPtys] /\ shell \in [Session -> {"none", "running", "signalled", "ended"}]
        /\ keyed \in 0..MaxKeys /\ hurried \in BOOLEAN /\ misplaced \in BOOLEAN /\ BusyThreads <= Threads
        /\ reads \in [Socket -> Session \cup {NoSession}]
    BY DEF PtyTypes, PtyInv, SocketInv, SocketTyped
  <1>2. ASSUME UNCHANGED <<fd, shell, keyed, reads, hurried, misplaced>> PROVE PtyTypes'
    BY <1>1, <1>2 DEF PtyTypes, BusyThreads
  <1>3. ASSUME NEW s \in Session, SpawnPty(s) PROVE PtyTypes'
    <2>1. /\ fd' = [fd EXCEPT ![s] = Free] /\ shell' = [shell EXCEPT ![s] = "running"]
          /\ UNCHANGED <<keyed, reads, hurried, misplaced>>
      BY <1>3 DEF SpawnPty, serving
    <2>2. Free \in 0..MaxPtys
      <3>1. Free \in Session
        BY <1>3, FreeFacts DEF SpawnPty, Holds
      <3> QED BY <3>1, PtyAssumption DEF Session
    <2>3. fd' \in [Session -> 0..MaxPtys] /\ shell' \in [Session -> {"none", "running", "signalled", "ended"}]
      BY <1>1, <2>1, <2>2
    <2> QED BY <1>1, <2>1, <2>3 DEF PtyTypes, BusyThreads
  <1>4. ASSUME NEW s \in Session, KillPty(s) PROVE PtyTypes'
    <2>1. /\ shell' = [shell EXCEPT ![s] = IF @ = "running" THEN "signalled" ELSE @]
          /\ UNCHANGED <<fd, keyed, reads, misplaced>>
          /\ hurried' = (hurried \/ \E i \in DOMAIN jobs : joins[jobs[i][2]] = s)
      BY <1>4 DEF KillPty, Ends, Signalled, serving
    <2>2. shell' \in [Session -> {"none", "running", "signalled", "ended"}]
      BY <1>1, <2>1
    <2>3. hurried' \in BOOLEAN
      BY <2>1
    <2> QED BY <1>1, <2>1, <2>2, <2>3 DEF PtyTypes, BusyThreads
  <1>5. ASSUME NEW s \in Session, ShellEnds(s) PROVE PtyTypes'
    <2>1. shell' = [shell EXCEPT ![s] = "ended"] /\ UNCHANGED <<fd, keyed, reads, hurried, misplaced>>
      BY <1>5 DEF ShellEnds, serving
    <2>2. shell' \in [Session -> {"none", "running", "signalled", "ended"}]
      BY <1>1, <2>1
    <2> QED BY <1>1, <2>1, <2>2 DEF PtyTypes, BusyThreads
  <1>6. ASSUME NEW k \in Socket, reads' = [reads EXCEPT ![k] = NoSession],
               UNCHANGED <<fd, shell, keyed, hurried, misplaced>>
        PROVE  PtyTypes'
    <2>1. Readers' \subseteq Readers
      BY <1>1, <1>6 DEF Readers
    <2> QED BY <1>1, <1>6, <2>1, ReadersShrink DEF PtyTypes
  <1>7. ASSUME NEW k \in Socket, Key(k) PROVE PtyTypes'
    <2>1. keyed < MaxKeys /\ keyed' = keyed + 1 /\ UNCHANGED <<fd, shell, reads, hurried, misplaced>>
      BY <1>7 DEF Key, terminal
    <2>2. keyed' \in 0..MaxKeys
      BY <1>1, <2>1, PtyAssumption
    <2> QED BY <1>1, <2>1, <2>2 DEF PtyTypes, BusyThreads
  <1>8. CASE JobRuns
    <2>1. BusyThreads < Threads /\ UNCHANGED <<fd, shell, keyed, hurried>>
      BY <1>8 DEF JobRuns, terminal
    <2>2. PICK k : ReadBegins(k) \/ Written(k)
      BY <1>8 DEF JobRuns
    <2>3. /\ reads' = reads \/ \E t : reads' = [reads EXCEPT ![k] = t]
          /\ misplaced' = misplaced \/ \E t : misplaced' = (misplaced \/ t # joins[k])
      BY <2>2 DEF ReadBegins, Written
    <2>4. misplaced' \in BOOLEAN
      BY <1>1, <2>3
    <2>5. Readers' \subseteq Readers \cup {k}
      BY <1>1, <2>3 DEF Readers
    <2>6. (BusyThreads <= Threads)'
      <3>1. PICK S \in SUBSET Socket : S = Readers'
        BY DEF Readers
      <3>2. IsFiniteSet(Readers) /\ Cardinality(Readers) \in Nat /\ BusyThreads = Cardinality(Readers)
            /\ Cardinality(S) \in Nat /\ Readers \in SUBSET Socket
        BY ReadersFinite
      <3>3. IsFiniteSet(Readers \cup {k}) /\ Cardinality(Readers \cup {k}) <= Cardinality(Readers) + 1
            /\ Cardinality(Readers \cup {k}) \in Nat
        <4>1. IsFiniteSet(Readers \cup {k}) /\ Cardinality(Readers \cup {k}) =
                IF k \in Readers THEN Cardinality(Readers) ELSE Cardinality(Readers) + 1
          BY <3>2, FS_AddElement
        <4> QED BY <3>2, <4>1
      <3>4. Cardinality(S) <= Cardinality(Readers \cup {k})
        BY <2>5, <3>1, <3>3, FS_Subset
      <3>5. Cardinality(S) <= Threads
        BY <2>1, <3>2, <3>3, <3>4, PtyAssumption
      <3>6. BusyThreads' = Cardinality(S)
        BY <3>1 DEF BusyThreads, Readers
      <3> QED BY <3>5, <3>6
    <2> QED BY <1>1, <2>1, <2>4, <2>6 DEF PtyTypes
  <1>9. CASE UNCHANGED ptyVars
    BY <1>2, <1>9 DEF ptyVars, terminal, serving
  <1>10. ASSUME NEW s \in Session, RowStored(s) \/ RowEnded(s) PROVE PtyTypes'
    BY <1>2, <1>10 DEF RowStored, Stores, RowEnded, serving
  <1>11. ASSUME NEW k \in Socket, Connect(k) \/ ConnLost(k) \/ HandlerEnds(k) PROVE PtyTypes'
    BY <1>2, <1>11 DEF Connect, ConnLost, HandlerEnds, terminal
  <1>12. ASSUME NEW k \in Socket, EndRead(k) PROVE PtyTypes'
    BY <1>6, <1>12 DEF EndRead, terminal
  <1>13. ASSUME NEW s \in Session, PrintsText(s) PROVE PtyTypes'
    BY <1>6, <1>13 DEF PrintsText, Returns, terminal
  <1> QED BY <1>3, <1>4, <1>5, <1>7, <1>8, <1>9, <1>10, <1>11, <1>12, <1>13 DEF PtyNext

LEMMA PtySaysSo == PtyInv /\ PtyTypes => PtyTypeOK
  <1> SUFFICES ASSUME PtyInv, PtyTypes PROVE PtyTypeOK
    OBVIOUS
  <1>1. TerminalInv /\ SocketTyped /\ jobs \in Seq(Job)
    BY DEF PtyInv, SocketInv, JobInv
  <1>2. \A s \in handles : Holds(s) /\ s \notin shut
    BY <1>1 DEF TerminalInv, Holds
  <1>3. shut \subseteq Session /\ handles \subseteq Session /\ rows \subseteq Session
    BY <1>1 DEF TerminalInv
  <1>4. \A i \in DOMAIN jobs : jobs[i] \in {"read", "write"} \X Socket
    BY <1>1 DEF Job
  <1> QED BY <1>1, <1>2, <1>3, <1>4 DEF TerminalInv, TerminalTyped, SocketTyped, PtyTypes, PtyTypeOK

-----------------------------------------------------------------------------
TypesInv == ScreenInv /\ MarkerTypes /\ PtyTypes

\* Every variable of the terminals keeps its type; no more questions are asked than a CLI has
\* printed, a cleanup leaves at most one thread behind, and no more threads wait for terminals
\* than the pool has.
THEOREM TerminalsTyped == Terminals => []TypesOK
  <1>1. TerminalsInit => TypesInv
    BY ScreenStarts, MarkerTypesStart, PtyTypesStart DEF TerminalsInit, TypesInv
  <1>2. ASSUME IInv, TypesInv, [TerminalsNext]_<<part, ilVars, mlVars, ptyVars>> PROVE TypesInv'
    <2>1. [ILNext]_ilVars /\ [MLNext]_mlVars /\ [PtyNext]_ptyVars
      BY <1>2 DEF TerminalsNext
    <2> QED BY <1>2, <2>1, ScreenKeeps, MarkerTypesKept, PtyTypesKept DEF IInv, TypesInv
  <1>3. IInv /\ TypesInv => TypesOK
    BY ScreenSaysSo, MarkerSaysSo, PtySaysSo DEF IInv, TypesInv, TypesOK
  <1> QED BY <1>1, <1>2, <1>3, Always, PTL DEF Terminals
=============================================================================
