------------------------------ MODULE ProxyLogin ------------------------------
(***************************************************************************)
(* Registering accounts with CLIProxyAPI (cliproxy/manager.py): POST       *)
(* /cliproxy/login/begin, its reaper and the capped table of states        *)
(* (routes/cliproxy.py); the proxy step of the wizard that polls it        *)
(* (AccountWizard.vue); and the antigravity login, a session of its own    *)
(* around the same process (backends/antigravity.py).                      *)
(*                                                                         *)
(* cliproxyapi is external: it may end at any time, and finishes a login   *)
(* some time after the callback it has been sent.                          *)
(*                                                                         *)
(* Abstracted: what it prints, as the outcome start_cliproxy_login draws   *)
(* from it; the checks of the callback URL; ports and addresses.           *)
(***************************************************************************)
EXTENDS Naturals, Sequences, SequencesExt, FiniteSets

CONSTANTS
  WizardLogin,   \* logins this wizard may begin
  OtherLogin,    \* logins other clients may begin
  Antigravity,   \* the login of the antigravity session
  StateMax,      \* _LOGIN_STATE_MAX
  MaxTicks,      \* bound: poll requests on their way
  NoLogin

Login == WizardLogin \cup OtherLogin \cup {Antigravity}
ASSUME LoginsAssumption ==
  /\ WizardLogin \cap OtherLogin = {} /\ Antigravity \notin WizardLogin \cup OtherLogin
  /\ NoLogin \notin Login
ASSUME CapAssumption == StateMax \in Nat \ {0} /\ MaxTicks \in Nat

VARIABLES
  running,   \* each login's cliproxyapi
  dirs,      \* temporary directories that exist
  reaping,   \* logins whose _reap() runs
  table,     \* _LOGIN_STATE: its keys, oldest first
  entryOf,   \* and its values (a timeout counts as a failure)
  screen,    \* proxyLoginStatus
  begins,    \* begin requests of the wizard without a reply
  current,   \* history: the login of its last begin
  polling,   \* the session the timer polls
  ticks,     \* replies on their way: <<session, state>>
  crossed,   \* history: the step was reset while a request was on its way
  agPc,      \* where the antigravity session is
  agProc,    \* self._proc is set
  agQueue,   \* self._answers
  agDone,    \* self._done
  agCut,     \* history: its stream was cut while the process was being started
  restarted  \* history: the server has been restarted

served == <<reaping, table, entryOf>>
wizard == <<screen, begins, current, polling, ticks, crossed>>
antigravity == <<agPc, agProc, agQueue, agDone, agCut>>
plVars == <<running, dirs, served, wizard, antigravity, restarted>>

ProxyIdle ==
  /\ dirs = {} /\ reaping = {} /\ table = <<>> /\ entryOf = [l \in Login |-> "unknown"]
  /\ screen = "idle" /\ begins = {} /\ current = NoLogin /\ polling = NoLogin /\ ticks = <<>>
  /\ crossed = FALSE
  /\ agProc = FALSE /\ agQueue = "empty" /\ agDone = FALSE /\ agCut = FALSE
  /\ restarted = FALSE

PLInit == ProxyIdle /\ running = [l \in Login |-> "unused"] /\ agPc = "unused"

Reply == {"error", "imported", "started"}     \* "skipped" is shown as an error is
Becomes(l, s) == running' = [running EXCEPT ![l] = s]
Alive(l) == running[l] \in {"starting", "open", "granted"}
FlowEnded(l) == running[l] \in {"ok", "bad"}

-----------------------------------------------------------------------------
\* cliproxyapi: the user signs in elsewhere; the login is then finished, or not.

SignsIn(l) ==
  /\ running[l] = "open" /\ Becomes(l, "granted")
  /\ UNCHANGED <<dirs, served, wizard, antigravity, restarted>>
FinishesLogin(l) ==
  /\ running[l] = "granted" /\ Becomes(l, "ok")
  /\ UNCHANGED <<dirs, served, wizard, antigravity, restarted>>
GivesUp(l) ==
  /\ running[l] \in {"open", "granted"} /\ Becomes(l, "bad")
  /\ UNCHANGED <<dirs, served, wizard, antigravity, restarted>>

\* stop_cliproxy_server: pkill -f finds the logins too.
ServerStops ==
  /\ running' = [l \in Login |-> IF Alive(l) THEN "bad" ELSE running[l]]
  /\ running' # running
  /\ UNCHANGED <<dirs, served, wizard, antigravity, restarted>>

-----------------------------------------------------------------------------
\* _record_login_state().

\* At the cap the oldest entry goes, for an entry that is only updated as well.
MakesRoom(t) == IF Len(t) >= StateMax THEN Tail(t) ELSE t
BugRecord(l, s) == table' = Append(MakesRoom(table), l) /\ entryOf' = [entryOf EXCEPT ![l] = s]
Record(l, s) ==
  LET t == MakesRoom(table) IN
  /\ table' = IF Contains(t, l) THEN t ELSE Append(t, l)
  /\ entryOf' = [entryOf EXCEPT ![l] = s]
StateOf(l) == IF Contains(table, l) THEN entryOf[l] ELSE "unknown"

\* start_cliproxy_login: the process and its directory.
Spawns(l) == running[l] = "unused" /\ Becomes(l, "starting") /\ dirs' = dirs \cup {l}

\* It returns at the latest after ten seconds: with a URL, or without a process.
Launched(l, reply) ==
  /\ running[l] \in {"starting", "bad"}
  /\ dirs' = IF reply = "started" THEN dirs ELSE dirs \ {l}
  /\ Becomes(l, IF reply = "imported" THEN "ok"
                ELSE IF reply = "started" /\ Alive(l) THEN "open" ELSE "bad")

\* POST /login/begin: the reaper is started with the entry.
Registers(l, reply) ==
  /\ Launched(l, reply)
  /\ IF reply = "started" THEN Record(l, "running") /\ reaping' = reaping \cup {l}
                          ELSE UNCHANGED served

\* _reap(): five minutes at most, then the state, then the directory.
Reaped(l, s) ==
  /\ l \in reaping /\ Record(l, s) /\ reaping' = reaping \ {l} /\ dirs' = dirs \ {l}
  /\ UNCHANGED <<wizard, antigravity, restarted>>
ReapEnded(l) ==
  FlowEnded(l) /\ Reaped(l, IF running[l] = "ok" THEN "completed" ELSE "failed") /\ UNCHANGED running
ReapTimeout(l) == Alive(l) /\ Reaped(l, "failed") /\ Becomes(l, "bad")

\* Another client registers an account.
OtherBegins(l) ==
  /\ l \in OtherLogin /\ running[l] = "unused" /\ Becomes(l, "open") /\ dirs' = dirs \cup {l}
  /\ Record(l, "running") /\ reaping' = reaping \cup {l}
  /\ UNCHANGED <<wizard, antigravity, restarted>>

-----------------------------------------------------------------------------
\* The proxy step of the wizard.

RunProxyLogin(l) ==
  /\ l \in WizardLogin /\ screen = "idle" /\ Spawns(l)
  /\ screen' = "running" /\ begins' = begins \cup {l} /\ current' = l
  /\ UNCHANGED <<served, polling, ticks, crossed, antigravity, restarted>>

\* The reply, whatever the wizard shows by now: a timer polls a started login.
BeginReplied(l, reply) ==
  /\ l \in begins /\ begins' = begins \ {l} /\ Registers(l, reply)
  /\ IF reply = "started"
     THEN screen' = "device_auth" /\ polling' = l
     ELSE screen' = (IF reply = "imported" THEN "success" ELSE reply) /\ UNCHANGED polling
  /\ UNCHANGED <<current, ticks, crossed, antigravity, restarted>>

BeginFails(l) ==
  /\ l \in begins /\ restarted /\ begins' = begins \ {l} /\ screen' = "error"
  /\ UNCHANGED <<running, dirs, served, current, polling, ticks, crossed, antigravity, restarted>>

\* submitProxyCallback: cliproxyapi has taken the callback.  The timer goes on.
CallbackTaken ==
  /\ screen = "device_auth" /\ polling # NoLogin /\ running[polling] = "open"
  /\ Becomes(polling, "granted") /\ screen' = "success"
  /\ UNCHANGED <<dirs, served, begins, current, polling, ticks, crossed, antigravity, restarted>>

Decided(s) == s \in {"completed", "failed"}

\* Every two seconds, whether or not the last request has been answered; "running" and
\* "unknown" change nothing.
Tick ==
  /\ polling # NoLogin /\ Len(ticks) < MaxTicks /\ Decided(StateOf(polling))
  /\ ticks' = Append(ticks, <<polling, StateOf(polling)>>)
  /\ UNCHANGED <<running, dirs, served, screen, begins, current, polling, crossed, antigravity, restarted>>
Polled(i) ==
  /\ ticks' = RemoveAt(ticks, i) /\ polling' = NoLogin
  /\ screen' = IF ticks[i][2] = "completed" THEN "success" ELSE "error"
  /\ UNCHANGED <<running, dirs, served, begins, current, crossed, antigravity, restarted>>

\* resetProxyLogin: Retry, or addAnotherAccount from anywhere.
Resets ==
  /\ screen # "idle" /\ screen' = "idle"
  /\ crossed' = (crossed \/ begins # {} \/ ticks # <<>>)
  /\ UNCHANGED <<running, dirs, served, begins, current, ticks, antigravity, restarted>>
Reset == Resets /\ polling' = NoLogin

-----------------------------------------------------------------------------
\* The antigravity session: events(), respond(), cancel().

AgGoes(p) == agPc' = p
AgStarts ==
  /\ agPc = "unused" /\ AgGoes("starting") /\ Spawns(Antigravity)
  /\ UNCHANGED <<served, wizard, agProc, agQueue, agDone, agCut, restarted>>

AgStarted(reply) ==
  /\ agPc = "starting" /\ Launched(Antigravity, reply)
  /\ agProc' = (reply = "started") /\ agDone' = (agDone \/ reply # "started")
  /\ AgGoes(IF reply = "started" THEN "asked" ELSE "told")
  /\ UNCHANGED <<served, wizard, agQueue, agCut, restarted>>

AgRespond ==
  /\ agPc = "asked" /\ ~agDone /\ agQueue = "empty" /\ agQueue' = "url"
  /\ UNCHANGED <<running, dirs, served, wizard, agPc, agProc, agDone, agCut, restarted>>

\* The callback is forwarded; or the session was cancelled, or nobody answered.
AgAnswered ==
  /\ agPc = "asked" /\ AgGoes("told") /\ agDone' = TRUE /\ agQueue' = "empty"
  /\ \/ agQueue = "url" /\ running[Antigravity] = "open" /\ Becomes(Antigravity, "granted")
     \/ UNCHANGED running
  /\ UNCHANGED <<dirs, served, wizard, agProc, agCut, restarted>>

\* The client goes away, or has been told everything.  A task that is cancelled in
\* start_cliproxy_login takes the process with it.
AgStreamEnds ==
  /\ agPc \in {"starting", "asked", "told"} /\ AgGoes("ending")
  /\ agCut' = (agPc = "starting")
  /\ IF agPc = "starting" /\ Alive(Antigravity) THEN Becomes(Antigravity, "open")
                                                ELSE UNCHANGED running
  /\ UNCHANGED <<dirs, served, wizard, agProc, agQueue, agDone, restarted>>

\* cancel(): the sentinel, if it fits, and the process, if it is known.
AgKills ==
  /\ agDone' = TRUE /\ agQueue' = IF agQueue = "empty" THEN "cancel" ELSE agQueue
  /\ IF agProc /\ Alive(Antigravity) THEN Becomes(Antigravity, "bad") ELSE UNCHANGED running
  /\ dirs' = IF agProc THEN dirs \ {Antigravity} ELSE dirs
  /\ UNCHANGED <<served, wizard, agProc, agCut, restarted>>
AgCancel == agPc \in {"starting", "asked", "told"} /\ AgKills /\ UNCHANGED agPc
BugAgEnds ==                        \* gen() does not cancel a session that is done
  /\ agPc = "ending" /\ AgGoes("over")
  /\ IF agDone THEN UNCHANGED <<running, dirs, served, wizard, agProc, agQueue, agDone, agCut, restarted>>
               ELSE AgKills
AgEnds == agPc = "ending" /\ AgGoes("over") /\ AgKills

\* The server is restarted; cliproxyapi is not told.
Restart ==
  /\ ~restarted /\ restarted' = TRUE /\ reaping' = {} /\ table' = <<>>
  /\ entryOf' = [l \in Login |-> "unknown"]
  /\ agPc' = (IF agPc = "unused" THEN agPc ELSE "over")
  /\ UNCHANGED <<running, dirs, wizard, agProc, agQueue, agDone, agCut>>

-----------------------------------------------------------------------------
PLNext ==
  \/ \E l \in Login :
       \/ SignsIn(l) \/ FinishesLogin(l) \/ GivesUp(l) \/ ReapEnded(l) \/ ReapTimeout(l)
       \/ OtherBegins(l) \/ RunProxyLogin(l) \/ BeginFails(l)
       \/ \E reply \in Reply : BeginReplied(l, reply)
  \/ ServerStops \/ CallbackTaken \/ Tick \/ (\E i \in DOMAIN ticks : Polled(i)) \/ Reset
  \/ AgStarts \/ (\E reply \in Reply : AgStarted(reply)) \/ AgRespond \/ AgAnswered
  \/ AgStreamEnds \/ AgCancel \/ AgEnds \/ Restart

\* The server's tasks and timers run, the poll timer ticks, replies arrive, and the
\* stream of a session ends once it is told (five minutes after it asked).
PLFairness ==
  /\ \A l \in WizardLogin \cup OtherLogin : WF_plVars(ReapEnded(l) \/ ReapTimeout(l))
  /\ \A l \in WizardLogin : WF_plVars(\E reply \in Reply : BeginReplied(l, reply))
  /\ WF_plVars(Tick) /\ WF_plVars(\E i \in DOMAIN ticks : Polled(i))
  /\ WF_plVars(\E reply \in Reply : AgStarted(reply)) /\ WF_plVars(AgAnswered)
  /\ WF_plVars(agPc = "told" /\ AgStreamEnds) /\ WF_plVars(AgEnds)

-----------------------------------------------------------------------------
\* Every variable has its type; the table has no key twice and never exceeds its cap.
PLTypeOK ==
  /\ running \in [Login -> {"unused", "starting", "open", "granted", "ok", "bad"}]
  /\ dirs \subseteq Login /\ reaping \subseteq Login
  /\ table \in Seq(Login) /\ Len(table) <= StateMax /\ IsInjective(table)
  /\ entryOf \in [Login -> {"unknown", "running", "completed", "failed"}]
  /\ screen \in {"idle", "running", "device_auth", "success", "error"}
  /\ begins \subseteq WizardLogin /\ current \in Login \cup {NoLogin}
  /\ polling \in WizardLogin \cup {NoLogin} /\ crossed \in BOOLEAN /\ restarted \in BOOLEAN
  /\ \A i \in DOMAIN ticks : ticks[i] \in WizardLogin \X {"completed", "failed"}
  /\ agPc \in {"unused", "starting", "asked", "told", "ending", "over"}
  /\ agProc \in BOOLEAN /\ agQueue \in {"empty", "url", "cancel"} /\ agDone \in BOOLEAN /\ agCut \in BOOLEAN

Registered == {l \in Login : entryOf[l] # "unknown"}
Crowded == Cardinality(Registered) >= StateMax

\* As long as fewer logins than the cap have been registered, the server knows each
\* of them, and one it calls running has a reaper that will say otherwise.
EntriesAreTrue ==
  ~restarted =>
    /\ ~Crowded => \A l \in Registered : StateOf(l) # "unknown"
    /\ \A l \in Login : StateOf(l) = "running" => l \in reaping

\* The antigravity session leaves no process and no directory behind, in whatever order
\* POST /cancel, its stream and its start come, unless its stream was cut in the start.
AgLeavesNothing ==
  agPc = "over" /\ ~agCut /\ ~restarted => ~Alive(Antigravity) /\ Antigravity \notin dirs

\* What the step shows as its end is the end of the login it shows, unless it was
\* reset while a request was on its way.
ShownIsOwn ==
  ~crossed /\ ~restarted =>
    /\ screen = "success" => running[current] # "starting"
    /\ screen = "error" => ~Alive(current)

\* A poll comes to its end, with the login's or when the reaper kills it, while the
\* table has room and the server lives.
PollEnds == polling # NoLogin ~> polling = NoLogin \/ restarted \/ Crowded

\* No temporary directory stays, unless its server or its session was cut off.
DirsGo == <>[](dirs = {} \/ restarted \/ agCut)

\* What routes, session and wizard say of a login, and keep of it, is true of its process.
ProxyIsTrue == EntriesAreTrue /\ AgLeavesNothing /\ ShownIsOwn

\* Polls and temporary directories come to an end.
ProxyEnds == PollEnds /\ DirsGo
=============================================================================
