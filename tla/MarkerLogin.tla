----------------------------- MODULE MarkerLogin -----------------------------
(***************************************************************************)
(* The login sessions that watch a CLI for markers and take no answers:    *)
(* codex login, with or without --device-auth, and opencode auth login     *)
(* (backends/codex.py, backends/opencode.py), with the end of their        *)
(* process: SIGTERM, ten seconds, SIGKILL (login/cli_orchestrator.py).     *)
(*                                                                         *)
(* Three tasks clean up the one process: the finally clause of events(),   *)
(* the finally clause of the stream around it, and POST /cancel.  A wait() *)
(* that has timed out leaves its thread in waitpid.                        *)
(*                                                                         *)
(* Abstracted: texts, as the set of things a chunk shows; a task cancelled *)
(* while it cleans up, and the registry (module LoginFlow).                *)
(***************************************************************************)
EXTENDS Naturals, Sequences, FiniteSets

CONSTANT MaxPieces  \* bound: chunks the CLI prints
ASSUME PieceAssumption == MaxPieces \in Nat

Token == {"url", "code", "success", "failure"}
Cleaner == {"events", "finally", "request"}

VARIABLES
  device,    \* the flow is oauth_device
  pieces,    \* chunks printed so far
  unread,    \* chunks the session has not read
  buffer,    \* what the text kept so far shows
  prompted,  \* the UrlPrompt has been sent
  success,   \* the session's flag
  heard,     \* history: what the chunks read have shown
  child,     \* the CLI
  pid,       \* _pid is set
  orphans,   \* threads in waitpid that no task waits for
  killed,    \* SIGKILL has been sent
  holder,    \* who holds _cleanup_lock
  step,      \* where each cleaner is
  dropped,   \* the client has gone away
  sdone,     \* session._done
  told,      \* how events() ended
  strayed    \* history: a signal went to a pid that had been reaped

reading == <<device, pieces, unread, buffer, prompted, success, heard>>
ending == <<child, pid, orphans, killed, holder, step, sdone, told, strayed>>
mlVars == <<reading, ending, dropped>>

Nothing == "nobody"

NothingRead ==
  /\ device \in BOOLEAN /\ pieces = 0 /\ unread = <<>> /\ buffer = {} /\ prompted = FALSE
  /\ success = FALSE /\ heard = {} /\ orphans = 0 /\ killed = FALSE /\ holder = Nothing
  /\ dropped = FALSE /\ told = "nothing" /\ strayed = FALSE

MLInit ==
  /\ NothingRead /\ child = "running" /\ pid = TRUE /\ sdone = FALSE
  /\ step = [c \in Cleaner |-> IF c = "events" THEN "reading" ELSE "idle"]

Moves(c, s) == step' = [step EXCEPT ![c] = s]

-----------------------------------------------------------------------------
\* The CLI prints, while its terminal is open, and ends when it likes; SIGTERM may
\* not impress it.

CliPrints(t) ==
  /\ child = "running" /\ step["events"] = "reading" /\ pieces < MaxPieces
  /\ pieces' = pieces + 1 /\ unread' = Append(unread, t)
  /\ UNCHANGED <<device, buffer, prompted, success, heard, ending, dropped>>

CliEnds ==
  /\ child = "running" /\ child' = "exited"
  /\ UNCHANGED <<reading, pid, orphans, killed, holder, step, sdone, told, strayed, dropped>>

-----------------------------------------------------------------------------
\* events(): reading until a marker, the end of the output, or a disconnect.


\* The device flow searches a buffer, the browser flows each chunk.
Kept(t) == IF device THEN buffer \cup t ELSE t
Needed == IF device THEN {"url", "code"} ELSE {"url"}
Succeeds(t) == "success" \in t

ReadPiece ==
  /\ step["events"] = "reading" /\ unread # <<>>
  /\ LET t == Head(unread) IN
     /\ unread' = Tail(unread) /\ buffer' = Kept(t)
     /\ prompted' = (prompted \/ Needed \subseteq Kept(t))
     /\ success' = Succeeds(t) /\ heard' = heard \cup t
     /\ IF {"success", "failure"} \cap t # {} THEN Moves("events", "enter") ELSE UNCHANGED step
  /\ UNCHANGED <<device, pieces, child, pid, orphans, killed, holder, sdone, told, strayed, dropped>>

\* The CLI has ended, or a cleanup has closed its terminal.
OutputEnds ==
  /\ step["events"] = "reading" /\ unread = <<>>
  /\ child # "running" \/ \E c \in Cleaner \ {"events"} : step[c] \in {"waiting", "killed", "over"}
  /\ Moves("events", "enter")
  /\ UNCHANGED <<reading, child, pid, orphans, killed, holder, sdone, told, strayed, dropped>>

Disconnects ==
  /\ step["events"] = "reading" /\ dropped' = TRUE /\ Moves("events", "enter")
  /\ UNCHANGED <<reading, child, pid, orphans, killed, holder, sdone, told, strayed>>

\* POST /cancel; and gen() after events().
Begins(c) ==
  /\ step[c] = "idle" /\ (c = "finally" => step["events"] = "over")
  /\ Moves(c, "enter")
  /\ UNCHANGED <<reading, child, pid, orphans, killed, holder, sdone, told, strayed, dropped>>

-----------------------------------------------------------------------------
\* _cleanup().

\* It has returned: _done is set, and events() says how the login went.
Verdict(c) ==
  IF c # "events" \/ dropped THEN told ELSE IF success THEN "complete" ELSE "failed"
Cleaned(c) == Moves(c, "over") /\ sdone' = TRUE /\ told' = Verdict(c)

\* It has raised: what follows it is skipped, _done included.
Raised(c) ==
  /\ Moves(c, "over") /\ told' = (IF c = "events" THEN "raised" ELSE told) /\ UNCHANGED sdone


\* terminate(), with the lock; wait() has nothing to wait for without a pid.
Signals(c) ==
  /\ step[c] = "enter"
  /\ \/ ~pid /\ Cleaned(c) /\ UNCHANGED <<holder, strayed>>
     \/ /\ pid /\ holder' = c /\ Moves(c, "waiting")
        /\ strayed' = (strayed \/ child = "reaped") /\ UNCHANGED <<sdone, told>>
  /\ UNCHANGED <<reading, child, pid, orphans, killed, dropped>>
BugEnters(c) == Signals(c)                          \* without the lock
Enters(c) == holder = Nothing /\ Signals(c)

\* wait_for() gives up on wait(), not on its thread; SIGKILL, and wait() again.
OutOfTime(c) ==
  /\ step[c] = "waiting" /\ child # "reaped"
  /\ orphans' = orphans + 1 /\ Moves(c, "killed")
  /\ UNCHANGED <<reading, child, pid, holder, sdone, told, strayed, dropped>>
TimesOut(c) == OutOfTime(c) /\ killed' = TRUE

\* The task's own thread gets the status.
Status(c) ==
  /\ step[c] \in {"waiting", "killed"} /\ child = "exited"
  /\ child' = "reaped" /\ holder' = Nothing /\ Cleaned(c)
  /\ UNCHANGED <<reading, orphans, killed, strayed, dropped>>
Reaps(c) == Status(c) /\ pid' = FALSE

\* Another thread gets it, and waitpid() raises in the task: the handler of the first
\* wait() takes that, the second wait() is inside a handler itself.
OrphanReaps ==
  /\ orphans > 0 /\ child = "exited" /\ child' = "reaped" /\ orphans' = orphans - 1
  /\ UNCHANGED <<reading, pid, killed, holder, step, sdone, told, strayed, dropped>>

NoChild(c) ==
  /\ step[c] \in {"waiting", "killed"} /\ child = "reaped" /\ holder' = Nothing
  /\ IF step[c] = "killed" THEN Raised(c) ELSE Cleaned(c)
  /\ UNCHANGED <<reading, child, pid, orphans, killed, strayed, dropped>>

-----------------------------------------------------------------------------
MarkerCleans(c) == Begins(c) \/ Enters(c) \/ TimesOut(c) \/ Reaps(c) \/ NoChild(c)
MLNext ==
  \/ \E t \in SUBSET Token : CliPrints(t)
  \/ CliEnds \/ ReadPiece \/ OutputEnds \/ Disconnects \/ OrphanReaps
  \/ \E c \in Cleaner : MarkerCleans(c)

\* The event loop and the timer run, and SIGKILL ends the process; POST /cancel need
\* not come.
MLFairness ==
  /\ WF_mlVars(ReadPiece) /\ WF_mlVars(OutputEnds) /\ WF_mlVars(killed /\ CliEnds)
  /\ WF_mlVars(Begins("finally"))
  /\ \A c \in Cleaner : WF_mlVars(Enters(c)) /\ WF_mlVars(TimesOut(c) \/ Reaps(c) \/ NoChild(c))

-----------------------------------------------------------------------------
\* Every variable has its type; who waits holds the lock, and nobody else does.
MLTypeOK ==
  /\ device \in BOOLEAN /\ pieces \in 0..MaxPieces /\ unread \in Seq(SUBSET Token)
  /\ buffer \subseteq Token /\ prompted \in BOOLEAN /\ success \in BOOLEAN /\ heard \subseteq Token
  /\ child \in {"running", "exited", "reaped"} /\ pid \in BOOLEAN /\ killed \in BOOLEAN
  /\ orphans \in 0..Cardinality(Cleaner) /\ holder \in Cleaner \cup {Nothing}
  /\ step \in [Cleaner -> {"idle", "reading", "enter", "waiting", "killed", "over"}]
  /\ \A c \in Cleaner : step[c] \in {"waiting", "killed"} <=> holder = c
  /\ dropped \in BOOLEAN /\ sdone \in BOOLEAN /\ strayed \in BOOLEAN
  /\ told \in {"nothing", "complete", "failed", "raised"}

\* A login whose success marker was read ends as complete, whatever else its last
\* chunk says and whoever else cleans up at the time; only a CLI that outlives SIGTERM
\* by ten seconds may turn it into an exception.
SuccessIsTold ==
  "success" \in heard /\ told # "nothing" => told = "complete" \/ (told = "raised" /\ killed)

\* The end of a login is told when its process has ended and has been reaped.
EndedBeforeTold == told \in {"complete", "failed"} => child = "reaped"

\* Cleanups of the same process do not signal a pid that has been reaped, unless a
\* thread was left in waitpid.
StrayOnlyAfterKill == strayed => killed

\* The device flow shows the user the URL and the code once both are in what it has
\* read, in whichever chunks they came.
DeviceIsShown == device /\ {"url", "code"} \subseteq heard => prompted

\* Once a stream, a cancel or the CLI has ended it, the session is done.
MarkerEnds ==
  (child # "running" \/ \E c \in Cleaner : step[c] \in {"enter", "waiting"}) ~> sdone

\* A marker login is told as it went, and cleaned up once.
MarkerIsTrue == SuccessIsTold /\ EndedBeforeTold /\ StrayOnlyAfterKill /\ DeviceIsShown
=============================================================================
