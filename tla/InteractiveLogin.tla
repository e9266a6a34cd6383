--------------------------- MODULE InteractiveLogin ---------------------------
(***************************************************************************)
(* run_interactive_cli_login (login/interactive.py): the loop that reads   *)
(* the screen of a login CLI through a PTY, asks the user what the CLI     *)
(* asks, sends the login command, and decides how the login ended; with    *)
(* write_eager of backends/claude.py, which types a pasted code past it.   *)
(*                                                                         *)
(* The CLI is external: it may print anything, draw a spinner for ever,    *)
(* ask without printing a prompt, fall silent, or exit.                    *)
(*                                                                         *)
(* Abstracted: texts, as the kind of screen a chunk is recognised as; the  *)
(* clocks, as how long it has been quiet (idle) and whether the URL wait   *)
(* has run out (late); the session around the loop (module LoginFlow).     *)
(***************************************************************************)
EXTENDS Naturals, Sequences

CONSTANTS
  MaxWords,  \* bound: chunks of the CLI that are not its spinner
  MaxOut,    \* bound: chunks on their way
  MaxPastes  \* bound: pasted codes
ASSUME WordAssumption == MaxWords \in Nat /\ MaxOut \in Nat /\ MaxPastes \in Nat

Word == {"menu", "prompt", "url", "success", "error"}
Chunk == Word \cup {"spinner", "eof"}

VARIABLES
  wants,        \* CLI: what it waits for
  typed,        \* CLI: codes typed before it wanted one
  words,        \* CLI: chunks it has printed that are not its spinner
  printed,      \* chunks the loop has not read
  captured,     \* the fake browser has written down a URL
  enters,       \* follow-up Enters to come
  at,           \* where the loop is
  recent,       \* what recent_lines holds
  commandSent,  \* action_sent
  urlSeen,      \* url_already_emitted
  succeeded,    \* login_success_seen
  eager,        \* eager_state.sent
  idle,         \* quiet for: 0 no, 1 one slice, 2 the REPL trigger, 3 two minutes
  late,         \* the URL wait has run out
  open,         \* the user sees a question
  replies,      \* answers in the queue
  pastes,       \* history: codes pasted
  why           \* history: what ended the loop

cliVars == <<wants, typed, words, captured>>
clocks == <<idle, late>>
flags == <<commandSent, urlSeen, succeeded, eager>>
user == <<open, replies, pastes>>
ilVars == <<cliVars, printed, enters, at, recent, flags, clocks, user, why>>

LongIdle == 3

NothingOnScreen ==
  /\ wants = "nothing" /\ typed = 0 /\ words = 0 /\ captured = FALSE /\ printed = <<>>
  /\ enters = 0 /\ recent = {}
  /\ urlSeen = FALSE /\ succeeded = FALSE /\ eager = FALSE /\ idle = 0 /\ late = FALSE
  /\ open = FALSE /\ replies = 0 /\ pastes = 0 /\ why = "none"

\* Some CLIs need no command.
ILInit == NothingOnScreen /\ at = "read" /\ commandSent \in BOOLEAN

-----------------------------------------------------------------------------
\* The CLI.

Running == at # "over" /\ (IF printed = <<>> THEN TRUE ELSE printed[Len(printed)] # "eof")
Prints(c) == Running /\ Len(printed) < MaxOut /\ printed' = Append(printed, c)
LoopAlone == UNCHANGED <<enters, at, recent, flags, clocks, user, why>>

\* A menu or a prompt waits, unless the code it asks for has been typed already.
Screen(c) ==
  /\ words < MaxWords /\ words' = words + 1 /\ Prints(c) /\ wants = "nothing"
  /\ wants' = CASE c = "menu" -> "menu" [] c = "prompt" /\ typed = 0 -> "code" [] OTHER -> wants
  /\ typed' = IF c = "prompt" /\ typed > 0 THEN typed - 1 ELSE typed
  /\ UNCHANGED captured /\ LoopAlone

Spinner == Prints("spinner") /\ UNCHANGED cliVars /\ LoopAlone
CliExits == Prints("eof") /\ UNCHANGED cliVars /\ LoopAlone
OpensBrowser ==
  Running /\ captured' = TRUE /\ UNCHANGED <<wants, typed, words, printed>> /\ LoopAlone
\* It takes the code without ever printing a prompt.
ReadsCode ==
  /\ Running /\ wants = "nothing" /\ typed > 0 /\ typed' = typed - 1
  /\ UNCHANGED <<wants, words, captured, printed>> /\ LoopAlone

\* What is written to the PTY.  Enter takes the highlighted option of a menu.
PickWritten == wants' = (IF wants = "menu" THEN "nothing" ELSE wants) /\ UNCHANGED typed
CodeWritten ==
  /\ wants' = "nothing" /\ typed' = IF wants = "nothing" THEN typed + 1 ELSE typed
CommandWritten == wants' = "nothing" /\ UNCHANGED typed

\* _poke_tui_after_paste, _followup_enter: five seconds after a code.
FollowUpEnter ==
  /\ enters > 0 /\ enters' = enters - 1 /\ (IF Running THEN PickWritten ELSE UNCHANGED <<wants, typed>>)
  /\ UNCHANGED <<words, captured, printed, at, recent, flags, clocks, user, why>>

-----------------------------------------------------------------------------
\* The loop.

LoopOver(w) == at' = "over" /\ why' = w
Refreshed == recent' = {} /\ idle' = 0 /\ late' = FALSE

BugExpired == commandSent /\ ~urlSeen /\ ~captured /\ late   \* Expired: after success too
BugSwallow(c) == c = "prompt"                           \* Swallow: every prompt

\* The URL-wait watchdog, checked in every iteration after the captured URL.
Expired == commandSent /\ ~urlSeen /\ ~captured /\ ~succeeded /\ late

\* Two quiet minutes after the URL.
Stalled == (urlSeen \/ captured) /\ ~succeeded /\ idle' = LongIdle

\* recent_lines; a long enough output pushes a menu out of it.
Seen(c) ==
  /\ \/ recent' = recent \cup (IF c = "menu" THEN {"menu"} ELSE {"line"})
     \/ c = "spinner" /\ recent' = {"line"}
  /\ UNCHANGED late

\* The eager flag answers one prompt.
Swallow(c) == c = "prompt" /\ eager

UrlWaitOver ==
  /\ at = "read" /\ Expired /\ LoopOver("watchdog") /\ printed' = IF printed = <<>> THEN <<>> ELSE Tail(printed)
  /\ UNCHANGED <<cliVars, enters, recent, flags, clocks, user>>

ReadChunk ==
  /\ at = "read" /\ ~Expired /\ printed # <<>> /\ Head(printed) # "eof"
  /\ LET c == Head(printed) IN
     /\ printed' = Tail(printed) /\ idle' = 0 /\ Seen(c)
     /\ urlSeen' = (urlSeen \/ captured \/ c = "url") /\ succeeded' = (succeeded \/ c = "success")
     /\ IF c = "error" THEN LoopOver("error") /\ eager' = FALSE /\ UNCHANGED open
        ELSE /\ UNCHANGED why
             /\ IF Swallow(c) THEN eager' = FALSE /\ UNCHANGED <<at, open>>
                ELSE IF c = "prompt" THEN at' = "text" /\ open' = TRUE /\ UNCHANGED eager
                ELSE UNCHANGED <<at, open, eager>>
  /\ UNCHANGED <<cliVars, enters, commandSent, replies, pastes>>

EndOfOutput ==
  /\ at = "read" /\ printed # <<>> /\ Head(printed) = "eof"
  /\ LoopOver(IF succeeded THEN "complete" ELSE "eof") /\ printed' = <<>>
  /\ UNCHANGED <<cliVars, enters, recent, flags, clocks, user>>

\* A slice without output: a menu is asked, else the command is sent, else a watchdog
\* or the grace period after a success may end the login.
IdleTick ==
  /\ at = "read" /\ ~Expired /\ printed = <<>>
  /\ urlSeen' = (urlSeen \/ captured)
  /\ LET quiet == IF idle < LongIdle THEN idle + 1 ELSE LongIdle
         command == "menu" \notin recent /\ ~commandSent /\ recent # {} /\ quiet >= 2
     IN
     /\ commandSent' = (commandSent \/ command)
     /\ idle' = IF command THEN 0 ELSE quiet
     /\ late' = (late /\ ~command)
     /\ IF command THEN CommandWritten ELSE UNCHANGED <<wants, typed>>
     /\ \/ "menu" \in recent /\ at' = "menu" /\ open' = TRUE /\ UNCHANGED why
        \/ /\ "menu" \notin recent /\ UNCHANGED open
           /\ \/ Stalled /\ LoopOver("watchdog")
              \/ succeeded /\ ~command /\ LoopOver("complete")
              \/ ~Stalled /\ (command \/ ~succeeded \/ quiet < 2) /\ UNCHANGED <<at, why>>
  /\ UNCHANGED <<words, captured, printed, enters, recent, succeeded, eager, replies, pastes>>

MenuAnswered ==
  /\ at = "menu" /\ replies > 0 /\ replies' = replies - 1 /\ PickWritten
  /\ at' = "read" /\ Refreshed
  /\ UNCHANGED <<words, captured, printed, enters, flags, open, pastes, why>>

\* The structured answer, or the code was pasted meanwhile.
TextAnswered ==
  /\ at = "text" /\ at' = "read" /\ Refreshed
  /\ \/ eager /\ eager' = FALSE /\ UNCHANGED <<wants, typed, enters, replies>>
     \/ ~eager /\ replies > 0 /\ replies' = replies - 1 /\ CodeWritten /\ enters' = enters + 1
        /\ UNCHANGED eager
  /\ UNCHANGED <<words, captured, printed, commandSent, urlSeen, succeeded, open, pastes, why>>

NobodyAnswers ==
  /\ at \in {"menu", "text"} /\ LoopOver("timeout")
  /\ UNCHANGED <<cliVars, printed, enters, recent, flags, clocks, user>>

-----------------------------------------------------------------------------
\* The user: respond() once for what is shown; write_eager() at any time, where the
\* flag is set before the write, which may fail.
AnswersQuestion ==
  /\ open /\ at # "over" /\ open' = FALSE /\ replies' = replies + 1
  /\ UNCHANGED <<cliVars, printed, enters, at, recent, flags, clocks, pastes, why>>

PastesCode ==
  /\ at # "over" /\ pastes < MaxPastes /\ pastes' = pastes + 1 /\ eager' = TRUE
  /\ \/ CodeWritten /\ enters' = enters + 1
     \/ UNCHANGED <<wants, typed, enters>>
  /\ UNCHANGED <<words, captured, printed, at, recent, commandSent, urlSeen, succeeded, clocks,
                 open, replies, why>>

TimePasses ==
  /\ at # "over" /\ late' = TRUE
  /\ UNCHANGED <<cliVars, printed, enters, at, recent, flags, idle, user, why>>

-----------------------------------------------------------------------------
Iterate == UrlWaitOver \/ ReadChunk \/ EndOfOutput \/ IdleTick \/ MenuAnswered \/ TextAnswered

ILNext ==
  \/ Iterate \/ NobodyAnswers \/ TimePasses \/ FollowUpEnter
  \/ \E c \in Word : Screen(c)
  \/ Spinner \/ CliExits \/ OpensBrowser \/ ReadsCode
  \/ AnswersQuestion \/ PastesCode

\* The loop runs and the clocks do; nothing is asked of the CLI or of the user.
ILFairness ==
  WF_ilVars(Iterate) /\ WF_ilVars(NobodyAnswers) /\ WF_ilVars(TimePasses)

-----------------------------------------------------------------------------
\* Every variable has its type; recent_lines knows menus and other lines.
ILTypeOK ==
  /\ wants \in {"nothing", "menu", "code"} /\ typed \in 0..(MaxWords + MaxPastes)
  /\ words \in 0..MaxWords /\ \A i \in DOMAIN printed : printed[i] \in Chunk
  /\ captured \in BOOLEAN /\ commandSent \in BOOLEAN /\ urlSeen \in BOOLEAN
  /\ succeeded \in BOOLEAN /\ eager \in BOOLEAN /\ late \in BOOLEAN /\ open \in BOOLEAN
  /\ at \in {"read", "menu", "text", "over"} /\ recent \subseteq {"menu", "line"}
  /\ idle \in 0..LongIdle /\ replies \in 0..MaxWords /\ pastes \in 0..MaxPastes
  /\ why \in {"none", "watchdog", "error", "eof", "timeout", "complete"}

\* A login the CLI has reported as successful is not failed by a watchdog or by the
\* end of the CLI, however long the redraws after it take.
SuccessIsKept == why \in {"watchdog", "eof"} => ~succeeded

\* Without pasted codes, a CLI that waits for text has its prompt put to the user, or
\* stops waiting, or the login ends: none is missed behind a spinner.
QuestionHeard == wants = "code" ~> (wants # "code" \/ at \in {"text", "over"} \/ pastes > 0)

\* A CLI that has fallen silent after the login command does not hold the login for
\* ever: a watchdog, a deadline or the grace period ends it.
SilenceEnds == <>[](printed = <<>> /\ commandSent) => <>(at = "over")
=============================================================================
