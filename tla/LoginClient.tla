----------------------------- MODULE LoginClient -----------------------------
(***************************************************************************)
(* useLoginSession.ts: one set of refs for every login its component       *)
(* starts, and the loops over event streams that write them (AccountWizard *)
(* and AccountReauth reuse one instance for login after login).            *)
(*                                                                         *)
(* Abstracted: the server (module LoginFlow), which asks questions until a *)
(* session completes, fails, is cancelled or swept; output lines, and the  *)
(* account, which all logins share.                                        *)
(***************************************************************************)
EXTENDS Naturals, Sequences

CONSTANTS
  Login,       \* calls of start(), and the sessions they begin
  MaxPrompts,  \* bound: questions of one session
  NoLogin
ASSUME LoginAssumption == NoLogin \notin Login
ASSUME PromptAssumption == MaxPrompts \in Nat

VARIABLES
  status,     \* the refs of the composable
  current,    \* sessionId
  question,   \* textPrompt, menuPrompt: the session whose question is shown
  loop,       \* where each start() is
  server,     \* each session at the server
  asked,      \* questions it has asked
  pipe,       \* events on their way to the loop
  latest,     \* history: the last start()
  cause,      \* history: the start() that set the final status shown
  answers,    \* history: <<session asked by, session answered>>
  abandoned        \* history: a login was given up before its loop had ended

refs == <<status, current, question>>
loginHistory == <<latest, cause, answers, abandoned>>
loginClientVars == <<refs, loop, server, asked, pipe, loginHistory>>

LoginClientInit ==
  /\ status = "idle" /\ current = NoLogin /\ question = NoLogin
  /\ loop = [r \in Login |-> "none"] /\ server = [r \in Login |-> "none"]
  /\ asked = [r \in Login |-> 0] /\ pipe = [r \in Login |-> <<>>]
  /\ latest = NoLogin /\ cause = NoLogin /\ answers = {} /\ abandoned = FALSE

Ending(r) == loop' = [loop EXCEPT ![r] = "over"]

BugReturns == FALSE                                  \* Returns: the loop reads on

-----------------------------------------------------------------------------
\* The server.

Emits(r, e) == pipe' = [pipe EXCEPT ![r] = Append(@, e)]

AskQuestion(r) ==
  /\ server[r] = "live" /\ asked[r] < MaxPrompts
  /\ asked' = [asked EXCEPT ![r] = @ + 1] /\ Emits(r, "prompt")
  /\ UNCHANGED <<refs, loop, server, loginHistory>>

\* It completes or fails; the stream just ends when the session was swept or cut.
SessionEnds(r) ==
  /\ server[r] = "live" /\ server' = [server EXCEPT ![r] = "ended"]
  /\ \/ \E e \in {"complete", "failed"} : Emits(r, e)
     \/ UNCHANGED pipe
  /\ UNCHANGED <<refs, loop, asked, loginHistory>>

-----------------------------------------------------------------------------
\* start().

\* The user starts when nothing is shown (the auto-start guard, or after reset).
StartLogin(r) ==
  /\ status = "idle" /\ loop[r] = "none"
  /\ status' = "running" /\ question' = NoLogin /\ latest' = r /\ cause' = NoLogin
  /\ loop' = [loop EXCEPT ![r] = "begin"]
  /\ UNCHANGED <<current, server, asked, pipe, answers, abandoned>>

Began(r) ==
  /\ loop[r] = "begin" /\ loop' = [loop EXCEPT ![r] = "read"]
  /\ server' = [server EXCEPT ![r] = "live"] /\ current' = r
  /\ UNCHANGED <<status, question, asked, pipe, loginHistory>>

Outcome(r, s) == status' = s /\ cause' = r

\* "if (status.value !== 'running') return", after every event.
Returns == status' # "running"

\* dispatch() of the next event, and the check after it; a loop that returns leaves
\* the response open (releaseLock only), so the server does not notice.
ReceiveEvent(r) ==
  /\ loop[r] = "read" /\ pipe[r] # <<>>
  /\ IF Head(pipe[r]) = "prompt"
     THEN question' = r /\ UNCHANGED <<status, cause>>
     ELSE Outcome(r, Head(pipe[r])) /\ UNCHANGED question
  /\ pipe' = [pipe EXCEPT ![r] = Tail(@)]
  /\ IF Returns THEN Ending(r) ELSE UNCHANGED loop
  /\ UNCHANGED <<current, server, asked, latest, answers, abandoned>>

\* The stream is over, and nobody has said how the login ended.
Unexpected(r) == IF status = "running" THEN Outcome(r, "failed") ELSE UNCHANGED <<status, cause>>
LoginStreamEnds(r) ==
  /\ loop[r] = "read" /\ pipe[r] = <<>> /\ server[r] = "ended"
  /\ Unexpected(r) /\ Ending(r)
  /\ UNCHANGED <<current, question, server, asked, pipe, latest, answers, abandoned>>

\* beginLogin or the stream throws.
NetworkError(r) ==
  /\ loop[r] \in {"begin", "read"} /\ Ending(r) /\ Outcome(r, "failed")
  /\ UNCHANGED <<current, question, server, asked, pipe, latest, answers, abandoned>>

-----------------------------------------------------------------------------
\* respond(), cancel(), reset().

RespondLogin ==
  /\ current # NoLogin /\ question # NoLogin
  /\ answers' = answers \cup {<<question, current>>} /\ question' = NoLogin
  /\ UNCHANGED <<status, current, loop, server, asked, pipe, latest, cause, abandoned>>

GivenUp == abandoned' = (abandoned \/ status = "running") /\ cause' = NoLogin

\* The status at once, then the request; the server ends the session, and its stream
\* may say so.
CancelLogin ==
  /\ status' = "cancelled" /\ GivenUp /\ status # "cancelled"
  /\ IF current # NoLogin /\ server[current] = "live"
     THEN /\ server' = [server EXCEPT ![current] = "ended"]
          /\ Emits(current, "failed") \/ UNCHANGED pipe
     ELSE UNCHANGED <<server, pipe>>
  /\ UNCHANGED <<current, question, loop, asked, latest, answers>>

ResetLogin ==
  /\ status # "idle" /\ status' = "idle" /\ current' = NoLogin /\ question' = NoLogin
  /\ GivenUp /\ UNCHANGED <<loop, server, asked, pipe, latest, answers>>

-----------------------------------------------------------------------------
ClientStep(r) == Began(r) \/ ReceiveEvent(r) \/ LoginStreamEnds(r)

LoginClientNext ==
  \/ \E r \in Login :
       StartLogin(r) \/ ClientStep(r) \/ NetworkError(r) \/ AskQuestion(r) \/ SessionEnds(r)
  \/ RespondLogin \/ CancelLogin \/ ResetLogin

LoginClientSpec == LoginClientInit /\ [][LoginClientNext]_loginClientVars

\* Loops run, and the TTL ends a session nobody finishes (LoginEnds of LoginFlow).
LoginClientFairness ==
  \A r \in Login : WF_loginClientVars(ClientStep(r)) /\ WF_loginClientVars(SessionEnds(r))

-----------------------------------------------------------------------------
\* Every variable has its type, and a final status was set by some login.
LoginClientTypeOK ==
  /\ status \in {"idle", "running", "complete", "failed", "cancelled"}
  /\ current \in Login \cup {NoLogin} /\ question \in Login \cup {NoLogin}
  /\ loop \in [Login -> {"none", "begin", "read", "over"}]
  /\ server \in [Login -> {"none", "live", "ended"}]
  /\ asked \in [Login -> 0..MaxPrompts]
  /\ \A r \in Login : pipe[r] \in Seq({"prompt", "complete", "failed"})
  /\ latest \in Login \cup {NoLogin} /\ cause \in Login \cup {NoLogin}
  /\ cause # NoLogin <=> status \in {"complete", "failed"}
  /\ answers \subseteq Login \X Login /\ abandoned \in BOOLEAN

\* How a login ended is said by its own stream.
OwnOutcome == status \in {"complete", "failed"} => cause = latest

\* An instance that is reused after a login has ended shows the new login's outcome,
\* and answers the new login's questions ("Call this when reusing the same session
\* instance for a new login").
ReuseIsFresh ==
  ~abandoned => OwnOutcome /\ \A a \in answers : a[1] = a[2]

\* A login that was started ends, and the component hears of it, unless the user
\* abandoned it.
EndIsShown == status = "running" ~> status # "running"
=============================================================================
