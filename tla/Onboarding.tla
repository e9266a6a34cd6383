------------------------------ MODULE Onboarding ------------------------------
(***************************************************************************)
(* The first-run wizard: the onboarding rows of services/onboarding.py and *)
(* the machine of onboardingFlow.ts behind OnboardingFlow.vue.             *)
(*                                                                         *)
(* Every request reads the row, waits, and puts the whole row back from    *)
(* what it read; a button clicked twice sends two of them.                 *)
(*                                                                         *)
(* Abstracted: detection results, messages of errors, and the login a      *)
(* session runs through (module LoginFlow).  Not here: what the machine    *)
(* does once a login reply says "complete" or "pending": the server's      *)
(* never says either.                                                      *)
(***************************************************************************)
EXTENDS Naturals, Sequences

CONSTANTS
  MaxCalls, \* bound: requests in flight at once
  Offered,     \* backend kinds that are installed
  MaxOnb,   \* bound: onboarding rows
  MaxAcct,  \* bound: accounts created by them
  NoKind
ASSUME OfferedAssumption == NoKind \notin Offered
ASSUME OnbAssumption == MaxOnb \in Nat /\ MaxAcct \in Nat /\ MaxCalls \in Nat

VARIABLES
  onbRows,  \* the rows of the onboarding table, in the order they were made
  kindOf,   \* accounts created, with their kinds
  proven,   \* history: accounts whose credential was validated
  call,     \* requests
  ui,       \* state of the machine
  onb,      \* onboardingId, 0 when there is none
  chosen,   \* selectedBackend, 0 when there is none
  doubled   \* history: a call was made while another was out

machine == <<ui, onb, chosen, doubled>>
serverSide == <<onbRows, kindOf, proven>>
onbVars == <<serverSide, call, machine>>

Onb == 1..MaxOnb
OnbCall == 1..MaxCalls
Welcome == [step |-> "welcome", kind |-> NoKind, acct |-> 0]
NoCall == [op |-> "none", at |-> "free", id |-> 0, row |-> Welcome, kind |-> NoKind, acct |-> 0]
Request(o, id, k) == [NoCall EXCEPT !.op = o, !.at = "sent", !.id = id, !.kind = k]
SetCall(c, r) == call' = [call EXCEPT ![c] = r]
\* A new request takes the first place that is free.
Place(c) == call[c] = NoCall /\ \A d \in 1..(c - 1) : call[d] # NoCall
Answer(c, p, id, a) == SetCall(c, [NoCall EXCEPT !.op = call[c].op, !.at = p, !.id = id, !.acct = a])
AnswerOnly(c, p) == Answer(c, p, 0, 0)

Untouched ==
  /\ onbRows = <<>> /\ kindOf = <<>> /\ proven = {}
  /\ onb = 0 /\ chosen = 0 /\ doubled = FALSE
  /\ call = [c \in OnbCall |-> NoCall]
OnbInit == Untouched /\ ui = "idle"

-----------------------------------------------------------------------------
\* services/onboarding.py: the rows each request puts, from the row s it read.

BugPicked(s, k, a) == [s EXCEPT !.step = "login", !.acct = a]   \* Picked: s's kind

Detected(s) == [s EXCEPT !.step = "pick_backend"]
Picked(s, k, a) == [step |-> "login", kind |-> k, acct |-> a]
Invalid(s) == [s EXCEPT !.step = "validate"]
Finished(id, s) == [s EXCEPT !.step = "done"]
PutRow(id, r) == onbRows' = [onbRows EXCEPT ![id] = r]

\* start(): a row of its own.
Started(c) ==
  /\ call[c].op = "start" /\ call[c].at = "sent" /\ onbRows' = Append(onbRows, Welcome)
  /\ Answer(c, "ok", Len(onbRows'), 0)
  /\ UNCHANGED <<kindOf, proven, machine>>

\* What a finalize is answered is of no consequence here.
Refuse(c) == IF call[c].op = "finalize" THEN SetCall(c, NoCall) ELSE AnswerOnly(c, "refused")

\* get(); a login or a finalize without an account is refused at once.
ReadRow(c) ==
  /\ call[c].at = "sent" /\ call[c].op # "start"
  /\ LET s == onbRows[call[c].id] IN
     IF call[c].op \in {"login", "finalize"} /\ s.acct = 0 THEN Refuse(c)
     ELSE SetCall(c, [call[c] EXCEPT !.row = s, !.at = "work"])
  /\ UNCHANGED <<serverSide, machine>>

Works(c, o) == call[c].at = "work" /\ call[c].op = o
DetectAll(c) ==
  /\ Works(c, "detect") /\ PutRow(call[c].id, Detected(call[c].row)) /\ AnswerOnly(c, "ok")
  /\ UNCHANGED <<kindOf, proven, machine>>

PickKind(c) ==
  /\ Works(c, "pick") /\ Len(kindOf) < MaxAcct
  /\ kindOf' = Append(kindOf, call[c].kind)
  /\ PutRow(call[c].id, Picked(call[c].row, call[c].kind, Len(kindOf')))
  /\ Answer(c, "ok", 0, Len(kindOf'))
  /\ UNCHANGED <<proven, machine>>

\* begin_login leaves a session that waits for its stream.
BeginOnbLogin(c) == Works(c, "login") /\ AnswerOnly(c, "ok") /\ UNCHANGED <<serverSide, machine>>

\* validate() of the account that was read, which may or may not have a good credential.
Finalize(c) ==
  LET s == call[c].row IN
  /\ Works(c, "finalize")
  /\ SetCall(c, NoCall)
  /\ \/ proven' = proven \cup {s.acct} /\ PutRow(call[c].id, Finished(call[c].id, s))
     \/ PutRow(call[c].id, Invalid(s)) /\ UNCHANGED proven
  /\ UNCHANGED <<kindOf, machine>>

\* An exception in a handler, or the network.
RequestFails(c) ==
  /\ call[c].at \in {"sent", "work"} /\ Refuse(c)
  /\ UNCHANGED <<serverSide, machine>>

\* Another client of the API: POST .../finalize.
FinalizeSent(c, id) ==
  /\ Place(c) /\ id \in DOMAIN onbRows /\ SetCall(c, Request("finalize", id, NoKind))
  /\ UNCHANGED <<serverSide, machine>>

-----------------------------------------------------------------------------
\* The buttons.  A call needs an onboarding: "not started" otherwise.

Out == \E c \in OnbCall : call[c].op \in {"start", "detect", "pick", "login"}
Send(c, o, k, state) ==
  /\ Place(c) /\ UNCHANGED serverSide
  /\ IF onb = 0 /\ o # "start"
     THEN ui' = "error" /\ UNCHANGED <<onb, chosen, doubled, call>>
     ELSE /\ SetCall(c, Request(o, onb, k)) /\ ui' = state /\ doubled' = (doubled \/ Out)
          /\ UNCHANGED <<onb, chosen>>

ClickStart(c) == ui = "idle" /\ Len(onbRows) < MaxOnb /\ Send(c, "start", NoKind, ui)
ClickKind(c, k) == ui = "picking_kind" /\ Send(c, "pick", k, ui)
SubmitApiKey(c) == ui = "entering_credential" /\ Send(c, "login", NoKind, "validating")
SubmitOauth(c) == ui = "entering_credential" /\ Send(c, "login", NoKind, "oauth_challenge")

CancelOAuth ==
  /\ ui = "oauth_challenge" /\ ui' = "entering_credential"
  /\ UNCHANGED <<serverSide, call, onb, chosen, doubled>>

Retry ==
  /\ ui = "error" /\ ui' = "idle" /\ onb' = 0 /\ chosen' = 0
  /\ UNCHANGED <<serverSide, call, doubled>>

-----------------------------------------------------------------------------
\* The replies.

Ok(c, o) == call[c].op = o /\ call[c].at = "ok" /\ UNCHANGED <<serverSide, doubled>>

\* onStart goes on to detect().
StartReply(c) ==
  /\ Ok(c, "start") /\ onb' = call[c].id /\ ui' = "detecting"
  /\ SetCall(c, Request("detect", onb', NoKind)) /\ UNCHANGED <<chosen>>

DetectReply(c) ==
  Ok(c, "detect") /\ SetCall(c, NoCall) /\ ui' = "picking_kind" /\ UNCHANGED <<onb, chosen>>

PickReply(c) ==
  /\ Ok(c, "pick") /\ SetCall(c, NoCall) /\ ui' = "entering_credential" /\ chosen' = call[c].acct
  /\ UNCHANGED <<onb>>

\* The server answers {session_id}; the machine looks for a kind in it.
LoginReply(c) ==
  Ok(c, "login") /\ SetCall(c, NoCall) /\ ui' = "error" /\ UNCHANGED <<onb, chosen>>

Refused(c) == SetCall(c, NoCall) /\ ui' = "error" /\ UNCHANGED <<onb, chosen, doubled>>
RefusedReply(c) ==
  call[c].at = "refused" /\ Refused(c) /\ UNCHANGED serverSide

-----------------------------------------------------------------------------
OnbServerStep(c) ==
  Started(c) \/ ReadRow(c) \/ DetectAll(c) \/ PickKind(c) \/ BeginOnbLogin(c) \/ Finalize(c)
OnbReply(c) ==
  StartReply(c) \/ DetectReply(c) \/ PickReply(c) \/ LoginReply(c) \/ RefusedReply(c)

OnbNext ==
  \/ \E c \in OnbCall :
       \/ OnbServerStep(c) \/ OnbReply(c) \/ RequestFails(c)
       \/ ClickStart(c) \/ SubmitApiKey(c) \/ SubmitOauth(c)
       \/ \E k \in Offered : ClickKind(c, k)
       \/ \E id \in Onb : FinalizeSent(c, id)
  \/ CancelOAuth \/ Retry

\* A request that was made is answered, or fails.
OnbFairness ==
  \A c \in OnbCall : WF_onbVars(OnbServerStep(c) \/ RequestFails(c)) /\ WF_onbVars(OnbReply(c))

-----------------------------------------------------------------------------
\* Every variable has its type; a row names an account that was created.
OnbTypeOK ==
  /\ \A i \in DOMAIN onbRows :
       /\ onbRows[i].step \in {"welcome", "pick_backend", "login", "validate", "done"}
       /\ onbRows[i].kind \in Offered \cup {NoKind} /\ onbRows[i].acct \in {0} \cup DOMAIN kindOf
  /\ \A a \in DOMAIN kindOf : kindOf[a] \in Offered
  /\ proven \subseteq DOMAIN kindOf
  /\ \A c \in OnbCall : call[c].at \in {"free", "sent", "work", "ok", "refused"}
  /\ ui \in {"idle", "detecting", "picking_kind", "entering_credential", "validating",
             "oauth_challenge", "error"}
  /\ onb \in {0} \cup DOMAIN onbRows /\ chosen \in {0} \cup DOMAIN kindOf

\* Whatever writes of it overlap, a row that says done names an account whose
\* credential was validated.
DoneIsProven == \A i \in DOMAIN onbRows : onbRows[i].step = "done" => onbRows[i].acct \in proven

\* The kind in a row is the kind of the account in it.
RowIsOneBackend ==
  \A i \in DOMAIN onbRows :
    IF onbRows[i].acct = 0 THEN onbRows[i].kind = NoKind
    ELSE onbRows[i].kind = kindOf[onbRows[i].acct]

\* As long as no button was clicked twice, the account whose credential the wizard asks
\* for is the one its row will log in and validate.
ShownIsPicked ==
  ~doubled /\ ui \in {"entering_credential", "validating", "oauth_challenge"} =>
    onbRows[onb].acct = chosen

\* Whole-row writes never mix requests in a row: it says done of what was validated,
\* its kind is that of its account, and the wizard works on that account.
RowIsTrue == DoneIsProven /\ RowIsOneBackend /\ ShownIsPicked
=============================================================================
