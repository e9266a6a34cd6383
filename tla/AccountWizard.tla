----------------------------- MODULE AccountWizard ----------------------------
(***************************************************************************)
(* createAccountWizard() (ts-core/src/machines/accountWizard.ts): pick a   *)
(* kind, create an account of it, detect its CLI, submit a credential.     *)
(* Each method sets the machine's state again when its requests have come  *)
(* back, whatever has been called since.                                   *)
(*                                                                         *)
(* The server has no POST /backends/{id}/login: a credential is refused,   *)
(* and the machine never gets to "done".                                   *)
(*                                                                         *)
(* Abstracted: messages of errors; versions and paths of what is detected. *)
(***************************************************************************)
EXTENDS Naturals, Sequences

CONSTANTS
  WizardKind, \* kinds that may be picked
  MaxWizard,  \* bound: calls of the machine that wait
  MaxRows,    \* bound: accounts it creates
  Unset       \* undefined
ASSUME WizardAssumption == Unset \notin WizardKind /\ MaxWizard \in Nat /\ MaxRows \in Nat

VARIABLES
  wiz,        \* state
  wizKind,    \* kind
  backend,    \* the account in backend, 0 when there is none
  found,      \* the account whose CLI detection has found, 0 when there is none
  accounts,   \* the kinds of the accounts created, in order
  waiting,    \* calls that wait for a reply
  outrun      \* history: a method was called while a call was waiting

wizVars == <<wiz, wizKind, backend, found, accounts, waiting, outrun>>

WizardCall == 1..MaxWizard
NoWait == [at |-> "free", kind |-> Unset, id |-> 0]
Blank == wizKind' = Unset /\ backend' = 0 /\ found' = 0
SetWait(c, p, k, id) == waiting' = [waiting EXCEPT ![c] = [at |-> p, kind |-> k, id |-> id]]
Answered(c) == waiting' = [waiting EXCEPT ![c] = NoWait]
FreeWait(c) == waiting[c] = NoWait /\ \A d \in 1..(c - 1) : waiting[d] # NoWait
Called == outrun' = (outrun \/ \E c \in WizardCall : waiting[c] # NoWait)

WizardRests ==
  /\ wizKind = Unset /\ backend = 0 /\ found = 0 /\ accounts = <<>>
  /\ waiting = [c \in WizardCall |-> NoWait] /\ outrun = FALSE
WizardInit == WizardRests /\ wiz = "idle"

-----------------------------------------------------------------------------
\* The methods.

Restarts(s) == wiz' = s /\ Blank /\ Called /\ UNCHANGED <<accounts, waiting>>
StartWizard == Restarts("picking_kind")
ResetWizard == wiz # "idle" /\ Restarts("idle")

PickWizardKind(c, k) ==
  /\ FreeWait(c) /\ SetWait(c, "create", k, 0) /\ wizKind' = k /\ wiz' = "detecting" /\ Called
  /\ UNCHANGED <<backend, found, accounts>>

SubmitCredential(c) ==
  /\ FreeWait(c) /\ Called
  /\ IF backend = 0 THEN wiz' = "error" /\ UNCHANGED waiting
     ELSE wiz' = "validating" /\ SetWait(c, "login", Unset, backend)
  /\ UNCHANGED <<wizKind, backend, found, accounts>>

-----------------------------------------------------------------------------
\* Their requests.

\* POST /backends: the account exists from here on, whether or not the reply arrives.
CreatesAccount(c) ==
  /\ waiting[c].at = "create" /\ Len(accounts) < MaxRows
  /\ accounts' = Append(accounts, waiting[c].kind)
  /\ SetWait(c, "created", waiting[c].kind, Len(accounts'))
  /\ UNCHANGED <<wiz, wizKind, backend, found, outrun>>

\* detectBackend() is called for the account that has just come.
CreateReply(c) ==
  /\ waiting[c].at = "created" /\ backend' = waiting[c].id
  /\ SetWait(c, "detect", waiting[c].kind, waiting[c].id)
  /\ UNCHANGED <<wiz, wizKind, found, accounts, outrun>>

DetectedCli(c, installed) ==
  /\ waiting[c].at = "detect" /\ Answered(c)
  /\ found' = (IF installed THEN waiting[c].id ELSE 0)
  /\ wiz' = IF installed THEN "entering_credential" ELSE "error"
  /\ UNCHANGED <<wizKind, backend, accounts, outrun>>

\* Any request may fail; that of a credential always does.
WizardFails(c) ==
  /\ waiting[c] # NoWait /\ Answered(c) /\ wiz' = "error"
  /\ UNCHANGED <<wizKind, backend, found, accounts, outrun>>

-----------------------------------------------------------------------------
WizardReply(c) ==
  \/ CreatesAccount(c) \/ CreateReply(c) \/ WizardFails(c)
  \/ \E installed \in BOOLEAN : DetectedCli(c, installed)

WizardNext ==
  \/ StartWizard \/ ResetWizard
  \/ \E c \in WizardCall :
       WizardReply(c) \/ SubmitCredential(c) \/ \E k \in WizardKind : PickWizardKind(c, k)

\* A request is answered, or fails.
WizardFairness == \A c \in WizardCall : WF_wizVars(WizardReply(c))

-----------------------------------------------------------------------------
\* Every variable has its type.
WizardTypeOK ==
  /\ wiz \in {"idle", "picking_kind", "detecting", "entering_credential", "validating", "error"}
  /\ wizKind \in WizardKind \cup {Unset} /\ accounts \in Seq(WizardKind) /\ Len(accounts) <= MaxRows
  /\ {backend, found} \subseteq 0..Len(accounts) /\ outrun \in BOOLEAN
  /\ \A c \in WizardCall :
       waiting[c].at \in {"free", "create", "created", "detect", "login"} /\ waiting[c].id \in 0..Len(accounts)

\* Unless a method was called while another was waiting, the credential is asked for an
\* account of the kind that was picked, whose CLI has been found.  (Submitted it may be
\* for that of an earlier pick: one that fails leaves its account in place.)
WizardShowsOwn ==
  ~outrun /\ wiz = "entering_credential" =>
    backend # 0 /\ accounts[backend] = wizKind /\ found = backend

\* The machine does not stay where it waits.
WizardSettles == wiz \in {"detecting", "validating"} ~> wiz \notin {"detecting", "validating"}
=============================================================================
