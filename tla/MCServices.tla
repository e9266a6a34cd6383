------------------------------ MODULE MCServices -----------------------------
(***************************************************************************)
(* What the server keeps beside the accounts, and the dialogs that set     *)
(* accounts up: the event log of a session, the rows of the first-run      *)
(* wizard, the schema that processes migrate as they start, the wizard of  *)
(* accounts, a login that asks for an endpoint, and the proxy's servers.   *)
(* A behaviour moves one of them, the others rest.                         *)
(***************************************************************************)
EXTENDS EventLogHistory, Onboarding, Migrations, AccountWizard, PromptLogin, ProxyServer

VARIABLE part
Moves(p) == part = p

SchemaIsCurrent ==
  /\ versions = {1, 2, 3} /\ created = TRUE /\ columns = Columns /\ gemini = FALSE
  /\ state = [p \in Process |-> "up"] /\ script = [p \in Process |-> <<>>] /\ stops = 0
DialogIsOver == NothingAnswered /\ form = "claude_custom" /\ asking = "failed"

ServicesInit ==
  /\ part \in {"log", "wizard", "schema", "account", "dialog", "proxy"}
  /\ Init /\ OnbInit /\ WizardInit /\ ServerInit
  /\ IF Moves("schema") THEN MigInit ELSE SchemaIsCurrent
  /\ IF Moves("dialog") THEN PDInit ELSE DialogIsOver

ServicesNext ==
  \/ Moves("log") /\ Next /\ UNCHANGED <<part, onbVars, migVars, wizVars, pdVars, serverVars>>
  \/ Moves("wizard") /\ OnbNext /\ UNCHANGED <<part, vars, migVars, wizVars, pdVars, serverVars>>
  \/ Moves("schema") /\ MigNext /\ UNCHANGED <<part, vars, onbVars, wizVars, pdVars, serverVars>>
  \/ Moves("account") /\ WizardNext /\ UNCHANGED <<part, vars, onbVars, migVars, pdVars, serverVars>>
  \/ Moves("dialog") /\ PDNext /\ UNCHANGED <<part, vars, onbVars, migVars, wizVars, serverVars>>
  \/ Moves("proxy") /\ ServerNext /\ UNCHANGED <<part, vars, onbVars, migVars, wizVars, pdVars>>

Services ==
  /\ ServicesInit
  /\ [][ServicesNext]_<<part, vars, onbVars, migVars, wizVars, pdVars, serverVars>>
  /\ OnbFairness /\ MigFairness /\ WizardFairness /\ PDFairness /\ ServerFairness

\* Every variable of the six has its type.
TypesOK == TypeOK /\ OnbTypeOK /\ MigTypeOK /\ WizardTypeOK /\ PDTypeOK /\ ServerTypeOK

\* Setting up keeps to what was answered, picked and started: a credential is made of
\* the answers to its own questions, the machine asks for that of the account picked, and
\* the proxy's servers are where their starts and the config say.
SettingUpIsTrue == DialogIsTrue /\ WizardShowsOwn /\ ServersAreTold

\* A server comes up, and dialogs, machines and starts do not hang.
ServicesEnd == BootEnds /\ DialogEnds /\ WizardSettles /\ StartsEnd
=============================================================================
