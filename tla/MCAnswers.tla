------------------------------ MODULE MCAnswers ------------------------------
(***************************************************************************)
(* Requests whose answer comes from outside: POST /chat/send in mode all   *)
(* or compound over two accounts of one kind; a council of three seats;    *)
(* logins that wait for the proxy; or the adapter that reads one answer.   *)
(* A behaviour moves one of them, the others rest.                         *)
(***************************************************************************)
EXTENDS FanOut, Council, ProxyLogin, ProviderStream

CONSTANTS a1, a2

MCAccount == {a1, a2}
MCKindOf == [a \in MCAccount |-> "claude"]
MCOptionLists == {<<"x", "y", "x">>}
MCRequested == {-1, 2}

\* The adapter that rests while another part moves.
ASSUME RestAssumption == "claude" \in Adapter

VARIABLE part

NoChat == NothingSent /\ mode = "all" /\ primary = None /\ pc = "over"
NoAdapter == NothingHeard /\ adapter = "claude" /\ phase = "unused"
NoCouncil == NothingAsked /\ rounds = 0 /\ stage = "over" /\ exit = "1"

\* Of the proxy logins, either that of the antigravity session or those of the routes.
ProxyStarts ==
  /\ ProxyIdle /\ agPc \in {"unused", "over"}
  /\ running = [l \in Login |->
       IF l \in WizardLogin /\ agPc = "unused" THEN "bad" ELSE "unused"]

Requests ==
  \/ part = "chat" /\ Init /\ NoCouncil /\ PLInit /\ NoAdapter
  \/ part = "council" /\ CouncilInit /\ NoChat /\ PLInit /\ NoAdapter
  \/ part = "proxy" /\ ProxyStarts /\ NoChat /\ NoCouncil /\ NoAdapter
  \/ part = "adapter" /\ PSInit /\ NoChat /\ NoCouncil /\ PLInit

Handled ==
  \/ part = "chat" /\ Next /\ UNCHANGED <<part, councilVars, plVars, psVars>>
  \/ part = "council" /\ CouncilNext /\ UNCHANGED <<part, vars, plVars, psVars>>
  \/ part = "proxy" /\ PLNext /\ UNCHANGED <<part, vars, councilVars, psVars>>
  \/ part = "adapter" /\ PSNext /\ UNCHANGED <<part, vars, councilVars, plVars>>

Answers ==
  /\ Requests /\ [][Handled]_<<part, vars, councilVars, plVars, psVars>>
  /\ Fairness /\ CouncilFairness /\ PLFairness /\ PSFairness

\* Every variable of the four has its type.
TypesOK == TypeOK /\ CouncilTypeOK /\ PLTypeOK /\ PSTypeOK

\* A request that asks providers ends, hanging providers notwithstanding, and so do the
\* calls that a departed client leaves behind, the polls of a login, and the answer of a
\* provider; temporary directories go.
RequestsEnd == FanOutEnds /\ CallsEnd /\ CouncilEnds /\ ProxyEnds /\ ProviderEnds
=============================================================================
