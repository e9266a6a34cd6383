--------------------------- MODULE ServicesProofs ---------------------------
(***************************************************************************)
(* What is proved of the server's services, for every size of each.        *)
(*                                                                         *)
(* The first-run wizard, the dialogs of a login, the wizard of accounts    *)
(* and the proxy's servers: each has an invariant of its own (OnbInv,      *)
(* DialogInv, WizardInv, ServerInv), kept whichever of the services moves; *)
(* so has the schema (MigInv): what a process has still to execute makes   *)
(* each version true before it records it.                                 *)
(* The event log: what it retains, that a replay is complete or says that  *)
(* it is not, and that it implements EventFeed.                            *)
(***************************************************************************)
EXTENDS MCServices, SequenceFacts

-----------------------------------------------------------------------------
\* The first-run wizard.

RowStep == {"welcome", "pick_backend", "login", "validate", "done"}
Row == [step: RowStep, kind: Offered \cup {NoKind}, acct: Nat]
Machine == {"start", "detect", "pick", "login"}
OnbWait == [op: Machine \cup {"finalize", "none"}, at: {"free", "sent", "work", "ok", "refused"},
            id: Nat, row: Row, kind: Offered \cup {NoKind}, acct: Nat]
Asking == {"entering_credential", "validating", "oauth_challenge"}

\* A row as it should be; every row that is stored, and every one a request has read.
Good(r) ==
  /\ r.step = "done" => r.acct \in proven
  /\ IF r.acct = 0 THEN r.kind = NoKind
     ELSE r.acct \in 1..Len(kindOf) /\ r.kind = kindOf[r.acct]
RequestInv(c) ==
  /\ Good(call[c].row)
  /\ call[c].op = "pick" /\ call[c].at \in {"sent", "work"} => call[c].kind \in Offered
  /\ call[c].op = "none" <=> call[c].at = "free"
  /\ call[c].at \in {"ok", "refused"} => call[c].op \in Machine
  /\ call[c].at = "work" => call[c].op # "start"
  /\ call[c].op \in {"detect", "pick", "login", "finalize"} /\ call[c].at \in {"sent", "work"} =>
       call[c].id \in 1..Len(onbRows)
  /\ call[c].op = "start" /\ call[c].at = "ok" => call[c].id \in 1..Len(onbRows)
RowsInv ==
  /\ onbRows \in Seq(Row) /\ kindOf \in Seq(Offered) /\ call \in [OnbCall -> OnbWait]
  /\ onb \in 0..Len(onbRows) /\ chosen \in Nat /\ doubled \in BOOLEAN
  /\ \A i \in 1..Len(onbRows) : Good(onbRows[i])
  /\ \A c \in OnbCall : RequestInv(c)

\* Until a button is clicked twice: where the machine is says which request is out, what
\* the row of its onboarding names, and a request works on the account the row still has.
IsOut(c) == call[c].op \in Machine
Fits(c) ==
  /\ call[c].op = "start" => ui = "idle" /\ (call[c].at = "ok" => onbRows[call[c].id].acct = 0)
  /\ call[c].op = "detect" => ui = "detecting"
  /\ call[c].op = "pick" =>
       /\ ui = "picking_kind"
       /\ call[c].at \in {"sent", "work"} => onbRows[onb].acct = 0
       /\ call[c].at = "ok" => onbRows[onb].acct = call[c].acct
  /\ call[c].op = "login" => ui \in Asking
  /\ call[c].op \in {"detect", "pick"} /\ call[c].at \in {"sent", "work"} => call[c].id = onb
  /\ call[c].at = "work" /\ call[c].op \in {"detect", "finalize"} =>
       call[c].row.acct = onbRows[call[c].id].acct
  /\ call[c].at = "work" /\ call[c].op = "finalize" => call[c].row.acct # 0
Stands ==
  /\ ui \in {"detecting", "picking_kind"} \cup Asking => onb # 0
  /\ ui = "detecting" => onbRows[onb].acct = 0
  /\ ui = "picking_kind" /\ (\A c \in OnbCall : ~IsOut(c)) => onbRows[onb].acct = 0
  /\ ui \in Asking => onbRows[onb].acct = chosen
  /\ ui = "error" => \A c \in OnbCall : ~IsOut(c)
OnePick ==
  /\ \A c, d \in OnbCall : IsOut(c) /\ IsOut(d) => c = d
  /\ \A c \in OnbCall : Fits(c)
  /\ Stands
OnbInv == RowsInv /\ (doubled \/ OnePick)

LEMMA OnbStarts == OnbInit => OnbInv
  <1> SUFFICES ASSUME OnbInit PROVE OnbInv OBVIOUS
  <1>1. Welcome \in Row /\ NoCall \in OnbWait BY DEF Welcome, Row, NoCall, OnbWait, RowStep
  <1>2. onbRows = <<>> /\ kindOf = <<>> /\ call = [c \in OnbCall |-> NoCall] /\ ui = "idle"
        /\ onb = 0 /\ chosen = 0 /\ doubled = FALSE
    BY DEF OnbInit, Untouched
  <1>3. onbRows \in Seq(Row) /\ kindOf \in Seq(Offered) /\ Len(onbRows) = 0 BY <1>2
  <1>4. call \in [OnbCall -> OnbWait] BY <1>1, <1>2
  <1>5. \A c \in OnbCall : RequestInv(c) /\ Fits(c) /\ ~IsOut(c)
    BY <1>2 DEF RequestInv, Good, Fits, IsOut, NoCall, Welcome, Machine
  <1>6. RowsInv
    <2>1. \A i \in 1..Len(onbRows) : Good(onbRows[i]) BY <1>3
    <2>2. onb \in 0..Len(onbRows) /\ chosen \in Nat BY <1>2, <1>3
    <2>3. doubled \in BOOLEAN BY <1>2
    <2> QED BY <1>3, <1>4, <1>5, <2>1, <2>2, <2>3 DEF RowsInv
  <1> QED BY <1>2, <1>5, <1>6 DEF OnbInv, OnePick, Stands, Asking

LEMMA OnbSaysSo == OnbInv => RowIsTrue
  <1> SUFFICES ASSUME OnbInv PROVE RowIsTrue OBVIOUS
  <1>1. DOMAIN onbRows = 1..Len(onbRows) BY DEF OnbInv, RowsInv
  <1>2. DoneIsProven /\ RowIsOneBackend
    BY <1>1 DEF OnbInv, RowsInv, Good, DoneIsProven, RowIsOneBackend
  <1>3. ShownIsPicked BY DEF OnbInv, OnePick, Stands, Asking, ShownIsPicked
  <1> QED BY <1>2, <1>3 DEF RowIsTrue

\* What a request may become.
LEMMA CallSet ==
  ASSUME NEW c \in OnbCall, NEW r \in OnbWait, call \in [OnbCall -> OnbWait], SetCall(c, r)
  PROVE  /\ call' \in [OnbCall -> OnbWait] /\ call'[c] = r
         /\ \A d \in OnbCall : d # c => call'[d] = call[d]
  BY DEF SetCall

LEMMA Requests ==
  /\ Welcome \in Row /\ NoCall \in OnbWait
  /\ \A o \in Machine \cup {"finalize"}, id \in Nat, k \in Offered \cup {NoKind} :
       Request(o, id, k) \in OnbWait
  BY DEF Welcome, Row, NoCall, OnbWait, RowStep, Machine, Request

\* A row that was good is good in every later state.
LEMMA StaysGood ==
  ASSUME RowsInv, proven \subseteq proven',
         kindOf' = kindOf \/ \E k \in Offered : kindOf' = Append(kindOf, k)
  PROVE  kindOf' \in Seq(Offered) /\ \A v : Good(v) /\ v.acct \in Nat => Good(v)'
  <1> kindOf \in Seq(Offered) BY DEF RowsInv
  <1>1. CASE kindOf' = kindOf BY <1>1 DEF Good
  <1>2. ASSUME NEW k \in Offered, kindOf' = Append(kindOf, k)
        PROVE  kindOf' \in Seq(Offered) /\ \A v : Good(v) /\ v.acct \in Nat => Good(v)'
    <2>1. kindOf' \in Seq(Offered) /\ Len(kindOf') = Len(kindOf) + 1 /\ Len(kindOf) \in Nat
          /\ \A a \in 1..Len(kindOf) : kindOf'[a] = kindOf[a]
      BY <1>2
    <2> QED BY <2>1 DEF Good
  <1> QED BY <1>1, <1>2

\* Steps that leave the rows alone keep them good, if the request they set is.
LEMMA OnlyACall ==
  ASSUME RowsInv, NEW c \in OnbCall, NEW r \in OnbWait, SetCall(c, r), UNCHANGED serverSide,
         RequestInv(c)', onb' \in 0..Len(onbRows), chosen' \in Nat, doubled' \in BOOLEAN
  PROVE  RowsInv'
  <1>1. /\ call' \in [OnbCall -> OnbWait] /\ call'[c] = r
        /\ \A d \in OnbCall : d # c => call'[d] = call[d]
    BY CallSet DEF RowsInv
  <1>2. \A d \in OnbCall : RequestInv(d)'
    BY <1>1 DEF RowsInv, RequestInv, Good, serverSide
  <1>3. \A i \in 1..Len(onbRows) : Good(onbRows[i])' BY DEF RowsInv, Good, serverSide
  <1> QED BY <1>1, <1>2, <1>3 DEF RowsInv, serverSide

\* Steps that write a row: every other one is as it was, those they read are still good.
LEMMA RowWritten ==
  ASSUME RowsInv, NEW c \in OnbCall, call[c].at = "work", NEW r \in OnbWait,
         SetCall(c, r), r.row = Welcome, r.at \in {"free", "ok"},
         r.at = "free" <=> r.op = "none", r.at = "ok" => r.op \in {"detect", "pick", "login"},
         NEW s \in Row, PutRow(call[c].id, s), Good(s)', proven \subseteq proven',
         kindOf' = kindOf \/ \E k \in Offered : kindOf' = Append(kindOf, k), UNCHANGED machine
  PROVE  RowsInv'
  <1>1. /\ call' \in [OnbCall -> OnbWait] /\ call'[c] = r
        /\ \A d \in OnbCall : d # c => call'[d] = call[d]
    BY CallSet DEF RowsInv
  <1>2. call[c].id \in 1..Len(onbRows)
    BY DEF RowsInv, RequestInv, OnbWait, Machine
  <1>3. /\ onbRows' \in Seq(Row) /\ Len(onbRows') = Len(onbRows)
        /\ \A i \in 1..Len(onbRows) : onbRows'[i] = IF i = call[c].id THEN s ELSE onbRows[i]
    BY <1>2 DEF RowsInv, PutRow
  <1>4. kindOf' \in Seq(Offered) /\ \A v : Good(v) /\ v.acct \in Nat => Good(v)'
    BY StaysGood
  <1>5. \A i \in 1..Len(onbRows') : Good(onbRows[i])'
    <2> SUFFICES ASSUME NEW i \in 1..Len(onbRows') PROVE Good(onbRows[i])' OBVIOUS
    <2>1. CASE i = call[c].id BY <1>3, <2>1 DEF Good
    <2>2. CASE i # call[c].id
      <3>1. i \in 1..Len(onbRows) /\ onbRows'[i] = onbRows[i] BY <1>3, <2>2
      <3>2. Good(onbRows[i]) /\ onbRows[i] \in Row BY <3>1 DEF RowsInv
      <3>3. onbRows[i].acct \in Nat BY <3>2 DEF Row
      <3> QED BY <3>1, <3>2, <3>3, <1>4 DEF Good
    <2> QED BY <2>1, <2>2
  <1>6. \A d \in OnbCall : RequestInv(d)'
    <2> SUFFICES ASSUME NEW d \in OnbCall PROVE RequestInv(d)' OBVIOUS
    <2>1. CASE d = c BY <1>1, <2>1 DEF RequestInv, Good, Welcome, Machine
    <2>2. CASE d # c
      <3>1. call'[d] = call[d] /\ RequestInv(d) /\ call[d].row.acct \in Nat
        BY <1>1, <2>2 DEF RowsInv, OnbWait, Row
      <3>2. Good(call[d].row)' BY <3>1, <1>4 DEF RequestInv, Good
      <3> QED BY <3>1, <3>2, <1>3 DEF RequestInv
    <2> QED BY <2>1, <2>2
  <1>7. onb' \in 0..Len(onbRows') /\ chosen' \in Nat BY <1>3 DEF RowsInv, machine
  <1>8. doubled' \in BOOLEAN BY DEF RowsInv, machine
  <1> QED BY <1>1, <1>3, <1>4, <1>5, <1>6, <1>7, <1>8 DEF RowsInv

LEMMA SendRows ==
  ASSUME RowsInv, NEW c \in OnbCall, NEW o \in Machine, NEW k \in Offered \cup {NoKind}, NEW to,
         o = "pick" => k \in Offered, Send(c, o, k, to)
  PROVE  RowsInv'
  <1>1. doubled' \in BOOLEAN
    <2>1. CASE onb = 0 /\ o # "start" BY <2>1 DEF Send, RowsInv
    <2>2. CASE ~(onb = 0 /\ o # "start") BY <2>2 DEF Send, RowsInv
    <2> QED BY <2>1, <2>2
  <1>2. CASE onb = 0 /\ o # "start"
    BY <1>1, <1>2 DEF Send, serverSide, RowsInv, RequestInv, Good
  <1>3. CASE ~(onb = 0 /\ o # "start")
    <2>1. /\ SetCall(c, Request(o, onb, k)) /\ UNCHANGED <<serverSide, onb, chosen>>
          /\ Request(o, onb, k) \in OnbWait /\ onb \in 0..Len(onbRows) /\ chosen \in Nat
      BY <1>3, Requests DEF Send, RowsInv
    <2>2. call'[c] = Request(o, onb, k) /\ Len(onbRows) \in Nat BY <2>1, CallSet DEF RowsInv
    <2>3. RequestInv(c)'
      BY <1>3, <2>1, <2>2 DEF RequestInv, Request, NoCall, Good, Welcome, Machine, serverSide
    <2> QED BY <1>1, <2>1, <2>3, OnlyACall
  <1> QED BY <1>2, <1>3

\* The answer to a request, or a request that is forgotten.
LEMMA AnswerRows ==
  ASSUME RowsInv, NEW c \in OnbCall, UNCHANGED <<serverSide, doubled>>,
         onb' \in 0..Len(onbRows), chosen' \in Nat,
         SetCall(c, NoCall) \/ (call[c].op \in Machine \ {"start"} /\ AnswerOnly(c, "ok"))
           \/ (call[c].op \in Machine /\ AnswerOnly(c, "refused"))
  PROVE  RowsInv'
  <1>1. doubled' \in BOOLEAN BY DEF RowsInv
  <1>2. ASSUME NEW r \in OnbWait, SetCall(c, r), r = NoCall \/
               (r.row = Welcome /\ r.op \in Machine /\ r.at \in {"ok", "refused"}
                 /\ (r.at = "ok" => r.op # "start"))
        PROVE  RowsInv'
    <2>1. call'[c] = r BY <1>2, CallSet DEF RowsInv
    <2>2. RequestInv(c)'
      BY <1>2, <2>1 DEF RequestInv, NoCall, Good, Welcome, Machine
    <2> QED BY <1>1, <1>2, <2>2, OnlyACall
  <1>3. CASE SetCall(c, NoCall) BY <1>2, <1>3, Requests
  <1>4. ASSUME NEW p \in {"ok", "refused"}, call[c].op \in Machine, AnswerOnly(c, p),
               p = "ok" => call[c].op # "start"
        PROVE  RowsInv'
    <2> DEFINE r == [NoCall EXCEPT !.op = call[c].op, !.at = p, !.id = 0, !.acct = 0]
    <2>1. r \in OnbWait /\ r.row = Welcome /\ r.op = call[c].op /\ r.at = p
      BY <1>4, Requests DEF NoCall, OnbWait, Machine
    <2>2. SetCall(c, r) BY <1>4 DEF AnswerOnly, Answer
    <2> HIDE DEF r
    <2> QED BY <1>2, <1>4, <2>1, <2>2
  <1> QED BY <1>3, <1>4

LEMMA RefuseRows ==
  ASSUME RowsInv, NEW c \in OnbCall, call[c].at \in {"sent", "work"}, Refuse(c),
         UNCHANGED <<serverSide, onb, chosen, doubled>>
  PROVE  RowsInv'
  <1>1. call[c].op \in Machine \cup {"finalize"}
    BY DEF RowsInv, RequestInv, OnbWait
  <1>2. onb' \in 0..Len(onbRows) /\ chosen' \in Nat BY DEF RowsInv
  <1> QED BY <1>1, <1>2, AnswerRows DEF Refuse

\* Steps keep the rows, whoever takes them.
LEMMA RowsKept == ASSUME RowsInv, [OnbNext]_onbVars PROVE RowsInv'
  <1>1. ASSUME NEW c \in OnbCall, Started(c) PROVE RowsInv'
    <2> DEFINE r == [NoCall EXCEPT !.op = "start", !.at = "ok", !.id = Len(onbRows'), !.acct = 0]
    <2>1. /\ onbRows' \in Seq(Row) /\ Len(onbRows') = Len(onbRows) + 1 /\ Len(onbRows) \in Nat
          /\ onbRows'[Len(onbRows')] = Welcome
          /\ \A i \in 1..Len(onbRows) : onbRows'[i] = onbRows[i]
      BY <1>1, Requests DEF Started, RowsInv
    <2>2. r \in OnbWait /\ r.op = "start" /\ r.at = "ok" /\ r.id = Len(onbRows') /\ r.row = Welcome
      <3>1. Len(onbRows') \in Nat /\ NoCall \in OnbWait BY <2>1, Requests
      <3> QED BY <3>1 DEF NoCall, OnbWait, Machine
    <2>3. SetCall(c, r) BY <1>1 DEF Started, Answer
    <2> HIDE DEF r
    <2>4. /\ call' \in [OnbCall -> OnbWait] /\ call'[c] = r
          /\ \A d \in OnbCall : d # c => call'[d] = call[d]
      BY <2>2, <2>3, CallSet DEF RowsInv
    <2>5. UNCHANGED <<kindOf, proven, onb, chosen, doubled>> BY <1>1 DEF Started, machine
    <2>6. \A d \in OnbCall : RequestInv(d)'
      BY <2>1, <2>2, <2>4, <2>5 DEF RowsInv, RequestInv, Good, Welcome, Machine
    <2>7. \A i \in 1..Len(onbRows') : Good(onbRows[i])'
      BY <2>1, <2>5 DEF RowsInv, Good, Welcome
    <2>8. doubled' \in BOOLEAN BY <2>5 DEF RowsInv
    <2> QED BY <2>1, <2>4, <2>5, <2>6, <2>7, <2>8 DEF RowsInv
  <1>2. ASSUME NEW c \in OnbCall, ReadRow(c) PROVE RowsInv'
    <2>1. /\ call[c] \in OnbWait /\ RequestInv(c) /\ call[c].at = "sent" /\ call[c].op # "start"
          /\ UNCHANGED <<serverSide, onb, chosen, doubled>>
      BY <1>2 DEF ReadRow, RowsInv, machine
    <2>2. call[c].op \in Machine \cup {"finalize"} /\ call[c].id \in 1..Len(onbRows)
      BY <2>1 DEF RequestInv, OnbWait, Machine
    <2> DEFINE s == onbRows[call[c].id]
    <2>3. CASE call[c].op \in {"login", "finalize"} /\ s.acct = 0
      BY <1>2, <2>1, <2>2, <2>3, RefuseRows DEF ReadRow
    <2>4. CASE ~(call[c].op \in {"login", "finalize"} /\ s.acct = 0)
      <3> DEFINE r == [call[c] EXCEPT !.row = s, !.at = "work"]
      <3>1. s \in Row /\ Good(s) BY <2>2 DEF RowsInv
      <3>2. /\ r \in OnbWait /\ r.row = s /\ r.at = "work" /\ r.op = call[c].op
            /\ r.id = call[c].id /\ r.kind = call[c].kind
        BY <2>1, <3>1 DEF OnbWait
      <3>3. SetCall(c, r) BY <1>2, <2>4 DEF ReadRow
      <3> HIDE DEF r, s
      <3>4. call'[c] = r BY <3>2, <3>3, CallSet DEF RowsInv
      <3>5. Good(call[c].row)' BY <2>1, <3>1, <3>2, <3>4 DEF Good, serverSide
      <3>6. RequestInv(c)' BY <2>1, <2>2, <3>2, <3>4, <3>5 DEF RequestInv, serverSide, Machine
      <3>7. onb' \in 0..Len(onbRows) /\ chosen' \in Nat BY <2>1 DEF RowsInv
      <3>8. doubled' \in BOOLEAN BY <2>1 DEF RowsInv
      <3> QED BY <2>1, <3>2, <3>3, <3>6, <3>7, <3>8, OnlyACall
    <2> QED BY <2>3, <2>4
  <1>3. ASSUME NEW c \in OnbCall, DetectAll(c) PROVE RowsInv'
    <2> DEFINE r == [NoCall EXCEPT !.op = call[c].op, !.at = "ok", !.id = 0, !.acct = 0]
               s == Detected(call[c].row)
    <2>1. call[c].op = "detect" /\ call[c].at = "work" /\ call[c].row \in Row /\ Good(call[c].row)
      BY <1>3 DEF DetectAll, Works, RowsInv, RequestInv, OnbWait
    <2>2. s \in Row /\ s.step # "done" /\ s.acct = call[c].row.acct /\ s.kind = call[c].row.kind
      BY <2>1 DEF Detected, Row, RowStep
    <2>3. r \in OnbWait /\ r.op = "detect" /\ r.at = "ok" /\ r.row = Welcome
      BY <2>1, Requests DEF NoCall, OnbWait, Machine
    <2>4. SetCall(c, r) /\ PutRow(call[c].id, s) /\ UNCHANGED <<kindOf, proven, machine>>
      BY <1>3 DEF DetectAll, AnswerOnly, Answer
    <2>5. PICK t \in Row : t = s BY <2>2
    <2> HIDE DEF r, s
    <2>6. Good(t)' BY <2>1, <2>2, <2>4, <2>5 DEF Good
    <2> QED BY <2>1, <2>3, <2>4, <2>5, <2>6, RowWritten
  <1>4. ASSUME NEW c \in OnbCall, PickKind(c) PROVE RowsInv'
    <2> DEFINE n == Len(kindOf')
               r == [NoCall EXCEPT !.op = call[c].op, !.at = "ok", !.id = 0, !.acct = n]
               s == Picked(call[c].row, call[c].kind, n)
    <2>1. call[c].op = "pick" /\ call[c].at = "work" /\ call[c].kind \in Offered
      BY <1>4 DEF PickKind, Works, RowsInv, RequestInv
    <2>2. n = Len(kindOf) + 1 /\ n \in Nat /\ Len(kindOf) \in Nat /\ kindOf'[n] = call[c].kind /\ n \in 1..Len(kindOf')
      BY <1>4, <2>1 DEF PickKind, RowsInv
    <2> HIDE DEF n
    <2>3. /\ s \in Row /\ s.step # "done" /\ s.acct = n /\ s.kind = call[c].kind /\ n # 0
      BY <2>1, <2>2 DEF Picked, Row, RowStep
    <2>4. r \in OnbWait /\ r.op = "pick" /\ r.at = "ok" /\ r.row = Welcome
      <3>1. n \in Nat /\ NoCall \in OnbWait BY <2>2, Requests
      <3> QED BY <2>1, <3>1 DEF NoCall, OnbWait, Machine
    <2>5. /\ SetCall(c, r) /\ PutRow(call[c].id, s) /\ UNCHANGED <<proven, machine>>
          /\ kindOf' = Append(kindOf, call[c].kind)
      BY <1>4 DEF PickKind, AnswerOnly, Answer, n
    <2>6. PICK t \in Row : t = s BY <2>3
    <2> HIDE DEF r, s
    <2>7. t.acct = n /\ n = Len(kindOf') BY <2>3, <2>6 DEF n
    <2>8. Good(t)' BY <2>2, <2>3, <2>6, <2>7 DEF Good
    <2> QED BY <2>1, <2>4, <2>5, <2>6, <2>8, RowWritten
  <1>5. ASSUME NEW c \in OnbCall, BeginOnbLogin(c) PROVE RowsInv'
    <2>1. call[c].op \in Machine \ {"start"} /\ AnswerOnly(c, "ok")
      BY <1>5 DEF BeginOnbLogin, Works, Machine
    <2> QED BY <1>5, <2>1, AnswerRows DEF BeginOnbLogin, machine, RowsInv
  <1>6. ASSUME NEW c \in OnbCall, Finalize(c) PROVE RowsInv'
    <2> DEFINE s == call[c].row
    <2>1. call[c].op = "finalize" /\ call[c].at = "work" /\ s \in Row /\ Good(s)
      BY <1>6 DEF Finalize, Works, RowsInv, RequestInv, OnbWait
    <2>2. SetCall(c, NoCall) /\ UNCHANGED <<kindOf, machine>> BY <1>6 DEF Finalize
    <2>3. NoCall \in OnbWait /\ NoCall.row = Welcome /\ NoCall.at = "free" /\ NoCall.op = "none"
      BY Requests DEF NoCall
    <2>4. ASSUME NEW t \in Row, PutRow(call[c].id, t), proven \subseteq proven',
                 t.acct = s.acct, t.kind = s.kind, t.step = "done" => s.acct \in proven'
          PROVE  RowsInv'
      <3>1. Good(t)' BY <2>1, <2>2, <2>4 DEF Good
      <3> QED BY <2>1, <2>2, <2>3, <2>4, <3>1, RowWritten
    <2>5. CASE proven' = proven \cup {s.acct} /\ PutRow(call[c].id, Finished(call[c].id, s))
      <3> DEFINE t == Finished(call[c].id, s)
      <3>1. t \in Row /\ t.acct = s.acct /\ t.kind = s.kind BY <2>1 DEF Finished, Row, RowStep
      <3> HIDE DEF t
      <3> QED BY <2>4, <2>5, <3>1 DEF t
    <2>6. CASE PutRow(call[c].id, Invalid(s)) /\ UNCHANGED proven
      <3> DEFINE t == Invalid(s)
      <3>1. t \in Row /\ t.acct = s.acct /\ t.kind = s.kind /\ t.step # "done"
        BY <2>1 DEF Invalid, Row, RowStep
      <3> HIDE DEF t
      <3> QED BY <2>4, <2>6, <3>1 DEF t
    <2> QED BY <1>6, <2>5, <2>6 DEF Finalize
  <1>7. ASSUME NEW c \in OnbCall, OnbReply(c) PROVE RowsInv'
    <2>1. UNCHANGED <<serverSide, doubled>> /\ onb \in 0..Len(onbRows) /\ chosen \in Nat
          /\ RequestInv(c) /\ call[c].acct \in Nat
      BY <1>7 DEF OnbReply, StartReply, DetectReply, PickReply, LoginReply, RefusedReply, Refused,
                  Ok, RowsInv, OnbWait
    <2>2. CASE StartReply(c)
      <3>1. onb' \in 1..Len(onbRows) /\ chosen' = chosen /\ SetCall(c, Request("detect", onb', NoKind))
        BY <2>1, <2>2 DEF StartReply, Ok, RequestInv
      <3> DEFINE r == Request("detect", onb', NoKind)
      <3>2. r \in OnbWait BY <3>1, Requests DEF Machine
      <3>3. call'[c] = r BY <3>1, <3>2, CallSet DEF RowsInv
      <3>4. RequestInv(c)'
        BY <2>1, <3>1, <3>3 DEF RequestInv, Request, NoCall, Good, Welcome, Machine, serverSide
      <3>5. doubled' \in BOOLEAN BY <2>1 DEF RowsInv
      <3> HIDE DEF r
      <3> QED BY <2>1, <3>1, <3>2, <3>4, <3>5, OnlyACall DEF r
    <2>3. CASE ~StartReply(c)
      <3>1. SetCall(c, NoCall) /\ onb' = onb /\ chosen' \in Nat
        BY <1>7, <2>1, <2>3 DEF OnbReply, DetectReply, PickReply, LoginReply, RefusedReply, Refused, Ok
      <3> QED BY <2>1, <3>1, AnswerRows
    <2> QED BY <2>2, <2>3
  <1>8. ASSUME NEW c \in OnbCall, RequestFails(c) PROVE RowsInv'
    BY <1>8, RefuseRows DEF RequestFails, machine
  <1>9. ASSUME NEW c \in OnbCall, ClickStart(c) \/ SubmitApiKey(c) \/ SubmitOauth(c)
        PROVE  RowsInv'
    BY <1>9, SendRows DEF ClickStart, SubmitApiKey, SubmitOauth, Machine
  <1>14. ASSUME NEW c \in OnbCall, NEW k \in Offered, ClickKind(c, k) PROVE RowsInv'
    BY <1>14, SendRows DEF ClickKind, Machine
  <1>10. ASSUME NEW c \in OnbCall, NEW id \in Onb, FinalizeSent(c, id) PROVE RowsInv'
    <2> DEFINE r == Request("finalize", id, NoKind)
    <2>1. /\ id \in 1..Len(onbRows) /\ SetCall(c, r) /\ UNCHANGED <<serverSide, onb, chosen, doubled>>
      BY <1>10 DEF FinalizeSent, machine, RowsInv
    <2>6. r \in OnbWait BY <2>1, Requests
    <2>2. call'[c] = r BY <2>1, <2>6, CallSet DEF RowsInv
    <2>3. RequestInv(c)'
      BY <2>1, <2>2 DEF RequestInv, Request, NoCall, Good, Welcome, Machine, serverSide
    <2>4. onb' \in 0..Len(onbRows) /\ chosen' \in Nat BY <2>1 DEF RowsInv
    <2>5. doubled' \in BOOLEAN BY <2>1 DEF RowsInv
    <2> HIDE DEF r
    <2> QED BY <2>1, <2>3, <2>4, <2>5, <2>6, OnlyACall
  <1>11. CASE CancelOAuth \/ Retry \/ UNCHANGED onbVars
    BY <1>11 DEF CancelOAuth, Retry, onbVars, serverSide, machine, RowsInv, RequestInv, Good
  <1>12. ASSUME NEW c \in OnbCall, OnbServerStep(c) PROVE RowsInv'
    BY <1>1, <1>2, <1>3, <1>4, <1>5, <1>6, <1>12 DEF OnbServerStep
  <1>13. CASE OnbNext BY <1>7, <1>8, <1>9, <1>10, <1>11, <1>12, <1>13, <1>14 DEF OnbNext
  <1> QED BY <1>11, <1>13

\* Steps the machine does not see, that leave every row with its account.
LEMMA Unseen ==
  ASSUME RowsInv, OnePick, NEW c \in OnbCall, NEW r \in OnbWait, SetCall(c, r),
         r.op \in Machine <=> IsOut(c), UNCHANGED <<ui, onb, chosen>>, Fits(c)',
         \A i \in 1..Len(onbRows) : onbRows'[i].acct = onbRows[i].acct
  PROVE  OnePick'
  <1>1. call'[c] = r /\ \A d \in OnbCall : d # c => call'[d] = call[d]
    BY CallSet DEF RowsInv
  <1>2. \A d \in OnbCall : IsOut(d)' <=> IsOut(d) BY <1>1 DEF IsOut
  <1>3. ui \in {"detecting", "picking_kind"} \cup Asking => onb \in 1..Len(onbRows)
    BY DEF OnePick, Stands, RowsInv
  <1>4. \A d \in OnbCall : Fits(d)'
    <2> SUFFICES ASSUME NEW d \in OnbCall, d # c PROVE Fits(d)' OBVIOUS
    <2>1. call'[d] = call[d] /\ Fits(d) /\ RequestInv(d) BY <1>1 DEF OnePick, RowsInv
    <2> QED BY <2>1, <1>3 DEF Fits, RequestInv
  <1>5. Stands' BY <1>2, <1>3 DEF OnePick, Stands
  <1> QED BY <1>2, <1>4, <1>5 DEF OnePick

\* Steps of the machine that leave the rows alone.
LEMMA Seen ==
  ASSUME RowsInv, OnePick, NEW c \in OnbCall, NEW r \in OnbWait, SetCall(c, r),
         \A d \in OnbCall : d # c => ~IsOut(d), UNCHANGED onbRows, Fits(c)', Stands'
  PROVE  OnePick'
  <1>1. call'[c] = r /\ \A d \in OnbCall : d # c => call'[d] = call[d]
    BY CallSet DEF RowsInv
  <1>2. \A d \in OnbCall : Fits(d)'
    <2> SUFFICES ASSUME NEW d \in OnbCall, d # c PROVE Fits(d)' OBVIOUS
    <2>1. call'[d] = call[d] /\ Fits(d) /\ ~IsOut(d) BY <1>1 DEF OnePick
    <2> QED BY <2>1 DEF Fits, IsOut, Machine
  <1> QED BY <1>1, <1>2 DEF OnePick, IsOut

LEMMA SendPick ==
  ASSUME RowsInv, OnePick, NEW c \in OnbCall, NEW o \in {"start", "pick", "login"},
         NEW k \in Offered \cup {NoKind}, NEW to, Send(c, o, k, to), ~doubled',
         o = "start" => ui = "idle" /\ to = ui, o = "pick" => ui = "picking_kind" /\ to = ui,
         o = "login" => ui = "entering_credential" /\ to \in Asking
  PROVE  OnePick'
  <1>1. ~(onb = 0 /\ o # "start") BY DEF OnePick, Stands, Asking
  <1>2. /\ SetCall(c, Request(o, onb, k)) /\ ui' = to /\ UNCHANGED <<serverSide, onb, chosen>>
        /\ ~Out /\ call[c] = NoCall
    BY <1>1 DEF Send, Place
  <1>3. \A d \in OnbCall : ~IsOut(d) BY <1>2 DEF Out, IsOut, Machine
  <1> DEFINE r == Request(o, onb, k)
  <1>4. r \in OnbWait BY Requests DEF RowsInv, Machine
  <1>5. call'[c] = r BY <1>2, <1>4, CallSet DEF RowsInv
  <1>6. o = "pick" => onbRows[onb].acct = 0 BY <1>3 DEF OnePick, Stands
  <1>7. Fits(c)' BY <1>2, <1>5, <1>6 DEF Fits, Request, NoCall, serverSide, Machine
  <1>8. IsOut(c)' BY <1>5 DEF IsOut, Request, NoCall, Machine
  <1>9. Stands' BY <1>2, <1>8 DEF Stands, OnePick, Asking, serverSide
  <1> HIDE DEF r
  <1> QED BY <1>2, <1>3, <1>4, <1>7, <1>9, Seen DEF serverSide, r

LEMMA RefusePick ==
  ASSUME RowsInv, OnePick, NEW c \in OnbCall, call[c].at \in {"sent", "work"}, Refuse(c),
         UNCHANGED <<serverSide, machine>>
  PROVE  OnePick'
  <1>1. ASSUME NEW r \in OnbWait, SetCall(c, r), r.at \in {"free", "refused"},
               r.op \in Machine => r.op = call[c].op, r.op \in Machine <=> IsOut(c)
        PROVE  OnePick'
    <2>1. call'[c] = r BY <1>1, CallSet DEF RowsInv
    <2>2. Fits(c)' BY <1>1, <2>1 DEF Fits, OnePick, machine, Machine
    <2> QED BY <1>1, <2>2, Unseen DEF machine, serverSide
  <1>2. call[c].op \in Machine \cup {"finalize"} BY DEF RowsInv, RequestInv, OnbWait
  <1>3. CASE call[c].op = "finalize"
    <2>1. NoCall \in OnbWait /\ NoCall.at = "free" /\ NoCall.op = "none" BY Requests DEF NoCall
    <2> QED BY <1>1, <1>3, <2>1 DEF Refuse, IsOut, Machine
  <1>4. CASE call[c].op \in Machine
    <2> DEFINE r == [NoCall EXCEPT !.op = call[c].op, !.at = "refused", !.id = 0, !.acct = 0]
    <2>1. r \in OnbWait /\ r.at = "refused" /\ r.op = call[c].op
      BY <1>4, Requests DEF NoCall, OnbWait, Machine
    <2>2. SetCall(c, r) BY <1>4 DEF Refuse, AnswerOnly, Answer, Machine
    <2> HIDE DEF r
    <2> QED BY <1>1, <1>4, <2>1, <2>2 DEF IsOut
  <1> QED BY <1>2, <1>3, <1>4

LEMMA ServerPick ==
  ASSUME RowsInv, OnePick, NEW c \in OnbCall, OnbServerStep(c) PROVE OnePick'
  <1> call[c] \in OnbWait /\ RequestInv(c) /\ Fits(c) BY DEF RowsInv, OnePick
  <1>1. CASE Started(c)
    <2> DEFINE r == [NoCall EXCEPT !.op = "start", !.at = "ok", !.id = Len(onbRows'), !.acct = 0]
    <2>1. /\ Len(onbRows') \in Nat /\ onbRows'[Len(onbRows')].acct = 0
          /\ \A i \in 1..Len(onbRows) : onbRows'[i] = onbRows[i]
      BY <1>1 DEF Started, RowsInv, Welcome
    <2>2. r \in OnbWait /\ r.op = "start" /\ r.at = "ok" /\ r.id = Len(onbRows')
      <3>1. Len(onbRows') \in Nat /\ NoCall \in OnbWait BY <2>1, Requests
      <3> QED BY <3>1 DEF NoCall, OnbWait, Machine
    <2>3. SetCall(c, r) BY <1>1 DEF Started, Answer
    <2> HIDE DEF r
    <2>4. call'[c] = r BY <2>2, <2>3, CallSet DEF RowsInv
    <2>5. Fits(c)' BY <1>1, <2>1, <2>2, <2>4 DEF Fits, Started, machine
    <2>6. r.op \in Machine <=> IsOut(c) BY <1>1, <2>2 DEF Started, IsOut, Machine
    <2> QED BY <1>1, <2>1, <2>2, <2>3, <2>5, <2>6, Unseen DEF Started, machine
  <1>2. CASE ReadRow(c)
    <2>1. /\ call[c].at = "sent" /\ call[c].op # "start" /\ UNCHANGED <<serverSide, machine>>
          /\ call[c].id \in 1..Len(onbRows)
      BY <1>2 DEF ReadRow, RequestInv, OnbWait, Machine
    <2> DEFINE s == onbRows[call[c].id]
    <2>2. CASE call[c].op \in {"login", "finalize"} /\ s.acct = 0
      BY <1>2, <2>1, <2>2, RefusePick DEF ReadRow
    <2>3. CASE ~(call[c].op \in {"login", "finalize"} /\ s.acct = 0)
      <3> DEFINE r == [call[c] EXCEPT !.row = s, !.at = "work"]
      <3>1. s \in Row BY <2>1 DEF RowsInv
      <3>2. r \in OnbWait /\ r.row = s /\ r.at = "work" /\ r.op = call[c].op /\ r.id = call[c].id
        BY <2>1, <3>1 DEF OnbWait
      <3>3. SetCall(c, r) BY <1>2, <2>3 DEF ReadRow
      <3> HIDE DEF r
      <3>4. call'[c] = r BY <3>2, <3>3, CallSet DEF RowsInv
      <3>5. Fits(c)' BY <2>1, <2>3, <3>2, <3>4 DEF Fits, machine, serverSide
      <3>6. r.op \in Machine <=> IsOut(c) BY <3>2 DEF IsOut
      <3> QED BY <2>1, <3>2, <3>3, <3>5, <3>6, Unseen DEF machine, serverSide
    <2> QED BY <2>2, <2>3
  <1>3. CASE DetectAll(c)
    <2> DEFINE r == [NoCall EXCEPT !.op = call[c].op, !.at = "ok", !.id = 0, !.acct = 0]
               s == Detected(call[c].row)
    <2>1. /\ call[c].op = "detect" /\ call[c].at = "work" /\ call[c].id \in 1..Len(onbRows)
          /\ SetCall(c, r) /\ PutRow(call[c].id, s) /\ UNCHANGED machine
      BY <1>3 DEF DetectAll, Works, AnswerOnly, Answer, RequestInv
    <2>2. s.acct = onbRows[call[c].id].acct BY <2>1 DEF Detected, OnbWait, Row, Fits
    <2>3. r \in OnbWait /\ r.op = "detect" /\ r.at = "ok"
      BY <2>1, Requests DEF NoCall, OnbWait, Machine
    <2> HIDE DEF r, s
    <2>4. \A i \in 1..Len(onbRows) : onbRows'[i].acct = onbRows[i].acct
      BY <2>1, <2>2 DEF PutRow, RowsInv
    <2>5. call'[c] = r BY <2>1, <2>3, CallSet DEF RowsInv
    <2>6. Fits(c)' BY <2>1, <2>3, <2>5 DEF Fits, machine
    <2>7. r.op \in Machine <=> IsOut(c) BY <2>1, <2>3 DEF IsOut
    <2> QED BY <2>1, <2>3, <2>4, <2>6, <2>7, Unseen DEF machine
  <1>4. CASE PickKind(c)
    <2> DEFINE n == Len(kindOf')
               r == [NoCall EXCEPT !.op = call[c].op, !.at = "ok", !.id = 0, !.acct = n]
               s == Picked(call[c].row, call[c].kind, n)
    <2>1. /\ call[c].op = "pick" /\ call[c].at = "work" /\ call[c].id \in 1..Len(onbRows)
          /\ SetCall(c, r) /\ PutRow(call[c].id, s) /\ UNCHANGED machine /\ call[c].kind \in Offered
          /\ kindOf' = Append(kindOf, call[c].kind)
      BY <1>4 DEF PickKind, Works, Answer, RequestInv
    <2>2. n \in Nat BY <2>1 DEF RowsInv
    <2>3. s.acct = n BY DEF Picked
    <2>4. r \in OnbWait /\ r.op = "pick" /\ r.at = "ok" /\ r.acct = n
      <3>1. NoCall \in OnbWait BY Requests
      <3> HIDE DEF n
      <3> QED BY <2>1, <2>2, <3>1 DEF NoCall, OnbWait, Machine
    <2> HIDE DEF n, r, s
    <2>5. ui = "picking_kind" /\ onb = call[c].id /\ onbRows[onb].acct = 0 /\ IsOut(c)
      BY <2>1 DEF Fits, IsOut, Machine
    <2>6. /\ onbRows'[onb].acct = n
          /\ \A i \in 1..Len(onbRows) : i # onb => onbRows'[i] = onbRows[i]
      BY <2>1, <2>3, <2>5 DEF PutRow, RowsInv
    <2>7. call'[c] = r /\ \A d \in OnbCall : d # c => call'[d] = call[d]
      BY <2>1, <2>4, CallSet DEF RowsInv
    <2>8. \A d \in OnbCall : d # c => ~IsOut(d) BY <2>5 DEF OnePick
    <2>9. \A d \in OnbCall : Fits(d)'
      <3>1. Fits(c)' BY <2>1, <2>4, <2>5, <2>6, <2>7 DEF Fits, machine
      <3>2. ASSUME NEW d \in OnbCall, d # c PROVE Fits(d)'
        <4>1. call'[d] = call[d] /\ ~IsOut(d) /\ Fits(d) /\ RequestInv(d)
          BY <2>7, <2>8, <3>2 DEF OnePick, RowsInv
        <4>2. CASE call[d].at = "work" /\ call[d].op = "finalize"
          <5>1. call[d].id # onb /\ call[d].id \in 1..Len(onbRows)
            BY <2>5, <4>1, <4>2 DEF Fits, RequestInv
          <5> QED BY <2>6, <4>1, <4>2, <5>1 DEF Fits
        <4>3. CASE ~(call[d].at = "work" /\ call[d].op = "finalize")
          BY <4>1, <4>3 DEF Fits, IsOut, Machine
        <4> QED BY <4>2, <4>3
      <3> QED BY <3>1, <3>2
    <2>10. Stands' BY <2>1, <2>4, <2>5, <2>7 DEF Stands, Asking, machine, IsOut, OnePick, Machine
    <2>11. \A d \in OnbCall : IsOut(d)' <=> IsOut(d)
      BY <2>1, <2>4, <2>7 DEF IsOut
    <2> QED BY <2>9, <2>10, <2>11 DEF OnePick
  <1>5. CASE BeginOnbLogin(c)
    <2> DEFINE r == [NoCall EXCEPT !.op = call[c].op, !.at = "ok", !.id = 0, !.acct = 0]
    <2>1. call[c].op = "login" /\ SetCall(c, r) /\ UNCHANGED <<serverSide, machine>>
      BY <1>5 DEF BeginOnbLogin, Works, AnswerOnly, Answer
    <2>2. r \in OnbWait /\ r.op = "login" /\ r.at = "ok"
      BY <2>1, Requests DEF NoCall, OnbWait, Machine
    <2> HIDE DEF r
    <2>3. call'[c] = r BY <2>1, <2>2, CallSet DEF RowsInv
    <2>4. Fits(c)' BY <2>1, <2>2, <2>3 DEF Fits, machine
    <2>5. r.op \in Machine <=> IsOut(c) BY <2>1, <2>2 DEF IsOut
    <2> QED BY <2>1, <2>2, <2>4, <2>5, Unseen DEF machine, serverSide
  <1>6. CASE Finalize(c)
    <2>1. /\ call[c].op = "finalize" /\ call[c].at = "work" /\ call[c].id \in 1..Len(onbRows)
          /\ SetCall(c, NoCall) /\ UNCHANGED machine
          /\ \/ PutRow(call[c].id, Finished(call[c].id, call[c].row))
             \/ PutRow(call[c].id, Invalid(call[c].row))
      BY <1>6 DEF Finalize, Works, RequestInv
    <2>2. /\ Finished(call[c].id, call[c].row).acct = onbRows[call[c].id].acct
          /\ Invalid(call[c].row).acct = onbRows[call[c].id].acct
      BY <2>1 DEF Finished, Invalid, OnbWait, Row, Fits
    <2>3. \A i \in 1..Len(onbRows) : onbRows'[i].acct = onbRows[i].acct
      BY <2>1, <2>2 DEF PutRow, RowsInv
    <2>4. NoCall \in OnbWait /\ NoCall.op = "none" /\ NoCall.at = "free" BY Requests DEF NoCall
    <2>5. call'[c] = NoCall BY <2>1, <2>4, CallSet DEF RowsInv
    <2>6. Fits(c)' BY <2>4, <2>5 DEF Fits
    <2>7. NoCall.op \in Machine <=> IsOut(c) BY <2>1, <2>4 DEF IsOut, Machine
    <2> QED BY <2>1, <2>3, <2>4, <2>6, <2>7, Unseen DEF machine
  <1> QED BY <1>1, <1>2, <1>3, <1>4, <1>5, <1>6 DEF OnbServerStep

LEMMA ReplyPick ==
  ASSUME RowsInv, OnePick, NEW c \in OnbCall, OnbReply(c) PROVE OnePick'
  <1> call[c] \in OnbWait /\ RequestInv(c) /\ Fits(c) BY DEF RowsInv, OnePick
  <1>1. IsOut(c) /\ \A d \in OnbCall : d # c => ~IsOut(d)
    <2>1. IsOut(c)
      BY DEF OnbReply, StartReply, DetectReply, PickReply, LoginReply, RefusedReply, Ok, IsOut,
             Machine, RequestInv
    <2> QED BY <2>1 DEF OnePick
  <1>2. CASE StartReply(c)
    <2> DEFINE r == Request("detect", onb', NoKind)
    <2>1. /\ onb' \in 1..Len(onbRows) /\ onbRows[onb'].acct = 0 /\ ui' = "detecting"
          /\ SetCall(c, r) /\ UNCHANGED serverSide
      BY <1>2 DEF StartReply, Ok, RequestInv, Fits
    <2>2. r \in OnbWait BY <2>1, Requests DEF Machine
    <2>3. call'[c] = r BY <2>1, <2>2, CallSet DEF RowsInv
    <2>4. Fits(c)' BY <2>1, <2>3 DEF Fits, Request, NoCall
    <2>5. Stands' BY <2>1 DEF Stands, Asking, serverSide
    <2> HIDE DEF r
    <2> QED BY <1>1, <2>1, <2>2, <2>4, <2>5, Seen DEF serverSide
  <1>3. CASE ~StartReply(c)
    <2>1. SetCall(c, NoCall) /\ UNCHANGED <<serverSide, onb>> /\ NoCall \in OnbWait
      BY <1>3, Requests DEF OnbReply, DetectReply, PickReply, LoginReply, RefusedReply, Refused, Ok
    <2>2. call'[c] = NoCall /\ \A d \in OnbCall : d # c => call'[d] = call[d]
      BY <2>1, CallSet DEF RowsInv
    <2>3. \A d \in OnbCall : ~IsOut(d)' BY <1>1, <2>2 DEF IsOut, NoCall, Machine
    <2>4. Fits(c)' BY <2>2 DEF Fits, NoCall
    <2>5. Stands'
      BY <1>3, <2>1, <2>3 DEF OnbReply, DetectReply, PickReply, LoginReply, RefusedReply, Refused,
         Ok, Fits, OnePick, Stands, Asking, serverSide
    <2> QED BY <1>1, <2>1, <2>4, <2>5, Seen DEF serverSide
  <1> QED BY <1>2, <1>3

LEMMA PickKept == ASSUME RowsInv, doubled \/ OnePick, [OnbNext]_onbVars PROVE (doubled \/ OnePick)'
  <1> SUFFICES ASSUME ~doubled' PROVE OnePick' OBVIOUS
  <1>1. ASSUME NEW c \in OnbCall, OnbServerStep(c) \/ OnbReply(c) PROVE OnePick'
    <2>1. ~doubled
      BY <1>1 DEF OnbServerStep, Started, ReadRow, DetectAll, PickKind, BeginOnbLogin, Finalize,
         OnbReply, StartReply, DetectReply, PickReply, LoginReply, RefusedReply, Refused, Ok, machine
    <2> QED BY <1>1, <2>1, ServerPick, ReplyPick
  <1>2. ASSUME NEW c \in OnbCall, RequestFails(c) PROVE OnePick'
    BY <1>2, RefusePick DEF RequestFails, machine
  <1>3. ASSUME NEW c \in OnbCall, NEW o \in {"start", "pick", "login"},
               NEW k \in Offered \cup {NoKind}, NEW to, Send(c, o, k, to),
               o = "start" => ui = "idle" /\ to = ui, o = "pick" => ui = "picking_kind" /\ to = ui,
               o = "login" => ui = "entering_credential" /\ to \in Asking
        PROVE  OnePick'
    <2>1. ~doubled BY <1>3 DEF Send
    <2> QED BY <1>3, <2>1, SendPick
  <1>4. ASSUME NEW c \in OnbCall, ClickStart(c) \/ SubmitApiKey(c) \/ SubmitOauth(c)
        PROVE  OnePick'
    BY <1>3, <1>4 DEF ClickStart, SubmitApiKey, SubmitOauth, Asking
  <1>5. ASSUME NEW c \in OnbCall, NEW k \in Offered, ClickKind(c, k) PROVE OnePick'
    BY <1>3, <1>5 DEF ClickKind
  <1>6. ASSUME NEW c \in OnbCall, NEW id \in Onb, FinalizeSent(c, id) PROVE OnePick'
    <2> DEFINE r == Request("finalize", id, NoKind)
    <2>1. call[c] = NoCall /\ SetCall(c, r) /\ UNCHANGED <<serverSide, machine>>
      BY <1>6 DEF FinalizeSent, Place
    <2>2. r \in OnbWait BY Requests DEF Onb
    <2>3. call'[c] = r BY <2>1, <2>2, CallSet DEF RowsInv
    <2>4. Fits(c)' BY <2>3 DEF Fits, Request, NoCall
    <2>5. r.op \in Machine <=> IsOut(c) BY <2>1 DEF IsOut, Request, NoCall, Machine
    <2> HIDE DEF r
    <2> QED BY <2>1, <2>2, <2>4, <2>5, Unseen DEF machine, serverSide
  <1>7. CASE CancelOAuth
    BY <1>7 DEF CancelOAuth, serverSide, OnePick, Fits, IsOut, Stands, Asking
  <1>8. CASE Retry
    <2>1. \A c \in OnbCall : ~IsOut(c) BY <1>8 DEF Retry, OnePick, Stands
    <2> QED BY <1>8, <2>1 DEF Retry, serverSide, OnePick, Fits, IsOut, Stands, Asking, Machine
  <1>9. CASE UNCHANGED onbVars
    BY <1>9 DEF onbVars, serverSide, machine, OnePick, Fits, IsOut, Stands
  <1>10. CASE OnbNext BY <1>1, <1>2, <1>4, <1>5, <1>6, <1>7, <1>8, <1>10 DEF OnbNext
  <1> QED BY <1>9, <1>10

LEMMA OnbKeeps == ASSUME OnbInv, [OnbNext]_onbVars PROVE OnbInv'
  BY RowsKept, PickKept DEF OnbInv

-----------------------------------------------------------------------------
\* The dialogs of a login.

\* A dialog that was cancelled while nothing was under way has the sentinel before it.
CancelInv ==
  /\ asking \in Question \cup {"failed", "complete"}
  /\ box \in Reply \cup {Nothing, Sentinel} /\ puts \in [Reply -> Nat]
  /\ saved => asking = "complete"
  /\ box = Sentinel => ~open
  /\ early => /\ ~open /\ ~saved /\ \A r \in Reply : puts[r] = 0
              /\ asking \in Question => box = Sentinel

\* As long as no question was answered twice nobody waits in put(), and the one answer on
\* its way is that to the question asked.
OwnInv ==
  twice \/
    /\ fields \in [Question -> Question \cup {"none"}]
    /\ \A q \in Question : fields[q] \in {q, "none"} /\ (fields[q] # "none" => q \in replied)
    /\ \A r \in Reply : puts[r] = 0
    /\ box \in Reply => box.to \in replied /\ (asking \in Question => box.to = asking)

DialogInv == CancelInv /\ OwnInv

LEMMA BoxContents ==
  /\ Nothing \notin Reply /\ Sentinel \notin Reply /\ Nothing # Sentinel
  /\ \A r \in Reply : r.to \in Question
  /\ "none" \notin Question /\ "failed" \notin Question /\ "complete" \notin Question
  BY DEF Nothing, Sentinel, Reply, Question

LEMMA Follows ==
  ASSUME NEW q \in Question, NEW says PROVE Following(q, says) \in Question \cup {"failed", "complete"}
  BY DEF Following, AfterCustom, AfterCompat, Question

LEMMA DialogStarts == PDInit \/ DialogIsOver => DialogInv
  <1> SUFFICES ASSUME PDInit \/ DialogIsOver PROVE DialogInv OBVIOUS
  <1>1. asking \in Question \cup {"failed", "complete"} /\ asking # "complete" /\ NothingAnswered
    BY DEF PDInit, DialogIsOver, First, Question
  <1> QED BY <1>1, BoxContents DEF NothingAnswered, DialogInv, CancelInv, OwnInv

LEMMA CancelKept == ASSUME CancelInv, [PDNext]_pdVars PROVE CancelInv'
  <1> USE BoxContents DEF CancelInv, pdHistory
  <1>1. CASE Takes
    <2>1. CASE box = Sentinel BY <1>1, <2>1 DEF Takes, Asks
    <2>2. CASE box # Sentinel
      <3>1. asking' \in Question \cup {"failed", "complete"} BY <1>1, <2>2, Follows DEF Takes, Asks
      <3>2. ~early BY <1>1, <2>2 DEF Takes
      <3> QED BY <1>1, <2>2, <3>1, <3>2 DEF Takes
    <2> QED BY <2>1, <2>2
  <1>2. CASE AnswerTimeout BY <1>2 DEF AnswerTimeout, Asks
  <1>3. CASE CancelDialog BY <1>3 DEF CancelDialog
  <1>4. ASSUME NEW r \in Reply, Responds(r) PROVE CancelInv'
    <2>1. puts' \in [Reply -> Nat] /\ open /\ open' /\ UNCHANGED <<asking, saved, early>>
      BY <1>4 DEF Responds
    <2>2. box' = r \/ box' = box BY <1>4 DEF Responds
    <2> QED BY <2>1, <2>2
  <1>5. ASSUME NEW r \in Reply, Puts(r) PROVE CancelInv'
    <2>1. puts' \in [Reply -> Nat] /\ ~early /\ UNCHANGED <<asking, saved, early, open>>
      BY <1>5 DEF Puts
    <2> QED BY <1>5, <2>1 DEF Puts
  <1>6. CASE UNCHANGED pdVars BY <1>6 DEF pdVars
  <1> QED BY <1>1, <1>2, <1>3, <1>4, <1>5, <1>6 DEF PDNext

LEMMA OwnKept == ASSUME CancelInv, OwnInv, [PDNext]_pdVars PROVE OwnInv'
  <1> USE BoxContents DEF CancelInv, OwnInv, pdHistory
  <1>1. CASE Takes
    <2>1. CASE box = Sentinel BY <1>1, <2>1 DEF Takes, Asks
    <2>2. CASE box # Sentinel
      <3>1. box \in Reply /\ box' = Nothing /\ fields' = [fields EXCEPT ![asking] = box.to]
            /\ asking \in Question /\ UNCHANGED <<puts, replied, twice>>
        BY <1>1, <2>2 DEF Takes
      <3> QED BY <3>1
    <2> QED BY <2>1, <2>2
  <1>2. CASE AnswerTimeout BY <1>2 DEF AnswerTimeout, Asks
  <1>3. CASE CancelDialog BY <1>3 DEF CancelDialog
  <1>4. ASSUME NEW r \in Reply, Responds(r) PROVE OwnInv'
    <2>1. CASE twice \/ r.to \in replied BY <1>4, <2>1 DEF Responds
    <2>2. CASE ~twice /\ r.to \notin replied
      <3>1. r.to = asking BY <1>4, <2>2 DEF Responds, Shown
      <3>2. box = Nothing BY <1>4, <2>2, <3>1 DEF Responds
      <3> QED BY <1>4, <2>2, <3>1, <3>2 DEF Responds
    <2> QED BY <2>1, <2>2
  <1>5. ASSUME NEW r \in Reply, Puts(r) PROVE OwnInv' BY <1>5 DEF Puts
  <1>6. CASE UNCHANGED pdVars BY <1>6 DEF pdVars
  <1> QED BY <1>1, <1>2, <1>3, <1>4, <1>5, <1>6 DEF PDNext

LEMMA DialogKeeps == ASSUME DialogInv, [PDNext]_pdVars PROVE DialogInv'
  BY CancelKept, OwnKept DEF DialogInv

LEMMA DialogSaysSo == DialogInv => DialogIsTrue
  BY DEF DialogInv, CancelInv, OwnInv, DialogIsTrue, AnswersAreOwn, CancelIsHeard

-----------------------------------------------------------------------------
\* The wizard that creates an account.

Waits(c) == waiting[c] # NoWait
Wait == [at: {"free", "create", "created", "detect", "login"}, kind: WizardKind \cup {Unset}, id: Nat]
Creates(c) == waiting[c].at \in {"create", "created", "detect"}
Made(i, k) == i \in 1..Len(accounts) /\ accounts[i] = k

\* Until methods overlap at most one waits, and it works for the kind that was picked; when
\* none does, the credential asked for is that of the account it has created and found.
CallInv(c) ==
  /\ waiting[c].at # "login" => wiz = "detecting" /\ waiting[c].kind = wizKind
  /\ waiting[c].at \in {"created", "detect"} => Made(waiting[c].id, wizKind)
  /\ waiting[c].at = "detect" => backend = waiting[c].id
WizardInv ==
  /\ waiting \in [WizardCall -> Wait] /\ accounts \in Seq(WizardKind)
  /\ backend \in Nat /\ outrun \in BOOLEAN
  /\ \A c \in WizardCall : Creates(c) => waiting[c].kind \in WizardKind
  /\ outrun \/
       /\ \A c, d \in WizardCall : Waits(c) /\ Waits(d) => c = d
       /\ \A c \in WizardCall : Waits(c) => CallInv(c)
       /\ wiz = "entering_credential" => Made(backend, wizKind) /\ found = backend

LEMMA WizardStarts == WizardInit => WizardInv
  <1> SUFFICES ASSUME WizardInit PROVE WizardInv OBVIOUS
  <1>1. waiting \in [WizardCall -> Wait] BY DEF WizardInit, WizardRests, NoWait, Wait
  <1>2. accounts \in Seq(WizardKind) BY DEF WizardInit, WizardRests
  <1> QED BY <1>1, <1>2 DEF WizardInit, WizardRests, WizardInv, NoWait, Waits, Creates

LEMMA Late ==
  ASSUME Called, outrun \/ \E c \in WizardCall : Waits(c) PROVE outrun' = TRUE
  BY DEF Called, Waits

LEMMA WizardKeeps == ASSUME WizardInv, [WizardNext]_wizVars PROVE WizardInv'
  <1> USE DEF WizardInv, CallInv, Creates, Waits, Wait, NoWait, Made
  <1>1. CASE StartWizard \/ ResetWizard
    <2>1. CASE outrun \/ \E c \in WizardCall : Waits(c)
      <3>1. outrun' = TRUE BY <1>1, <2>1, Late DEF StartWizard, ResetWizard, Restarts
      <3> QED BY <1>1, <3>1 DEF StartWizard, ResetWizard, Restarts, Blank
    <2>2. CASE ~outrun /\ \A c \in WizardCall : ~Waits(c)
      BY <1>1, <2>2 DEF StartWizard, ResetWizard, Restarts, Blank, Called
    <2> QED BY <2>1, <2>2
  <1>2. ASSUME NEW c \in WizardCall, NEW k \in WizardKind, PickWizardKind(c, k) PROVE WizardInv'
    BY <1>2 DEF PickWizardKind, FreeWait, SetWait, Called
  <1>3. ASSUME NEW c \in WizardCall, SubmitCredential(c) PROVE WizardInv'
    <2>1. CASE backend = 0
      BY <1>3, <2>1 DEF SubmitCredential, Called
    <2>2. CASE backend # 0 /\ (outrun \/ \E d \in WizardCall : Waits(d))
      <3>1. outrun' = TRUE BY <1>3, <2>2, Late DEF SubmitCredential
      <3>2. waiting' = [waiting EXCEPT ![c] = [at |-> "login", kind |-> Unset, id |-> backend]]
            /\ UNCHANGED <<backend, accounts>>
        BY <1>3, <2>2 DEF SubmitCredential, SetWait
      <3>3. waiting' \in [WizardCall -> Wait] BY <3>2
      <3>4. \A d \in WizardCall : (Creates(d))' => waiting'[d].kind \in WizardKind BY <3>2
      <3> QED BY <3>1, <3>2, <3>3, <3>4
    <2>3. CASE backend # 0 /\ ~outrun /\ \A d \in WizardCall : ~Waits(d)
      BY <1>3, <2>3 DEF SubmitCredential, SetWait, Called
    <2> QED BY <2>1, <2>2, <2>3
  <1>4. ASSUME NEW c \in WizardCall, CreatesAccount(c) PROVE WizardInv'
    <2>1. waiting[c].kind \in WizardKind BY <1>4 DEF CreatesAccount
    <2>2. accounts' \in Seq(WizardKind) /\ Len(accounts') = Len(accounts) + 1
          /\ Len(accounts) \in Nat /\ accounts'[Len(accounts')] = waiting[c].kind
      BY <1>4, <2>1 DEF CreatesAccount
    <2>3. \A i \in 1..Len(accounts) : accounts'[i] = accounts[i] BY <1>4, <2>1 DEF CreatesAccount
    <2>4. waiting' \in [WizardCall -> Wait] BY <1>4, <2>1, <2>2 DEF CreatesAccount, SetWait
    <2>5. CASE outrun BY <1>4, <2>1, <2>2, <2>4, <2>5 DEF CreatesAccount, SetWait
    <2>6. CASE ~outrun BY <1>4, <2>1, <2>2, <2>3, <2>4, <2>6 DEF CreatesAccount, SetWait
    <2> QED BY <2>5, <2>6
  <1>5. ASSUME NEW c \in WizardCall, CreateReply(c) PROVE WizardInv'
    BY <1>5 DEF CreateReply, SetWait
  <1>6. ASSUME NEW c \in WizardCall, NEW installed \in BOOLEAN, DetectedCli(c, installed)
        PROVE WizardInv'
    BY <1>6 DEF DetectedCli, Answered
  <1>7. ASSUME NEW c \in WizardCall, WizardFails(c) PROVE WizardInv'
    BY <1>7 DEF WizardFails, Answered
  <1>8. CASE UNCHANGED wizVars BY <1>8 DEF wizVars
  <1> QED BY <1>1, <1>2, <1>3, <1>4, <1>5, <1>6, <1>7, <1>8 DEF WizardNext, WizardReply

LEMMA WizardSaysSo == WizardInv => WizardShowsOwn
  BY DEF WizardInv, WizardShowsOwn, Made

-----------------------------------------------------------------------------
\* The servers of the proxy.

\* A call has a process only once it has got so far, and none when it has failed.
StartPlaces == {"unused", "checking", "waiting", "running", "started", "error"}
ProcessInv ==
  /\ server \in [StartCall -> {"none", "booting", "up", "dead"}]
  /\ wants \in [StartCall -> Port \cup {NoPort}] /\ startAt \in [StartCall -> StartPlaces]
  /\ logs \subseteq StartCall /\ truly \subseteq StartCall /\ overlap \in BOOLEAN
  /\ \A s \in StartCall :
       /\ startAt[s] \in {"unused", "checking", "running"} => server[s] = "none"
       /\ startAt[s] = "error" => server[s] \in {"none", "dead"}
       /\ s \in logs => startAt[s] = "waiting" \/ (startAt[s] = "error" /\ server[s] = "none")

\* Starts that do not overlap: only the one that waits has a process that boots, and no
\* other process has its port.
SingleInv ==
  overlap \/
    /\ \A s, t \in StartCall : Pending(s) /\ Pending(t) => s = t
    /\ \A s \in StartCall : server[s] = "booting" => startAt[s] = "waiting"
    /\ \A s, t \in StartCall :
         startAt[s] = "waiting" /\ server[t] = "up" /\ wants[t] = wants[s] => s = t

\* The config names a port that is listened on, or that of a start that is pending, or
\* nothing is there.
ConfigInv ==
  \/ upset
  \/ Listens(config)
  \/ \E s \in StartCall : Pending(s) /\ wants[s] = config
  \/ \A s \in StartCall : ~Running(s) /\ ~Pending(s)

ServerInv == ProcessInv /\ SingleInv /\ ConfigInv /\ PortIsOwned /\ PidIsOwn

LEMMA ServerStarts == ServerInit => ServerInv
  BY DEF ServerInit, NothingStarted, ServerInv, ProcessInv, SingleInv, ConfigInv, PortIsOwned,
         PidIsOwn, StartPlaces, Running, Pending

LEMMA ProcessKept == ASSUME ProcessInv, [ServerNext]_serverVars PROVE ProcessInv'
  <1> USE DEF ProcessInv, StartPlaces, StartGoes, ServerIs
  <1>1. ASSUME NEW s \in StartCall, NEW p \in Port, BeginStart(s, p) PROVE ProcessInv'
    BY <1>1 DEF BeginStart
  <1>2. ASSUME NEW s \in StartCall, AlreadyRunning(s) PROVE ProcessInv' BY <1>2 DEF AlreadyRunning
  <1>3. ASSUME NEW s \in StartCall, Spawn(s) PROVE ProcessInv' BY <1>3 DEF Spawn
  <1>4. ASSUME NEW s \in StartCall, Ready(s) PROVE ProcessInv' BY <1>4 DEF Ready
  <1>5. ASSUME NEW s \in StartCall, NotReady(s) PROVE ProcessInv' BY <1>5 DEF NotReady
  <1>6. ASSUME NEW s \in StartCall, Boots(s) PROVE ProcessInv' BY <1>6 DEF Boots
  <1>7. ASSUME NEW s \in StartCall, Dies(s) PROVE ProcessInv' BY <1>7 DEF Dies
  <1>8. CASE StopAll BY <1>8 DEF StopAll, Running
  <1>9. CASE UNCHANGED serverVars BY <1>9 DEF serverVars
  <1> QED BY <1>1, <1>2, <1>3, <1>4, <1>5, <1>6, <1>7, <1>8, <1>9 DEF ServerNext, StartSteps

LEMMA SingleKept ==
  ASSUME ProcessInv, SingleInv, [ServerNext]_serverVars PROVE SingleInv'
  <1> USE DEF ProcessInv, SingleInv, StartPlaces, StartGoes, ServerIs, Pending
  <1>1. ASSUME NEW s \in StartCall, NEW p \in Port, BeginStart(s, p) PROVE SingleInv'
    <2>1. CASE overlap \/ \E o \in StartCall : Pending(o)
      BY <1>1, <2>1 DEF BeginStart
    <2>2. CASE ~overlap /\ \A o \in StartCall : ~Pending(o)
      BY <1>1, <2>2 DEF BeginStart
    <2> QED BY <2>1, <2>2
  <1>2. ASSUME NEW s \in StartCall, AlreadyRunning(s) PROVE SingleInv' BY <1>2 DEF AlreadyRunning
  <1>3. ASSUME NEW s \in StartCall, Spawn(s) PROVE SingleInv' BY <1>3 DEF Spawn, Listens
  <1>4. ASSUME NEW s \in StartCall, Ready(s) PROVE SingleInv' BY <1>4 DEF Ready, Listens
  <1>5. ASSUME NEW s \in StartCall, NotReady(s) PROVE SingleInv' BY <1>5 DEF NotReady
  <1>6. ASSUME NEW s \in StartCall, Boots(s) PROVE SingleInv' BY <1>6 DEF Boots
  <1>7. ASSUME NEW s \in StartCall, Dies(s) PROVE SingleInv' BY <1>7 DEF Dies
  <1>8. CASE StopAll BY <1>8 DEF StopAll, Running
  <1>9. CASE UNCHANGED serverVars BY <1>9 DEF serverVars
  <1> QED BY <1>1, <1>2, <1>3, <1>4, <1>5, <1>6, <1>7, <1>8, <1>9 DEF ServerNext, StartSteps

LEMMA ConfigKept ==
  ASSUME ProcessInv, ConfigInv, [ServerNext]_serverVars PROVE ConfigInv'
  <1> USE DEF ProcessInv, ConfigInv, StartPlaces, StartGoes, ServerIs, Pending, Listens, Running
  <1>1. ASSUME NEW s \in StartCall, NEW p \in Port, BeginStart(s, p) PROVE ConfigInv'
    BY <1>1 DEF BeginStart
  <1>2. ASSUME NEW s \in StartCall, AlreadyRunning(s) PROVE ConfigInv' BY <1>2 DEF AlreadyRunning
  <1>3. ASSUME NEW s \in StartCall, Spawn(s) PROVE ConfigInv' BY <1>3 DEF Spawn
  <1>4. ASSUME NEW s \in StartCall, Ready(s) PROVE ConfigInv' BY <1>4 DEF Ready
  <1>5. ASSUME NEW s \in StartCall, NotReady(s) PROVE ConfigInv' BY <1>5 DEF NotReady
  <1>6. ASSUME NEW s \in StartCall, Boots(s) PROVE ConfigInv' BY <1>6 DEF Boots
  <1>7. ASSUME NEW s \in StartCall, Dies(s) PROVE ConfigInv' BY <1>7 DEF Dies
  <1>8. CASE StopAll BY <1>8 DEF StopAll
  <1>9. CASE UNCHANGED serverVars BY <1>9 DEF serverVars
  <1> QED BY <1>1, <1>2, <1>3, <1>4, <1>5, <1>6, <1>7, <1>8, <1>9 DEF ServerNext, StartSteps

LEMMA OwnersKept ==
  ASSUME ProcessInv, SingleInv, PortIsOwned, PidIsOwn, [ServerNext]_serverVars
  PROVE  PortIsOwned' /\ PidIsOwn'
  <1> DEFINE Kept == PortIsOwned' /\ PidIsOwn'
  <1> USE DEF ProcessInv, PortIsOwned, PidIsOwn, StartPlaces, StartGoes, ServerIs, Listens
  <1>1. ASSUME NEW s \in StartCall, NEW p \in Port, BeginStart(s, p) PROVE Kept
    BY <1>1 DEF BeginStart
  <1>2. ASSUME NEW s \in StartCall, AlreadyRunning(s) PROVE Kept BY <1>2 DEF AlreadyRunning
  <1>3. ASSUME NEW s \in StartCall, Spawn(s) PROVE Kept BY <1>3 DEF Spawn
  <1>4. ASSUME NEW s \in StartCall, Ready(s) PROVE Kept BY <1>4 DEF Ready, SingleInv
  <1>5. ASSUME NEW s \in StartCall, NotReady(s) PROVE Kept BY <1>5 DEF NotReady
  <1>6. ASSUME NEW s \in StartCall, Boots(s) PROVE Kept BY <1>6 DEF Boots
  <1>7. ASSUME NEW s \in StartCall, Dies(s) PROVE Kept BY <1>7 DEF Dies
  <1>8. CASE StopAll BY <1>8 DEF StopAll, Running
  <1>9. CASE UNCHANGED serverVars BY <1>9 DEF serverVars
  <1> QED BY <1>1, <1>2, <1>3, <1>4, <1>5, <1>6, <1>7, <1>8, <1>9 DEF ServerNext, StartSteps

LEMMA ServerKeeps == ASSUME ServerInv, [ServerNext]_serverVars PROVE ServerInv'
  BY ProcessKept, SingleKept, ConfigKept, OwnersKept DEF ServerInv

LEMMA ServerSaysSo == ServerInv => ServersAreTold
  <1>1. ASSUME ServerInv PROVE FailedIsGone
    BY <1>1 DEF ServerInv, ProcessInv, FailedIsGone, Running
  <1>2. ASSUME ServerInv PROVE ConfigFindsServer
    BY <1>2 DEF ServerInv, ConfigInv, ConfigFindsServer, Listens, Running, Pending
  <1> QED BY <1>1, <1>2 DEF ServerInv, ServersAreTold

-----------------------------------------------------------------------------
\* The migrations.

Statement == {AddColumn(c) : c \in Columns} \cup {RenameKind, Baseline, RecordVersion(2), RecordVersion(3)}

\* A database that was new when the baseline was put on some process's list.
Fresh == ~gemini /\ (created => columns = Columns)

\* What a process has still to execute makes each version true before it records it, ...
Covers(q) ==
  \A j \in 1..Len(q) : q[j].do = "record" =>
    /\ created \/ \E i \in 1..(j - 1) : q[i] = Baseline
    /\ \A c \in Columns : c \in columns \/ \E i \in 1..(j - 1) : q[i] \in {AddColumn(c), Baseline}
    /\ q[j].version = 3 => ~gemini \/ \E i \in 1..(j - 1) : q[i] = RenameKind
\* ... and ends with the current one.
LeadsOn(q) ==
  /\ q \in Seq(Statement) /\ Covers(q)
  /\ q # <<>> => q[Len(q)] = RecordVersion(3)
  /\ (\E i \in 1..Len(q) : q[i] = Baseline) => Fresh

MigTyped ==
  /\ versions \in SUBSET {1, 2, 3} /\ columns \in SUBSET Columns
  /\ state \in [Process -> {"down", "migrating", "up"}] /\ DOMAIN script = Process
  /\ stops \in 0..MaxStops
VersionsInv ==
  /\ versions = {} => Fresh
  /\ versions # {} => created
  /\ 2 \in versions \/ 3 \in versions => columns = Columns
  /\ 3 \in versions => ~gemini
MigInv ==
  /\ MigTyped /\ VersionsInv
  /\ \A p \in Process :
       /\ LeadsOn(script[p])
       /\ state[p] = "up" \/ (state[p] = "migrating" /\ script[p] = <<>>) => 3 \in versions
       /\ state[p] # "migrating" => script[p] = <<>>

LEMMA CurrentIs ==
  ASSUME MigTyped
  PROVE  /\ CurrentOf(versions) \in 0..3 /\ (CurrentOf(versions) = 0 <=> versions = {})
         /\ CurrentOf(versions) # 0 => CurrentOf(versions) \in versions
         /\ \A v \in versions : v <= CurrentOf(versions)
  <1> DEFINE S == versions \cup {0}
  <1>1. S \subseteq Nat /\ S # {} /\ \A x \in S : x <= 3
    BY DEF MigTyped
  <1>2. \E x \in S : \A y \in S : y <= x
    <2> HIDE DEF S
    <2> QED BY <1>1, NatMax
  <1>3. \E x \in S : \A y \in S : x >= y
    BY <1>1, <1>2
  <1>4. Max(S) \in S /\ \A y \in S : Max(S) >= y
    <2> HIDE DEF S
    <2> QED BY <1>3 DEF Max
  <1>5. CurrentOf(versions) = Max(S)
    BY DEF CurrentOf
  <1>6. ASSUME Max(S) = 0 PROVE versions = {}
    <2>1. \A v \in versions : 0 >= v
      BY <1>4, <1>6
    <2> QED BY <2>1 DEF MigTyped
  <1>7. Max(S) \in 0..3 /\ (Max(S) # 0 => Max(S) \in versions)
    <2> HIDE DEF S
    <2>1. Max(S) \in Nat /\ Max(S) <= 3
      BY <1>1, <1>4
    <2> QED BY <1>4, <2>1 DEF S
  <1>8. versions = {} => Max(S) = 0
    BY <1>4
  <1>9. \A v \in versions : v <= Max(S)
    BY <1>1, <1>4
  <1> HIDE DEF S
  <1> QED BY <1>5, <1>6, <1>7, <1>8, <1>9

LEMMA MigSaysSo == MigInv => SchemaIsTrue
  <1> SUFFICES ASSUME MigInv PROVE SchemaIsTrue
    OBVIOUS
  <1>1. VersionIsTrue
    BY CurrentIs DEF MigInv, VersionsInv, VersionIsTrue, MigTyped
  <1>2. UpIsCurrent
    BY CurrentIs DEF MigInv, UpIsCurrent, CurrentVersion, MigTyped
  <1> QED BY <1>1, <1>2 DEF SchemaIsTrue

LEMMA NothingPending == LeadsOn(<<>>)
  BY DEF LeadsOn, Covers

LEMMA MigStarts == MigInit \/ SchemaIsCurrent => MigInv
  <1>1. ASSUME MigInit PROVE MigInv
    <2>1. MigTyped /\ \A p \in Process : script[p] = <<>> /\ state[p] = "down"
      BY <1>1, StopAssumption DEF MigInit, MigTyped
    <2>2. VersionsInv
      <3>1. \/ versions = {} /\ ~created /\ ~gemini
            \/ versions = {1} /\ created
            \/ versions = {1, 2} /\ created /\ columns = Columns
        BY <1>1 DEF MigInit
      <3> QED BY <3>1 DEF VersionsInv, Fresh
    <2> QED BY <2>1, <2>2, NothingPending DEF MigInv
  <1>2. ASSUME SchemaIsCurrent PROVE MigInv
    <2>1. MigTyped /\ \A p \in Process : script[p] = <<>> /\ state[p] = "up"
      BY <1>2, StopAssumption DEF SchemaIsCurrent, MigTyped
    <2>2. VersionsInv /\ 3 \in versions
      BY <1>2 DEF SchemaIsCurrent, VersionsInv, Fresh
    <2> QED BY <2>1, <2>2, NothingPending DEF MigInv
  <1> QED BY <1>1, <1>2

\* The lists apply_migrations() makes.
LEMMA ScriptsAre ==
  /\ Script(0) = << Baseline, RecordVersion(3) >> /\ Script(3) = <<>>
  /\ Script(1) \in Seq(Statement) /\ Len(Script(1)) = 7
  /\ Script(1)[1] = AddColumn("rate_limited_until") /\ Script(1)[2] = AddColumn("rate_limit_reason")
  /\ Script(1)[3] = AddColumn("last_used_at") /\ Script(1)[4] = AddColumn("last_polled_at")
  /\ Script(1)[5] = RecordVersion(2) /\ Script(1)[6] = RenameKind /\ Script(1)[7] = RecordVersion(3)
  /\ Script(2) \in Seq(Statement) /\ Len(Script(2)) = 2
  /\ Script(2)[1] = RenameKind /\ Script(2)[2] = RecordVersion(3)
  <1> DEFINE adds == << AddColumn("rate_limited_until"), AddColumn("rate_limit_reason"),
                        AddColumn("last_used_at"), AddColumn("last_polled_at") >>
             m2 == [version |-> 2, statements |-> adds]
             m3 == [version |-> 3, statements |-> << RenameKind >>]
             list(v) == [i \in 1 .. Len(Migration) |->
                           IF Migration[i].version > v THEN Step(Migration[i]) ELSE <<>>]
  <1>1. Script(0) = << Baseline, RecordVersion(3) >> /\ Script(3) = <<>>
    BY DEF Script, UpToDate, CurrentVersion
  <1>2. Len(Migration) = 2 /\ Migration[1] = m2 /\ Migration[2] = m3
    BY DEF Migration
  <1>3. adds \in Seq(Statement) /\ <<RenameKind>> \in Seq(Statement)
        /\ <<RecordVersion(2)>> \in Seq(Statement) /\ <<RecordVersion(3)>> \in Seq(Statement)
    BY DEF Statement, Columns
  <1>4. /\ Len(adds) = 4
        /\ adds[1] = AddColumn("rate_limited_until") /\ adds[2] = AddColumn("rate_limit_reason")
        /\ adds[3] = AddColumn("last_used_at") /\ adds[4] = AddColumn("last_polled_at")
    OBVIOUS
  <1>5. Step(m2) = adds \o <<RecordVersion(2)>> /\ Step(m3) = <<RenameKind>> \o <<RecordVersion(3)>>
    BY DEF Step
  <1>6. list(1) = << Step(m2), Step(m3) >> /\ list(2) = << <<>>, Step(m3) >>
    BY <1>2
  <1>7. Script(1) = FlattenSeq(list(1)) /\ Script(2) = FlattenSeq(list(2))
    BY DEF Script, UpToDate, CurrentVersion
  <1> HIDE DEF adds, m2, m3, list
  <1>8. /\ Step(m2) \in Seq(Statement) /\ Len(Step(m2)) = 5 /\ \A i \in 1..4 : Step(m2)[i] = adds[i]
        /\ Step(m2)[5] = RecordVersion(2)
    <2> DEFINE r == <<RecordVersion(2)>>
    <2>0. r \in Seq(Statement) /\ adds \in Seq(Statement)
      BY <1>3
    <2>1. Len(r) = 1 /\ r[1] = RecordVersion(2)
      OBVIOUS
    <2> HIDE DEF r
    <2>2. Step(m2) = adds \o r
      BY <1>5 DEF r
    <2>3. /\ adds \o r \in Seq(Statement) /\ Len(adds \o r) = Len(adds) + Len(r)
          /\ \A i \in 1..Len(adds) : (adds \o r)[i] = adds[i]
          /\ \A i \in 1..Len(r) : (adds \o r)[Len(adds) + i] = r[i]
      BY <2>0, Joined
    <2>4. Step(m2)[5] = r[1]
      BY <1>4, <2>1, <2>2, <2>3
    <2>5. Step(m2) \in Seq(Statement) /\ Len(Step(m2)) = 5
      BY <1>4, <2>1, <2>2, <2>3
    <2>6. \A i \in 1..4 : Step(m2)[i] = adds[i]
      BY <1>4, <2>2, <2>3
    <2> QED BY <2>1, <2>4, <2>5, <2>6
  <1>9. /\ Step(m3) \in Seq(Statement) /\ Len(Step(m3)) = 2
        /\ Step(m3)[1] = RenameKind /\ Step(m3)[2] = RecordVersion(3)
    BY <1>3, <1>5, Joined
  <1>10. Script(1) = Step(m2) \o Step(m3)
    BY <1>6, <1>7, <1>8, <1>9, FlattenTwo
  <1>11. /\ Script(1) \in Seq(Statement) /\ Len(Script(1)) = 7
         /\ \A i \in 1..5 : Script(1)[i] = Step(m2)[i] 
         /\ Script(1)[6] = Step(m3)[1] /\ Script(1)[7] = Step(m3)[2]
    <2> DEFINE q == Step(m2)
               r == Step(m3)
    <2>0. q \in Seq(Statement) /\ r \in Seq(Statement)
      BY <1>8, <1>9
    <2>1. Len(q) = 5 /\ Len(r) = 2
      BY <1>8, <1>9
    <2>2. Script(1) = q \o r
      BY <1>10
    <2> HIDE DEF q, r
    <2>3. /\ q \o r \in Seq(Statement) /\ Len(q \o r) = Len(q) + Len(r)
          /\ \A i \in 1..Len(q) : (q \o r)[i] = q[i]
          /\ \A i \in 1..Len(r) : (q \o r)[Len(q) + i] = r[i]
      BY <2>0, Joined
    <2>4. Script(1)[6] = r[1] /\ Script(1)[7] = r[2]
      BY <2>1, <2>2, <2>3
    <2>5. Script(1) \in Seq(Statement) /\ Len(Script(1)) = 7
      <3>1. Script(1) \in Seq(Statement) /\ Len(Script(1)) = Len(q) + Len(r)
        BY <2>2, <2>3
      <3> QED BY <2>1, <3>1
    <2>6. \A i \in 1..5 : Script(1)[i] = q[i]
      BY <2>1, <2>2, <2>3
    <2> QED BY <2>4, <2>5, <2>6 DEF q, r
  <1>12. Script(2) = Step(m3)
    <2>1. <<>> \in Seq(Statement) /\ <<>> \o Step(m3) = Step(m3)
      BY <1>9
    <2> QED BY <1>6, <1>7, <1>9, <2>1, FlattenTwo
  <1> QED BY <1>1, <1>4, <1>8, <1>9, <1>11, <1>12

\* What a process reads as it begins is what it brings up to date.
LEMMA BeginPends ==
  ASSUME MigTyped, VersionsInv
  PROVE  LET q == Script(CurrentOf(versions)) IN LeadsOn(q) /\ (q = <<>> => 3 \in versions)
  <1> DEFINE v == CurrentOf(versions)
             q == Script(v)
  <1>1. /\ v \in 0..3 /\ (v = 0 <=> versions = {}) /\ (v # 0 => v \in versions)
    BY CurrentIs
  <1>2. CASE v = 0
    <2>1. q = << Baseline, RecordVersion(3) >>
      BY <1>2, ScriptsAre
    <2>2. q \in Seq(Statement) /\ Len(q) = 2 /\ q[1] = Baseline /\ q[2] = RecordVersion(3)
      BY <2>1 DEF Statement
    <2>3. Fresh
      BY <1>1, <1>2 DEF VersionsInv
    <2> HIDE DEF q
    <2>4. \A j \in 1..Len(q) : j = 1 \/ j = 2
      BY <2>2
    <2>5. Covers(q)
      <3>1. q[1].do # "record" /\ 1 \in 1..(2 - 1)
        BY <2>2 DEF Baseline
      <3> QED BY <2>2, <2>3, <2>4, <3>1 DEF Covers, Fresh
    <2> QED BY <2>2, <2>3, <2>5 DEF LeadsOn, q
  <1>3. CASE v = 1
    <2>1. /\ q \in Seq(Statement) /\ Len(q) = 7
          /\ q[1] = AddColumn("rate_limited_until") /\ q[2] = AddColumn("rate_limit_reason")
          /\ q[3] = AddColumn("last_used_at") /\ q[4] = AddColumn("last_polled_at")
          /\ q[5] = RecordVersion(2) /\ q[6] = RenameKind /\ q[7] = RecordVersion(3)
      BY <1>3, ScriptsAre
    <2> HIDE DEF q
    <2>2. \A j \in 1..Len(q) : j \in {1, 2, 3, 4, 5, 6, 7}
      BY <2>1
    <2>3. /\ \A j \in {1, 2, 3, 4, 6} : q[j].do # "record" /\ q[j] # Baseline
          /\ q[5] # Baseline /\ q[7] # Baseline /\ q[5].version = 2
      BY <2>1 DEF AddColumn, RenameKind, Baseline, RecordVersion
    <2>4. created
      BY <1>1, <1>3 DEF VersionsInv
    <2>5. \A j \in {5, 7}, c \in Columns : \E i \in 1..(j - 1) : q[i] = AddColumn(c)
      <3>1. \A c \in Columns : \E i \in {1, 2, 3, 4} : q[i] = AddColumn(c)
        BY <2>1 DEF Columns
      <3>2. \A j \in {5, 7}, i \in {1, 2, 3, 4} : i \in 1..(j - 1)
        OBVIOUS
      <3> QED BY <3>1, <3>2
    <2>6. \E i \in 1..(7 - 1) : q[i] = RenameKind
      BY <2>1
    <2>7. Covers(q)
      BY <2>2, <2>3, <2>4, <2>5, <2>6 DEF Covers
    <2>8. \A i \in 1..Len(q) : q[i] # Baseline
      BY <2>2, <2>3
    <2> QED BY <2>1, <2>7, <2>8 DEF LeadsOn, q
  <1>4. CASE v = 2
    <2>1. q \in Seq(Statement) /\ Len(q) = 2 /\ q[1] = RenameKind /\ q[2] = RecordVersion(3)
      BY <1>4, ScriptsAre
    <2> HIDE DEF q
    <2>2. \A j \in 1..Len(q) : j = 1 \/ j = 2
      BY <2>1
    <2>3. q[1].do # "record" /\ q[1] # Baseline /\ q[2] # Baseline /\ 1 \in 1..(2 - 1)
      BY <2>1 DEF RenameKind, Baseline, RecordVersion
    <2>4. created /\ columns = Columns
      BY <1>1, <1>4 DEF VersionsInv
    <2>5. Covers(q)
      BY <2>1, <2>2, <2>3, <2>4 DEF Covers
    <2> QED BY <2>1, <2>2, <2>3, <2>5 DEF LeadsOn, q
  <1>5. CASE v = 3
    BY <1>1, <1>5, ScriptsAre, NothingPending
  <1> QED BY <1>1, <1>2, <1>3, <1>4, <1>5

\* The next statement of a list leaves what the rest of it needs.
LEMMA ExecuteRest ==
  ASSUME MigTyped, VersionsInv, NEW q, LeadsOn(q), q # <<>>,
         IF Duplicate(Head(q)) THEN UNCHANGED <<versions, created, columns, gemini>> ELSE Effect(Head(q))
  PROVE  /\ versions' \in SUBSET {1, 2, 3} /\ columns' \in SUBSET Columns /\ VersionsInv'
         /\ \A r : LeadsOn(r) => LeadsOn(r)'
         /\ LeadsOn(Tail(q))' /\ (Tail(q) = <<>> => 3 \in versions') /\ versions \subseteq versions'
  <1> DEFINE s == Head(q)
  <1>0. /\ q \in Seq(Statement) /\ Len(q) \in Nat /\ Len(q) >= 1 /\ s = q[1] /\ s \in Statement
        /\ Tail(q) \in Seq(Statement) /\ Len(Tail(q)) = Len(q) - 1
        /\ \A i \in 1..Len(Tail(q)) : Tail(q)[i] = q[i + 1]
    BY DEF LeadsOn
  <1>1. PICK t \in Statement : t = s
    BY <1>0
  <1> HIDE DEF s
  <1>2. \/ \E c \in Columns : t = AddColumn(c)
        \/ t = RenameKind \/ t = Baseline \/ t = RecordVersion(2) \/ t = RecordVersion(3)
    BY DEF Statement
  <1>3. IF Duplicate(t) THEN UNCHANGED <<versions, created, columns, gemini>> ELSE Effect(t)
    BY <1>1 DEF s
  <1>4. Covers(q) /\ (t = Baseline => Fresh)
    BY <1>0, <1>1 DEF LeadsOn
  \* What it brings about.
  <1>5. ASSUME NEW c \in Columns, t = AddColumn(c)
        PROVE  (created' <=> created) /\ columns' = columns \cup {c} /\ (~gemini => ~gemini') /\ versions' = versions
    BY <1>3, <1>5 DEF AddColumn, Duplicate, Effect
  <1>6. ASSUME t = RenameKind
        PROVE  (created' <=> created) /\ columns' = columns /\ ~gemini' /\ versions' = versions
    BY <1>3, <1>6 DEF RenameKind, Duplicate, Effect
  <1>7. ASSUME t = Baseline
        PROVE  created' /\ columns' = Columns /\ (~gemini => ~gemini') /\ versions' = versions
    BY <1>3, <1>4, <1>7 DEF Baseline, Duplicate, Effect, Fresh
  <1>8. ASSUME NEW v \in {2, 3}, t = RecordVersion(v)
        PROVE  (created' <=> created) /\ columns' = columns /\ (~gemini => ~gemini') /\ versions' = versions \cup {v}
    BY <1>3, <1>8 DEF RecordVersion, Duplicate, Effect, Recorded
  \* It never takes anything away.
  <1>9. /\ (created => created') /\ (~gemini => ~gemini') /\ (Fresh => Fresh')
        /\ columns \subseteq columns' /\ columns' \in SUBSET Columns /\ versions \subseteq versions'
    <2>1. CASE \E c \in Columns : t = AddColumn(c)
      BY <1>5, <2>1 DEF Fresh, MigTyped
    <2>2. CASE t = RenameKind
      BY <1>6, <2>2 DEF Fresh, MigTyped
    <2>3. CASE t = Baseline
      BY <1>7, <2>3 DEF Fresh, MigTyped
    <2>4. CASE t = RecordVersion(2) \/ t = RecordVersion(3)
      BY <1>8, <2>4 DEF Fresh, MigTyped
    <2> QED BY <1>2, <2>1, <2>2, <2>3, <2>4
  <1>10. versions' = versions \/ \E v \in {2, 3} : t = RecordVersion(v) /\ versions' = versions \cup {v}
    BY <1>2, <1>5, <1>6, <1>7, <1>8
  <1>11. versions' \in SUBSET {1, 2, 3}
    BY <1>10 DEF MigTyped
  <1>12. VersionsInv'
    <2>1. CASE versions' = versions
      BY <1>9, <2>1 DEF VersionsInv, MigTyped
    <2>2. ASSUME NEW v \in {2, 3}, t = RecordVersion(v), versions' = versions \cup {v}
          PROVE  VersionsInv'
      <3>1. q[1].do = "record" /\ q[1].version = v /\ 1 \in 1..Len(q) /\ 1..(1 - 1) = {}
        BY <1>0, <1>1, <2>2 DEF s, RecordVersion
      <3>2. created /\ columns = Columns /\ (v = 3 => ~gemini)
        BY <1>4, <3>1 DEF Covers, MigTyped
      <3> QED BY <1>9, <2>2, <3>2 DEF VersionsInv
    <2> QED BY <1>10, <2>1, <2>2
  <1>13. ASSUME NEW r, LeadsOn(r) PROVE LeadsOn(r)'
    <2>1. Covers(r)'
      BY <1>9, <1>13 DEF LeadsOn, Covers
    <2> QED BY <1>9, <1>13, <2>1 DEF LeadsOn
  <1>14. Covers(Tail(q))'
    <2> DEFINE r == Tail(q)
    <2>1. ASSUME NEW j \in 1..Len(r), r[j].do = "record"
          PROVE  /\ created' \/ \E i \in 1..(j - 1) : r[i] = Baseline
                 /\ \A c \in Columns : c \in columns' \/ \E i \in 1..(j - 1) : r[i] \in {AddColumn(c), Baseline}
                 /\ r[j].version = 3 => ~gemini' \/ \E i \in 1..(j - 1) : r[i] = RenameKind
      <3>1. r[j] = q[j + 1] /\ j + 1 \in 1..Len(q) /\ (j + 1) - 1 = j
        BY <1>0
      <3>2. /\ created \/ \E i \in 1..j : q[i] = Baseline
            /\ \A c \in Columns : c \in columns \/ \E i \in 1..j : q[i] \in {AddColumn(c), Baseline}
            /\ r[j].version = 3 => ~gemini \/ \E i \in 1..j : q[i] = RenameKind
        BY <1>4, <2>1, <3>1 DEF Covers
      <3>3. \A i \in 1..j : q[i] = t \/ (i - 1 \in 1..(j - 1) /\ q[i] = r[i - 1])
        <4>1. ASSUME NEW i \in 1..j PROVE q[i] = t \/ (i - 1 \in 1..(j - 1) /\ q[i] = r[i - 1])
          <5>1. CASE i = 1
            BY <1>0, <1>1, <5>1 DEF s
          <5>2. CASE i # 1
            <6>1. i - 1 \in 1..(j - 1) /\ i - 1 \in 1..Len(r) /\ (i - 1) + 1 = i
              BY <1>0, <5>2
            <6> QED BY <1>0, <6>1
          <5> QED BY <5>1, <5>2
        <4> QED BY <4>1
      <3> HIDE DEF r
      <3>4. created' \/ \E i \in 1..(j - 1) : r[i] = Baseline
        BY <1>7, <1>9, <3>2, <3>3
      <3>5. ASSUME NEW c \in Columns
            PROVE  c \in columns' \/ \E i \in 1..(j - 1) : r[i] \in {AddColumn(c), Baseline}
        BY <1>5, <1>7, <1>9, <3>2, <3>3
      <3>6. r[j].version = 3 => ~gemini' \/ \E i \in 1..(j - 1) : r[i] = RenameKind
        BY <1>6, <1>9, <3>2, <3>3
      <3> QED BY <3>4, <3>5, <3>6
    <2> HIDE DEF r
    <2>2. Covers(r)'
      BY <2>1 DEF Covers
    <2> QED BY <2>2 DEF r
  <1>15. Tail(q) # <<>> => Tail(q)[Len(Tail(q))] = RecordVersion(3)
    <2>1. Tail(q) # <<>> => Len(Tail(q)) \in 1..Len(Tail(q)) /\ Len(Tail(q)) + 1 = Len(q)
      BY <1>0
    <2> QED BY <1>0, <2>1 DEF LeadsOn
  <1>16. (\E i \in 1..Len(Tail(q)) : Tail(q)[i] = Baseline) => Fresh'
    <2>1. \A i \in 1..Len(Tail(q)) : i + 1 \in 1..Len(q)
      BY <1>0
    <2>2. (\E i \in 1..Len(Tail(q)) : Tail(q)[i] = Baseline) => \E j \in 1..Len(q) : q[j] = Baseline
      BY <1>0, <2>1
    <2>3. (\E j \in 1..Len(q) : q[j] = Baseline) => Fresh
      BY DEF LeadsOn
    <2> QED BY <1>9, <2>2, <2>3
  <1>17. Tail(q) = <<>> => 3 \in versions'
    <2>0. \A r : r = <<>> => Len(r) = 0
      OBVIOUS
    <2>1. Tail(q) = <<>> => Len(Tail(q)) = 0
      BY ONLY <2>0
    <2>2. Len(Tail(q)) = 0 => Len(q) = 1
      <3>1. Len(q) \in Nat /\ Len(Tail(q)) = Len(q) - 1
        BY <1>0
      <3> QED BY ONLY <3>1
    <2>3. Len(q) = 1 => t = RecordVersion(3)
      BY <1>0, <1>1 DEF LeadsOn, s
    <2> QED BY <1>8, <2>1, <2>2, <2>3
  <1>18. LeadsOn(Tail(q))'
    BY <1>0, <1>14, <1>15, <1>16 DEF LeadsOn
  <1> QED BY <1>9, <1>11, <1>12, <1>13, <1>17, <1>18

LEMMA MigStep == MigInv /\ [MigNext]_migVars => MigInv'
  <1> SUFFICES ASSUME MigInv, [MigNext]_migVars PROVE MigInv'
    OBVIOUS
  <1>0. MigTyped /\ VersionsInv
    BY DEF MigInv
  <1>1. ASSUME UNCHANGED <<versions, created, columns, gemini>>
        PROVE  VersionsInv' /\ \A q : LeadsOn(q) => LeadsOn(q)'
    BY <1>0, <1>1 DEF VersionsInv, Fresh, LeadsOn, Covers
  <1>2. ASSUME NEW p \in Process, Begin(p) PROVE MigInv'
    <2>1. state[p] = "down" /\ state' = [state EXCEPT ![p] = "migrating"]
          /\ script' = [script EXCEPT ![p] = Script(CurrentOf(versions))]
          /\ UNCHANGED <<versions, created, columns, gemini, stops>>
      BY <1>2 DEF Begin
    <2>2. MigTyped'
      BY <1>0, <2>1 DEF MigTyped
    <2>3. \A r \in Process : r # p => script'[r] = script[r] /\ state'[r] = state[r]
      BY <1>0, <2>1 DEF MigTyped
    <2>4. script'[p] = Script(CurrentOf(versions)) /\ state'[p] = "migrating"
      BY <1>0, <2>1 DEF MigTyped
    <2>5. LeadsOn(script'[p]) /\ (script'[p] = <<>> => 3 \in versions)
      BY <1>0, <2>4, BeginPends
    <2>6. \A r \in Process : LeadsOn(script'[r])
      BY <2>3, <2>5 DEF MigInv
    <2>7. \A q : LeadsOn(q) => LeadsOn(q)'
      BY <1>1, <2>1
    <2>8. VersionsInv'
      BY <1>1, <2>1
    <2>9. \A r \in Process :
            /\ state'[r] = "up" \/ (state'[r] = "migrating" /\ script'[r] = <<>>) => 3 \in versions'
            /\ state'[r] # "migrating" => script'[r] = <<>>
      BY <2>1, <2>3, <2>4, <2>5 DEF MigInv
    <2> QED BY <2>2, <2>6, <2>7, <2>8, <2>9 DEF MigInv
  <1>3. ASSUME NEW p \in Process, Execute(p) PROVE MigInv'
    <2>0. PICK q : q = script[p]
      OBVIOUS
    <2>1. /\ state[p] = "migrating" /\ q # <<>>
          /\ IF Duplicate(Head(q)) THEN UNCHANGED <<versions, created, columns, gemini>> ELSE Effect(Head(q))
          /\ script' = [script EXCEPT ![p] = Tail(q)]
          /\ state' = [state EXCEPT ![p] = "migrating"] /\ stops' = stops
      BY <1>0, <1>3, <2>0 DEF Execute, Tolerated, MigTyped
    <2>2. LeadsOn(q)
      BY <2>0 DEF MigInv
    <2>3. /\ versions' \in SUBSET {1, 2, 3} /\ columns' \in SUBSET Columns /\ VersionsInv'
          /\ \A r : LeadsOn(r) => LeadsOn(r)'
          /\ LeadsOn(Tail(q))' /\ (Tail(q) = <<>> => 3 \in versions') /\ versions \subseteq versions'
      BY <1>0, <2>1, <2>2, ExecuteRest
    <2>4. MigTyped'
      BY <1>0, <2>1, <2>3 DEF MigTyped
    <2>5. \A r \in Process : r # p => script'[r] = script[r] /\ state'[r] = state[r]
      BY <1>0, <2>1 DEF MigTyped
    <2>6. script'[p] = Tail(q) /\ state'[p] = "migrating"
      BY <1>0, <2>1 DEF MigTyped
    <2>7. \A r \in Process : LeadsOn(script[r])
      BY DEF MigInv
    <2>8. \A r \in Process : LeadsOn(script[r])'
      <3>1. ASSUME NEW r \in Process PROVE LeadsOn(script[r])'
        <4>1. PICK u : u = script'[r]
          OBVIOUS
        <4>2. LeadsOn(u)'
          BY <2>3, <2>5, <2>6, <2>7, <4>1
        <4> QED BY <4>1, <4>2 DEF LeadsOn, Covers, Fresh
      <3> QED BY <3>1
    <2>9. \A r \in Process :
            /\ state'[r] = "up" \/ (state'[r] = "migrating" /\ script'[r] = <<>>) => 3 \in versions'
            /\ state'[r] # "migrating" => script'[r] = <<>>
      BY <2>3, <2>5, <2>6 DEF MigInv
    <2> QED BY <2>3, <2>4, <2>8, <2>9 DEF MigInv
  <1>4. ASSUME NEW p \in Process, Finish(p) \/ StopProcess(p) PROVE MigInv'
    <2>1. /\ state'= [state EXCEPT ![p] = "up"] /\ script' = script /\ script[p] = <<>> /\ state[p] = "migrating"
             /\ stops' = stops
          \/ /\ state' = [state EXCEPT ![p] = "down"] /\ script' = [script EXCEPT ![p] = <<>>]
             /\ stops' \in 0..MaxStops
      BY <1>0, <1>4, StopAssumption DEF Finish, StopProcess, MigTyped
    <2>2. UNCHANGED <<versions, created, columns, gemini>>
      BY <1>4 DEF Finish, StopProcess
    <2>3. MigTyped'
      BY <1>0, <2>1, <2>2 DEF MigTyped
    <2>4. \A r \in Process : r # p => script'[r] = script[r] /\ state'[r] = state[r]
      BY <1>0, <2>1 DEF MigTyped
    <2>5. script'[p] = <<>> /\ (state'[p] = "down" \/ (state'[p] = "up" /\ 3 \in versions))
      BY <1>0, <2>1 DEF MigTyped, MigInv
    <2>6. \A r \in Process : LeadsOn(script'[r])
      BY <2>4, <2>5, NothingPending DEF MigInv
    <2>7. \A q : LeadsOn(q) => LeadsOn(q)'
      BY <1>1, <2>2
    <2>8. VersionsInv'
      BY <1>1, <2>2
    <2>9. \A r \in Process :
            /\ state'[r] = "up" \/ (state'[r] = "migrating" /\ script'[r] = <<>>) => 3 \in versions'
            /\ state'[r] # "migrating" => script'[r] = <<>>
      BY <2>2, <2>4, <2>5 DEF MigInv
    <2> QED BY <2>3, <2>6, <2>7, <2>8, <2>9 DEF MigInv
  <1>5. ASSUME UNCHANGED migVars PROVE MigInv'
    <2>1. /\ UNCHANGED <<versions, created, columns, gemini>>
          /\ state' = state /\ script' = script /\ stops' = stops
      BY <1>5 DEF migVars
    <2>2. VersionsInv' /\ \A q : LeadsOn(q) => LeadsOn(q)'
      BY <1>1, <2>1
    <2>3. MigTyped'
      BY <1>0, <2>1 DEF MigTyped
    <2> QED BY <2>1, <2>2, <2>3 DEF MigInv
  <1> QED BY <1>2, <1>3, <1>4, <1>5 DEF MigNext

-----------------------------------------------------------------------------
\* The services together: one moves, and the invariants of all are kept.

SetUpInv == OnbInv /\ DialogInv /\ WizardInv /\ ServerInv
LEMMA SetUpHolds == Services => []SetUpInv
  <1>1. ServicesInit => SetUpInv
    BY OnbStarts, DialogStarts, WizardStarts, ServerStarts DEF ServicesInit, SetUpInv
  <1>2. ASSUME SetUpInv,
               [ServicesNext]_<<part, vars, onbVars, migVars, wizVars, pdVars, serverVars>>
        PROVE  SetUpInv'
    <2>1. [OnbNext]_onbVars /\ [PDNext]_pdVars BY <1>2 DEF ServicesNext
    <2>2. [WizardNext]_wizVars /\ [ServerNext]_serverVars BY <1>2 DEF ServicesNext
    <2> QED BY <1>2, <2>1, <2>2, OnbKeeps, DialogKeeps, WizardKeeps, ServerKeeps DEF SetUpInv
  <1> QED BY <1>1, <1>2, PTL DEF Services

\* A row of the first-run wizard says done of an account whose credential was validated,
\* whatever requests overlap; its kind is that of its account, and until a button is
\* clicked twice it is the account whose credential the wizard asks for.
THEOREM RowCorrect == Services => []RowIsTrue
  <1>1. SetUpInv => RowIsTrue BY OnbSaysSo DEF SetUpInv
  <1> QED BY <1>1, SetUpHolds, PTL

\* A credential is made of the answers to its own questions, the wizard of accounts asks
\* for that of the account picked, and the proxy's servers are where their starts and the
\* config say, for any number of calls, questions, ports and starts.
THEOREM SettingUpCorrect == Services => []SettingUpIsTrue
  <1>1. SetUpInv => SettingUpIsTrue
    BY DialogSaysSo, WizardSaysSo, ServerSaysSo DEF SetUpInv, SettingUpIsTrue
  <1> QED BY <1>1, SetUpHolds, PTL

\* The schema, with processes that start and crash on one database: the recorded version
\* is what the tables are, and nobody serves on an older one.
THEOREM SchemaCorrect == Services => []SchemaIsTrue
  <1>1. ServicesInit => MigInv
    BY MigStarts DEF ServicesInit
  <1>2. MigInv /\ [ServicesNext]_<<part, vars, onbVars, migVars, wizVars, pdVars, serverVars>> => MigInv'
    BY MigStep DEF ServicesNext
  <1> QED BY <1>1, <1>2, MigSaysSo, PTL DEF Services

-----------------------------------------------------------------------------
\* The event log of a chat session.
\* Inductive: the ring is the newest part of the history.
Inv == TypeOK /\ Retained

Entry == [ev: Event, seq: 1..MaxSeq]

USE MaxLogAssumption, MaxSeqAssumption

\* A tagged event has the type of a log entry.
LEMMA TaggedType ==
  ASSUME NEW e \in Event, NEW n \in 1..MaxSeq
  PROVE  Tagged(e, n) \in Entry /\ Tagged(e, n).seq = n
BY DEF Tagged, Entry

\* What the deque holds after one more event: the old entries, the first f = 1 of
\* them shifted out when it was full, and the new one last.
Shifted(r, q, x, f) ==
  /\ Len(r) = Len(q) + 1 - f
  /\ f = 1 => Len(r) = MaxLog
  /\ \A i \in 1..Len(r) : r[i] = IF f + i <= Len(q) THEN q[f + i] ELSE x

LEMMA RetainAppend ==
  ASSUME NEW S, NEW q \in Seq(S), NEW x \in S, Len(q) <= MaxLog
  PROVE  /\ Retain(Append(q, x)) \in Seq(S)
         /\ Len(Retain(Append(q, x))) <= MaxLog
         /\ \E f \in {0, 1} : Shifted(Retain(Append(q, x)), q, x, f)
<1> DEFINE a == Append(q, x)
           r == Retain(a)
<1>1. a \in Seq(S) /\ Len(a) = Len(q) + 1 /\ Len(q) \in Nat
  OBVIOUS
<1>2. \A i \in 1..Len(a) : a[i] = IF i <= Len(q) THEN q[i] ELSE x
  OBVIOUS
<1>3. CASE Len(a) <= MaxLog
  <2>1. r = a
    BY <1>1, <1>3 DEF Retain
  <2> HIDE DEF a, r
  <2>2. Shifted(r, q, x, 0)
    BY <1>1, <1>2, <2>1 DEF Shifted
  <2> QED
    BY <1>1, <1>3, <2>1, <2>2 DEF r, a
<1>4. CASE ~(Len(a) <= MaxLog)
  <2>1. r = Tail(a)
    BY <1>1, <1>4 DEF Retain
  <2> HIDE DEF a, r
  <2>2. r \in Seq(S) /\ Len(r) = Len(a) - 1
    BY <1>1, <2>1
  <2>3. \A i \in 1..Len(r) : r[i] = a[i + 1]
    BY <1>1, <2>1
  <2>4. Len(r) = MaxLog
    BY <1>1, <1>4, <2>2
  <2>5. ASSUME NEW i \in 1..Len(r)
        PROVE  r[i] = IF 1 + i <= Len(q) THEN q[1 + i] ELSE x
    BY <1>1, <1>2, <2>2, <2>3
  <2>6. Shifted(r, q, x, 1)
    BY <1>1, <2>2, <2>4, <2>5 DEF Shifted
  <2> QED
    BY <2>2, <2>4, <2>6 DEF r, a
<1> QED
  BY <1>3, <1>4

\* The empty log satisfies the invariant whatever number it starts from.
LEMMA EmptyRetained ==
  ASSUME NEW n \in 0..MaxSeq, log' = <<>>, seq' = n, base' = n, hist' = <<>>, known' \in BOOLEAN
  PROVE  Inv'
<1>1. log' \in Seq([ev: Event, seq: 1..MaxSeq]) /\ hist' \in Seq(Event)
  OBVIOUS
<1>2. Len(hist') = 0 /\ Len(log') = 0
  OBVIOUS
<1>3. TypeOK'
  BY <1>1 DEF TypeOK
<1>4. Retained'
  BY <1>2 DEF Retained
<1> QED
  BY <1>3, <1>4 DEF Inv

LEMMA PushKeepsInv ==
  ASSUME Inv, NEW e \in Event, DoPush(e)
  PROVE  Inv'
<1>1. CASE ~known
  BY <1>1 DEF Inv, TypeOK, Retained, DoPush, Push, logVars
<1>2. CASE known
  <2>1. /\ log' = Retain(Append(log, Tagged(e, seq + 1))) /\ seq' = seq + 1
        /\ base' = base /\ hist' = Append(hist, e) /\ known' = known
    BY <1>2 DEF DoPush, Push
  <2>2. seq + 1 \in 1..MaxSeq
    BY DEF DoPush, Inv, TypeOK
  <2>3. PICK x \in Entry : x = Tagged(e, seq + 1)
    BY <2>2, TaggedType
  <2>4. log \in Seq(Entry) /\ hist \in Seq(Event) /\ Len(log) <= MaxLog
    BY DEF Inv, TypeOK, Retained, Entry
  <2>5. log' \in Seq(Entry) /\ Len(log') <= MaxLog /\ \E g \in {0, 1} : Shifted(log', log, x, g)
    BY <2>1, <2>3, <2>4, RetainAppend
  <2>6. PICK f \in {0, 1} : Shifted(log', log, x, f)
    BY <2>5
  <2>7. /\ hist' \in Seq(Event) /\ Len(hist') = Len(hist) + 1
        /\ \A i \in 1..Len(hist) : hist'[i] = hist[i]
        /\ hist'[Len(hist) + 1] = e
    BY <2>1, <2>4
  <2>8. PICK n \in Nat, m \in Nat : n = Len(hist) /\ m = Len(log)
    BY <2>4
  <2>9. PICK d \in Nat :
          /\ d = n - m /\ seq = base + n
          /\ d = 0 \/ (d > 0 /\ m = MaxLog)
          /\ \A i \in 1..m : log[i] = Tagged(hist[d + i], base + d + i)
    <3>1. /\ seq = base + n
          /\ n - m = 0 \/ (n - m > 0 /\ m = MaxLog)
          /\ \A i \in 1..m : log[i] = Tagged(hist[(n - m) + i], base + (n - m) + i)
      BY <2>8 DEF Inv, Retained
    <3>2. n - m \in Nat
      BY <2>8, <3>1
    <3> QED  BY <3>1, <3>2
  <2>10. Len(log') = m + 1 - f /\ (f = 1 => m + 1 - f = MaxLog) /\ m + 1 - f <= MaxLog
    BY <2>5, <2>6, <2>8 DEF Shifted
  <2>11. d = n - m /\ seq = base + n
    BY <2>9
  <2>12. Len(hist') = n + 1 /\ seq' = seq + 1 /\ base' = base
    BY <2>1, <2>7, <2>8
  <2>13. f \in 0..1 /\ n \in Nat /\ m \in Nat /\ d \in Nat /\ base \in Nat
    BY <2>6, <2>8, <2>9 DEF Inv, TypeOK
  <2>14. TypeOK'
    <3>1. known' \in BOOLEAN /\ base' \in 0..MaxSeq
      BY <2>1 DEF Inv, TypeOK
    <3>2. seq' \in 0..MaxSeq
      BY <2>1, <2>2
    <3>3. log' \in Seq([ev: Event, seq: 1..MaxSeq])
      BY <2>5 DEF Entry
    <3> QED  BY <2>7, <3>1, <3>2, <3>3 DEF TypeOK
  <2>15. Len(hist') - Len(log') = d + f /\ seq' = base' + Len(hist')
    BY <2>10, <2>13, <2>11, <2>12
  <2>16. d + f = 0 \/ (d + f > 0 /\ Len(log') = MaxLog)
    BY <2>9, <2>10
  <2>17. ASSUME NEW i \in 1..Len(log')
         PROVE  log'[i] = Tagged(hist'[d + f + i], base' + (d + f) + i)
    <3>1. CASE f + i <= m
      <4>1. f + i \in 1..m /\ d + (f + i) \in 1..n
        BY <2>10, <2>13, <2>11, <3>1
      <4>2. log'[i] = log[f + i]
        BY <2>6, <2>8, <3>1 DEF Shifted
      <4>3. log'[i] = Tagged(hist[d + (f + i)], base + d + (f + i))
        BY <2>9, <4>1, <4>2
      <4>4. hist'[d + (f + i)] = hist[d + (f + i)]
        BY <2>7, <2>8, <4>1
      <4>5. d + (f + i) = d + f + i /\ base + d + (f + i) = base' + (d + f) + i
        BY <2>1, <2>10, <2>13
      <4> QED  BY <4>3, <4>4, <4>5
    <3>2. CASE ~(f + i <= m)
      <4>1. d + f + i = n + 1
        BY <2>10, <2>13, <2>11, <3>2
      <4>2. log'[i] = Tagged(e, seq + 1)
        BY <2>3, <2>6, <2>8, <3>2 DEF Shifted
      <4>3. seq + 1 = base' + (d + f) + i
        BY <2>10, <2>13, <2>11, <2>12, <4>1
      <4> QED  BY <2>7, <2>8, <4>1, <4>2, <4>3
    <3> QED  BY <3>1, <3>2
  <2>18. Retained'
    BY <1>2, <2>1, <2>5, <2>15, <2>16, <2>17 DEF Retained
  <2> QED  BY <2>14, <2>18 DEF Inv
<1> QED
  BY <1>1, <1>2 DEF Inv, TypeOK

LEMMA NextKeepsInv == Inv /\ [Next]_vars => Inv'
<1> SUFFICES ASSUME Inv, [Next]_vars PROVE Inv'
  OBVIOUS
<1>1. CASE \E n \in 0..MaxSeq : DoInit(n)
  BY <1>1, EmptyRetained DEF DoInit, InitSession
<1>2. CASE DoRemove
  <2>1. 0 \in 0..MaxSeq /\ FALSE \in BOOLEAN
    OBVIOUS
  <2>2. log' = <<>> /\ seq' = 0 /\ base' = 0 /\ hist' = <<>> /\ known' = FALSE
    BY <1>2 DEF DoRemove, RemoveSession
  <2> QED  BY <2>1, <2>2, EmptyRetained
<1>3. CASE \E e \in Event : DoPush(e)
  BY <1>3, PushKeepsInv
<1>4. CASE \E n \in 0..MaxSeq : DoReplay(n)
  BY <1>4 DEF DoReplay, logVars, Inv, TypeOK, Retained
<1>5. CASE UNCHANGED vars
  BY <1>5 DEF vars, logVars, Inv, TypeOK, Retained
<1> QED
  BY <1>1, <1>2, <1>3, <1>4, <1>5 DEF Next

LEMMA InitKeepsInv == Init => Inv
<1>1. ASSUME Init PROVE Inv
  <2>1. log = <<>> /\ hist = <<>> /\ seq = 0 /\ base = 0 /\ known = FALSE
    BY <1>1 DEF Init, EmptyLog
  <2>2. log \in Seq([ev: Event, seq: 1..MaxSeq]) /\ hist \in Seq(Event)
    BY <2>1
  <2>3. Len(hist) = 0 /\ Len(log) = 0
    BY <2>1
  <2>4. TypeOK
    <3>1. 0 \in 0..MaxSeq
      OBVIOUS
    <3> QED  BY <2>1, <2>2, <3>1 DEF TypeOK
  <2>5. Retained
    BY <2>1, <2>3 DEF Retained
  <2> QED  BY <2>4, <2>5 DEF Inv
<1> QED
  BY <1>1

LEMMA InvHolds == Spec => []Inv
  BY InitKeepsInv, NextKeepsInv, PTL DEF Spec

\* Every variable keeps its type.
THEOREM TypeCorrect == Spec => []TypeOK
<1>1. Inv => TypeOK
  BY DEF Inv
<1> QED
  BY <1>1, InvHolds, PTL

\* chat_state.py: the ring holds the newest events, numbered without a hole up to
\* the last number given out, for every capacity.
THEOREM RetainedCorrect == Spec => []Retained
<1>1. Inv => Retained
  BY DEF Inv
<1> QED
  BY <1>1, InvHolds, PTL

-----------------------------------------------------------------------------
\* The first Lost events of the history were evicted.
Lost == Len(hist) - Len(log)

\* The invariant in plain terms.
LEMMA Contents ==
  ASSUME Inv
  PROVE  /\ Lost \in Nat /\ Len(hist) \in Nat /\ Len(log) \in Nat /\ base \in Nat
         /\ Len(hist) = Lost + Len(log) /\ seq = base + Len(hist)
         /\ Lost = 0 \/ Len(log) = MaxLog
         /\ \A i \in 1..Len(log) :
              log[i].ev = hist[Lost + i] /\ log[i].seq = base + Lost + i
<1>1. Len(hist) \in Nat /\ Len(log) \in Nat /\ base \in Nat
  BY DEF Inv, TypeOK
<1>2. /\ seq = base + Len(hist)
      /\ Lost = 0 \/ (Lost > 0 /\ Len(log) = MaxLog)
      /\ \A i \in 1..Len(log) : log[i] = Tagged(hist[Lost + i], base + Lost + i)
  BY DEF Inv, Retained, Lost
<1>3. Lost \in Nat /\ Len(hist) = Lost + Len(log)
  BY <1>1, <1>2 DEF Lost
<1>4. \A e, n : Tagged(e, n).ev = e /\ Tagged(e, n).seq = n
  BY DEF Tagged
<1> QED
  BY <1>1, <1>2, <1>3, <1>4

\* The whole log is returned exactly when all of it is newer than the cursor, so
\* the two branches of replay() are one filter.
LEMMA ReplayedIsFilter ==
  ASSUME Inv, NEW c \in Nat
  PROVE  /\ DOMAIN log = 1..Len(log)
         /\ \A i \in 1..Len(log) : (Outlived(c) \/ log[i].seq > c) <=> base + Lost + i > c
<1>1. DOMAIN log = 1..Len(log)
  BY DEF Inv, TypeOK
<1>2. ASSUME NEW i \in 1..Len(log)
      PROVE  (Outlived(c) \/ log[i].seq > c) <=> base + Lost + i > c
  <2>1. 1 \in 1..Len(log) /\ log # <<>>
    <3>1. Len(log) \in Nat /\ Len(log) > 0
      BY Contents
    <3> QED  BY <3>1
  <2>2. log[i].seq = base + Lost + i /\ log[1].seq = base + Lost + 1
    BY <2>1, Contents
  <2>3. Outlived(c) <=> c < base + Lost + 1
    BY <2>1, <2>2 DEF Outlived
  <2>4. i >= 1 /\ i \in Nat /\ Lost \in Nat /\ base \in Nat
    BY Contents
  <2> QED  BY <2>2, <2>3, <2>4
<1> QED
  BY <1>1, <1>2

\* The gap mark in terms of the history.
LEMMA GapMeaning ==
  ASSUME Inv, NEW c \in Nat
  PROVE  Gap(c) <=> Len(hist) > 0 /\ 0 < c /\ c < base + Lost
<1>1. CASE Len(log) = 0
  <2>1. log = <<>>
    BY <1>1 DEF Inv, TypeOK
  <2>2. Len(hist) = 0
    BY <1>1, Contents
  <2> QED  BY <2>1, <2>2 DEF Gap, Outlived
<1>2. CASE Len(log) # 0
  <2>1. 1 \in 1..Len(log) /\ log # <<>>
    <3>1. Len(log) \in Nat /\ Len(log) > 0
      BY <1>2, Contents
    <3> QED  BY <3>1
  <2>2. log[1].seq = base + Lost + 1 /\ Len(hist) > 0
    BY <2>1, Contents
  <2>3. Lost \in Nat /\ base \in Nat
    BY Contents
  <2> QED  BY <2>1, <2>2, <2>3 DEF Gap, Outlived
<1> QED
  BY <1>1, <1>2

\* What a replay returns is a run of the abstract feed.
LEMMA ReplayIsRun ==
  ASSUME Inv, NEW c \in Nat
  PROVE  Replayed(c) = Feed!Run(Lost, c)
<1>1. DOMAIN log = 1..Len(log) /\ DOMAIN hist = 1..Len(hist)
  BY DEF Inv, TypeOK
<1>2. ASSUME NEW i \in 1..Len(log)
      PROVE  log[i] = Feed!Numbered(Lost + i)
  <2>1. log[i] = Tagged(hist[Lost + i], base + Lost + i)
    BY DEF Inv, Retained, Lost
  <2>2. base + Lost + i = base + (Lost + i)
    BY Contents
  <2> QED  BY <2>1, <2>2 DEF Tagged, Feed!Numbered
<1>3. \A i \in 1..Len(log) : (Outlived(c) \/ log[i].seq > c) <=> base + (Lost + i) > c
  BY ReplayedIsFilter, Contents
<1>4. ASSUME NEW x \in Replayed(c) PROVE x \in Feed!Run(Lost, c)
  <2>1. PICK i \in 1..Len(log) : x = log[i] /\ (Outlived(c) \/ log[i].seq > c)
    BY <1>1 DEF Replayed
  <2>2. Lost + i \in 1..Len(hist) /\ Lost + i > Lost
    BY Contents
  <2> QED  BY <1>1, <1>2, <1>3, <2>1, <2>2 DEF Feed!Run
<1>5. ASSUME NEW x \in Feed!Run(Lost, c) PROVE x \in Replayed(c)
  <2>1. PICK j \in 1..Len(hist) : x = Feed!Numbered(j) /\ j > Lost /\ base + j > c
    BY <1>1 DEF Feed!Run
  <2>2. PICK i \in 1..Len(log) : j = Lost + i
    <3>1. j - Lost \in 1..Len(log) /\ j = Lost + (j - Lost)
      BY <2>1, Contents
    <3> QED  BY <3>1
  <2> QED  BY <1>1, <1>2, <1>3, <2>1, <2>2 DEF Replayed
<1> QED
  BY <1>4, <1>5

\* chat_state.py, ReplayResult: without a gap mark a client misses nothing that was
\* pushed after its cursor; with one it does.
THEOREM ReplayIsComplete == Spec => []ReplayComplete
<1>1. ASSUME Inv PROVE ReplayComplete
  <2>1. SUFFICES ASSUME NEW c \in 1..MaxSeq, hist # <<>>, c <= seq
                 PROVE  Gap(c) <=> \E n \in (c + 1)..seq : \A e \in Replayed(c) : e.seq # n
    BY DEF ReplayComplete
  <2>2. c \in Nat /\ c > 0
    OBVIOUS
  <2>3. Len(hist) > 0
    BY <1>1, <2>1 DEF Inv, TypeOK
  <2>4. Gap(c) <=> c < base + Lost
    BY <1>1, <2>2, <2>3, GapMeaning
  <2>5. /\ Lost \in Nat /\ Len(log) \in Nat /\ base \in Nat
        /\ seq = base + Lost + Len(log)
    BY <1>1, Contents
  <2>6. ASSUME NEW n \in (c + 1)..seq
        PROVE  (\E e \in Replayed(c) : e.seq = n) <=> n > base + Lost
    <3>1. n \in Nat /\ n > c /\ n <= base + Lost + Len(log)
      BY <2>2, <2>5
    <3>2. ASSUME NEW e \in Replayed(c), e.seq = n PROVE n > base + Lost
      <4>1. PICK i \in 1..Len(log) : e = log[i]
        BY <1>1, <2>2, ReplayedIsFilter DEF Replayed
      <4>2. e.seq = base + Lost + i
        BY <1>1, <4>1, Contents
      <4> QED  BY <2>5, <3>2, <4>2
    <3>3. ASSUME n > base + Lost PROVE \E e \in Replayed(c) : e.seq = n
      <4>1. PICK i \in 1..Len(log) : n = base + Lost + i
        <5>1. n - (base + Lost) \in 1..Len(log) /\ n = base + Lost + (n - (base + Lost))
          BY <2>5, <3>1, <3>3
        <5> QED  BY <5>1
      <4>2. log[i].seq = n
        BY <1>1, <4>1, Contents
      <4>3. log[i] \in Replayed(c)
        BY <1>1, <2>2, <3>1, <4>1, ReplayedIsFilter DEF Replayed
      <4> QED  BY <4>2, <4>3
    <3> QED  BY <3>2, <3>3
  <2>7. (\E n \in (c + 1)..seq : ~(n > base + Lost)) <=> c < base + Lost
    <3>1. ASSUME c < base + Lost PROVE \E n \in (c + 1)..seq : ~(n > base + Lost)
      <4>1. c + 1 \in (c + 1)..seq /\ ~(c + 1 > base + Lost)
        BY <2>2, <2>5, <3>1
      <4> QED  BY <4>1
    <3>2. ASSUME NEW n \in (c + 1)..seq, ~(n > base + Lost) PROVE c < base + Lost
      BY <2>2, <2>5, <3>2
    <3> QED  BY <3>1, <3>2
  <2> QED
    BY <2>4, <2>6, <2>7
<1> QED
  BY <1>1, InvHolds, PTL

-----------------------------------------------------------------------------
\* Every call on the ring buffer is a call on the abstract feed: callers cannot
\* tell the two apart.
THEOREM KeepsFeed == Spec => FeedSpec
<1>1. Init => Feed!Init
  BY DEF Init, EmptyLog, Feed!Init
<1>2. ASSUME Inv, [Next]_vars PROVE [Feed!Next]_(Feed!feedVars)
  <2>1. CASE \E n \in 0..MaxSeq : DoInit(n)
    BY <2>1 DEF DoInit, InitSession, Feed!Next, Feed!SetUp
  <2>2. CASE DoRemove
    BY <2>2 DEF DoRemove, RemoveSession, Feed!Next, Feed!TearDown
  <2>3. CASE \E e \in Event : DoPush(e)
    <3>1. PICK e \in Event : DoPush(e)
      BY <2>3
    <3>2. seq + 1 = base + Len(hist) + 1
      BY <1>2, Contents
    <3>3. Feed!Publish
      <4>1. CASE known
        BY <3>1, <3>2, <4>1 DEF DoPush, Push, PushAnswer, Feed!Publish
      <4>2. CASE ~known
        BY <3>1, <4>2 DEF DoPush, Push, PushAnswer, logVars, Feed!Publish
      <4> QED  BY <4>1, <4>2
    <3> QED  BY <3>3 DEF Feed!Next
  <2>4. CASE \E n \in 0..MaxSeq : DoReplay(n)
    <3>1. PICK c \in 0..MaxSeq : DoReplay(c)
      BY <2>4
    <3>2. c \in Nat
      OBVIOUS
    <3>3. Lost \in 0..Len(hist) /\ (Lost = 0 \/ Lost + MaxLog <= Len(hist))
      BY <1>2, Contents
    <3>4. reply' = Feed!Events(c, Feed!Run(Lost, c), Len(hist) > 0 /\ 0 < c /\ c < base + Lost)
      <4>1. Gap(c) = (Len(hist) > 0 /\ 0 < c /\ c < base + Lost)
        BY <1>2, <3>2, GapMeaning DEF Gap, Outlived
      <4> QED  BY <1>2, <3>1, <3>2, <4>1, ReplayIsRun DEF DoReplay
    <3>5. Feed!Answer
      BY <3>1, <3>3, <3>4 DEF DoReplay, logVars, Feed!Answer
    <3> QED  BY <3>5 DEF Feed!Next
  <2>5. CASE UNCHANGED vars
    BY <2>5 DEF vars, logVars, Feed!feedVars
  <2> QED
    BY <1>2, <2>1, <2>2, <2>3, <2>4, <2>5 DEF Next
<1> QED
  BY <1>1, <1>2, InvHolds, PTL DEF Spec, FeedSpec, Feed!Spec

-----------------------------------------------------------------------------
\* The types of all of them.

\* What is said of accounts of the first-run wizard is said of some that were created.
Accounted(v, n) == v.acct \in 0..n /\ (v.at = "work" /\ v.op = "finalize" => v.row.acct # 0)
Created ==
  /\ ui \in {"idle", "detecting", "picking_kind", "entering_credential", "validating",
             "oauth_challenge", "error"}
  /\ proven \subseteq 1..Len(kindOf) /\ chosen \in 0..Len(kindOf)
  /\ \A c \in OnbCall : Accounted(call[c], Len(kindOf))

LEMMA CreatedStarts == OnbInit => Created
  BY DEF OnbInit, Untouched, Created, NoCall, Accounted

\* A step that sets one request, to accounts there are.
LEMMA CreatedCall ==
  ASSUME RowsInv, Created, NEW c \in OnbCall, NEW r \in OnbWait, SetCall(c, r),
         Accounted(r, Len(kindOf)), kindOf' = kindOf
  PROVE  \A d \in OnbCall : Accounted(call'[d], Len(kindOf'))
  BY CallSet DEF RowsInv, Created

LEMMA CreatedKept == ASSUME RowsInv, Created, [OnbNext]_onbVars PROVE Created'
  <1> USE DEF RowsInv, serverSide, machine
  <1>0. Len(kindOf) \in Nat
    OBVIOUS
  <1>20. Accounted(NoCall, Len(kindOf))
    <2>1. NoCall.acct = 0 /\ NoCall.at = "free"
      BY DEF NoCall
    <2> QED BY <1>0, <2>1 DEF Accounted
  <1>1. ASSUME kindOf' = kindOf, proven' = proven, ui' = ui \/ ui' \in {"idle", "detecting", "picking_kind",
                 "entering_credential", "validating", "oauth_challenge", "error"},
               chosen' \in 0..Len(kindOf),
               call' = call \/ \E c \in OnbCall, r \in OnbWait : SetCall(c, r) /\ Accounted(r, Len(kindOf))
        PROVE  Created'
    BY <1>0, <1>1, CreatedCall DEF Created
  <1>2. ASSUME NEW c \in OnbCall, Refuse(c), UNCHANGED <<kindOf, proven, machine>>, call[c].at \in {"sent", "work"}
        PROVE  Created'
    <2> DEFINE r == [NoCall EXCEPT !.op = call[c].op, !.at = "refused", !.id = 0, !.acct = 0]
    <2>1. r \in OnbWait /\ r.acct = 0 /\ r.at = "refused" /\ NoCall \in OnbWait
      BY Requests DEF NoCall, OnbWait
    <2>4. Accounted(r, Len(kindOf)) /\ Accounted(NoCall, Len(kindOf))
      BY <1>0, <1>20, <2>1 DEF Accounted
    <2>2. SetCall(c, NoCall) \/ SetCall(c, r)
      BY <1>2 DEF Refuse, AnswerOnly, Answer
    <2> HIDE DEF r
    <2>3. \E d \in OnbCall, v \in OnbWait : SetCall(d, v) /\ Accounted(v, Len(kindOf))
      BY <1>0, <2>1, <2>2, <2>4
    <2> QED BY <1>1, <1>2, <2>3 DEF Created
  <1>3. ASSUME NEW c \in OnbCall, NEW p \in {"ok", "refused"}, NEW id \in Nat, Answer(c, p, id, 0),
               UNCHANGED <<kindOf, proven, machine>>
        PROVE  Created'
    <2> DEFINE r == [NoCall EXCEPT !.op = call[c].op, !.at = p, !.id = id, !.acct = 0]
    <2>1. r \in OnbWait /\ r.acct = 0 /\ r.at = p
      BY Requests DEF NoCall, OnbWait
    <2>2. SetCall(c, r)
      BY <1>3 DEF Answer
    <2> HIDE DEF r
    <2>4. Accounted(r, Len(kindOf))
      BY <1>0, <2>1 DEF Accounted
    <2>3. \E d \in OnbCall, v \in OnbWait : SetCall(d, v) /\ Accounted(v, Len(kindOf))
      BY <1>0, <2>1, <2>2, <2>4
    <2> QED BY <1>1, <1>3, <2>3 DEF Created
  <1>4. ASSUME NEW c \in OnbCall, Started(c) PROVE Created'
    <2>1. Len(onbRows') \in Nat
      <3>1. onbRows' = Append(onbRows, Welcome) /\ Welcome \in Row
        BY <1>4, Requests DEF Started
      <3> QED BY <3>1
    <2> QED BY <1>3, <1>4, <2>1 DEF Started
  <1>5. ASSUME NEW c \in OnbCall, ReadRow(c) PROVE Created'
    <2>1. call[c].at = "sent" /\ call[c].op # "start" /\ UNCHANGED <<kindOf, proven, machine>>
      BY <1>5 DEF ReadRow
    <2>2. CASE Refuse(c)
      BY <1>2, <2>1, <2>2
    <2>3. CASE ~Refuse(c)
      <3> DEFINE r == [call[c] EXCEPT !.row = onbRows[call[c].id], !.at = "work"]
      <3>1. SetCall(c, r)
        BY <1>5, <2>3 DEF ReadRow
      <3>2. call[c].id \in 1..Len(onbRows)
        BY <2>1 DEF RequestInv, OnbWait, Machine
      <3>3. onbRows[call[c].id] \in Row
        BY <3>2
      <3>4. r \in OnbWait /\ Accounted(r, Len(kindOf))
        <4>1. r \in OnbWait /\ r.acct = call[c].acct /\ r.row = onbRows[call[c].id] /\ r.op = call[c].op
          BY <3>3 DEF OnbWait
        <4>2. call[c].op = "finalize" => onbRows[call[c].id].acct # 0
          BY <1>5, <2>3 DEF ReadRow
        <4> HIDE DEF r
        <4> QED BY <4>1, <4>2 DEF Created, Accounted
      <3> HIDE DEF r
      <3>5. \E d \in OnbCall, v \in OnbWait : SetCall(d, v) /\ Accounted(v, Len(kindOf))
        BY <3>1, <3>4 DEF Created
      <3> QED BY <1>1, <2>1, <3>5 DEF Created
    <2> QED BY <2>2, <2>3
  <1>6. ASSUME NEW c \in OnbCall, DetectAll(c) \/ BeginOnbLogin(c) PROVE Created'
    BY <1>3, <1>6 DEF DetectAll, BeginOnbLogin, AnswerOnly
  <1>7. ASSUME NEW c \in OnbCall, PickKind(c) PROVE Created'
    <2> DEFINE r == [NoCall EXCEPT !.op = call[c].op, !.at = "ok", !.id = 0, !.acct = Len(kindOf')]
    <2>1. kindOf' = Append(kindOf, call[c].kind) /\ SetCall(c, r) /\ UNCHANGED <<proven, machine>>
          /\ call[c].op = "pick" /\ call[c].at = "work"
      BY <1>7 DEF PickKind, Works, Answer
    <2>2. call[c].kind \in Offered
      BY <2>1 DEF RequestInv
    <2>3. Len(kindOf') = Len(kindOf) + 1
      BY <2>1, <2>2
    <2>7. r \in OnbWait /\ r.acct = Len(kindOf') /\ r.at = "ok"
      <3>1. ASSUME NEW n \in Nat, NEW v, v = [NoCall EXCEPT !.op = call[c].op, !.at = "ok", !.id = 0, !.acct = n]
            PROVE  v \in OnbWait /\ v.acct = n /\ v.at = "ok"
        BY <3>1, Requests DEF NoCall, OnbWait
      <3>2. Len(kindOf') \in Nat
        BY <1>0, <2>3
      <3> QED BY <3>1, <3>2
    <2> HIDE DEF r
    <2>4. r \in OnbWait /\ Accounted(r, Len(kindOf'))
      BY <1>0, <2>3, <2>7 DEF Accounted
    <2>5. \A d \in OnbCall : call'[d] = r \/ call'[d] = call[d]
      BY <2>1, <2>4, CallSet
    <2>6. proven' \subseteq 1..Len(kindOf') /\ chosen' \in 0..Len(kindOf') /\ ui' = ui
      BY <1>0, <2>1, <2>3 DEF Created
    <2>8. \A d \in OnbCall : Accounted(call'[d], Len(kindOf'))
      <3>1. \A v : Accounted(v, Len(kindOf)) => Accounted(v, Len(kindOf'))
        BY <1>0, <2>3 DEF Accounted
      <3> QED BY <2>4, <2>5, <3>1 DEF Created
    <2> QED BY <2>6, <2>8 DEF Created
  <1>8. ASSUME NEW c \in OnbCall, Finalize(c) PROVE Created'
    <2>1. SetCall(c, NoCall) /\ UNCHANGED <<kindOf, machine>> /\ proven' \subseteq proven \cup {call[c].row.acct}
          /\ call[c].op = "finalize" /\ call[c].at = "work"
      BY <1>8 DEF Finalize, Works
    <2>2. proven' = proven \/ call[c].row.acct \in 1..Len(kindOf)
      <3>1. call[c].row.acct # 0 => call[c].row.acct \in 1..Len(kindOf)
        BY DEF RequestInv, Good
      <3>2. call[c].row.acct # 0
        BY <2>1 DEF Created, Accounted
      <3> QED BY <3>1, <3>2
    <2>3. \A d \in OnbCall : Accounted(call'[d], Len(kindOf'))
      BY <1>20, <2>1, CreatedCall, Requests
    <2> QED BY <2>1, <2>2, <2>3 DEF Created
  <1>9. ASSUME NEW c \in OnbCall, RequestFails(c) PROVE Created'
    BY <1>2, <1>9 DEF RequestFails
  <1>10. ASSUME NEW c \in OnbCall, NEW o \in Machine \cup {"finalize"}, NEW id \in Nat, NEW k \in Offered \cup {NoKind},
                SetCall(c, Request(o, id, k)) \/ call' = call, UNCHANGED <<kindOf, proven>>,
                ui' = ui \/ ui' \in {"idle", "detecting", "picking_kind",
                 "entering_credential", "validating", "oauth_challenge", "error"},
                chosen' \in 0..Len(kindOf)
         PROVE  Created'
    <2>1. Request(o, id, k) \in OnbWait
      BY Requests
    <2>2. Request(o, id, k).acct = 0 /\ Request(o, id, k).at = "sent"
      BY DEF Request, NoCall
    <2>3. Accounted(Request(o, id, k), Len(kindOf))
      BY <1>0, <2>2 DEF Accounted
    <2>4. call' = call \/ \E d \in OnbCall, v \in OnbWait : SetCall(d, v) /\ Accounted(v, Len(kindOf))
      <3>1. CASE call' = call
        BY <3>1
      <3>2. CASE SetCall(c, Request(o, id, k))
        BY <2>1, <2>3, <3>2
      <3> QED BY <1>10, <3>1, <3>2
    <2>5. kindOf' = kindOf /\ proven' = proven
      BY <1>10
    <2> QED BY <1>1, <1>10, <2>4, <2>5
  <1>11. ASSUME NEW c \in OnbCall, NEW id \in Onb, FinalizeSent(c, id) PROVE Created'
    <2>1. id \in Nat
      BY OnbAssumption DEF Onb
    <2>2. SetCall(c, Request("finalize", id, NoKind)) /\ UNCHANGED <<kindOf, proven, ui, chosen>>
      BY <1>11 DEF FinalizeSent
    <2>3. chosen' \in 0..Len(kindOf) /\ ui' = ui
      BY <2>2 DEF Created
    <2> QED BY <1>10, <2>1, <2>2, <2>3
  <1>12. ASSUME NEW c \in OnbCall, NEW o \in Machine, NEW k \in Offered \cup {NoKind}, NEW to \in
                  {"idle", "picking_kind", "validating", "oauth_challenge"}, Send(c, o, k, to)
         PROVE  Created'
    <2>1. CASE onb = 0 /\ o # "start"
      BY <1>1, <1>12, <2>1 DEF Send, Created
    <2>2. CASE ~(onb = 0 /\ o # "start")
      <3>1. SetCall(c, Request(o, onb, k)) /\ UNCHANGED <<kindOf, proven, chosen>> /\ ui' = to /\ onb \in Nat
        BY <1>12, <2>2 DEF Send
      <3> QED BY <1>10, <3>1 DEF Created
    <2> QED BY <2>1, <2>2
  <1>13. ASSUME NEW c \in OnbCall, NEW k \in Offered,
                ClickStart(c) \/ ClickKind(c, k) \/ SubmitApiKey(c) \/ SubmitOauth(c)
         PROVE  Created'
    BY <1>12, <1>13 DEF ClickStart, ClickKind, SubmitApiKey, SubmitOauth, Machine
  <1>14. ASSUME NEW c \in OnbCall, ClickStart(c) \/ SubmitApiKey(c) \/ SubmitOauth(c) PROVE Created'
    BY <1>12, <1>14 DEF ClickStart, SubmitApiKey, SubmitOauth, Machine
  <1>15. ASSUME NEW c \in OnbCall, OnbReply(c) PROVE Created'
    <2>1. CASE StartReply(c)
      <3>1. call[c].id \in Nat
        BY DEF OnbWait
      <3> QED BY <1>10, <2>1, <3>1 DEF StartReply, Ok, Created, Machine
    <2>2. NoCall \in OnbWait /\ Accounted(NoCall, Len(kindOf))
      BY <1>0, Requests DEF NoCall, Accounted
    <2>3. CASE DetectReply(c) \/ LoginReply(c) \/ RefusedReply(c)
      <3>1. SetCall(c, NoCall) /\ UNCHANGED <<kindOf, proven, chosen>> /\ ui' \in {"picking_kind", "error"}
        BY <2>3 DEF DetectReply, LoginReply, RefusedReply, Refused, Ok
      <3> QED BY <1>1, <2>2, <3>1 DEF Created
    <2>4. CASE PickReply(c)
      <3>1. SetCall(c, NoCall) /\ UNCHANGED <<kindOf, proven>> /\ ui' = "entering_credential" /\ chosen' \in 0..Len(kindOf)
        BY <2>4 DEF PickReply, Ok, Created, Accounted
      <3> QED BY <1>1, <2>2, <3>1
    <2> QED BY <1>15, <2>1, <2>3, <2>4 DEF OnbReply
  <1>16. CASE CancelOAuth \/ Retry
    BY <1>0, <1>1, <1>16 DEF CancelOAuth, Retry, Created
  <1>17. CASE UNCHANGED onbVars
    BY <1>1, <1>17 DEF onbVars, Created
  <1>18. ASSUME NEW c \in OnbCall, OnbServerStep(c) PROVE Created'
    BY <1>4, <1>5, <1>6, <1>7, <1>8, <1>18 DEF OnbServerStep
  <1>19. ASSUME NEW c \in OnbCall, NEW k \in Offered, ClickKind(c, k) PROVE Created'
    BY <1>13, <1>19
  <1> QED BY <1>9, <1>11, <1>14, <1>15, <1>16, <1>17, <1>18, <1>19 DEF OnbNext

LEMMA OnbTypes == RowsInv /\ Created => OnbTypeOK
  <1> SUFFICES ASSUME RowsInv, Created PROVE OnbTypeOK
    OBVIOUS
  <1>1. ASSUME NEW i \in DOMAIN onbRows
        PROVE  /\ onbRows[i].step \in {"welcome", "pick_backend", "login", "validate", "done"}
               /\ onbRows[i].kind \in Offered \cup {NoKind} /\ onbRows[i].acct \in {0} \cup DOMAIN kindOf
    <2>1. i \in 1..Len(onbRows) /\ onbRows[i] \in Row /\ Good(onbRows[i])
      BY DEF RowsInv
    <2> QED BY <2>1 DEF Good, Row, RowStep, RowsInv
  <1>2. ASSUME NEW a \in DOMAIN kindOf PROVE kindOf[a] \in Offered
    BY DEF RowsInv
  <1>3. ASSUME NEW c \in OnbCall PROVE call[c].at \in {"free", "sent", "work", "ok", "refused"}
    BY DEF RowsInv, OnbWait
  <1>4. DOMAIN kindOf = 1..Len(kindOf) /\ DOMAIN onbRows = 1..Len(onbRows)
        /\ Len(kindOf) \in Nat /\ Len(onbRows) \in Nat
    BY DEF RowsInv
  <1>5. onb \in {0} \cup DOMAIN onbRows /\ chosen \in {0} \cup DOMAIN kindOf
    BY <1>4 DEF RowsInv, Created
  <1> QED BY <1>1, <1>2, <1>3, <1>4, <1>5 DEF OnbTypeOK, Created

\* The answers of a dialog go where there is room for them.
PDTyped ==
  /\ form \in {"claude_custom", "openai_compat"} /\ puts \in [Reply -> 0..MaxPuts]
  /\ fields \in [Question -> Question \cup {"none"}] /\ replied \subseteq Question
  /\ box \in Reply => box.to \in Question
PDFlags ==
  /\ finished \in BOOLEAN /\ open \in BOOLEAN /\ saved \in BOOLEAN /\ twice \in BOOLEAN /\ early \in BOOLEAN

LEMMA PDTypedStarts == PDInit \/ DialogIsOver => PDTyped /\ PDFlags
  <1> SUFFICES ASSUME PDInit \/ DialogIsOver PROVE PDTyped /\ PDFlags
    OBVIOUS
  <1>1. NothingAnswered /\ form \in {"claude_custom", "openai_compat"}
    BY FormAssumption DEF PDInit, DialogIsOver
  <1>2. PDTyped
    BY <1>1, PutsAssumption, BoxContents DEF NothingAnswered, PDTyped
  <1>3. PDFlags
    BY <1>1 DEF NothingAnswered, PDFlags
  <1> QED BY <1>2, <1>3

LEMMA PDTypedKept == ASSUME CancelInv, PDTyped, [PDNext]_pdVars PROVE PDTyped'
  <1> USE PutsAssumption, BoxContents DEF PDTyped
  <1>0. \A r : (r \in Reply => r.to \in Question)
    OBVIOUS
  <1>1. CASE Takes
    <2>1. asking \in Question /\ (box = Sentinel \/ box \in Reply)
      BY <1>1 DEF Takes, CancelInv
    <2>2. fields' = fields \/ (box \in Reply /\ fields' = [fields EXCEPT ![asking] = box.to])
      BY <1>1, <2>1 DEF Takes
    <2>3. fields' \in [Question -> Question \cup {"none"}]
      BY <2>1, <2>2
    <2>4. UNCHANGED <<form, puts, replied>>
      BY <1>1 DEF Takes, pdHistory
    <2> QED BY <1>0, <2>3, <2>4
  <1>2. CASE AnswerTimeout \/ CancelDialog
    BY <1>2 DEF AnswerTimeout, CancelDialog, pdHistory
  <1>3. ASSUME NEW r \in Reply, Responds(r) PROVE PDTyped'
    <2>1. puts' = puts \/ (puts[r] < MaxPuts /\ puts' = [puts EXCEPT ![r] = @ + 1])
      BY <1>3 DEF Responds
    <2>2. puts' \in [Reply -> 0..MaxPuts]
      BY <2>1
    <2>3. replied' = replied \cup {r.to} /\ UNCHANGED <<form, fields>>
      BY <1>3 DEF Responds
    <2> QED BY <1>0, <2>2, <2>3
  <1>4. ASSUME NEW r \in Reply, Puts(r) PROVE PDTyped'
    <2>1. puts[r] > 0 /\ puts' = [puts EXCEPT ![r] = @ - 1]
      BY <1>4 DEF Puts
    <2>2. puts' \in [Reply -> 0..MaxPuts]
      BY <2>1
    <2>3. UNCHANGED <<form, fields, replied>>
      BY <1>4 DEF Puts, pdHistory
    <2> QED BY <1>0, <2>2, <2>3
  <1>5. CASE UNCHANGED pdVars
    BY <1>5 DEF pdVars, pdHistory
  <1> QED BY <1>1, <1>2, <1>3, <1>4, <1>5 DEF PDNext

LEMMA PDFlagsKept == ASSUME PDFlags, [PDNext]_pdVars PROVE PDFlags'
  <1> USE DEF PDFlags
  <1>1. CASE Takes
    <2>1. (finished' \in BOOLEAN) /\ UNCHANGED <<open, twice, early>>
      BY <1>1 DEF Takes, Asks, pdHistory
    <2>2. saved' \in BOOLEAN
      BY <1>1 DEF Takes
    <2> QED BY <2>1, <2>2
  <1>2. CASE AnswerTimeout
    <2>1. (finished' \in BOOLEAN) /\ UNCHANGED <<open, saved, twice, early>>
      BY <1>2 DEF AnswerTimeout, Asks, pdHistory
    <2> QED BY <2>1
  <1>3. CASE CancelDialog
    <2>1. (finished' \in BOOLEAN) /\ (open' \in BOOLEAN) /\ (early' \in BOOLEAN) /\ UNCHANGED <<saved, twice>>
      BY <1>3 DEF CancelDialog
    <2> QED BY <2>1
  <1>4. ASSUME NEW r \in Reply, Responds(r) PROVE PDFlags'
    <2>1. (twice' \in BOOLEAN) /\ UNCHANGED <<finished, open, saved, early>>
      BY <1>4 DEF Responds
    <2> QED BY <2>1
  <1>5. ASSUME NEW r \in Reply, Puts(r) PROVE PDFlags'
    BY <1>5 DEF Puts, pdHistory
  <1>6. CASE UNCHANGED pdVars
    BY <1>6 DEF pdVars, pdHistory
  <1> QED BY <1>1, <1>2, <1>3, <1>4, <1>5, <1>6 DEF PDNext

LEMMA PDTypes == CancelInv /\ PDTyped /\ PDFlags => PDTypeOK
  <1> SUFFICES ASSUME CancelInv, PDTyped, PDFlags PROVE PDTypeOK
    OBVIOUS
  <1>1. {finished, open, saved, twice, early} \subseteq BOOLEAN
    BY DEF PDFlags
  <1> QED BY <1>1 DEF CancelInv, PDTyped, PDTypeOK

\* What the wizard names are accounts it has created.
Within(c) == waiting[c].id \in 0..Len(accounts)
WizardTyped ==
  /\ wiz \in {"idle", "picking_kind", "detecting", "entering_credential", "validating", "error"}
  /\ wizKind \in WizardKind \cup {Unset} /\ Len(accounts) <= MaxRows
  /\ backend \in 0..Len(accounts) /\ found \in 0..Len(accounts)
  /\ \A c \in WizardCall : Within(c)

LEMMA WizardTypedStarts == WizardInit => WizardTyped
  BY WizardAssumption DEF WizardInit, WizardRests, WizardTyped, Within, NoWait

LEMMA WizardTypedKept == ASSUME WizardInv, WizardTyped, [WizardNext]_wizVars PROVE WizardTyped'
  <1> USE WizardAssumption DEF WizardTyped, Within, WizardInv
  <1>0. Len(accounts) \in Nat
    OBVIOUS
  <1>1. CASE StartWizard \/ ResetWizard
    BY <1>0, <1>1 DEF StartWizard, ResetWizard, Restarts, Blank
  <1>2. ASSUME NEW c \in WizardCall, NEW k \in WizardKind, PickWizardKind(c, k) PROVE WizardTyped'
    BY <1>0, <1>2 DEF PickWizardKind, SetWait
  <1>3. ASSUME NEW c \in WizardCall, SubmitCredential(c) PROVE WizardTyped'
    <2>1. CASE backend = 0
      BY <1>0, <1>3, <2>1 DEF SubmitCredential
    <2>2. CASE backend # 0
      BY <1>0, <1>3, <2>2 DEF SubmitCredential, SetWait
    <2> QED BY <2>1, <2>2
  <1>4. ASSUME NEW c \in WizardCall, CreatesAccount(c) PROVE WizardTyped'
    <2>1. waiting[c].kind \in WizardKind /\ accounts' = Append(accounts, waiting[c].kind)
          /\ Len(accounts) < MaxRows /\ UNCHANGED <<wiz, wizKind, backend, found>>
      BY <1>4 DEF CreatesAccount, Creates
    <2>2. Len(accounts') = Len(accounts) + 1
      BY <2>1
    <2>3. waiting' = [waiting EXCEPT ![c] = [at |-> "created", kind |-> waiting[c].kind, id |-> Len(accounts')]]
      BY <1>4 DEF CreatesAccount, SetWait
    <2>4. \A d \in WizardCall : waiting'[d].id = Len(accounts') \/ waiting'[d].id = waiting[d].id
      BY <2>3
    <2>5. \A d \in WizardCall : waiting'[d].id \in 0..Len(accounts')
      BY <1>0, <2>2, <2>4
    <2> QED BY <1>0, <2>1, <2>2, <2>5
  <1>5. ASSUME NEW c \in WizardCall, CreateReply(c) PROVE WizardTyped'
    BY <1>0, <1>5 DEF CreateReply, SetWait
  <1>6. ASSUME NEW c \in WizardCall, NEW i \in BOOLEAN, DetectedCli(c, i) PROVE WizardTyped'
    BY <1>0, <1>6 DEF DetectedCli, Answered, NoWait
  <1>7. ASSUME NEW c \in WizardCall, WizardFails(c) PROVE WizardTyped'
    BY <1>0, <1>7 DEF WizardFails, Answered, NoWait
  <1>8. CASE UNCHANGED wizVars
    BY <1>8 DEF wizVars
  <1> QED BY <1>1, <1>2, <1>3, <1>4, <1>5, <1>6, <1>7, <1>8 DEF WizardNext, WizardReply

LEMMA WizardTypes == WizardInv /\ WizardTyped => WizardTypeOK
  <1> SUFFICES ASSUME WizardInv, WizardTyped PROVE WizardTypeOK
    OBVIOUS
  <1>1. {backend, found} \subseteq 0..Len(accounts)
    BY DEF WizardTyped
  <1>2. \A c \in WizardCall : waiting[c].at \in {"free", "create", "created", "detect", "login"}
    BY DEF WizardInv, Wait
  <1> QED BY <1>1, <1>2 DEF WizardInv, WizardTyped, Within, WizardTypeOK

ServerTyped == config \in Port \cup {NoPort} /\ upset \in BOOLEAN

LEMMA ServerTypedKept == ASSUME ServerTyped, [ServerNext]_serverVars PROVE ServerTyped'
  <1> USE DEF ServerTyped
  <1>1. ASSUME NEW s \in StartCall, StartSteps(s) PROVE ServerTyped'
    <2>1. upset' \in BOOLEAN
      <3>1. CASE UNCHANGED upset
        BY <3>1
      <3>2. CASE upset' = TRUE
        BY <3>2
      <3> QED BY <1>1, <3>1, <3>2 DEF StartSteps, AlreadyRunning, Spawn, Ready, NotReady
    <2>2. UNCHANGED config
      BY <1>1 DEF StartSteps, AlreadyRunning, Spawn, Ready, NotReady
    <2> QED BY <2>1, <2>2
  <1>2. ASSUME NEW s \in StartCall, NEW p \in Port, BeginStart(s, p) PROVE ServerTyped'
    BY <1>2 DEF BeginStart
  <1>3. ASSUME NEW s \in StartCall, Boots(s) \/ Dies(s) PROVE ServerTyped'
    BY <1>3 DEF Boots, Dies
  <1>4. CASE StopAll
    <2>1. upset' \in BOOLEAN
      BY <1>4 DEF StopAll
    <2> QED BY <1>4, <2>1 DEF StopAll
  <1>5. CASE UNCHANGED serverVars
    BY <1>5 DEF serverVars
  <1> QED BY <1>1, <1>2, <1>3, <1>4, <1>5 DEF ServerNext

LEMMA ServerTypes == ProcessInv /\ ServerTyped => ServerTypeOK
  <1> SUFFICES ASSUME ProcessInv, ServerTyped PROVE ServerTypeOK
    OBVIOUS
  <1>1. {overlap, upset} \subseteq BOOLEAN
    BY DEF ProcessInv, ServerTyped
  <1> QED BY <1>1 DEF ProcessInv, ServerTyped, ServerTypeOK, StartPlaces

MigFlags == created \in BOOLEAN /\ gemini \in BOOLEAN

LEMMA MigFlagsKept == ASSUME MigFlags, [MigNext]_migVars PROVE MigFlags'
  <1> USE DEF MigFlags
  <1>1. ASSUME NEW p \in Process, Execute(p) PROVE MigFlags'
    <2>1. CASE UNCHANGED <<versions, created, columns, gemini>>
      BY <2>1
    <2>2. CASE Effect(Head(script[p]))
      <3>1. created' \in BOOLEAN
        BY <2>2 DEF Effect
      <3>2. gemini' \in BOOLEAN
        BY <2>2 DEF Effect
      <3> QED BY <3>1, <3>2
    <2> QED BY <1>1, <2>1, <2>2 DEF Execute
  <1>2. ASSUME NEW p \in Process, Begin(p) \/ Finish(p) \/ StopProcess(p) PROVE MigFlags'
    BY <1>2 DEF Begin, Finish, StopProcess
  <1>3. CASE UNCHANGED migVars
    BY <1>3 DEF migVars
  <1> QED BY <1>1, <1>2, <1>3 DEF MigNext

LEMMA MigTypes == MigTyped /\ MigFlags => MigTypeOK
  BY DEF MigTyped, MigFlags, MigTypeOK, CurrentVersion

TypesInv ==
  /\ TypeOK /\ Retained /\ Created /\ PDTyped /\ PDFlags /\ WizardTyped /\ ServerTyped /\ MigInv /\ MigFlags

\* Every variable of the services keeps its type, whichever of them moves, for every
\* number of requests, accounts, processes, ports and answers.
THEOREM ServicesTyped == Services => []TypesOK
  <1>1. ASSUME ServicesInit PROVE TypesInv
    <2>1. Inv
      BY <1>1, InitKeepsInv DEF ServicesInit
    <2>2. Created /\ WizardTyped
      BY <1>1, CreatedStarts, WizardTypedStarts DEF ServicesInit
    <2>3. PDTyped /\ PDFlags
      BY <1>1, PDTypedStarts DEF ServicesInit
    <2>4. MigInv
      BY <1>1, MigStarts DEF ServicesInit
    <2>5. MigFlags
      BY <1>1 DEF ServicesInit, MigInit, SchemaIsCurrent, MigFlags
    <2>6. ServerTyped
      BY <1>1 DEF ServicesInit, ServerInit, NothingStarted, ServerTyped
    <2> QED BY <2>1, <2>2, <2>3, <2>4, <2>5, <2>6 DEF TypesInv, Inv
  <1>2. ASSUME SetUpInv, TypesInv,
               [ServicesNext]_<<part, vars, onbVars, migVars, wizVars, pdVars, serverVars>>
        PROVE  TypesInv'
    <2>1. [Next]_vars /\ [OnbNext]_onbVars /\ [PDNext]_pdVars
      BY <1>2 DEF ServicesNext
    <2>2. [MigNext]_migVars /\ [WizardNext]_wizVars /\ [ServerNext]_serverVars
      BY <1>2 DEF ServicesNext
    <2>3. Inv'
      BY <1>2, <2>1, NextKeepsInv DEF TypesInv, Inv
    <2>4. Created'
      BY <1>2, <2>1, CreatedKept DEF TypesInv, SetUpInv, OnbInv
    <2>5. PDTyped' /\ PDFlags'
      BY <1>2, <2>1, PDTypedKept, PDFlagsKept DEF TypesInv, SetUpInv, DialogInv
    <2>6. WizardTyped' /\ ServerTyped'
      BY <1>2, <2>2, WizardTypedKept, ServerTypedKept DEF TypesInv, SetUpInv
    <2>7. MigInv' /\ MigFlags'
      BY <1>2, <2>2, MigStep, MigFlagsKept DEF TypesInv
    <2> QED BY <2>3, <2>4, <2>5, <2>6, <2>7 DEF TypesInv, Inv
  <1>3. SetUpInv /\ TypesInv => TypesOK
    BY OnbTypes, PDTypes, WizardTypes, ServerTypes, MigTypes
       DEF SetUpInv, TypesInv, OnbInv, DialogInv, ServerInv, MigInv, TypesOK
  <1> QED BY <1>1, <1>2, <1>3, SetUpHolds, PTL DEF Services
=============================================================================
