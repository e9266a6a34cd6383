--------------------------- MODULE ChatSendProofs ---------------------------
(***************************************************************************)
(* Theorems about the two ends of a chat (module MCChatEnds).              *)
(* The streams of a session (module ChatSend), for any number of requests  *)
(* and tabs, any length of the answers and any size of the ring buffer:    *)
(* the log of a session is never leaked, and no event reaches a client     *)
(* twice, or out of order within its generation.                           *)
(* The stored conversations (module Conversation), for any number of       *)
(* sends, sessions and accounts: a provider is shown its question and the  *)
(* conversation before it, and the panel shows what is stored.             *)
(***************************************************************************)
EXTENDS MCChatEnds, SequenceFacts

ChatEv == [s: Stream, n: Nat]
Item == [ev: ChatEv, seq: Nat \ {0}]
Elems(q) == {q[i] : i \in 1..Len(q)}

\* Event b may follow a: within one generation numbers grow, and the error comes once.
Precede(a, b) == a.s = b.s => a.n # b.n /\ (b.n # 0 => a.n < b.n)
Before(x, y) == x.seq < y.seq /\ Precede(x.ev, y.ev)
Sorted(q) == \A i, j \in 1..Len(q) : i < j => Before(q[i], q[j])
Lined(q) == \A i, j \in 1..Len(q) : i < j => Precede(q[i], q[j])

Places == {"unused", "replay", "live", "closing", "over"}
Requests == [pc: Places, who: Client \cup {None}, cursor: Nat, todo: SUBSET Item,
             made: Nat, sent: Nat, fin: {"run", "ok", "err", "told"}]

LogTyped == known \in BOOLEAN /\ seq \in Nat /\ log \in Seq(Item)
StTyped == st \in [Stream -> Requests]
ClientTyped ==
  /\ on \in [Client -> Stream \cup {None}] /\ last \in [Client -> Nat]
  /\ got \in [Client -> Seq(ChatEv)]
Typed == LogTyped /\ StTyped /\ ClientTyped

\* The generation of e has made it.
Emitted(e) ==
  \/ st[e.s].pc \in {"closing", "over"}
  \/ /\ st[e.s].pc = "live" /\ e.n <= st[e.s].sent
     /\ e.n = 0 => st[e.s].fin = "told"

\* The log is in the order in which its events were made.
LogInv ==
  /\ Sorted(log)
  /\ known \/ log = <<>>
  /\ \A x \in Elems(log) : x.seq <= seq /\ Emitted(x.ev)

\* So is what a stream has left to replay, and what was pushed since comes later.
TodoInv ==
  \A s \in Stream : st[s].pc = "replay" =>
    \A x \in st[s].todo :
      /\ Emitted(x.ev)
      /\ \A y \in st[s].todo : x = y \/ Before(x, y) \/ Before(y, x)
      /\ \A y \in Elems(log) : y.seq > x.seq => Precede(x.ev, y.ev)

\* What a client has got may be followed by what the log has beyond its lastSeq.
GotInv ==
  \A c \in Client :
    /\ Lined(got[c])
    /\ \A e \in Elems(got[c]) :
         Emitted(e) /\ \A x \in Elems(log) : x.seq > last[c] => Precede(e, x.ev)

\* And by what is left to replay to it, all of which is beyond its lastSeq.
ReadInv ==
  \A s \in Stream : st[s].pc = "replay" /\ Reading(s) =>
    \A x \in st[s].todo :
      /\ x.seq > last[st[s].who]
      /\ \A e \in Elems(got[st[s].who]) : Precede(e, x.ev)

IInv == Typed /\ LogInv /\ TodoInv /\ GotInv /\ ReadInv

-----------------------------------------------------------------------------
\* Sequences.

LEMMA SeqFacts ==
  ASSUME NEW S, NEW q \in Seq(S)
  PROVE  Len(q) \in Nat /\ Elems(q) \subseteq S /\ \A i \in 1..Len(q) : q[i] \in Elems(q)
  BY DEF Elems

LEMMA AppendFacts ==
  ASSUME NEW S, NEW q \in Seq(S), NEW x \in S
  PROVE  /\ Append(q, x) \in Seq(S) /\ Len(q) \in Nat /\ Len(Append(q, x)) = Len(q) + 1
         /\ Append(q, x)[Len(q) + 1] = x /\ \A i \in 1..Len(q) : Append(q, x)[i] = q[i]
         /\ \A i \in 1..(Len(q) + 1) : i \in 1..Len(q) \/ i = Len(q) + 1
         /\ Elems(Append(q, x)) = Elems(q) \cup {x}
  <1>1. Append(q, x) \in Seq(S) /\ Len(Append(q, x)) = Len(q) + 1 /\ Len(q) \in Nat OBVIOUS
  <1>2. Append(q, x)[Len(q) + 1] = x OBVIOUS
  <1>3. \A i \in 1..Len(q) : Append(q, x)[i] = q[i] OBVIOUS
  <1>4. \A i \in 1..(Len(q) + 1) : i \in 1..Len(q) \/ i = Len(q) + 1 BY <1>1
  <1>5. Elems(Append(q, x)) = Elems(q) \cup {x} BY <1>1, <1>2, <1>3, <1>4 DEF Elems
  <1> QED BY <1>1, <1>2, <1>3, <1>4, <1>5

LEMMA TailFacts ==
  ASSUME NEW S, NEW q \in Seq(S), Len(q) > 0
  PROVE  /\ Tail(q) \in Seq(S) /\ Len(Tail(q)) = Len(q) - 1
         /\ \A i \in 1..Len(Tail(q)) : i + 1 \in 1..Len(q) /\ Tail(q)[i] = q[i + 1]
         /\ Elems(Tail(q)) \subseteq Elems(q)
  <1>1. Tail(q) \in Seq(S) /\ Len(Tail(q)) = Len(q) - 1 /\ Len(q) \in Nat OBVIOUS
  <1>2. \A i \in 1..(Len(q) - 1) : Tail(q)[i] = q[i + 1] OBVIOUS
  <1>3. \A i \in 1..(Len(q) - 1) : i + 1 \in 1..Len(q) BY <1>1
  <1> QED BY <1>1, <1>2, <1>3 DEF Elems

LEMMA AppendLined ==
  ASSUME NEW q \in Seq(ChatEv), NEW e \in ChatEv, Lined(q), \A a \in Elems(q) : Precede(a, e)
  PROVE  Lined(Append(q, e))
  <1> DEFINE r == Append(q, e)
  <1>1. /\ Len(q) \in Nat /\ Len(r) = Len(q) + 1 /\ r[Len(q) + 1] = e
        /\ \A i \in 1..Len(q) : r[i] = q[i]
        /\ \A i \in 1..(Len(q) + 1) : i \in 1..Len(q) \/ i = Len(q) + 1
    BY AppendFacts
  <1>2. \A i \in 1..Len(q) : q[i] \in Elems(q) BY SeqFacts
  <1> HIDE DEF r
  <1>3. ASSUME NEW i \in 1..Len(r), NEW j \in 1..Len(r), i < j PROVE Precede(r[i], r[j])
    <2>1. i \in 1..Len(q) BY <1>1, <1>3
    <2>2. CASE j \in 1..Len(q) BY <1>1, <1>3, <2>1, <2>2 DEF Lined
    <2>3. CASE j = Len(q) + 1 BY <1>1, <1>2, <2>1, <2>3
    <2> QED BY <1>1, <2>2, <2>3
  <1>4. Lined(r) BY <1>3 DEF Lined
  <1> QED BY <1>4 DEF r

LEMMA AppendSorted ==
  ASSUME NEW q \in Seq(Item), NEW x \in Item, Sorted(q), \A y \in Elems(q) : Before(y, x)
  PROVE  Sorted(Append(q, x))
  <1> DEFINE r == Append(q, x)
  <1>1. /\ Len(q) \in Nat /\ Len(r) = Len(q) + 1 /\ r[Len(q) + 1] = x
        /\ \A i \in 1..Len(q) : r[i] = q[i]
        /\ \A i \in 1..(Len(q) + 1) : i \in 1..Len(q) \/ i = Len(q) + 1
    BY AppendFacts
  <1>2. \A i \in 1..Len(q) : q[i] \in Elems(q) BY SeqFacts
  <1> HIDE DEF r
  <1>3. ASSUME NEW i \in 1..Len(r), NEW j \in 1..Len(r), i < j PROVE Before(r[i], r[j])
    <2>1. i \in 1..Len(q) BY <1>1, <1>3
    <2>2. CASE j \in 1..Len(q) BY <1>1, <1>3, <2>1, <2>2 DEF Sorted
    <2>3. CASE j = Len(q) + 1 BY <1>1, <1>2, <2>1, <2>3
    <2> QED BY <1>1, <2>2, <2>3
  <1>4. Sorted(r) BY <1>3 DEF Sorted
  <1> QED BY <1>4 DEF r

LEMMA TailSorted ==
  ASSUME NEW q \in Seq(Item), Len(q) > 0, Sorted(q)
  PROVE  Sorted(Tail(q))
  <1> DEFINE r == Tail(q)
  <1>1. \A i \in 1..Len(r) : i + 1 \in 1..Len(q) /\ r[i] = q[i + 1] BY TailFacts
  <1> HIDE DEF r
  <1>2. \A i, j \in 1..Len(r) : i < j => i + 1 < j + 1 OBVIOUS
  <1>3. Sorted(r) BY <1>1, <1>2 DEF Sorted
  <1> QED BY <1>3 DEF r

\* The ring keeps some of the events it had, and their order.
LEMMA RingFacts ==
  ASSUME NEW q \in Seq(Item), NEW x \in Item, Sorted(q), \A y \in Elems(q) : Before(y, x)
  PROVE  /\ Retain(Append(q, x)) \in Seq(Item) /\ Sorted(Retain(Append(q, x)))
         /\ Elems(Retain(Append(q, x))) \subseteq Elems(q) \cup {x}
  <1> DEFINE r == Append(q, x)
  <1>1. r \in Seq(Item) /\ Len(r) > 0 /\ Elems(r) = Elems(q) \cup {x} BY AppendFacts
  <1>2. Sorted(r) BY AppendSorted
  <1> HIDE DEF r
  <1>3. Tail(r) \in Seq(Item) /\ Sorted(Tail(r)) /\ Elems(Tail(r)) \subseteq Elems(r)
    BY <1>1, <1>2, TailFacts, TailSorted
  <1>4. Retain(r) \in {r, Tail(r)} BY DEF Retain
  <1>5. Retain(r) \in Seq(Item) /\ Sorted(Retain(r)) /\ Elems(Retain(r)) \subseteq Elems(q) \cup {x}
    BY <1>1, <1>2, <1>3, <1>4
  <1> QED BY <1>5 DEF r

LEMMA NothingThere == <<>> \in Seq(Item) /\ <<>> \in Seq(ChatEv) /\ Elems(<<>>) = {}
                      /\ Sorted(<<>>) /\ Lined(<<>>)
  <1>1. <<>> \in Seq(Item) /\ <<>> \in Seq(ChatEv) OBVIOUS
  <1>2. Len(<<>>) = 0 OBVIOUS
  <1>3. \A i \in 1..0 : FALSE OBVIOUS
  <1> QED BY <1>1, <1>2, <1>3 DEF Elems, Sorted, Lined

\* Two entries of a sorted log, and what a replay takes from it.
LEMMA SortedPairs ==
  ASSUME NEW q \in Seq(Item), Sorted(q), NEW x \in Elems(q), NEW y \in Elems(q)
  PROVE  x = y \/ Before(x, y) \/ Before(y, x)
  <1>1. PICK i \in 1..Len(q), j \in 1..Len(q) : x = q[i] /\ y = q[j] BY DEF Elems
  <1>2. i = j \/ i < j \/ j < i BY SeqFacts
  <1> QED BY <1>1, <1>2 DEF Sorted

LEMMA ReplayFacts ==
  ASSUME LogTyped, LogInv, NEW c \in Nat
  PROVE  Replayed(c) \subseteq Elems(log) /\ \A x \in Replayed(c) : x.seq > c
  <1>1. DOMAIN log = 1..Len(log) /\ Len(log) \in Nat BY DEF LogTyped
  <1>2. Replayed(c) \subseteq Elems(log) BY <1>1 DEF Replayed, Elems
  <1>3. ASSUME NEW j \in 1..Len(log), Outlived(c) PROVE log[j].seq > c
    <2>1. 1 \in 1..Len(log) /\ (j = 1 \/ 1 < j) BY <1>1
    <2>2. log[1] \in Item /\ log[j] \in Item BY <2>1 DEF LogTyped
    <2>3. j = 1 \/ log[1].seq < log[j].seq BY <2>1 DEF LogInv, Sorted, Before
    <2>4. log[1].seq \in Nat /\ log[j].seq \in Nat BY <2>2 DEF Item
    <2> QED BY <1>3, <2>3, <2>4 DEF Outlived
  <1>4. \A x \in Replayed(c) : x.seq > c BY <1>1, <1>3 DEF Replayed
  <1> QED BY <1>2, <1>4

-----------------------------------------------------------------------------
\* What steps do to the requests.

LEMMA RequestType ==
  ASSUME NEW c \in Client, NEW n \in Nat
  PROVE  /\ Request(c, n) \in Requests /\ Request(c, n).who = c
         /\ Request(c, n).pc = "live" /\ Request(c, n).todo = {}
  BY DEF Request, Requests, Places

LEMMA OverType ==
  /\ Unused \in Requests /\ Unused.pc = "unused" /\ Unused.who = None
  /\ Over \in Requests /\ Over.pc = "over" /\ Over.who = None
  /\ [Over EXCEPT !.pc = "closing"] \in Requests
  /\ [Over EXCEPT !.pc = "closing"].pc = "closing"
  BY DEF Unused, Over, Request, Requests, Places

LEMMA LiveType ==
  ASSUME NEW r \in Requests, r.pc = "live",
         NEW q, \/ q = [r EXCEPT !.made = @ + 1] \/ q = [r EXCEPT !.sent = @ + 1]
                \/ \E f \in {"ok", "err", "told"} : q = [r EXCEPT !.fin = f] /\ r.fin # "told"
  PROVE  /\ q \in Requests /\ q.pc = "live" /\ q.who = r.who /\ q.todo = r.todo /\ q.sent >= r.sent
         /\ r.fin = "told" => q.fin = "told"
  <1>1. CASE q = [r EXCEPT !.made = @ + 1] BY <1>1 DEF Requests
  <1>2. CASE q = [r EXCEPT !.sent = @ + 1] BY <1>2 DEF Requests
  <1>3. CASE \E f \in {"ok", "err", "told"} : q = [r EXCEPT !.fin = f] /\ r.fin # "told"
    BY <1>3 DEF Requests
  <1> QED BY <1>1, <1>2, <1>3

LEMMA TodoType ==
  ASSUME NEW r \in Requests, NEW x,
         NEW q, q = [r EXCEPT !.todo = @ \ {x}] \/ q = [r EXCEPT !.pc = "live"]
  PROVE  /\ q \in Requests /\ q.who = r.who
         /\ (q.pc = r.pc /\ q.todo = r.todo \ {x}) \/ (q.pc = "live" /\ q.todo = r.todo)
  <1>1. r.todo \ {x} \in SUBSET Item BY DEF Requests
  <1>2. CASE q = [r EXCEPT !.todo = @ \ {x}] BY <1>1, <1>2 DEF Requests
  <1>3. CASE q = [r EXCEPT !.pc = "live"] BY <1>3 DEF Requests, Places
  <1> QED BY <1>2, <1>3

\* A request goes on: nothing it has made is taken back.
Grows(r, q) ==
  /\ r.pc \in {"closing", "over"} => q.pc \in {"closing", "over"}
  /\ r.pc = "live" =>
       \/ q.pc \in {"closing", "over"}
       \/ q.pc = "live" /\ q.sent >= r.sent /\ (r.fin = "told" => q.fin = "told")

LEMMA Becomes ==
  ASSUME StTyped, NEW s \in Stream, NEW r \in Requests, Become(s, r), Grows(st[s], r)
  PROVE  /\ StTyped' /\ st'[s] = r /\ \A u \in Stream \ {s} : st'[u] = st[u]
         /\ \A e \in ChatEv : Emitted(e) => Emitted(e)'
  <1>1. StTyped' /\ st'[s] = r /\ \A u \in Stream \ {s} : st'[u] = st[u]
    BY DEF StTyped, Become
  <1>2. ASSUME NEW e \in ChatEv, Emitted(e) PROVE Emitted(e)'
    <2>1. e.s \in Stream /\ e.n \in Nat BY DEF ChatEv
    <2>2. CASE e.s # s BY <1>1, <1>2, <2>1, <2>2 DEF Emitted
    <2>3. CASE e.s = s
      <3>1. st[s] \in Requests BY DEF StTyped
      <3>2. r.sent \in Nat /\ st[s].sent \in Nat BY <3>1 DEF Requests
      <3> QED BY <1>1, <1>2, <2>1, <2>3, <3>2 DEF Emitted, Grows
    <2> QED BY <2>2, <2>3
  <1> QED BY <1>1, <1>2

-----------------------------------------------------------------------------
\* A step that pushes nothing and tells nobody anything: the log stays or is emptied, no
\* client gets an event or moves its lastSeq, and streams replay what they did, to whom they did,
\* unless one starts.

Quiet ==
  /\ LogTyped' /\ StTyped' /\ ClientTyped'
  /\ log' = log \/ log' = <<>>
  /\ log' = log /\ log # <<>> => UNCHANGED <<known, seq>>
  /\ \A e \in ChatEv : Emitted(e) => Emitted(e)'
  /\ \A c \in Client : (got'[c] = got[c] /\ last'[c] = last[c]) \/ (got'[c] = <<>> /\ log' = <<>>)
  /\ \A s \in Stream : st'[s].pc = "replay" =>
       \/ /\ st'[s].todo = st[s].todo /\ st[s].pc = "replay" /\ st'[s].who = st[s].who
          /\ st[s].who # None /\ on'[st[s].who] = s => on[st[s].who] = s /\ got'[st[s].who] = got[st[s].who]
                                                     /\ last'[st[s].who] = last[st[s].who]
       \/ /\ st'[s].who \in Client /\ log' = log
          /\ got'[st'[s].who] = got[st'[s].who] /\ last'[st'[s].who] = last[st'[s].who]
          /\ st'[s].todo = Replayed(last[st'[s].who])

LEMMA QuietKeeps ==
  ASSUME IInv, Quiet, known' \/ log' = <<>>
  PROVE  IInv'
  <1>0. Elems(log) \subseteq Item /\ Elems(log') \subseteq Elems(log)
    BY NothingThere, SeqFacts DEF Quiet, IInv, Typed, LogTyped
  <1>1. Typed' BY DEF Quiet, Typed
  <1>2. \A x \in Elems(log') : x \in Elems(log) /\ x \in Item /\ x.ev \in ChatEv BY <1>0 DEF Item
  <1>3. LogInv'
    <2>1. Sorted(log)' BY NothingThere DEF Quiet, IInv, LogInv
    <2>2. ASSUME NEW x \in Elems(log') PROVE x.seq <= seq' /\ Emitted(x.ev)'
      <3>1. log' # <<>> BY NothingThere
      <3>2. log' = log /\ seq' = seq BY <3>1 DEF Quiet
      <3> QED BY <1>2, <3>2 DEF Quiet, IInv, LogInv
    <2> QED BY <2>1, <2>2 DEF LogInv
  <1>4. GotInv'
    <2>1. ASSUME NEW c \in Client
          PROVE /\ Lined(got'[c])
                /\ \A e \in Elems(got'[c]) : Emitted(e)' /\ \A x \in Elems(log') :
                     x.seq > last'[c] => Precede(e, x.ev)
      <3>1. CASE got'[c] = <<>> BY <3>1, NothingThere
      <3>2. CASE got'[c] = got[c] /\ last'[c] = last[c]
        <4>1. got[c] \in Seq(ChatEv) BY DEF IInv, Typed, ClientTyped
        <4>2. Elems(got[c]) \subseteq ChatEv BY <4>1, SeqFacts
        <4> QED BY <1>2, <3>2, <4>2 DEF Quiet, IInv, GotInv
      <3> QED BY <3>1, <3>2 DEF Quiet
    <2> QED BY <2>1 DEF GotInv
  <1>5. ASSUME NEW s \in Stream, st'[s].pc = "replay"
        PROVE  /\ \A x \in st'[s].todo :
                    /\ Emitted(x.ev)'
                    /\ \A y \in st'[s].todo : x = y \/ Before(x, y) \/ Before(y, x)
                    /\ \A y \in Elems(log') : y.seq > x.seq => Precede(x.ev, y.ev)
               /\ Reading(s)' => \A x \in st'[s].todo :
                    /\ x.seq > last'[st'[s].who]
                    /\ \A e \in Elems(got'[st'[s].who]) : Precede(e, x.ev)
    <2>0. st[s] \in Requests /\ st'[s] \in Requests BY DEF Quiet, IInv, Typed, StTyped
    <2>1. CASE /\ st'[s].todo = st[s].todo /\ st[s].pc = "replay" /\ st'[s].who = st[s].who
               /\ st[s].who # None /\ on'[st[s].who] = s => on[st[s].who] = s /\ got'[st[s].who] = got[st[s].who]
                                                          /\ last'[st[s].who] = last[st[s].who]
      <3>1. \A x \in st[s].todo : x.ev \in ChatEv BY <2>0 DEF Requests, Item
      <3>2. Reading(s)' => Reading(s) BY <2>1 DEF Reading
      <3>3. \A x \in st[s].todo :
              /\ Emitted(x.ev)'
              /\ \A y \in st[s].todo : x = y \/ Before(x, y) \/ Before(y, x)
              /\ \A y \in Elems(log') : y.seq > x.seq => Precede(x.ev, y.ev)
        BY <1>2, <2>1, <3>1 DEF Quiet, IInv, TodoInv
      <3>4. Reading(s)' => \A x \in st[s].todo :
              /\ x.seq > last'[st[s].who] /\ \A e \in Elems(got'[st[s].who]) : Precede(e, x.ev)
        BY <2>1, <3>2 DEF IInv, ReadInv, Reading
      <3> QED BY <2>1, <3>3, <3>4
    <2>2. CASE /\ st'[s].who \in Client /\ log' = log
               /\ got'[st'[s].who] = got[st'[s].who] /\ last'[st'[s].who] = last[st'[s].who]
               /\ st'[s].todo = Replayed(last[st'[s].who])
      <3> DEFINE c == st'[s].who
      <3>1. last[c] \in Nat BY <2>2 DEF IInv, Typed, ClientTyped
      <3>2. st'[s].todo \subseteq Elems(log) /\ \A x \in st'[s].todo : x.seq > last[c]
        BY <2>2, <3>1, ReplayFacts DEF IInv, Typed
      <3>3. \A x \in st'[s].todo : x.ev \in ChatEv /\ x.seq \in Nat BY <1>0, <3>2 DEF Item
      <3>4. \A x, y \in Elems(log) : x = y \/ Before(x, y) \/ Before(y, x)
        <4>1. log \in Seq(Item) BY DEF IInv, Typed, LogTyped
        <4>2. Sorted(log) BY DEF IInv, LogInv
        <4> QED BY <4>1, <4>2, SortedPairs
      <3>5. \A x \in st'[s].todo : Emitted(x.ev)' BY <3>2, <3>3 DEF Quiet, IInv, LogInv
      <3>6. \A x, y \in Elems(log) : y.seq > x.seq => Precede(x.ev, y.ev)
        <4>1. \A x \in Elems(log) : x.seq \in Nat BY <1>0 DEF Item
        <4> QED BY <3>4, <4>1 DEF Before
      <3>7. \A x \in st'[s].todo : \A e \in Elems(got[c]) : Precede(e, x.ev)
        BY <2>2, <3>2 DEF IInv, GotInv
      <3> QED BY <2>2, <3>2, <3>4, <3>5, <3>6, <3>7
    <2> QED BY <1>5, <2>1, <2>2 DEF Quiet
  <1>6. TodoInv' BY <1>5 DEF TodoInv
  <1>7. ReadInv' BY <1>5 DEF ReadInv
  <1> QED BY <1>1, <1>3, <1>4, <1>6, <1>7 DEF IInv

-----------------------------------------------------------------------------
\* The quiet steps.

\* Somebody who is not a client any more of what he was, or never read anything.
LEMMA TypedParts == IInv => LogTyped /\ StTyped /\ ClientTyped
  BY DEF IInv, Typed

\* The log as reset, removed, seeded or left alone.
LEMMA LogStays ==
  ASSUME LogTyped, NEW n \in Nat,
         UNCHANGED logVars \/ RemoveSession \/ InitSession(n) \/ Seed(n)
  PROVE  /\ LogTyped' /\ (log' = log \/ log' = <<>>)
         /\ log' = log /\ log # <<>> => UNCHANGED <<known, seq>>
         /\ known \/ log = <<>> => known' \/ log' = <<>>
  <1>1. <<>> \in Seq(Item) BY NothingThere
  <1>2. CASE UNCHANGED logVars BY <1>2 DEF LogTyped, logVars
  <1>3. CASE RemoveSession BY <1>1, <1>3 DEF LogTyped, RemoveSession
  <1>4. CASE InitSession(n) BY <1>1, <1>4 DEF LogTyped, InitSession
  <1> QED BY <1>2, <1>3, <1>4 DEF Seed

LEMMA Opens ==
  ASSUME IInv, NEW s \in Stream, NEW c \in Client, OpenFresh(s, c) \/ Reopen(s, c)
  PROVE  IInv'
  <1>0. LogTyped /\ StTyped /\ ClientTyped /\ LogInv BY DEF IInv, Typed
  <1>n. PICK n \in Nat : \E r :
          /\ r = Request(c, n) \/ r = [Request(c, n) EXCEPT !.pc = "replay", !.todo = Replayed(n)]
          /\ Connect(s, c, n) /\ Become(s, r)
          /\ \/ got' = got /\ last[c] = n /\ (UNCHANGED logVars \/ Seed(n))
             \/ got' = [got EXCEPT ![c] = <<>>] /\ InitSession(n)
          /\ r.pc = "replay" => UNCHANGED <<logVars, got>> /\ last[c] = n
    <2>1. CASE OpenFresh(s, c)
      <3>1. Request(c, 0).pc # "replay" BY DEF Request
      <3>2. 0 \in Nat OBVIOUS
      <3> QED BY <2>1, <3>1, <3>2 DEF OpenFresh
    <2>2. CASE Reopen(s, c)
      <3>1. last[c] \in Nat BY <1>0 DEF ClientTyped
      <3>2. Request(c, last[c]).pc # "replay" BY DEF Request
      <3> QED BY <2>2, <3>1, <3>2 DEF Reopen
    <2> QED BY <2>1, <2>2
  <1>1. PICK r :
          /\ r = Request(c, n) \/ r = [Request(c, n) EXCEPT !.pc = "replay", !.todo = Replayed(n)]
          /\ Connect(s, c, n) /\ Become(s, r)
          /\ \/ got' = got /\ last[c] = n /\ (UNCHANGED logVars \/ Seed(n))
             \/ got' = [got EXCEPT ![c] = <<>>] /\ InitSession(n)
          /\ r.pc = "replay" => UNCHANGED <<logVars, got>> /\ last[c] = n
    BY <1>n
  <1>2. Replayed(n) \in SUBSET Item
    <2>1. Replayed(n) \subseteq Elems(log) BY <1>0, ReplayFacts
    <2>2. Elems(log) \subseteq Item BY <1>0, SeqFacts DEF LogTyped
    <2> QED BY <2>1, <2>2
  <1>3. /\ r \in Requests /\ r.who = c
        /\ r.pc = "live" \/ (r.pc = "replay" /\ r.todo = Replayed(n))
    <2>1. PICK b : b = Request(c, n) OBVIOUS
    <2>2. b \in Requests /\ b.who = c /\ b.pc = "live" BY <2>1, RequestType
    <2>3. PICK t \in SUBSET Item : t = Replayed(n) BY <1>2
    <2>4. r = b \/ r = [b EXCEPT !.pc = "replay", !.todo = t] BY <1>1, <2>1, <2>3
    <2>5. CASE r = b BY <2>2, <2>5
    <2>6. CASE r = [b EXCEPT !.pc = "replay", !.todo = t]
      <3>1. r \in Requests /\ r.who = b.who /\ r.pc = "replay" /\ r.todo = t
        BY <2>2, <2>6 DEF Requests, Places
      <3> QED BY <2>2, <2>3, <3>1
    <2> QED BY <2>4, <2>5, <2>6
  <1>4. st[s].pc = "unused" BY <1>1 DEF Connect, At
  <1>5. Grows(st[s], r) BY <1>4 DEF Grows
  <1>6. /\ StTyped' /\ st'[s] = r /\ \A u \in Stream \ {s} : st'[u] = st[u]
        /\ \A e \in ChatEv : Emitted(e) => Emitted(e)'
    BY <1>0, <1>1, <1>3, <1>5, Becomes
  <1>7. /\ LogTyped' /\ (log' = log \/ log' = <<>>)
        /\ log' = log /\ log # <<>> => UNCHANGED <<known, seq>>
        /\ known' \/ log' = <<>>
    BY <1>0, <1>1, LogStays DEF LogInv
  <1>8. /\ on' = [on EXCEPT ![c] = s] /\ last' = [last EXCEPT ![c] = n]
        /\ got' = got \/ got' = [got EXCEPT ![c] = <<>>]
        /\ on[c] = None
    BY <1>1 DEF Connect
  <1>9. ClientTyped' BY <1>0, <1>8, NothingThere DEF ClientTyped
  <1>10. \A d \in Client : (got'[d] = got[d] /\ last'[d] = last[d]) \/ (got'[d] = <<>> /\ log' = <<>>)
    <2>1. InitSession(n) => log' = <<>> BY DEF InitSession
    <2> QED BY <1>0, <1>1, <1>8, <2>1 DEF ClientTyped
  <1>11. ASSUME NEW u \in Stream, st'[u].pc = "replay"
         PROVE \/ /\ st'[u].todo = st[u].todo /\ st[u].pc = "replay" /\ st'[u].who = st[u].who
                  /\ st[u].who # None /\ on'[st[u].who] = u => on[st[u].who] = u /\ got'[st[u].who] = got[st[u].who]
                                                             /\ last'[st[u].who] = last[st[u].who]
               \/ /\ st'[u].who \in Client /\ log' = log
                  /\ got'[st'[u].who] = got[st'[u].who] /\ last'[st'[u].who] = last[st'[u].who]
                  /\ st'[u].todo = Replayed(last[st'[u].who])
    <2>1. CASE u = s
      <3>1. r.pc = "replay" BY <1>6, <1>11, <2>1
      <3>2. log' = log /\ got' = got /\ last[c] = n BY <1>1, <3>1 DEF logVars
      <3>3. last'[c] = last[c] BY <1>0, <1>8, <3>2 DEF ClientTyped
      <3> QED BY <1>3, <1>6, <2>1, <3>1, <3>2, <3>3
    <2>2. CASE u # s
      <3>1. st[u] \in Requests BY <1>0 DEF StTyped
      <3>2. st[u].who \in Client \cup {None} BY <3>1 DEF Requests
      <3>3. CASE st[u].who = c BY <1>0, <1>6, <1>8, <1>11, <2>2, <3>3 DEF ClientTyped
      <3>4. CASE st[u].who \in Client \ {c} BY <1>0, <1>6, <1>8, <1>11, <2>2, <3>4 DEF ClientTyped
      <3>5. CASE st[u].who = None BY <1>6, <1>11, <2>2, <3>5
      <3> QED BY <3>2, <3>3, <3>4, <3>5
    <2> QED BY <2>1, <2>2
  <1>12. Quiet BY <1>6, <1>7, <1>9, <1>10, <1>11 DEF Quiet
  <1> QED BY <1>7, <1>12, QuietKeeps

\* Clients stay on their streams or leave them.
Leaves ==
  /\ on' \in [Client -> Stream \cup {None}] /\ UNCHANGED <<last, got>>
  /\ \A c \in Client : on'[c] \in {on[c], None}

LEMMA Leaving ==
  ASSUME ClientTyped, UNCHANGED <<last, got>>,
         \/ UNCHANGED on
         \/ \E c \in Client : on' = [on EXCEPT ![c] = None]
         \/ on' = [c \in Client |-> None]
  PROVE  Leaves /\ ClientTyped'
  BY DEF Leaves, ClientTyped

LEMMA LeavingIsQuiet ==
  ASSUME IInv, LogTyped', StTyped', ClientTyped', Leaves,
         log' = log \/ log' = <<>>, log' = log /\ log # <<>> => UNCHANGED <<known, seq>>,
         known' \/ log' = <<>>, \A e \in ChatEv : Emitted(e) => Emitted(e)',
         \A s \in Stream : st'[s].pc = "replay" => st'[s] = st[s]
  PROVE  IInv'
  <1>1. ASSUME NEW s \in Stream, st'[s].pc = "replay"
        PROVE /\ st'[s].todo = st[s].todo /\ st[s].pc = "replay" /\ st'[s].who = st[s].who
              /\ st[s].who # None /\ on'[st[s].who] = s =>
                   on[st[s].who] = s /\ got'[st[s].who] = got[st[s].who]
                                     /\ last'[st[s].who] = last[st[s].who]
    <2>1. st'[s] = st[s] BY <1>1
    <2>2. st[s].who \in Client \cup {None} BY DEF IInv, Typed, StTyped, Requests
    <2> QED BY <1>1, <2>1, <2>2, StreamAssumption DEF Leaves
  <1>2. Quiet BY <1>1 DEF Quiet, Leaves
  <1> QED BY <1>2, QuietKeeps

\* A step of a request that is not told to its client.
LEMMA StepIsQuiet ==
  ASSUME IInv, NEW s \in Stream, NEW r \in Requests, Become(s, r), Grows(st[s], r), r.pc # "replay",
         UNCHANGED logVars \/ RemoveSession \/ (\E n \in Nat : Seed(n)),
         Leaves, ClientTyped'
  PROVE  IInv'
  <1>1. LogTyped /\ StTyped /\ LogInv BY DEF IInv, Typed
  <1>2. /\ StTyped' /\ st'[s] = r /\ \A u \in Stream \ {s} : st'[u] = st[u]
        /\ \A e \in ChatEv : Emitted(e) => Emitted(e)'
    BY <1>1, Becomes
  <1>3. \A u \in Stream : st'[u].pc = "replay" => st'[u] = st[u] BY <1>2
  <1>4. /\ LogTyped' /\ (log' = log \/ log' = <<>>)
        /\ log' = log /\ log # <<>> => UNCHANGED <<known, seq>>
        /\ known \/ log = <<>> => known' \/ log' = <<>>
    BY <1>1, LogStays
  <1>5. known \/ log = <<>> BY <1>1 DEF LogInv
  <1> QED BY <1>2, <1>3, <1>4, <1>5, LeavingIsQuiet

LEMMA HangUpLeaves ==
  ASSUME IInv, NEW s \in Stream, HangUp(s) PROVE Leaves /\ ClientTyped'
  <1>1. st[s].who \in Client \cup {None} BY DEF IInv, Typed, StTyped, Requests
  <1>2. CASE Reading(s)
    BY <1>1, <1>2, TypedParts, Leaving DEF HangUp, Reading
  <1>3. CASE ~Reading(s)
    BY <1>3, TypedParts, Leaving DEF HangUp, clientVars
  <1> QED BY <1>2, <1>3

LEMMA ServesQuietly ==
  ASSUME IInv, NEW s \in Stream,
         \/ GoLive(s) \/ Produce(s) \/ Finish(s, "ok") \/ Finish(s, "err")
         \/ Done(s) \/ Notice(s) \/ Cleanup(s)
  PROVE  IInv'
  <1>1. st[s] \in Requests BY DEF IInv, Typed, StTyped
  <1>2. UNCHANGED clientVars => Leaves /\ ClientTyped'
    BY TypedParts, Leaving DEF clientVars
  <1>3. CASE GoLive(s)
    <2>1. PICK r : r = [st[s] EXCEPT !.pc = "live"] OBVIOUS
    <2>2. r \in Requests /\ r.pc = "live" BY <1>1, <2>1 DEF Requests, Places
    <2>3. Become(s, r) /\ Seed(st[s].cursor) /\ st[s].pc = "replay" /\ UNCHANGED clientVars
      BY <1>3, <2>1 DEF GoLive, At
    <2>4. Grows(st[s], r) BY <2>3 DEF Grows
    <2>5. st[s].cursor \in Nat BY <1>1 DEF Requests
    <2> QED BY <1>2, <2>2, <2>3, <2>4, <2>5, StepIsQuiet
  <1>4. CASE Produce(s)
    <2>1. PICK r : r = [st[s] EXCEPT !.made = @ + 1] OBVIOUS
    <2>2. Become(s, r) /\ UNCHANGED logVars /\ UNCHANGED clientVars /\ st[s].pc = "live"
      BY <1>4, <2>1 DEF Produce, At
    <2>3. r \in Requests /\ r.pc = "live" /\ r.sent = st[s].sent /\ r.fin = st[s].fin
      BY <1>1, <2>1, <2>2 DEF Requests
    <2>4. st[s].sent \in Nat BY <1>1 DEF Requests
    <2>5. Grows(st[s], r) BY <2>2, <2>3, <2>4 DEF Grows
    <2> QED BY <1>2, <2>2, <2>3, <2>5, StepIsQuiet
  <1>5. ASSUME NEW f \in {"ok", "err"}, Finish(s, f) PROVE IInv'
    <2>1. PICK r : r = [st[s] EXCEPT !.fin = f] OBVIOUS
    <2>2. /\ Become(s, r) /\ UNCHANGED logVars /\ UNCHANGED clientVars
          /\ st[s].pc = "live" /\ st[s].fin = "run"
      BY <1>5, <2>1 DEF Finish, At
    <2>3. r \in Requests /\ r.pc = "live" /\ r.sent = st[s].sent
      BY <1>1, <2>1, <2>2 DEF Requests
    <2>4. st[s].sent \in Nat BY <1>1 DEF Requests
    <2>5. Grows(st[s], r) BY <2>2, <2>3, <2>4 DEF Grows
    <2> QED BY <1>2, <2>2, <2>3, <2>5, StepIsQuiet
  <1>6. \A q : Grows(q, Over) /\ Grows(q, [Over EXCEPT !.pc = "closing"]) BY OverType DEF Grows
  <1>7. CASE Done(s)
    BY <1>6, <1>7, OverType, HangUpLeaves, StepIsQuiet DEF Done
  <1>8. CASE Notice(s) \/ Cleanup(s)
    <2>1. \/ Become(s, Over) \/ Become(s, [Over EXCEPT !.pc = "closing"])
      BY <1>8 DEF Notice, Cleanup
    <2>2. (UNCHANGED logVars \/ RemoveSession) /\ UNCHANGED clientVars
      BY <1>8 DEF Notice, Cleanup
    <2> QED BY <1>2, <1>6, <2>1, <2>2, OverType, StepIsQuiet
  <1> QED BY <1>3, <1>4, <1>5, <1>7, <1>8

LEMMA Leavings ==
  ASSUME IInv, (\E c \in Client : Drop(c)) \/ Crash \/ UNCHANGED vars
  PROVE  IInv'
  <1>1. LogTyped /\ StTyped /\ ClientTyped /\ LogInv BY DEF IInv, Typed
  <1>2. CASE (\E c \in Client : Drop(c)) \/ UNCHANGED vars
    <2>1. UNCHANGED logVars /\ UNCHANGED st /\ Leaves /\ ClientTyped'
      BY <1>1, <1>2, Leaving DEF Drop, vars, clientVars
    <2>2. LogTyped' /\ StTyped' /\ log' = log /\ known' = known /\ seq' = seq
      BY <1>1, <2>1 DEF LogTyped, StTyped, logVars
    <2>3. \A e \in ChatEv : Emitted(e) => Emitted(e)' BY <2>1 DEF Emitted
    <2>4. known' \/ log' = <<>> BY <1>1, <2>2 DEF LogInv
    <2> QED BY <2>1, <2>2, <2>3, <2>4, LeavingIsQuiet
  <1>3. CASE Crash
    <2>1. RemoveSession /\ Leaves /\ ClientTyped' BY <1>1, <1>3, Leaving DEF Crash
    <2>2. \A s \in Stream : st'[s] = IF st[s] = Unused THEN Unused ELSE Over
      BY <1>3 DEF Crash
    <2>3. StTyped' /\ \A s \in Stream : st'[s].pc # "replay"
      BY <1>3, <2>2, OverType DEF Crash, StTyped
    <2>4. \A e \in ChatEv : Emitted(e) => Emitted(e)'
      BY <2>2, OverType DEF Emitted, ChatEv
    <2>5. LogTyped' /\ log' = <<>> BY <1>1, <2>1, NothingThere DEF RemoveSession, LogTyped
    <2>6. log' = log /\ log # <<>> => UNCHANGED <<known, seq>> BY <2>5
    <2> QED BY <2>1, <2>3, <2>4, <2>5, <2>6, LeavingIsQuiet
  <1> QED BY <1>2, <1>3

-----------------------------------------------------------------------------
\* The steps that tell a client something.

LEMMA DeliverFacts ==
  ASSUME ClientTyped, StTyped, NEW s \in Stream, NEW e \in ChatEv, NEW n \in Nat \cup {-1},
         Deliver(s, e, n)
  PROVE  /\ ClientTyped' /\ on' = on
         /\ ~Reading(s) => UNCHANGED <<got, last>>
         /\ Reading(s) =>
              /\ st[s].who \in Client
              /\ got'[st[s].who] = Append(got[st[s].who], e)
              /\ last'[st[s].who] = IF Seen(st[s].who, n) \/ n = -1 THEN last[st[s].who] ELSE n
              /\ \A c \in Client \ {st[s].who} : got'[c] = got[c] /\ last'[c] = last[c]
  <1>1. CASE ~Reading(s)
    BY <1>1 DEF Deliver, clientVars, ClientTyped
  <1>2. CASE Reading(s)
    <2> DEFINE c == st[s].who
    <2>1. c \in Client
      <3>1. st[s] \in Requests BY DEF StTyped
      <3> QED BY <1>2, <3>1 DEF Reading, Requests
    <2>2. /\ got' = [got EXCEPT ![c] = Append(@, e)] /\ on' = on
          /\ IF Seen(c, n) THEN last' = last
             ELSE last' = [last EXCEPT ![c] = IF n = -1 THEN @ ELSE n]
      BY <1>2 DEF Deliver
    <2>3. got[c] \in Seq(ChatEv) /\ last[c] \in Nat BY <2>1 DEF ClientTyped
    <2>4. Append(got[c], e) \in Seq(ChatEv) BY <2>3
    <2> HIDE DEF c
    <2>5. got' \in [Client -> Seq(ChatEv)] BY <2>1, <2>2, <2>4 DEF ClientTyped
    <2>6. last' \in [Client -> Nat] BY <2>1, <2>2, <2>3 DEF ClientTyped
    <2>7. ClientTyped' BY <2>2, <2>5, <2>6 DEF ClientTyped
    <2>8. /\ got'[c] = Append(got[c], e) /\ \A d \in Client \ {c} : got'[d] = got[d]
      BY <2>1, <2>2 DEF ClientTyped
    <2>9. /\ last'[c] = IF Seen(c, n) \/ n = -1 THEN last[c] ELSE n
          /\ \A d \in Client \ {c} : last'[d] = last[d]
      BY <2>1, <2>2 DEF ClientTyped
    <2> QED BY <1>2, <2>1, <2>2, <2>7, <2>8, <2>9 DEF c
  <1> QED BY <1>1, <1>2

LEMMA Replays ==
  ASSUME IInv, NEW s \in Stream, NEW x \in st[s].todo, ReplayEvent(s, x)
  PROVE  IInv'
  <1>1. /\ LogTyped /\ StTyped /\ ClientTyped /\ LogInv /\ TodoInv /\ GotInv /\ ReadInv
        /\ st[s] \in Requests
    BY DEF IInv, Typed, StTyped
  <1>2. x \in Item /\ x.ev \in ChatEv /\ x.seq \in Nat \ {0} BY <1>1 DEF Requests, Item
  <1>3. /\ st[s].pc = "replay" /\ First(s, x) /\ Become(s, [st[s] EXCEPT !.todo = @ \ {x}])
        /\ Deliver(s, x.ev, x.seq) /\ UNCHANGED logVars
    BY DEF ReplayEvent, At
  <1>4. PICK r : r = [st[s] EXCEPT !.todo = @ \ {x}] OBVIOUS
  <1>5. r \in Requests /\ r.pc = "replay" /\ r.who = st[s].who /\ r.todo = st[s].todo \ {x}
    <2>1. st[s].todo \ {x} \in SUBSET Item BY <1>1 DEF Requests
    <2> QED BY <1>1, <1>3, <1>4, <2>1 DEF Requests
  <1>6. Grows(st[s], r) BY <1>3 DEF Grows
  <1>7. /\ StTyped' /\ st'[s] = r /\ \A u \in Stream \ {s} : st'[u] = st[u]
        /\ \A e \in ChatEv : Emitted(e) => Emitted(e)'
    BY <1>1, <1>3, <1>4, <1>5, <1>6, Becomes
  <1>8. LogTyped' /\ log' = log /\ known' = known /\ seq' = seq
    BY <1>1, <1>3 DEF LogTyped, logVars
  <1>9. /\ ClientTyped' /\ on' = on
        /\ ~Reading(s) => UNCHANGED <<got, last>>
        /\ Reading(s) =>
             /\ st[s].who \in Client
             /\ got'[st[s].who] = Append(got[st[s].who], x.ev)
             /\ last'[st[s].who] =
                  IF Seen(st[s].who, x.seq) \/ x.seq = -1 THEN last[st[s].who] ELSE x.seq
             /\ \A c \in Client \ {st[s].who} : got'[c] = got[c] /\ last'[c] = last[c]
    <2>1. x.seq \in Nat \cup {-1} BY <1>2
    <2> QED BY <1>1, <1>2, <1>3, <2>1, DeliverFacts
  <1>10. Typed' BY <1>7, <1>8, <1>9 DEF Typed
  <1>11. \A y \in Elems(log) : y.ev \in ChatEv /\ y.seq \in Nat
    <2>1. Elems(log) \subseteq Item BY <1>1, SeqFacts DEF LogTyped
    <2> QED BY <2>1 DEF Item
  <1>12. LogInv' BY <1>1, <1>7, <1>8, <1>11 DEF LogInv
  <1>13. TodoInv'
    <2>1. ASSUME NEW u \in Stream, st'[u].pc = "replay", NEW y \in st'[u].todo
          PROVE /\ Emitted(y.ev)' /\ \A z \in st'[u].todo : y = z \/ Before(y, z) \/ Before(z, y)
                /\ \A z \in Elems(log') : z.seq > y.seq => Precede(y.ev, z.ev)
      <3>1. st[u].pc = "replay" /\ st'[u].todo \subseteq st[u].todo BY <1>3, <1>5, <1>7, <2>1
      <3>2. st[u] \in Requests BY <1>1 DEF StTyped
      <3>3. y.ev \in ChatEv BY <2>1, <3>1, <3>2 DEF Requests, Item
      <3> QED BY <1>1, <1>7, <1>8, <2>1, <3>1, <3>3 DEF TodoInv
    <2> QED BY <2>1 DEF TodoInv
  <1>14. CASE ~Reading(s)
    <2>1. got' = got /\ last' = last BY <1>9, <1>14
    <2>2. GotInv'
      <3>1. \A c \in Client : Elems(got[c]) \subseteq ChatEv BY <1>1, SeqFacts DEF ClientTyped
      <3> QED BY <1>1, <1>7, <1>8, <2>1, <3>1 DEF GotInv
    <2>3. ReadInv'
      <3>1. ASSUME NEW u \in Stream, st'[u].pc = "replay", Reading(u)'
            PROVE \A y \in st'[u].todo : y.seq > last'[st'[u].who]
                     /\ \A e \in Elems(got'[st'[u].who]) : Precede(e, y.ev)
        <4>1. u # s BY <1>5, <1>7, <1>9, <1>14, <3>1 DEF Reading
        <4>2. st'[u] = st[u] BY <1>7, <4>1
        <4>3. Reading(u) BY <1>9, <3>1, <4>2 DEF Reading
        <4> QED BY <1>1, <2>1, <3>1, <4>2, <4>3 DEF ReadInv
      <3> QED BY <3>1 DEF ReadInv
    <2> QED BY <1>10, <1>12, <1>13, <2>2, <2>3 DEF IInv
  <1>15. CASE Reading(s)
    <2> DEFINE c == st[s].who
    <2>1. /\ c \in Client /\ got'[c] = Append(got[c], x.ev)
          /\ \A d \in Client \ {c} : got'[d] = got[d] /\ last'[d] = last[d]
      BY <1>9, <1>15
    <2>2. x.seq > last[c] /\ \A e \in Elems(got[c]) : Precede(e, x.ev)
      BY <1>1, <1>3, <1>15 DEF ReadInv
    <2>3. got[c] \in Seq(ChatEv) /\ last[c] \in Nat BY <1>1, <2>1 DEF ClientTyped
    <2>4. last'[c] = x.seq
      <3>1. ~Seen(c, x.seq) /\ x.seq # -1 BY <1>2, <2>2, <2>3 DEF Seen
      <3> QED BY <1>9, <1>15, <3>1
    <2>5. Elems(got'[c]) = Elems(got[c]) \cup {x.ev} BY <1>2, <2>1, <2>3, AppendFacts
    <2>6. Elems(got[c]) \subseteq ChatEv BY <2>3, SeqFacts
    <2>7. Emitted(x.ev) /\ \A y \in Elems(log) : y.seq > x.seq => Precede(x.ev, y.ev)
      BY <1>1, <1>3 DEF TodoInv
    <2> HIDE DEF c
    <2>8. Lined(got'[c])
      <3>1. Lined(got[c]) BY <1>1, <2>1 DEF GotInv
      <3> QED BY <1>2, <2>1, <2>2, <2>3, <3>1, AppendLined
    <2>9. \A e \in Elems(got'[c]) : Emitted(e)' BY <1>1, <1>2, <1>7, <2>1, <2>5, <2>6, <2>7 DEF GotInv
    <2>10. ASSUME NEW e \in Elems(got'[c]), NEW y \in Elems(log'), y.seq > last'[c]
           PROVE Precede(e, y.ev)
      <3>1. y \in Elems(log) /\ y.seq > x.seq /\ y.seq > last[c]
        BY <1>2, <1>8, <1>11, <2>2, <2>3, <2>4, <2>10
      <3>2. CASE e = x.ev BY <2>7, <3>1, <3>2
      <3>3. CASE e \in Elems(got[c]) BY <1>1, <2>1, <3>1, <3>3 DEF GotInv
      <3> QED BY <2>5, <2>10, <3>2, <3>3
    <2>11. GotInv'
      <3>1. ASSUME NEW d \in Client \ {c}
            PROVE /\ Lined(got'[d])
                  /\ \A e \in Elems(got'[d]) : Emitted(e)' /\ \A y \in Elems(log') :
                       y.seq > last'[d] => Precede(e, y.ev)
        <4>1. Elems(got[d]) \subseteq ChatEv BY <1>1, SeqFacts DEF ClientTyped
        <4> QED BY <1>1, <1>7, <1>8, <2>1, <4>1 DEF GotInv
      <3> QED BY <2>8, <2>9, <2>10, <3>1 DEF GotInv
    <2>12. ReadInv'
      <3>1. ASSUME NEW u \in Stream, st'[u].pc = "replay", Reading(u)', NEW y \in st'[u].todo
            PROVE y.seq > last'[st'[u].who] /\ \A e \in Elems(got'[st'[u].who]) : Precede(e, y.ev)
        <4>1. CASE u = s
          <5>1. y \in st[s].todo /\ y # x /\ st'[u].who = c BY <1>5, <1>7, <3>1, <4>1 DEF c
          <5>2. y \in Item BY <1>1, <5>1 DEF Requests
          <5>3. y = x \/ Before(x, y) \/ Before(y, x) BY <1>1, <1>3, <5>1 DEF TodoInv
          <5>4. x.seq <= y.seq BY <1>3, <5>1 DEF First
          <5>5. y.seq > x.seq /\ Precede(x.ev, y.ev)
            BY <1>2, <5>1, <5>2, <5>3, <5>4 DEF Before, Item
          <5>6. \A e \in Elems(got[c]) : Precede(e, y.ev) BY <1>1, <1>3, <1>15, <5>1 DEF ReadInv, c
          <5> QED BY <2>4, <2>5, <5>1, <5>5, <5>6
        <4>2. CASE u # s
          <5>1. st'[u] = st[u] BY <1>7, <4>2
          <5>2. Reading(u) BY <1>9, <3>1, <5>1 DEF Reading
          <5>3. st[u].who # c BY <1>15, <4>2, <5>2 DEF Reading, c
          <5>4. st[u].who \in Client
            <6>1. st[u] \in Requests BY <1>1 DEF StTyped
            <6> QED BY <5>2, <6>1 DEF Reading, Requests
          <5> QED BY <1>1, <2>1, <3>1, <5>1, <5>2, <5>3, <5>4 DEF ReadInv
        <4> QED BY <4>1, <4>2
      <3> QED BY <3>1 DEF ReadInv
    <2> QED BY <1>10, <1>12, <1>13, <2>11, <2>12 DEF IInv
  <1> QED BY <1>14, <1>15

\* A new event of stream s.
LEMMA Pushes ==
  ASSUME IInv, NEW s \in Stream, st[s].pc = "live",
         NEW e \in ChatEv, e.s = s, Push(e), Deliver(s, e, PushAnswer),
         NEW r \in Requests, Become(s, r), Grows(st[s], r), r.pc = "live",
         e.n <= r.sent, e.n = 0 => r.fin = "told",
         \A a \in ChatEv : Emitted(a) => Precede(a, e)
  PROVE  IInv'
  <1>1. LogTyped /\ StTyped /\ ClientTyped /\ LogInv /\ TodoInv /\ GotInv /\ ReadInv
    BY DEF IInv, Typed
  <1>2. /\ StTyped' /\ st'[s] = r /\ \A u \in Stream \ {s} : st'[u] = st[u]
        /\ \A a \in ChatEv : Emitted(a) => Emitted(a)'
    BY <1>1, Becomes
  <1>3. Emitted(e)' BY <1>2 DEF Emitted
  <1>4. PICK n \in Nat : n = seq + 1 BY <1>1 DEF LogTyped
  <1>5. PICK x : x = Tagged(e, n) OBVIOUS
  <1>6. x \in Item /\ x.ev = e /\ x.seq = n
    <2>1. n \in Nat \ {0} BY <1>1, <1>4 DEF LogTyped
    <2> QED BY <1>5, <2>1 DEF Tagged, Item
  <1>7. log \in Seq(Item) /\ seq \in Nat /\ Elems(log) \subseteq Item
    BY <1>1, SeqFacts DEF LogTyped
  <1>8. \A y \in Elems(log) : /\ y \in Item /\ y.ev \in ChatEv /\ y.seq \in Nat /\ y.seq <= seq
                              /\ Emitted(y.ev)
    BY <1>1, <1>7 DEF LogInv, Item
  <1>9. \A y \in Elems(log) : Before(y, x)
    <2>1. \A y \in Elems(log) : y.seq < n /\ Precede(y.ev, e) BY <1>4, <1>7, <1>8
    <2> QED BY <1>6, <2>1 DEF Before
  <1>10. /\ LogTyped' /\ Sorted(log')
         /\ Elems(log') \subseteq Elems(log) \cup {x}
         /\ \A y \in Elems(log') : y.seq <= seq'
         /\ known' \/ log' = <<>>
         /\ PushAnswer = -1 \/ PushAnswer = n
         /\ PushAnswer = -1 => Elems(log') = {}
    <2>1. CASE known
      <3>1. log' = Retain(Append(log, x)) /\ seq' = n /\ known' = known
        BY <1>4, <1>5, <2>1 DEF Push, Tagged
      <3>2. log' \in Seq(Item) /\ Sorted(log') /\ Elems(log') \subseteq Elems(log) \cup {x}
        BY <1>1, <1>6, <1>7, <1>9, <3>1, RingFacts DEF LogInv
      <3>3. \A y \in Elems(log') : y.seq <= seq' BY <1>4, <1>6, <1>7, <1>8, <3>1, <3>2
      <3>4. PushAnswer = n BY <1>4, <2>1 DEF PushAnswer
      <3>5. n # -1 BY <1>4, <1>7
      <3> QED BY <1>1, <2>1, <3>1, <3>2, <3>3, <3>4, <3>5 DEF LogTyped
    <2>2. CASE ~known
      <3>1. log = <<>> BY <1>1, <2>2 DEF LogInv
      <3>2. log' = <<>> /\ UNCHANGED <<known, seq>> BY <2>2, <3>1 DEF Push, logVars
      <3>3. PushAnswer = -1 BY <2>2 DEF PushAnswer
      <3> QED BY <1>1, <3>2, <3>3, NothingThere DEF LogTyped
    <2> QED BY <2>1, <2>2
  <1>11. \A y \in Elems(log') : y = x \/ y \in Elems(log) BY <1>10
  <1>12. LogInv'
    <2>1. \A y \in Elems(log') : Emitted(y.ev)' BY <1>2, <1>3, <1>6, <1>8, <1>11
    <2> QED BY <1>10, <2>1 DEF LogInv
  <1>13. /\ ClientTyped' /\ on' = on
         /\ ~Reading(s) => UNCHANGED <<got, last>>
         /\ Reading(s) =>
              /\ st[s].who \in Client
              /\ got'[st[s].who] = Append(got[st[s].who], e)
              /\ last'[st[s].who] =
                   IF Seen(st[s].who, PushAnswer) \/ PushAnswer = -1 THEN last[st[s].who] ELSE PushAnswer
              /\ \A c \in Client \ {st[s].who} : got'[c] = got[c] /\ last'[c] = last[c]
    <2>1. PushAnswer \in Nat \cup {-1} BY <1>10
    <2> QED BY <1>1, <2>1, DeliverFacts
  <1>14. Typed' BY <1>2, <1>10, <1>13 DEF Typed
  <1>15. TodoInv'
    <2>1. ASSUME NEW u \in Stream, st'[u].pc = "replay", NEW y \in st'[u].todo
          PROVE /\ Emitted(y.ev)' /\ \A z \in st'[u].todo : y = z \/ Before(y, z) \/ Before(z, y)
                /\ \A z \in Elems(log') : z.seq > y.seq => Precede(y.ev, z.ev)
      <3>1. u # s /\ st'[u] = st[u] BY <1>2, <2>1
      <3>2. st[u] \in Requests BY <1>1 DEF StTyped
      <3>3. y.ev \in ChatEv BY <2>1, <3>1, <3>2 DEF Requests, Item
      <3>4. Emitted(y.ev) BY <1>1, <2>1, <3>1 DEF TodoInv
      <3>5. \A z \in Elems(log') : z.seq > y.seq => Precede(y.ev, z.ev)
        BY <1>1, <1>6, <1>11, <2>1, <3>1, <3>3, <3>4 DEF TodoInv
      <3> QED BY <1>1, <1>2, <2>1, <3>1, <3>3, <3>4, <3>5 DEF TodoInv
    <2> QED BY <2>1 DEF TodoInv
  \* Whoever got nothing new: what was pushed may follow all he has.
  <1>16. ASSUME NEW c \in Client, got'[c] = got[c], last'[c] = last[c]
         PROVE /\ Lined(got'[c])
               /\ \A a \in Elems(got'[c]) : Emitted(a)' /\ \A y \in Elems(log') :
                    y.seq > last'[c] => Precede(a, y.ev)
    <2>1. Elems(got[c]) \subseteq ChatEv BY <1>1, SeqFacts DEF ClientTyped
    <2>2. \A a \in Elems(got[c]) : Emitted(a) /\ Precede(a, e) BY <1>1, <2>1 DEF GotInv
    <2> QED BY <1>1, <1>2, <1>6, <1>11, <1>16, <2>1, <2>2 DEF GotInv
  <1>17. ASSUME NEW u \in Stream, st'[u].pc = "replay", Reading(u)', NEW y \in st'[u].todo
         PROVE y.seq > last'[st'[u].who] /\ \A a \in Elems(got'[st'[u].who]) : Precede(a, y.ev)
    <2>1. u # s /\ st'[u] = st[u] BY <1>2, <1>17
    <2>2. Reading(u) BY <1>13, <1>17, <2>1 DEF Reading
    <2>3. st[u].who \in Client
      <3>1. st[u] \in Requests BY <1>1 DEF StTyped
      <3> QED BY <2>2, <3>1 DEF Reading, Requests
    <2>4. got'[st[u].who] = got[st[u].who] /\ last'[st[u].who] = last[st[u].who]
      <3>1. CASE Reading(s)
        <4>1. st[u].who # st[s].who BY <2>1, <2>2, <3>1 DEF Reading
        <4> QED BY <1>13, <2>3, <3>1, <4>1
      <3>2. CASE ~Reading(s) BY <1>13, <3>2
      <3> QED BY <3>1, <3>2
    <2> QED BY <1>1, <1>17, <2>1, <2>2, <2>4 DEF ReadInv
  <1>18. ReadInv' BY <1>17 DEF ReadInv
  <1>19. GotInv'
    <2>1. CASE ~Reading(s) BY <1>13, <1>16, <2>1 DEF GotInv
    <2>2. CASE Reading(s)
      <3> DEFINE c == st[s].who
      <3>1. /\ c \in Client /\ got'[c] = Append(got[c], e)
            /\ last'[c] = IF Seen(c, PushAnswer) \/ PushAnswer = -1 THEN last[c] ELSE PushAnswer
            /\ \A d \in Client \ {c} : got'[d] = got[d] /\ last'[d] = last[d]
        BY <1>13, <2>2
      <3> HIDE DEF c
      <3>2. got[c] \in Seq(ChatEv) /\ last[c] \in Nat BY <1>1, <3>1 DEF ClientTyped
      <3>3. Elems(got'[c]) = Elems(got[c]) \cup {e} BY <3>1, <3>2, AppendFacts
      <3>4. Elems(got[c]) \subseteq ChatEv BY <3>2, SeqFacts
      <3>5. \A a \in Elems(got[c]) : Emitted(a) /\ Precede(a, e) BY <1>1, <3>1, <3>4 DEF GotInv
      <3>6. Lined(got'[c])
        <4>1. Lined(got[c]) BY <1>1, <3>1 DEF GotInv
        <4> QED BY <3>1, <3>2, <3>5, <4>1, AppendLined
      <3>7. \A a \in Elems(got'[c]) : Emitted(a)' BY <1>2, <1>3, <3>3, <3>4, <3>5
      \* Nothing in the log is beyond its lastSeq now.
      <3>8. \A y \in Elems(log') : ~(y.seq > last'[c])
        <4>1. CASE PushAnswer = -1 BY <1>10, <4>1
        <4>2. CASE PushAnswer = n
          <5>1. n # -1 BY <1>4, <1>7
          <5>2. last'[c] \in Nat /\ last'[c] >= n BY <3>1, <3>2, <4>2, <5>1 DEF Seen
          <5>3. \A y \in Elems(log') : y.seq \in Nat /\ y.seq <= n BY <1>4, <1>6, <1>7, <1>8, <1>11
          <5> QED BY <5>2, <5>3
        <4> QED BY <1>10, <4>1, <4>2
      <3> QED BY <1>16, <3>1, <3>6, <3>7, <3>8 DEF GotInv
    <2> QED BY <2>1, <2>2
  <1> QED BY <1>12, <1>14, <1>15, <1>18, <1>19 DEF IInv

LEMMA Emits ==
  ASSUME IInv, NEW s \in Stream, Emit(s) \/ EmitError(s)
  PROVE  IInv'
  <1>1. st[s] \in Requests /\ st[s].pc = "live" /\ st[s].sent \in Nat
    <2>1. st[s] \in Requests BY DEF IInv, Typed, StTyped
    <2> QED BY <2>1 DEF Emit, EmitError, At, Requests
  <1>2. CASE Emit(s)
    <2>1. PICK e : e = Ev(s, st[s].sent + 1) OBVIOUS
    <2>2. e \in ChatEv /\ e.s = s /\ e.n = st[s].sent + 1 BY <1>1, <2>1 DEF Ev, ChatEv
    <2>3. PICK r : r = [st[s] EXCEPT !.sent = @ + 1] OBVIOUS
    <2>4. r \in Requests /\ r.pc = "live" /\ r.sent = st[s].sent + 1 /\ r.fin = st[s].fin
      BY <1>1, <2>3 DEF Requests
    <2>5. Grows(st[s], r) BY <1>1, <2>4 DEF Grows
    <2>6. Push(e) /\ Deliver(s, e, PushAnswer) /\ Become(s, r) BY <1>2, <2>1, <2>3 DEF Emit
    <2>7. ASSUME NEW a \in ChatEv, Emitted(a) PROVE Precede(a, e)
      <3>1. a.n \in Nat BY DEF ChatEv
      <3> QED BY <1>1, <2>2, <2>7, <3>1 DEF Precede, Emitted
    <2>8. e.n <= r.sent /\ e.n # 0 BY <1>1, <2>2, <2>4
    <2> QED BY <1>1, <2>2, <2>4, <2>5, <2>6, <2>7, <2>8, Pushes
  <1>3. CASE EmitError(s)
    <2>1. PICK e : e = Ev(s, 0) OBVIOUS
    <2>2. e \in ChatEv /\ e.s = s /\ e.n = 0 BY <2>1 DEF Ev, ChatEv
    <2>3. PICK r : r = [st[s] EXCEPT !.fin = "told"] OBVIOUS
    <2>4. r \in Requests /\ r.pc = "live" /\ r.sent = st[s].sent /\ r.fin = "told"
      BY <1>1, <2>3 DEF Requests
    <2>5. Grows(st[s], r) BY <1>1, <2>4 DEF Grows
    <2>6. Push(e) /\ Deliver(s, e, PushAnswer) /\ Become(s, r) /\ st[s].fin = "err"
      BY <1>3, <2>1, <2>3 DEF EmitError
    <2>7. ASSUME NEW a \in ChatEv, Emitted(a) PROVE Precede(a, e)
      BY <1>1, <2>2, <2>6, <2>7 DEF Precede, Emitted
    <2>8. e.n <= r.sent BY <1>1, <2>2, <2>4
    <2> QED BY <1>1, <2>2, <2>4, <2>5, <2>6, <2>7, <2>8, Pushes
  <1> QED BY <1>2, <1>3

-----------------------------------------------------------------------------
\* The theorems.

LEMMA Starts == Init => IInv
  <1> SUFFICES ASSUME Init PROVE IInv OBVIOUS
  <1>1. log = <<>> /\ known = FALSE /\ seq = 0 BY DEF Init, EmptyLog
  <1>2. \A s \in Stream : st[s] = Unused BY DEF Init
  <1>3. StTyped BY OverType DEF Init, StTyped
  <1>4. ClientTyped BY NothingThere DEF Init, ClientTyped
  <1>5. LogTyped BY <1>1, NothingThere DEF LogTyped
  <1>6. LogInv BY <1>1, NothingThere DEF LogInv
  <1>7. TodoInv /\ ReadInv BY <1>2, OverType DEF TodoInv, ReadInv
  <1>8. GotInv
    <2>1. \A c \in Client : got[c] = <<>> BY DEF Init
    <2> QED BY <2>1, NothingThere DEF GotInv
  <1> QED BY <1>3, <1>4, <1>5, <1>6, <1>7, <1>8 DEF IInv, Typed

LEMMA Steps == IInv /\ [Next]_vars => IInv'
  <1> SUFFICES ASSUME IInv, [Next]_vars PROVE IInv' OBVIOUS
  <1>1. \/ \E s \in Stream, c \in Client : OpenFresh(s, c) \/ Reopen(s, c)
        \/ \E s \in Stream : \/ \E x \in st[s].todo : ReplayEvent(s, x)
                             \/ Emit(s) \/ EmitError(s)
                             \/ GoLive(s) \/ Produce(s) \/ Finish(s, "ok") \/ Finish(s, "err")
                             \/ Done(s) \/ Notice(s) \/ Cleanup(s)
        \/ (\E c \in Client : Drop(c)) \/ Crash \/ UNCHANGED vars
    BY DEF Next, Serve
  <1> QED BY <1>1, Opens, Replays, Emits, ServesQuietly, Leavings

LEMMA Always == Spec => []IInv
  BY Starts, Steps, PTL DEF Spec

LEMMA LinedApart ==
  ASSUME NEW q \in Seq(ChatEv), Lined(q)
  PROVE  \A i, j \in DOMAIN q : q[i] = q[j] => i = j
  <1>1. DOMAIN q = 1..Len(q) /\ Len(q) \in Nat OBVIOUS
  <1>2. ASSUME NEW i \in 1..Len(q), NEW j \in 1..Len(q), i < j PROVE q[i] # q[j]
    BY <1>2 DEF Lined, Precede
  <1>3. \A i, j \in 1..Len(q) : i < j \/ j < i \/ i = j BY <1>1
  <1> QED BY <1>1, <1>2, <1>3

\* No event reaches a client twice in a turn, whether its stream or a replay sends it, and
\* whatever other streams of the session push, reset or remove.
THEOREM SentOnce == Spec => []NothingSentTwice
  <1>1. ASSUME IInv PROVE NothingSentTwice
    BY <1>1, LinedApart DEF IInv, Typed, ClientTyped, GotInv, NothingSentTwice
  <1> QED BY <1>1, Always, PTL

\* The events of a generation reach a client in the order in which they were made.
THEOREM OrderKept == Spec => []SentInOrder
  <1>1. ASSUME IInv PROVE SentInOrder
    <2>1. ASSUME NEW c \in Client, NEW i \in DOMAIN got[c], NEW j \in DOMAIN got[c],
                 i < j, got[c][i].s = got[c][j].s, got[c][j].n # 0
          PROVE got[c][i].n < got[c][j].n
      <3>1. got[c] \in Seq(ChatEv) BY <1>1 DEF IInv, Typed, ClientTyped
      <3>2. DOMAIN got[c] = 1..Len(got[c]) BY <3>1
      <3> QED BY <1>1, <2>1, <3>2 DEF IInv, GotInv, Lined, Precede
    <2> QED BY <2>1 DEF SentInOrder
  <1> QED BY <1>1, Always, PTL
\* Whoever sets the log up will remove it: he has it while it is known.
Owner(s) == st[s].pc \in {"live", "closing"}

LEMMA Owns ==
  ASSUME StTyped, NEW s \in Stream, NEW r, Become(s, r)
  PROVE  /\ r.pc \in {"live", "closing"} => \E u \in Stream : Owner(u)'
         /\ (Owner(s) => r.pc \in {"live", "closing"}) =>
              ((\E u \in Stream : Owner(u)) => \E u \in Stream : Owner(u)')
  BY DEF StTyped, Become, Owner

LEMMA OwnerStays ==
  ASSUME IInv, LogIsOwned, [Next]_vars PROVE LogIsOwned'
  <1>0. StTyped /\ (known => \E u \in Stream : Owner(u)) /\ \A u \in Stream : st[u] \in Requests
    BY DEF IInv, Typed, StTyped, LogIsOwned, Owner
  <1> SUFFICES ASSUME known' PROVE \E u \in Stream : Owner(u)' BY DEF LogIsOwned, Owner
  <1>1. CASE RemoveSession BY <1>1 DEF RemoveSession
  <1>2. CASE UNCHANGED <<known, st>> BY <1>0, <1>2 DEF Owner
  <1>3. ASSUME NEW s \in Stream, NEW c \in Client, OpenFresh(s, c) PROVE \E u \in Stream : Owner(u)'
    BY <1>0, <1>3, Owns DEF OpenFresh, Request
  <1>4. ASSUME NEW s \in Stream, NEW c \in Client, Reopen(s, c) PROVE \E u \in Stream : Owner(u)'
    <2>1. CASE Become(s, Request(c, last[c])) BY <1>0, <2>1, Owns DEF Request
    <2>2. CASE UNCHANGED logVars /\ Become(s, [Request(c, last[c]) EXCEPT !.pc = "replay", !.todo = Replayed(last[c])])
      <3>1. st[s].pc = "unused" /\ known BY <1>4, <2>2 DEF Reopen, Connect, At, logVars
      <3> QED BY <1>0, <2>2, <3>1, Owns DEF Owner
    <2> QED BY <1>4, <2>1, <2>2 DEF Reopen
  <1>5. ASSUME NEW s \in Stream, NEW r, Become(s, r), r.pc \in {"live", "closing"}
        PROVE \E u \in Stream : Owner(u)'
    BY <1>0, <1>5, Owns
  <1>6. ASSUME NEW s \in Stream, NEW r, Become(s, r), UNCHANGED logVars, ~Owner(s)
        PROVE \E u \in Stream : Owner(u)'
    BY <1>0, <1>6, Owns DEF logVars
  <1>7. ASSUME NEW s \in Stream, NEW x \in st[s].todo, ReplayEvent(s, x) PROVE \E u \in Stream : Owner(u)'
    BY <1>6, <1>7 DEF ReplayEvent, At, Owner
  <1>8. ASSUME NEW s \in Stream, GoLive(s) PROVE \E u \in Stream : Owner(u)'
    <2>1. [st[s] EXCEPT !.pc = "live"].pc = "live" BY <1>0 DEF Requests
    <2> QED BY <1>5, <1>8, <2>1 DEF GoLive
  <1>9. ASSUME NEW s \in Stream, Emit(s) \/ EmitError(s) \/ Produce(s) \/ Finish(s, "ok") \/ Finish(s, "err")
        PROVE \E u \in Stream : Owner(u)'
    <2>1. st[s].pc = "live" BY <1>9 DEF Emit, EmitError, Produce, Finish, At
    <2>2. /\ [st[s] EXCEPT !.sent = @ + 1].pc = "live" /\ [st[s] EXCEPT !.made = @ + 1].pc = "live"
          /\ \A f : [st[s] EXCEPT !.fin = f].pc = "live"
      BY <1>0, <2>1 DEF Requests
    <2> QED BY <1>5, <1>9, <2>2 DEF Emit, EmitError, Produce, Finish
  <1>10. ASSUME NEW s \in Stream, Notice(s) PROVE \E u \in Stream : Owner(u)'
    <2>1. CASE st[s].pc = "replay" /\ Become(s, Over) /\ UNCHANGED logVars
      BY <1>6, <2>1 DEF Owner
    <2>2. CASE Become(s, [Over EXCEPT !.pc = "closing"]) BY <1>5, <2>2, OverType
    <2> QED BY <1>1, <1>10, <2>1, <2>2 DEF Notice, At
  <1>11. ASSUME NEW s \in Stream, Done(s) \/ Cleanup(s) PROVE \E u \in Stream : Owner(u)'
    BY <1>1, <1>11 DEF Done, Cleanup
  <1>12. CASE (\E c \in Client : Drop(c)) \/ Crash \/ UNCHANGED vars
    BY <1>1, <1>2, <1>12 DEF Drop, Crash, vars, logVars
  <1> QED BY <1>3, <1>4, <1>7, <1>8, <1>9, <1>10, <1>11, <1>12 DEF Next, Serve

\* The log of a session is known only while a stream is there whose finally clause will
\* remove it, in whatever order streams begin, break, reconnect and end.
THEOREM LogOwned == Spec => []LogIsOwned
  <1>1. Init => LogIsOwned BY DEF Init, EmptyLog, LogIsOwned
  <1> QED BY <1>1, OwnerStays, Always, PTL DEF Spec

Stages == {"unsent", "create", "created", "ask", "context", "stream", "save", "over", "failed",
           "cancelled"}
Asking == {"ask", "context", "stream", "save"}
Sends == [pc: Stages, acct: Backend \cup {Nothing}, sid: Session \cup {NoSession},
          prompt: Seq(Message), said: 0..MaxDeltas]

HistoryTyped ==
  /\ table \in [Session -> Backend \cup {Nothing}] /\ newest \in Session \cup {NoSession}
  /\ rows \in [Session -> Seq(Message)]
  /\ \A s \in Session : table[s] = Nothing => rows[s] = <<>>
ExTyped == ex \in [Exchange -> Sends]
PanelTyped ==
  /\ sel \in Backend /\ sess \in Session \cup {NoSession} /\ msgs \in Seq(Message)
  /\ content \in SUBSET PanelSend /\ lastEvent \in Nat
  /\ active \in PanelSend \cup {Nothing} /\ reading \in SUBSET PanelSend
  /\ busy \in BOOLEAN /\ watched \in BOOLEAN
  /\ cut \in SUBSET PanelSend /\ tangled \in BOOLEAN

\* Sessions are made in the order of their names, and a send has one when it is made.
SidInv ==
  /\ sess <= newest
  /\ \A s \in Session : newest < s => table[s] = Nothing
  /\ \A x \in Exchange :
       /\ ex[x].sid <= newest
       /\ ex[x].pc \in {"create", "created"} => x \in PanelSend
       /\ ex[x].pc \in Asking \cup {"created"} => ex[x].sid # NoSession
       /\ ex[x].pc \in {"unsent", "create", "created", "ask", "context"} => ex[x].said = 0

ConvTyped == HistoryTyped /\ ExTyped /\ PanelTyped /\ SidInv

-----------------------------------------------------------------------------
\* Exchange x goes on with r.
Goes(x, r) == ex' = [ex EXCEPT ![x] = r]

LEMMA GoesFacts ==
  ASSUME ExTyped, NEW x \in Exchange, NEW r \in Sends, Goes(x, r)
  PROVE  ExTyped' /\ ex'[x] = r /\ \A y \in Exchange \ {x} : ex'[y] = ex[y]
  BY DEF ExTyped, Goes

LEMMA StepGoes ==
  ASSUME ExTyped, NEW x \in Exchange, NEW p \in Stages, Step(x, p)
  PROVE  /\ ExTyped' /\ \A y \in Exchange \ {x} : ex'[y] = ex[y]
         /\ ex'[x].pc = p /\ ex'[x].acct = ex[x].acct /\ ex'[x].sid = ex[x].sid
         /\ ex'[x].prompt = ex[x].prompt /\ ex'[x].said = ex[x].said
  <1>1. PICK r : r = [ex[x] EXCEPT !.pc = p] OBVIOUS
  <1>2. ex[x] \in Sends BY DEF ExTyped
  <1>3. r \in Sends /\ r.pc = p /\ r.acct = ex[x].acct /\ r.sid = ex[x].sid
        /\ r.prompt = ex[x].prompt /\ r.said = ex[x].said
    BY <1>1, <1>2 DEF Sends
  <1>4. Goes(x, r) BY <1>1 DEF Goes, Step
  <1> QED BY <1>3, <1>4, GoesFacts

LEMMA EndGoes ==
  ASSUME ExTyped, NEW x \in Exchange, NEW p \in Stages, End(x, p)
  PROVE  /\ ExTyped' /\ \A y \in Exchange \ {x} : ex'[y] = ex[y]
         /\ ex'[x].pc = p /\ ex'[x].sid = NoSession /\ ex'[x].said = 0
  <1>1. PICK r : r = [Unsent EXCEPT !.pc = p] OBVIOUS
  <1>2. <<>> \in Seq(Message) /\ 0 \in 0..MaxDeltas BY MaxAssumption
  <1>3. r \in Sends /\ r.pc = p /\ r.sid = NoSession /\ r.said = 0
    BY <1>1, <1>2 DEF Sends, Unsent
  <1>4. Goes(x, r) BY <1>1 DEF Goes, End
  <1> QED BY <1>3, <1>4, GoesFacts

LEMMA MessageTypes ==
  /\ \A x \in Exchange : Question(x) \in Message /\ Reply({x}) \in Message
  /\ \A S \in SUBSET PanelSend : Reply(S) \in Message
  /\ <<>> \in Seq(Message)
  BY DEF Question, Reply, Message, Exchange

\* What each step does to the exchanges and to the history.
LEMMA Lists ==
  ASSUME ConvTyped, NEW s \in Session, NEW m \in Message, Insert(s, m)
  PROVE  /\ Live(s) /\ rows' \in [Session -> Seq(Message)] /\ rows'[s] = Append(rows[s], m)
         /\ \A u \in Session \ {s} : rows'[u] = rows[u]
  <1>1. rows[s] \in Seq(Message) BY DEF ConvTyped, HistoryTyped
  <1>2. Append(rows[s], m) \in Seq(Message) BY <1>1
  <1> QED BY <1>2 DEF ConvTyped, HistoryTyped, Insert

LEMMA Dispatches ==
  ASSUME PanelTyped, NEW x, NEW n \in Nat, NEW b \in BOOLEAN, Dispatch(x, n, b), UNCHANGED <<sel, past>>
  PROVE  PanelTyped' /\ UNCHANGED sess
  <1>1. CASE UNCHANGED view BY <1>1 DEF PanelTyped, view, past
  <1>2. CASE ~UNCHANGED view
    <2>1. x \in reading /\ lastEvent' = n /\ watched' = ~b
          /\ content' \in {content, content \cup {x}}
          /\ UNCHANGED <<sess, msgs, active, busy, reading, cut, tangled, sel>>
      BY <1>2 DEF Dispatch, past
    <2>2. watched' \in BOOLEAN BY <2>1
    <2>3. content' \in SUBSET PanelSend BY <2>1 DEF PanelTyped
    <2> QED BY <2>1, <2>2, <2>3 DEF PanelTyped
  <1> QED BY <1>1, <1>2

LEMMA Settles ==
  ASSUME PanelTyped, NEW S, NEW q \in Seq(Message), Settle(S, q), UNCHANGED <<sel, tangled>>,
         cut' \in SUBSET PanelSend
  PROVE  PanelTyped' /\ UNCHANGED sess
  BY DEF PanelTyped, Settle

LEMMA CommittedTyped == PanelTyped => Committed \in Seq(Message)
  <1> SUFFICES ASSUME PanelTyped PROVE Committed \in Seq(Message) OBVIOUS
  <1>1. PICK q \in Seq(Message), S \in SUBSET PanelSend : q = msgs /\ S = content BY DEF PanelTyped
  <1>2. Append(q, Reply(S)) \in Seq(Message) BY MessageTypes
  <1> QED BY <1>1, <1>2 DEF Committed

LEMMA SendFacts ==
  ASSUME ConvTyped, NEW x \in PanelSend, NEW s \in Session, s <= newest, NEW q \in Seq(Message),
         Send(x, s, q), UNCHANGED <<history, sel>>, ex[x].said = 0
  PROVE  /\ PanelTyped' /\ ExTyped' /\ sess' = s /\ \A y \in Exchange \ {x} : ex'[y] = ex[y]
         /\ ex'[x].pc = "ask" /\ ex'[x].sid = s /\ ex'[x].said = 0
  <1>1. PICK r : r = [ex[x] EXCEPT !.pc = "ask", !.acct = Nothing, !.sid = s] OBVIOUS
  <1>2. x \in Exchange /\ ex[x] \in Sends BY DEF ConvTyped, ExTyped, Exchange
  <1>3. r \in Sends /\ r.pc = "ask" /\ r.sid = s /\ r.said = 0
    BY <1>1, <1>2 DEF Sends, Stages
  <1>4. Goes(x, r) BY <1>1 DEF Goes, Send
  <1>5. PICK m \in Message : m = Question(x) BY <1>2, MessageTypes
  <1>6. PanelTyped'
    <2>1. tangled' \in BOOLEAN BY DEF Send, ConvTyped, PanelTyped
    <2>2. Append(q, m) \in Seq(Message) /\ msgs' = Append(q, m) BY <1>5 DEF Send
    <2> QED BY <2>1, <2>2 DEF Send, ConvTyped, PanelTyped
  <1>7. sess' = s BY DEF Send
  <1> QED BY <1>2, <1>3, <1>4, <1>6, <1>7, GoesFacts DEF ConvTyped

\* Every exchange but x stays where it is.
Others(x) == \A y \in Exchange \ {x} : ex'[y] = ex[y]

LEMMA Fields ==
  ASSUME ConvTyped
  PROVE  /\ \A x \in Exchange : ex[x] \in Sends /\ ex[x].sid \in Session \cup {NoSession}
                              /\ ex[x].said \in 0..MaxDeltas /\ ex[x].said \in Nat
                              /\ ex[x].acct \in Backend \cup {Nothing}
         /\ PanelSend \subseteq Exchange /\ MaxDeltas \in Nat /\ MaxSessions \in Nat
         /\ newest \in Nat /\ NoSession = 0 /\ Session \subseteq Nat /\ NoSession \notin Session
  BY MaxAssumption DEF ConvTyped, ExTyped, Sends, Exchange, HistoryTyped, Session, NoSession

LEMMA HistoryStays == HistoryTyped /\ UNCHANGED history => HistoryTyped'
  BY DEF HistoryTyped, history
LEMMA PanelStays == PanelTyped /\ UNCHANGED panel => PanelTyped' /\ UNCHANGED sess
  BY DEF PanelTyped, panel, view, past

\* What the steps of an exchange do to it.
LEMMA Posts ==
  ASSUME ConvTyped, NEW s \in Session, NEW x \in OtherSend, Post(x, s)
  PROVE  /\ ExTyped' /\ Others(x) /\ x \in Exchange /\ UNCHANGED <<history, panel>>
         /\ ex'[x].pc = "ask" /\ ex'[x].sid = s /\ ex'[x].said = 0
         /\ s <= newest /\ s # NoSession
  <1>1. PICK r : r = [ex[x] EXCEPT !.pc = "ask", !.sid = s] OBVIOUS
  <1>2. x \in Exchange BY DEF Exchange
  <1>3. r \in Sends /\ r.pc = "ask" /\ r.sid = s /\ r.said = ex[x].said
    BY <1>1, <1>2, Fields DEF Sends, Stages
  <1>4. Goes(x, r) /\ ex[x].pc = "unsent" BY <1>1 DEF Goes, Post, Stands
  <1>5. ExTyped' /\ ex'[x] = r /\ Others(x) BY <1>2, <1>3, <1>4, GoesFacts DEF ConvTyped, Others
  <1>6. ~(newest < s) BY DEF Post, Live, ConvTyped, SidInv
  <1>7. s <= newest /\ s # NoSession /\ ex[x].said = 0
    BY <1>2, <1>4, <1>6, Fields DEF ConvTyped, SidInv, Session
  <1> QED BY <1>2, <1>3, <1>5, <1>7 DEF Post

LEMMA Asks ==
  ASSUME ConvTyped, NEW x \in PanelSend, HandleSend(x), sess = NoSession
  PROVE  /\ ExTyped' /\ Others(x) /\ UNCHANGED <<history, panel>>
         /\ ex[x].pc = "unsent" /\ ex'[x].pc = "create" /\ ex'[x].sid = ex[x].sid /\ ex'[x].said = 0
  <1>1. PICK r : r = [ex[x] EXCEPT !.pc = "create", !.acct = sel] OBVIOUS
  <1>2. x \in Exchange /\ ex[x].pc = "unsent" /\ ex[x].said = 0
    BY Fields DEF HandleSend, Stands, ConvTyped, SidInv
  <1>3. r \in Sends /\ r.pc = "create" /\ r.sid = ex[x].sid /\ r.said = ex[x].said
    BY <1>1, <1>2, Fields DEF Sends, Stages, ConvTyped, PanelTyped
  <1>4. Goes(x, r) BY <1>1 DEF Goes, HandleSend
  <1>5. ExTyped' /\ ex'[x] = r /\ Others(x) BY <1>2, <1>3, <1>4, GoesFacts DEF ConvTyped, Others
  <1> QED BY <1>2, <1>3, <1>5 DEF HandleSend

\* A message is sent in the session the panel has, or in the one made for it.
LEMMA SendsIn ==
  ASSUME ConvTyped, NEW x \in Exchange, (x \in PanelSend /\ HandleSend(x) /\ sess # NoSession) \/ Created(x)
  PROVE  \E s \in Session, q \in Seq(Message) :
         /\ s <= newest /\ s # NoSession /\ Send(x, s, q) /\ UNCHANGED <<history, sel>> /\ x \in PanelSend
         /\ \/ s = sess /\ q = msgs /\ ex[x].pc = "unsent"
            \/ s = ex[x].sid /\ q = <<>> /\ ex[x].pc = "created"
         /\ PanelTyped' /\ ExTyped' /\ Others(x) /\ sess' = s
         /\ ex'[x].pc = "ask" /\ ex'[x].sid = s /\ ex'[x].said = 0
  <1>1. CASE x \in PanelSend /\ HandleSend(x) /\ sess # NoSession
    <2>1. ex[x].pc = "unsent" /\ ex[x].said = 0
      BY <1>1 DEF HandleSend, Stands, ConvTyped, SidInv
    <2>2. PICK s \in Session, q \in Seq(Message) : s = sess /\ s <= newest /\ q = msgs
      BY <1>1 DEF ConvTyped, PanelTyped, SidInv
    <2>3. Send(x, s, q) /\ UNCHANGED <<history, sel>> BY <1>1, <2>2 DEF HandleSend
    <2>4. /\ PanelTyped' /\ ExTyped' /\ sess' = s /\ Others(x)
          /\ ex'[x].pc = "ask" /\ ex'[x].sid = s /\ ex'[x].said = 0
      BY <1>1, <2>1, <2>2, <2>3, SendFacts DEF Others
    <2> QED BY <1>1, <2>1, <2>2, <2>3, <2>4
  <1>2. CASE Created(x)
    <2>1. PICK s \in Session : s = ex[x].sid /\ s <= newest
      BY <1>2, Fields DEF Created, Stands, ConvTyped, SidInv, Asking
    <2>2. x \in PanelSend /\ ex[x].said = 0 /\ ex[x].pc = "created"
      BY <1>2 DEF Created, Stands, ConvTyped, SidInv
    <2>3. PICK q \in Seq(Message) : q = <<>> BY MessageTypes
    <2>4. Send(x, s, q) /\ UNCHANGED <<history, sel>> BY <1>2, <2>1, <2>3 DEF Created
    <2>5. /\ PanelTyped' /\ ExTyped' /\ sess' = s /\ Others(x)
          /\ ex'[x].pc = "ask" /\ ex'[x].sid = s /\ ex'[x].said = 0
      BY <2>1, <2>2, <2>4, SendFacts DEF Others
    <2>6. s # NoSession BY Fields
    <2> QED BY <2>1, <2>2, <2>3, <2>4, <2>5, <2>6
  <1> QED BY <1>1, <1>2

\* A session is made, or the exchange is over.
LEMMA Creates ==
  ASSUME ConvTyped, NEW x \in Exchange, CreateSession(x), ~End(x, "over")
  PROVE  \E n \in Session :
         /\ n = newest + 1 /\ newest' = n /\ n # NoSession /\ table[n] = Nothing /\ rows[n] = <<>>
         /\ table' = [table EXCEPT ![n] = ex[x].acct] /\ UNCHANGED <<rows, panel>>
         /\ x \in PanelSend /\ ExTyped' /\ Others(x)
         /\ ex[x].pc = "create" /\ ex'[x].pc = "created" /\ ex'[x].sid = n /\ ex'[x].said = 0
  <1>1. /\ newest < MaxSessions /\ newest' = newest + 1
        /\ table' = [table EXCEPT ![newest'] = ex[x].acct]
        /\ ex' = [ex EXCEPT ![x].pc = "created", ![x].sid = newest']
    BY DEF CreateSession
  <1>2. PICK n \in Session : n = newest' /\ n = newest + 1 BY <1>1, Fields DEF Session
  <1>3. PICK r : r = [ex[x] EXCEPT !.pc = "created", !.sid = n] OBVIOUS
  <1>4. r \in Sends /\ r.pc = "created" /\ r.sid = n /\ r.said = ex[x].said
    BY <1>3, Fields DEF Sends, Stages
  <1>5. Goes(x, r) /\ ex[x].pc = "create" BY <1>1, <1>2, <1>3 DEF Goes, CreateSession, Stands
  <1>6. ExTyped' /\ ex'[x] = r /\ Others(x) BY <1>4, <1>5, GoesFacts DEF ConvTyped, Others
  <1>7. newest < n BY <1>2, Fields
  <1>8. table[n] = Nothing /\ rows[n] = <<>> BY <1>7 DEF ConvTyped, SidInv, HistoryTyped
  <1>9. n # NoSession /\ x \in PanelSend /\ ex[x].said = 0
    BY <1>5, Fields DEF ConvTyped, SidInv
  <1>10. table' = [table EXCEPT ![n] = ex[x].acct] BY <1>1, <1>2
  <1> QED BY <1>2, <1>4, <1>5, <1>6, <1>8, <1>9, <1>10 DEF CreateSession

LEMMA Raises ==
  ASSUME ConvTyped, NEW x \in Exchange, Raised(x)
  PROVE  /\ PanelTyped' /\ ExTyped' /\ Others(x) /\ UNCHANGED <<sess, past>>
         /\ ex'[x].pc = "failed" /\ ex'[x].sid = NoSession /\ ex'[x].said = 0
  <1>1. /\ ExTyped' /\ Others(x)
        /\ ex'[x].pc = "failed" /\ ex'[x].sid = NoSession /\ ex'[x].said = 0
    BY EndGoes DEF Raised, ConvTyped, Stages, Others
  <1>2. PICK n \in Nat : n = ex[x].said + 1 BY Fields
  <1>3. PanelTyped' /\ UNCHANGED sess BY <1>2, Dispatches DEF Raised, ConvTyped
  <1> QED BY <1>1, <1>3 DEF Raised

\* A message is stored in the session of an exchange.
LEMMA Stores ==
  ASSUME ConvTyped, NEW x \in Exchange, NEW s, s = ex[x].sid, s # NoSession, NEW m \in Message,
         Insert(s, m), UNCHANGED <<table, newest>>
  PROVE  /\ HistoryTyped' /\ s \in Session /\ Live(s) /\ rows'[s] = Append(rows[s], m)
         /\ \A u \in Session \ {s} : rows'[u] = rows[u]
  <1>1. s \in Session BY Fields
  <1>2. /\ Live(s) /\ rows' \in [Session -> Seq(Message)] /\ rows'[s] = Append(rows[s], m)
        /\ \A u \in Session \ {s} : rows'[u] = rows[u]
    BY <1>1, Lists
  <1>3. HistoryTyped' BY <1>1, <1>2 DEF ConvTyped, HistoryTyped, Live
  <1> QED BY <1>1, <1>2, <1>3

LEMMA StoresQuestion ==
  ASSUME ConvTyped, NEW x \in Exchange, StoreQuestion(x), ~Raised(x)
  PROVE  /\ ExTyped' /\ Others(x) /\ ex[x].pc = "ask" /\ ex'[x].pc = "context"
         /\ ex'[x].sid = ex[x].sid /\ ex[x].said = 0 /\ ex'[x].said = 0 /\ ex[x].sid # NoSession
         /\ UNCHANGED <<table, newest, panel>> /\ HistoryTyped' /\ Live(ex[x].sid)
         /\ ex[x].sid \in Session
         /\ rows'[ex[x].sid] = Append(rows[ex[x].sid], Question(x))
         /\ \A u \in Session \ {ex[x].sid} : rows'[u] = rows[u]
  <1>1. Insert(ex[x].sid, Question(x)) /\ Step(x, "context") /\ UNCHANGED <<table, newest, panel>>
        /\ ex[x].pc = "ask"
    BY DEF StoreQuestion, Stands
  <1>2. ex[x].sid # NoSession /\ ex[x].said = 0 BY <1>1 DEF ConvTyped, SidInv, Asking
  <1>3. PICK m \in Message : m = Question(x) BY MessageTypes
  <1>4. PICK s : s = ex[x].sid OBVIOUS
  <1>5. /\ HistoryTyped' /\ s \in Session /\ Live(s) /\ rows'[s] = Append(rows[s], m)
        /\ \A u \in Session \ {s} : rows'[u] = rows[u]
    BY <1>1, <1>2, <1>3, <1>4, Stores
  <1>6. /\ ExTyped' /\ Others(x) /\ ex'[x].pc = "context"
        /\ ex'[x].sid = ex[x].sid /\ ex'[x].said = ex[x].said
    BY <1>1, StepGoes DEF ConvTyped, Stages, Others
  <1> QED BY <1>1, <1>2, <1>3, <1>4, <1>5, <1>6

LEMMA Reads ==
  ASSUME ConvTyped, NEW x \in Exchange, ReadContext(x), ~Raised(x)
  PROVE  /\ ExTyped' /\ Others(x) /\ UNCHANGED <<history, panel>> /\ ex[x].pc = "context"
         /\ ex'[x].pc = "stream" /\ ex'[x].sid = ex[x].sid /\ ex[x].said = 0 /\ ex'[x].said = 0
         /\ ex[x].sid \in Session /\ ex'[x].prompt = rows[ex[x].sid]
  <1>1. /\ UNCHANGED <<history, panel>> /\ ex[x].pc = "context"
        /\ ex' = [ex EXCEPT ![x].pc = "stream", ![x].prompt = Listed(ex[x].sid)]
    BY DEF ReadContext, Stands
  <1>2. ex[x].sid \in Session /\ ex[x].said = 0
    BY <1>1, Fields DEF ConvTyped, SidInv, Asking
  <1>3. PICK q \in Seq(Message) : q = rows[ex[x].sid] BY <1>2 DEF ConvTyped, HistoryTyped
  <1>4. PICK r : r = [ex[x] EXCEPT !.pc = "stream", !.prompt = q] OBVIOUS
  <1>5. r \in Sends /\ r.pc = "stream" /\ r.sid = ex[x].sid /\ r.said = ex[x].said /\ r.prompt = q
    BY <1>4, Fields DEF Sends, Stages
  <1>6. Goes(x, r) BY <1>1, <1>3, <1>4 DEF Goes, Listed
  <1>7. ExTyped' /\ ex'[x] = r /\ Others(x) BY <1>5, <1>6, GoesFacts DEF ConvTyped, Others
  <1> QED BY <1>1, <1>2, <1>3, <1>5, <1>7

LEMMA Deltas ==
  ASSUME ConvTyped, NEW x \in Exchange, Delta(x)
  PROVE  /\ ExTyped' /\ PanelTyped' /\ Others(x) /\ UNCHANGED <<history, sess, past>>
         /\ ex[x].pc = "stream" /\ ex'[x].pc = "stream" /\ ex'[x].sid = ex[x].sid
         /\ ex'[x].said = ex[x].said + 1 /\ ex'[x].prompt = ex[x].prompt /\ ex[x].sid # NoSession
  <1>1. PICK n \in 0..MaxDeltas : n = ex[x].said + 1 BY Fields DEF Delta
  <1>2. PICK r : r = [ex[x] EXCEPT !.said = n] OBVIOUS
  <1>3. ex[x].pc = "stream" BY DEF Delta, Stands
  <1>4. r \in Sends /\ r.pc = "stream" /\ r.sid = ex[x].sid /\ r.said = n /\ r.prompt = ex[x].prompt
    BY <1>2, <1>3, Fields DEF Sends
  <1>5. Goes(x, r) BY <1>1, <1>2 DEF Goes, Delta
  <1>6. ExTyped' /\ ex'[x] = r /\ Others(x) BY <1>4, <1>5, GoesFacts DEF ConvTyped, Others
  <1>7. PanelTyped' /\ UNCHANGED sess
    <2>1. n \in Nat BY Fields
    <2> QED BY <1>1, <2>1, Dispatches DEF Delta, ConvTyped
  <1>8. ex[x].sid # NoSession BY <1>3 DEF ConvTyped, SidInv, Asking
  <1> QED BY <1>1, <1>3, <1>4, <1>6, <1>7, <1>8 DEF Delta

LEMMA StreamOver ==
  ASSUME ConvTyped, NEW x \in Exchange, ProviderEnds(x), ~Raised(x)
  PROVE  /\ ExTyped' /\ PanelTyped' /\ Others(x) /\ UNCHANGED <<history, sess, past>>
         /\ ex[x].pc = "stream" /\ ex'[x].pc = "save" /\ ex'[x].sid = ex[x].sid
         /\ ex'[x].said = ex[x].said /\ ex[x].sid # NoSession
         /\ Dispatch(x, ex[x].said + 1, TRUE)
  <1>1. /\ ex' = [ex EXCEPT ![x].pc = "save", ![x].prompt = <<>>] /\ ex[x].pc = "stream"
        /\ Dispatch(x, ex[x].said + 1, TRUE) /\ UNCHANGED <<history, sel, past>>
    BY DEF ProviderEnds, Stands
  <1>2. PICK n \in Nat : n = ex[x].said + 1 BY Fields
  <1>3. PICK r : r = [ex[x] EXCEPT !.pc = "save", !.prompt = <<>>] OBVIOUS
  <1>4. r \in Sends /\ r.pc = "save" /\ r.sid = ex[x].sid /\ r.said = ex[x].said
    BY <1>3, Fields, MessageTypes DEF Sends, Stages
  <1>5. Goes(x, r) BY <1>1, <1>3 DEF Goes
  <1>6. ExTyped' /\ ex'[x] = r /\ Others(x) BY <1>4, <1>5, GoesFacts DEF ConvTyped, Others
  <1>7. PanelTyped' /\ UNCHANGED sess BY <1>1, <1>2, Dispatches DEF ConvTyped
  <1>8. ex[x].sid # NoSession BY <1>1 DEF ConvTyped, SidInv, Asking
  <1> QED BY <1>1, <1>4, <1>6, <1>7, <1>8

LEMMA Ends ==
  ASSUME ConvTyped, NEW x \in Exchange, NEW p \in {"over", "cancelled"}, End(x, p)
  PROVE  /\ ExTyped' /\ Others(x)
         /\ ex'[x].pc = p /\ ex'[x].sid = NoSession /\ ex'[x].said = 0
  BY EndGoes DEF ConvTyped, Stages, Others

LEMMA Saves ==
  ASSUME ConvTyped, NEW x \in Exchange, SaveAnswer(x), ~Raised(x)
  PROVE  /\ UNCHANGED <<table, newest, panel>> /\ HistoryTyped' /\ End(x, "over")
         /\ ex[x].pc = "save" /\ ex[x].sid # NoSession
         /\ \/ ex[x].said = 0 /\ UNCHANGED rows
            \/ /\ ex[x].said > 0 /\ ex[x].sid \in Session /\ Live(ex[x].sid)
               /\ rows'[ex[x].sid] = Append(rows[ex[x].sid], Reply({x}))
               /\ \A u \in Session \ {ex[x].sid} : rows'[u] = rows[u]
  <1>1. UNCHANGED <<table, newest>> /\ ex[x].pc = "save" BY DEF SaveAnswer, Stands
  <1>2. ex[x].sid # NoSession BY <1>1 DEF ConvTyped, SidInv, Asking
  <1>3. CASE ex[x].said > 0 /\ Stored(x) /\ End(x, "over") /\ UNCHANGED panel
    <2>1. PICK s : s = ex[x].sid OBVIOUS
    <2>2. PICK m \in Message : m = Reply({x}) BY MessageTypes
    <2>3. Insert(s, m) BY <1>3, <2>1, <2>2 DEF Stored
    <2>4. /\ HistoryTyped' /\ s \in Session /\ Live(s) /\ rows'[s] = Append(rows[s], m)
          /\ \A u \in Session \ {s} : rows'[u] = rows[u]
      BY <1>1, <1>2, <2>1, <2>3, Stores
    <2> QED BY <1>1, <1>2, <1>3, <2>1, <2>2, <2>4
  <1>4. CASE ex[x].said = 0 /\ End(x, "over") /\ UNCHANGED <<rows, panel>>
    <2>1. HistoryTyped' BY <1>1, <1>4, HistoryStays DEF history, ConvTyped
    <2> QED BY <1>1, <1>2, <1>4, <2>1
  <1> QED BY <1>3, <1>4 DEF SaveAnswer

LEMMA StopsReading ==
  ASSUME ConvTyped, (\E x \in Exchange : StreamEnds(x) \/ Lost(x)) \/ PanelWatchdog
  PROVE  PanelTyped' /\ UNCHANGED <<history, ex, sess, tangled>>
  <1>1. ASSUME NEW x \in Exchange, StreamEnds(x) PROVE PanelTyped' /\ UNCHANGED sess
    <2>1. PICK q \in Seq(Message) : q = Committed BY CommittedTyped DEF ConvTyped
    <2>2. cut' \in SUBSET PanelSend BY <1>1 DEF StreamEnds, past, ConvTyped, PanelTyped
    <2> QED BY <1>1, <2>1, <2>2, Settles DEF StreamEnds, past, ConvTyped
  <1>2. ASSUME NEW x \in Exchange, Lost(x) PROVE PanelTyped' /\ UNCHANGED sess
    <2>1. msgs \in Seq(Message) /\ cut' \in SUBSET PanelSend BY <1>2 DEF Lost, ConvTyped, PanelTyped
    <2> QED BY <1>2, <2>1, Settles DEF Lost, ConvTyped
  <1>3. ASSUME PanelWatchdog PROVE PanelTyped' /\ UNCHANGED sess
    <2>1. msgs \in Seq(Message) /\ cut' \in SUBSET PanelSend
      BY <1>3 DEF PanelWatchdog, Aborted, ConvTyped, PanelTyped
    <2>2. CASE Settle(Aborted, msgs) BY <1>3, <2>1, <2>2, Settles DEF PanelWatchdog, ConvTyped
    <2>3. CASE busy' = FALSE /\ watched' = FALSE /\ UNCHANGED <<sess, msgs, content, lastEvent, active, reading>>
      BY <1>3, <2>1, <2>3 DEF PanelWatchdog, ConvTyped, PanelTyped
    <2> QED BY <1>3, <2>2, <2>3 DEF PanelWatchdog
  <1>4. UNCHANGED <<history, ex, tangled>> BY DEF StreamEnds, Lost, PanelWatchdog, past
  <1> QED BY <1>1, <1>2, <1>3, <1>4

LEMMA Selects ==
  ASSUME ConvTyped, NEW b \in Backend, Select(b)
  PROVE  PanelTyped' /\ sess' = NoSession /\ UNCHANGED <<history, ex>>
  <1>0. sess' = NoSession BY DEF Select, view
  <1>1. tangled' \in BOOLEAN BY DEF Select, ConvTyped, PanelTyped, past
  <1>2. CASE sess = NoSession BY <1>2 DEF Select, ConvTyped, PanelTyped, view, past
  <1>3. CASE sess # NoSession BY <1>1, <1>3, MessageTypes DEF Select, ConvTyped, PanelTyped
  <1> QED BY <1>0, <1>2, <1>3 DEF Select

LEMMA Deletes ==
  ASSUME ConvTyped, NEW s \in Session, DeleteSession(s)
  PROVE  /\ HistoryTyped' /\ UNCHANGED <<newest, ex, panel>> /\ rows'[s] = <<>> /\ table'[s] = Nothing
         /\ \A u \in Session \ {s} : table'[u] = table[u] /\ rows'[u] = rows[u]
  BY MessageTypes DEF DeleteSession, ConvTyped, HistoryTyped

\* Every step of the conversations, by what the rest of this module needs to know of it.
LEMMA ConvSteps ==
  ASSUME ConvTyped, [ConvNext]_convVars
  PROVE  \/ \E s \in Session : DeleteSession(s) \/ \E x \in OtherSend : Post(x, s)
         \/ \E b \in Backend : Select(b)
         \/ \E x \in PanelSend : HandleSend(x) /\ sess = NoSession
         \/ \E x \in Exchange : (x \in PanelSend /\ HandleSend(x) /\ sess # NoSession) \/ Created(x)
         \/ \E x \in Exchange : CreateSession(x) /\ End(x, "over")
         \/ \E x \in Exchange : CreateSession(x) /\ ~End(x, "over")
         \/ \E x \in Exchange : Raised(x) /\ UNCHANGED history
         \/ \E x \in Exchange : StoreQuestion(x) /\ ~Raised(x)
         \/ \E x \in Exchange : ReadContext(x) /\ ~Raised(x)
         \/ \E x \in Exchange : Delta(x)
         \/ \E x \in Exchange : ProviderEnds(x) /\ ~Raised(x)
         \/ \E x \in Exchange : SaveAnswer(x) /\ ~Raised(x)
         \/ \E x \in Exchange : Cancelled(x)
         \/ (\E x \in Exchange : StreamEnds(x) \/ Lost(x)) \/ PanelWatchdog
         \/ UNCHANGED convVars
  <1>0. PanelSend \subseteq Exchange BY DEF Exchange
  <1>1. ASSUME NEW x \in PanelSend, HandleSend(x)
        PROVE  \/ \E y \in PanelSend : HandleSend(y) /\ sess = NoSession
               \/ \E y \in Exchange : y \in PanelSend /\ HandleSend(y) /\ sess # NoSession
    BY <1>0, <1>1
  <1>2. ASSUME NEW x \in Exchange, StoreQuestion(x), Raised(x) PROVE UNCHANGED history
    <2>1. ~Step(x, "context") BY <1>2, StepGoes, Raises DEF ConvTyped, Stages
    <2> QED BY <1>2, <2>1 DEF StoreQuestion, history
  <1>3. ASSUME NEW x \in Exchange, SaveAnswer(x), Raised(x) PROVE UNCHANGED history
    <2>1. ~End(x, "over") BY <1>3, Ends, Raises
    <2> QED BY <1>3, <2>1 DEF SaveAnswer, history
  <1>4. ASSUME NEW x \in Exchange, ReadContext(x) \/ ProviderEnds(x) PROVE UNCHANGED history
    BY <1>4 DEF ReadContext, ProviderEnds
  <1> QED BY <1>1, <1>2, <1>3, <1>4 DEF ConvNext, Proceed, PanelTurn

LEMMA TypedStep == ConvTyped /\ [ConvNext]_convVars => ConvTyped'
  <1> SUFFICES ASSUME ConvTyped, [ConvNext]_convVars PROVE ConvTyped' OBVIOUS
  <1>0. HistoryTyped /\ ExTyped /\ PanelTyped BY DEF ConvTyped
  <1>a. UNCHANGED history => HistoryTyped' BY <1>0, HistoryStays
  <1>b. UNCHANGED panel => PanelTyped' /\ UNCHANGED sess BY <1>0, PanelStays
  <1>c. UNCHANGED history => UNCHANGED <<newest, table>> BY DEF history
  <1>d. UNCHANGED ex => ExTyped' BY <1>0 DEF ExTyped
  \* An exchange goes on in its session, or has none any more.
  <1>e. ASSUME NEW x \in Exchange, Others(x), UNCHANGED <<sess, newest, table>>,
               ex'[x].sid \in {ex[x].sid, NoSession}, ex'[x].pc \notin {"create", "created"},
               ex'[x].pc \in Asking => ex'[x].sid # NoSession,
               ex'[x].pc \in {"unsent", "ask", "context"} => ex'[x].said = 0
        PROVE  SidInv'
    <2>1. \A y \in Exchange : ex'[y].sid <= newest
      BY <1>e, Fields DEF ConvTyped, SidInv, Others
    <2> QED BY <1>e, <2>1 DEF ConvTyped, SidInv, Others
  <1>1. ASSUME NEW s \in Session, DeleteSession(s) PROVE ConvTyped'
    <2>1. HistoryTyped' /\ UNCHANGED <<newest, ex, panel>> /\ table'[s] = Nothing
          /\ \A u \in Session \ {s} : table'[u] = table[u]
      BY <1>1, Deletes
    <2>2. SidInv' BY <1>b, <2>1 DEF ConvTyped, SidInv
    <2> QED BY <1>b, <1>d, <2>1, <2>2 DEF ConvTyped
  <1>2. ASSUME NEW s \in Session, NEW x \in OtherSend, Post(x, s) PROVE ConvTyped'
    <2>1. /\ ExTyped' /\ Others(x) /\ x \in Exchange /\ UNCHANGED <<history, panel>>
          /\ ex'[x].pc = "ask" /\ ex'[x].sid = s /\ ex'[x].said = 0 /\ s <= newest /\ s # NoSession
      BY <1>2, Posts
    <2>2. \A y \in Exchange : ex'[y].sid <= newest BY <2>1 DEF ConvTyped, SidInv, Others
    <2>3. SidInv' BY <1>b, <1>c, <2>1, <2>2 DEF ConvTyped, SidInv, Others
    <2> QED BY <1>a, <1>b, <2>1, <2>3 DEF ConvTyped
  <1>3. ASSUME NEW b \in Backend, Select(b) PROVE ConvTyped'
    <2>1. PanelTyped' /\ sess' = NoSession /\ UNCHANGED <<history, ex>> BY <1>3, Selects
    <2>2. sess' <= newest BY <2>1, Fields DEF ConvTyped, SidInv
    <2>3. SidInv' BY <1>c, <2>1, <2>2 DEF ConvTyped, SidInv
    <2> QED BY <1>a, <1>d, <2>1, <2>3 DEF ConvTyped
  <1>4. ASSUME NEW x \in PanelSend, HandleSend(x), sess = NoSession PROVE ConvTyped'
    <2>1. /\ ExTyped' /\ Others(x) /\ UNCHANGED <<history, panel>> /\ x \in Exchange
          /\ ex'[x].pc = "create" /\ ex'[x].sid = ex[x].sid /\ ex'[x].said = 0
      BY <1>4, Asks, Fields
    <2>2. SidInv' BY <1>b, <1>c, <2>1 DEF ConvTyped, SidInv, Others, Asking
    <2> QED BY <1>a, <1>b, <2>1, <2>2 DEF ConvTyped
  <1>5. ASSUME NEW x \in Exchange, (x \in PanelSend /\ HandleSend(x) /\ sess # NoSession) \/ Created(x)
        PROVE  ConvTyped'
    <2>1. PICK s \in Session :
            /\ s <= newest /\ s # NoSession /\ UNCHANGED <<history, sel>> /\ x \in PanelSend
            /\ PanelTyped' /\ ExTyped' /\ Others(x) /\ sess' = s
            /\ ex'[x].pc = "ask" /\ ex'[x].sid = s /\ ex'[x].said = 0
      BY <1>5, SendsIn
    <2>2. \A y \in Exchange : ex'[y].sid <= newest BY <2>1 DEF ConvTyped, SidInv, Others
    <2>3. SidInv' BY <1>c, <2>1, <2>2 DEF ConvTyped, SidInv, Others
    <2> QED BY <1>a, <2>1, <2>3 DEF ConvTyped
  <1>6. ASSUME NEW x \in Exchange, CreateSession(x), End(x, "over") PROVE ConvTyped'
    <2>1. /\ ExTyped' /\ Others(x) /\ ex'[x].pc = "over" /\ ex'[x].sid = NoSession /\ ex'[x].said = 0
      BY <1>6, Ends
    <2>2. CASE UNCHANGED <<history, panel>>
      <3>1. SidInv' BY <1>b, <1>c, <1>e, <2>1, <2>2 DEF Asking
      <3> QED BY <1>a, <1>b, <2>1, <2>2, <3>1 DEF ConvTyped
    <2>3. CASE newest' = newest + 1 /\ ex' = [ex EXCEPT ![x].pc = "created", ![x].sid = newest']
      <3>1. ex'[x].pc = "created" BY <2>3 DEF ConvTyped, ExTyped, Sends
      <3> QED BY <2>1, <3>1
    <2> QED BY <1>6, <2>2, <2>3 DEF CreateSession, history
  <1>7. ASSUME NEW x \in Exchange, CreateSession(x), ~End(x, "over") PROVE ConvTyped'
    <2>1. PICK n \in Session :
            /\ n = newest + 1 /\ newest' = n /\ n # NoSession /\ table[n] = Nothing /\ rows[n] = <<>>
            /\ table' = [table EXCEPT ![n] = ex[x].acct] /\ UNCHANGED <<rows, panel>>
            /\ x \in PanelSend /\ ExTyped' /\ Others(x)
            /\ ex'[x].pc = "created" /\ ex'[x].sid = n /\ ex'[x].said = 0
      BY <1>7, Creates
    <2>2. HistoryTyped' BY <1>0, <2>1, Fields DEF HistoryTyped
    <2>3. \A s \in Session : n < s => newest < s /\ s # n BY <2>1, Fields
    <2>4. \A y \in Exchange : ex'[y].sid <= n
      <3>1. ASSUME NEW y \in Exchange \ {x} PROVE ex'[y].sid <= n
        <4>1. PICK k \in Nat : k = ex[y].sid /\ k <= newest BY Fields DEF ConvTyped, SidInv
        <4>2. ex'[y].sid = k BY <2>1, <4>1 DEF Others
        <4> QED BY <2>1, <4>1, <4>2, Fields
      <3> QED BY <2>1, <3>1, Fields
    <2>5. sess' <= n
      <3>1. sess \in Nat /\ sess <= newest BY Fields DEF ConvTyped, PanelTyped, SidInv
      <3> QED BY <1>b, <2>1, <3>1, Fields
    <2>6. \A s \in Session : n < s => table'[s] = Nothing
      BY <2>1, <2>3 DEF ConvTyped, SidInv, HistoryTyped
    <2>7. SidInv' BY <2>1, <2>4, <2>5, <2>6 DEF ConvTyped, SidInv, Others
    <2> QED BY <1>b, <2>1, <2>2, <2>7 DEF ConvTyped
  <1>8. ASSUME NEW x \in Exchange, Raised(x), UNCHANGED history PROVE ConvTyped'
    <2>1. /\ PanelTyped' /\ ExTyped' /\ Others(x) /\ UNCHANGED sess
          /\ ex'[x].pc = "failed" /\ ex'[x].sid = NoSession /\ ex'[x].said = 0
      BY <1>8, Raises
    <2>2. SidInv' BY <1>c, <1>e, <1>8, <2>1 DEF Asking
    <2> QED BY <1>a, <1>8, <2>1, <2>2 DEF ConvTyped
  <1>9. ASSUME NEW x \in Exchange, StoreQuestion(x), ~Raised(x) PROVE ConvTyped'
    <2>1. /\ ExTyped' /\ Others(x) /\ ex'[x].pc = "context" /\ ex'[x].said = 0
          /\ ex'[x].sid = ex[x].sid /\ ex[x].sid # NoSession
          /\ UNCHANGED <<table, newest, panel>> /\ HistoryTyped'
      BY <1>9, StoresQuestion
    <2>2. SidInv' BY <1>b, <1>e, <2>1
    <2> QED BY <1>b, <2>1, <2>2 DEF ConvTyped
  <1>10. ASSUME NEW x \in Exchange, ReadContext(x), ~Raised(x) PROVE ConvTyped'
    <2>1. /\ ExTyped' /\ Others(x) /\ UNCHANGED <<history, panel>>
          /\ ex'[x].pc = "stream" /\ ex'[x].sid = ex[x].sid /\ ex[x].sid \in Session
      BY <1>10, Reads
    <2>2. SidInv' BY <1>b, <1>c, <1>e, <2>1, Fields
    <2> QED BY <1>a, <1>b, <2>1, <2>2 DEF ConvTyped
  <1>11. ASSUME NEW x \in Exchange, Delta(x) PROVE ConvTyped'
    <2>1. /\ ExTyped' /\ PanelTyped' /\ Others(x) /\ UNCHANGED <<history, sess>>
          /\ ex'[x].pc = "stream" /\ ex'[x].sid = ex[x].sid /\ ex[x].sid # NoSession
      BY <1>11, Deltas
    <2>2. SidInv' BY <1>c, <1>e, <2>1
    <2> QED BY <1>a, <2>1, <2>2 DEF ConvTyped
  <1>12. ASSUME NEW x \in Exchange, ProviderEnds(x), ~Raised(x) PROVE ConvTyped'
    <2>1. /\ ExTyped' /\ PanelTyped' /\ Others(x) /\ UNCHANGED <<history, sess>>
          /\ ex'[x].pc = "save" /\ ex'[x].sid = ex[x].sid /\ ex[x].sid # NoSession
      BY <1>12, StreamOver
    <2>2. SidInv' BY <1>c, <1>e, <2>1
    <2> QED BY <1>a, <2>1, <2>2 DEF ConvTyped
  <1>13. ASSUME NEW x \in Exchange, NEW p \in {"over", "cancelled"}, End(x, p), HistoryTyped',
                UNCHANGED <<table, newest, panel>>
         PROVE  ConvTyped'
    <2>1. ExTyped' /\ Others(x) /\ ex'[x].pc = p /\ ex'[x].sid = NoSession /\ ex'[x].said = 0
      BY <1>13, Ends
    <2>2. SidInv' BY <1>b, <1>e, <1>13, <2>1 DEF Asking
    <2> QED BY <1>b, <1>13, <2>1, <2>2 DEF ConvTyped
  <1>14. ASSUME NEW x \in Exchange, SaveAnswer(x), ~Raised(x) PROVE ConvTyped'
    BY <1>13, <1>14, Saves
  <1>15. ASSUME NEW x \in Exchange, Cancelled(x) PROVE ConvTyped'
    BY <1>a, <1>c, <1>13, <1>15 DEF Cancelled
  <1>16. CASE (\E x \in Exchange : StreamEnds(x) \/ Lost(x)) \/ PanelWatchdog
    <2>1. PanelTyped' /\ UNCHANGED <<history, ex, sess>> BY <1>16, StopsReading
    <2>2. SidInv' BY <1>c, <2>1 DEF ConvTyped, SidInv
    <2> QED BY <1>a, <1>d, <2>1, <2>2 DEF ConvTyped
  <1>17. CASE UNCHANGED convVars
    <2>1. UNCHANGED <<history, ex, panel>> BY <1>17 DEF convVars
    <2>2. SidInv' BY <1>b, <1>c, <2>1 DEF ConvTyped, SidInv
    <2> QED BY <1>a, <1>b, <1>d, <2>1, <2>2 DEF ConvTyped
  <1> QED BY <1>1, <1>2, <1>3, <1>4, <1>5, <1>6, <1>7, <1>8, <1>9, <1>10, <1>11, <1>12, <1>14,
             <1>15, <1>16, <1>17, ConvSteps

-----------------------------------------------------------------------------
\* What a provider is shown.

Asked(x, q) == \E i \in 1..Len(q) : q[i] = Question(x)
StartOf(p, q) == Len(p) <= Len(q) /\ \A i \in 1..Len(p) : p[i] = q[i]

\* The question was stored before the conversation is read; and a conversation only grows,
\* for the session of an exchange is never made again.
Prompted(x) ==
  /\ ex[x].pc = "context" /\ Live(ex[x].sid) => Asked(x, rows[ex[x].sid])
  /\ ex[x].pc = "stream" /\ Live(ex[x].sid) =>
       Asked(x, ex[x].prompt) /\ StartOf(ex[x].prompt, rows[ex[x].sid])
PromptInv == \A x \in Exchange : Prompted(x)

LEMMA StartGrows ==
  ASSUME NEW p \in Seq(Message), NEW q \in Seq(Message), NEW m \in Message
  PROVE  StartOf(p, p) /\ (StartOf(p, q) => StartOf(p, Append(q, m)))
  <1>1. /\ Len(Append(q, m)) = Len(q) + 1 /\ Len(q) \in Nat /\ Len(p) \in Nat
        /\ \A i \in 1..Len(q) : Append(q, m)[i] = q[i]
    OBVIOUS
  <1>2. PICK r : r = Append(q, m) OBVIOUS
  <1>3. ASSUME StartOf(p, q) PROVE StartOf(p, r)
    <2>1. Len(p) <= Len(q) BY <1>3 DEF StartOf
    <2>2. \A i \in 1..Len(p) : i \in 1..Len(q) BY <1>1, <2>1
    <2>3. Len(p) <= Len(r) BY <1>1, <1>2, <2>1
    <2> QED BY <1>1, <1>2, <1>3, <2>2, <2>3 DEF StartOf
  <1>4. StartOf(p, p) BY <1>1 DEF StartOf
  <1> QED BY <1>2, <1>3, <1>4

LEMMA StartIsPrefix ==
  ASSUME NEW p \in Seq(Message), NEW q, StartOf(p, q)
  PROVE  p = SubSeq(q, 1, Len(p))
  <1>1. Len(p) \in Nat /\ p = [i \in 1..Len(p) |-> p[i]] OBVIOUS
  <1>2. SubSeq(q, 1, Len(p)) = [i \in 1..Len(p) |-> q[i]]
    <2>1. \A i \in 1..Len(p) : i + 1 - 1 = i /\ Len(p) - 1 + 1 = Len(p) BY <1>1
    <2> QED BY <1>1, <2>1
  <1> QED BY <1>1, <1>2 DEF StartOf

LEMMA AskedStays ==
  ASSUME NEW x, NEW q \in Seq(Message), NEW m \in Message
  PROVE  /\ Asked(x, q) => Asked(x, Append(q, m))
         /\ m = Question(x) => Asked(x, Append(q, m))
  <1>1. PICK n \in Nat : n = Len(q) OBVIOUS
  <1>2. /\ Append(q, m)[n + 1] = m /\ Len(Append(q, m)) = n + 1
        /\ \A i \in 1..n : Append(q, m)[i] = q[i]
    BY <1>1
  <1>3. \A i \in 1..n : i \in 1..(n + 1) OBVIOUS
  <1>4. n + 1 \in 1..(n + 1) OBVIOUS
  <1> QED BY <1>1, <1>2, <1>3, <1>4 DEF Asked

\* The conversation of a session that was made: it is there still, and has at most one
\* message more, or it is gone.
Grown(s) ==
  Live(s)' => Live(s) /\ (rows'[s] = rows[s] \/ \E m \in Message : rows'[s] = Append(rows[s], m))

LEMMA HistoryGrows ==
  ASSUME ConvTyped, [ConvNext]_convVars, NEW s \in Session, s <= newest
  PROVE  Grown(s)
  <1>1. CASE UNCHANGED <<table, rows>> BY <1>1 DEF Grown, Live
  <1>2. ASSUME NEW u \in Session, DeleteSession(u) PROVE Grown(s)
    BY <1>2, Deletes DEF Grown, Live
  <1>3. ASSUME NEW x \in Exchange, CreateSession(x), ~End(x, "over") PROVE Grown(s)
    <2>1. PICK n \in Session : /\ n = newest + 1 /\ UNCHANGED rows
                               /\ table' = [table EXCEPT ![n] = ex[x].acct]
      BY <1>3, Creates
    <2>2. s # n BY <2>1, Fields
    <2> QED BY <2>1, <2>2 DEF Grown, Live, ConvTyped, HistoryTyped
  <1>4. ASSUME NEW x \in Exchange, StoreQuestion(x), ~Raised(x) PROVE Grown(s)
    <2>1. /\ UNCHANGED table /\ Live(ex[x].sid) /\ ex[x].sid \in Session
          /\ rows'[ex[x].sid] = Append(rows[ex[x].sid], Question(x))
          /\ \A u \in Session \ {ex[x].sid} : rows'[u] = rows[u]
      BY <1>4, StoresQuestion
    <2> QED BY <2>1, MessageTypes DEF Grown, Live
  <1>5. ASSUME NEW x \in Exchange, SaveAnswer(x), ~Raised(x) PROVE Grown(s)
    <2>1. UNCHANGED table BY <1>5, Saves
    <2>2. CASE UNCHANGED rows BY <1>1, <2>1, <2>2
    <2>3. CASE /\ ex[x].sid \in Session /\ Live(ex[x].sid)
               /\ rows'[ex[x].sid] = Append(rows[ex[x].sid], Reply({x}))
               /\ \A u \in Session \ {ex[x].sid} : rows'[u] = rows[u]
      BY <2>1, <2>3, MessageTypes DEF Grown, Live
    <2> QED BY <1>5, <2>2, <2>3, Saves
  <1>6. ASSUME NEW x \in Exchange, CreateSession(x), End(x, "over") PROVE Grown(s)
    <2>1. CASE UNCHANGED <<table, rows>> BY <1>1, <2>1
    <2>2. CASE ex' = [ex EXCEPT ![x].pc = "created", ![x].sid = newest']
      <3>1. ex'[x].pc = "created" BY <2>2 DEF ConvTyped, ExTyped, Sends
      <3>2. ex'[x].pc = "over" BY <1>6, Ends
      <3> QED BY <3>1, <3>2
    <2> QED BY <1>6, <2>1, <2>2 DEF CreateSession
  <1>7. ASSUME NEW x \in OtherSend, NEW u \in Session, Post(x, u) PROVE Grown(s)
    BY <1>1, <1>7, Posts DEF history
  <1>8. ASSUME NEW b \in Backend, Select(b) PROVE Grown(s)
    BY <1>1, <1>8, Selects DEF history
  <1>9. ASSUME NEW x \in PanelSend, HandleSend(x), sess = NoSession PROVE Grown(s)
    BY <1>1, <1>9, Asks DEF history
  <1>10. ASSUME NEW x \in Exchange, (x \in PanelSend /\ HandleSend(x) /\ sess # NoSession) \/ Created(x)
         PROVE Grown(s)
    <2>1. UNCHANGED history BY <1>10, SendsIn
    <2> QED BY <1>1, <2>1 DEF history
  <1>11. ASSUME NEW x \in Exchange, (Raised(x) /\ UNCHANGED history) \/ Delta(x) \/ Cancelled(x)
         PROVE Grown(s)
    BY <1>1, <1>11 DEF Delta, Cancelled, history
  <1>12. ASSUME NEW x \in Exchange, ReadContext(x) \/ ProviderEnds(x) PROVE Grown(s)
    BY <1>1, <1>12 DEF ReadContext, ProviderEnds, history
  <1>13. CASE (\E x \in Exchange : StreamEnds(x) \/ Lost(x)) \/ PanelWatchdog
    BY <1>1, <1>13, StopsReading DEF history
  <1>14. CASE UNCHANGED convVars BY <1>1, <1>14 DEF convVars, history
  <1> QED BY <1>2, <1>3, <1>4, <1>5, <1>6, <1>7, <1>8, <1>9, <1>10, <1>11, <1>12, <1>13, <1>14, ConvSteps

\* What the steps of the exchanges mean for their prompts.
Promptly(x) ==
  \/ ex'[x].pc \notin {"context", "stream"}
  \/ /\ ex'[x].pc = ex[x].pc /\ ex'[x].sid = ex[x].sid /\ ex'[x].prompt = ex[x].prompt
  \/ /\ ex'[x].pc = "context" /\ ex'[x].sid = ex[x].sid
     /\ rows'[ex[x].sid] = Append(rows[ex[x].sid], Question(x))
  \/ /\ ex[x].pc = "context" /\ ex'[x].pc = "stream" /\ ex'[x].sid = ex[x].sid
     /\ ex'[x].prompt = rows[ex[x].sid] /\ UNCHANGED history

LEMMA PromptMoves ==
  ASSUME ConvTyped, [ConvNext]_convVars, NEW x \in Exchange
  PROVE  Promptly(x)
  <1>1. CASE ex'[x] = ex[x] BY <1>1 DEF Promptly
  <1>2. ASSUME NEW y \in Exchange, Others(y), x # y PROVE Promptly(x)
    BY <1>1, <1>2 DEF Others
  <1>3. ASSUME NEW u \in Session, DeleteSession(u) PROVE Promptly(x) BY <1>1, <1>3, Deletes
  <1>4. ASSUME NEW y \in OtherSend, NEW u \in Session, Post(y, u) PROVE Promptly(x)
    BY <1>2, <1>4, Posts DEF Promptly
  <1>5. ASSUME NEW b \in Backend, Select(b) PROVE Promptly(x) BY <1>1, <1>5, Selects
  <1>6. ASSUME NEW y \in PanelSend, HandleSend(y), sess = NoSession PROVE Promptly(x)
    <2>1. y \in Exchange /\ Others(y) /\ ex'[y].pc = "create" BY <1>6, Asks, Fields
    <2> QED BY <1>2, <2>1 DEF Promptly
  <1>7. ASSUME NEW y \in Exchange, (y \in PanelSend /\ HandleSend(y) /\ sess # NoSession) \/ Created(y)
        PROVE Promptly(x)
    <2>1. Others(y) /\ ex'[y].pc = "ask" BY <1>7, SendsIn
    <2> QED BY <1>2, <2>1 DEF Promptly
  <1>8. ASSUME NEW y \in Exchange, NEW p \in {"over", "cancelled"}, End(y, p) PROVE Promptly(x)
    BY <1>2, <1>8, Ends DEF Promptly
  <1>9. ASSUME NEW y \in Exchange, CreateSession(y), ~End(y, "over") PROVE Promptly(x)
    <2>1. Others(y) /\ ex'[y].pc = "created" BY <1>9, Creates
    <2> QED BY <1>2, <2>1 DEF Promptly
  <1>10. ASSUME NEW y \in Exchange, Raised(y) PROVE Promptly(x)
    BY <1>2, <1>10, Raises DEF Promptly
  <1>11. ASSUME NEW y \in Exchange, StoreQuestion(y), ~Raised(y) PROVE Promptly(x)
    BY <1>2, <1>11, StoresQuestion DEF Promptly
  <1>12. ASSUME NEW y \in Exchange, ReadContext(y), ~Raised(y) PROVE Promptly(x)
    BY <1>2, <1>12, Reads DEF Promptly
  <1>13. ASSUME NEW y \in Exchange, Delta(y) PROVE Promptly(x)
    BY <1>2, <1>13, Deltas DEF Promptly
  <1>14. ASSUME NEW y \in Exchange, ProviderEnds(y), ~Raised(y) PROVE Promptly(x)
    BY <1>2, <1>14, StreamOver DEF Promptly
  <1>15. ASSUME NEW y \in Exchange, SaveAnswer(y), ~Raised(y) PROVE Promptly(x)
    BY <1>8, <1>15, Saves
  <1>16. ASSUME NEW y \in Exchange, Cancelled(y) PROVE Promptly(x)
    BY <1>8, <1>16 DEF Cancelled
  <1>17. CASE (\E y \in Exchange : StreamEnds(y) \/ Lost(y)) \/ PanelWatchdog
    BY <1>1, <1>17, StopsReading
  <1>18. CASE UNCHANGED convVars BY <1>1, <1>18 DEF convVars
  <1> QED BY <1>3, <1>4, <1>5, <1>6, <1>7, <1>8, <1>9, <1>10, <1>11, <1>12, <1>13, <1>14, <1>15,
             <1>16, <1>17, <1>18, ConvSteps

LEMMA PromptStep == ConvTyped /\ PromptInv /\ [ConvNext]_convVars => PromptInv'
  <1> SUFFICES ASSUME ConvTyped, PromptInv, [ConvNext]_convVars, NEW x \in Exchange PROVE Prompted(x)'
    BY DEF PromptInv
  <1>1. Promptly(x) /\ Prompted(x) BY PromptMoves DEF PromptInv
  <1>2. CASE ex'[x].pc \notin {"context", "stream"} BY <1>2 DEF Prompted
  <1>3. CASE /\ ex'[x].pc = ex[x].pc /\ ex'[x].sid = ex[x].sid /\ ex'[x].prompt = ex[x].prompt
             /\ ex[x].pc \in {"context", "stream"}
    <2>1. PICK s \in Session : s = ex[x].sid /\ s <= newest
      BY <1>3, Fields DEF ConvTyped, SidInv, Asking
    <2>2. Grown(s) BY <2>1, HistoryGrows
    <2>3. CASE ~Live(s)' BY <1>3, <2>1, <2>3 DEF Prompted
    <2>4. PICK q \in Seq(Message), p \in Seq(Message) : q = rows[s] /\ p = ex[x].prompt
      BY Fields DEF ConvTyped, HistoryTyped, Sends
    <2>5. CASE Live(s)' /\ Live(s) /\ rows'[s] = q
      BY <1>1, <1>3, <2>1, <2>4, <2>5 DEF Prompted
    <2>6. ASSUME Live(s)', Live(s), NEW m \in Message, rows'[s] = Append(q, m) PROVE Prompted(x)'
      <3>1. ex[x].pc = "context" => Asked(x, q) BY <1>1, <2>1, <2>4, <2>6 DEF Prompted
      <3>2. ex[x].pc = "stream" => Asked(x, p) /\ StartOf(p, q) BY <1>1, <2>1, <2>4, <2>6 DEF Prompted
      <3>3. ex[x].pc = "context" => Asked(x, Append(q, m)) BY <3>1, AskedStays
      <3>4. ex[x].pc = "stream" => StartOf(p, Append(q, m)) BY <3>2, StartGrows
      <3> QED BY <1>3, <2>1, <2>4, <2>6, <3>2, <3>3, <3>4 DEF Prompted
    <2> QED BY <2>2, <2>3, <2>4, <2>5, <2>6 DEF Grown
  <1>4. CASE /\ ex'[x].pc = "context" /\ ex'[x].sid = ex[x].sid
             /\ rows'[ex[x].sid] = Append(rows[ex[x].sid], Question(x))
    <2>1. ex[x].sid \in Session
      <3>1. ConvTyped' BY TypedStep
      <3>2. ex'[x].sid # NoSession BY <1>4, <3>1 DEF ConvTyped, SidInv, Asking
      <3> QED BY <1>4, <3>2, Fields
    <2>2. PICK q \in Seq(Message), m \in Message : q = rows[ex[x].sid] /\ m = Question(x)
      BY <2>1, MessageTypes DEF ConvTyped, HistoryTyped
    <2>3. Asked(x, Append(q, m)) BY <2>2, AskedStays
    <2> QED BY <1>4, <2>2, <2>3 DEF Prompted
  <1>5. CASE /\ ex[x].pc = "context" /\ ex'[x].pc = "stream" /\ ex'[x].sid = ex[x].sid
             /\ ex'[x].prompt = rows[ex[x].sid] /\ UNCHANGED history
    <2>1. ex[x].sid \in Session BY <1>5, Fields DEF ConvTyped, SidInv, Asking
    <2>2. PICK q \in Seq(Message) : q = rows[ex[x].sid]
      BY <2>1 DEF ConvTyped, HistoryTyped
    <2>3. PICK m \in Message : m = Question(x) BY MessageTypes
    <2>4. StartOf(q, q) BY <2>3, StartGrows
    <2>5. Live(ex[x].sid) => Asked(x, q) BY <1>1, <1>5, <2>2 DEF Prompted
    <2> QED BY <1>5, <2>2, <2>4, <2>5 DEF Prompted, history, Live
  <1> QED BY <1>1, <1>2, <1>3, <1>4, <1>5 DEF Promptly

LEMMA PromptsTrue == ConvTyped /\ PromptInv => PromptIsHistory
  <1> SUFFICES ASSUME ConvTyped, PromptInv, NEW x \in Exchange, ex[x].pc = "stream", Live(ex[x].sid)
               PROVE  /\ \E i \in 1..Len(ex[x].prompt) : ex[x].prompt[i] = Question(x)
                      /\ ex[x].prompt = SubSeq(rows[ex[x].sid], 1, Len(ex[x].prompt))
    BY DEF PromptIsHistory
  <1>1. PICK p \in Seq(Message) : p = ex[x].prompt BY Fields DEF Sends
  <1>2. PICK q : q = rows[ex[x].sid] OBVIOUS
  <1>3. Asked(x, p) /\ StartOf(p, q) BY <1>1, <1>2 DEF PromptInv, Prompted
  <1>4. p = SubSeq(q, 1, Len(p)) BY <1>3, StartIsPrefix
  <1> QED BY <1>1, <1>2, <1>3, <1>4 DEF Asked

-----------------------------------------------------------------------------
\* What the panel shows.

LEMMA OwnNothing == Own(<<>>) = <<>>
  <1>1. Len(<<>>) = 0 OBVIOUS
  <1>2. \A i \in 1..0 : FALSE OBVIOUS
  <1>3. [i \in 1..Len(<<>>) |-> IF Mine(<<>>[i]) THEN <<<<>>[i]>> ELSE <<>>] = <<>> BY <1>1, <1>2
  <1> QED BY <1>3, FlattenNothing DEF Own

LEMMA OwnFacts ==
  ASSUME NEW q \in Seq(Message), NEW m \in Message
  PROVE  /\ Own(q) \in Seq(Message) /\ Own(<<>>) = <<>>
         /\ Own(Append(q, m)) = IF Mine(m) THEN Append(Own(q), m) ELSE Own(q)
  <1> DEFINE One(e) == IF Mine(e) THEN <<e>> ELSE <<>>
             P(r) == [i \in 1..Len(r) |-> One(r[i])]
  <1>1. \A e \in Message : One(e) \in Seq(Message) OBVIOUS
  <1>2. P(q) \in Seq(Seq(Message))
    <2>1. \A i \in 1..Len(q) : q[i] \in Message OBVIOUS
    <2>2. Len(q) \in Nat OBVIOUS
    <2> HIDE DEF One
    <2>3. \A i \in 1..Len(q) : One(q[i]) \in Seq(Message) BY <1>1, <2>1
    <2> QED BY <2>2, <2>3
  <1>3. P(Append(q, m)) = Append(P(q), One(m))
    <2>1. /\ Len(Append(q, m)) = Len(q) + 1 /\ Len(q) \in Nat /\ Append(q, m)[Len(q) + 1] = m
          /\ \A i \in 1..Len(q) : Append(q, m)[i] = q[i]
      OBVIOUS
    <2> HIDE DEF One
    <2>2. Len(P(q)) = Len(q) BY <2>1
    <2>3. Append(P(q), One(m)) = [i \in 1..(Len(q) + 1) |-> IF i = Len(q) + 1 THEN One(m) ELSE P(q)[i]]
      BY <1>2, <2>1, <2>2
    <2>4. \A i \in 1..(Len(q) + 1) : i = Len(q) + 1 \/ i \in 1..Len(q) BY <2>1
    <2>5. \A i \in 1..(Len(q) + 1) :
            One(Append(q, m)[i]) = IF i = Len(q) + 1 THEN One(m) ELSE P(q)[i]
      BY <2>1, <2>4
    <2> QED BY <2>1, <2>3, <2>5
  <1>4. Own(q) = FlattenSeq(P(q)) /\ Own(Append(q, m)) = FlattenSeq(P(Append(q, m))) BY DEF Own
  <1>5. One(m) \in Seq(Message) BY <1>1
  <1>6. CASE Mine(m)
    <2>1. One(m) = <<m>> BY <1>6
    <2> HIDE DEF P, One
    <2>2. FlattenSeq(Append(P(q), One(m))) = FlattenSeq(P(q)) \o One(m) BY <1>2, <1>5, FlattenAppend
    <2>3. PICK f \in Seq(Message) : f = FlattenSeq(P(q)) BY <1>2, FlattenType
    <2>4. f \o <<m>> = Append(f, m) OBVIOUS
    <2> QED BY <1>3, <1>4, <1>6, <2>1, <2>2, <2>3, <2>4, OwnNothing
  <1>7. CASE ~Mine(m)
    <2>1. One(m) = <<>> BY <1>7
    <2> HIDE DEF P, One
    <2>2. FlattenSeq(Append(P(q), One(m))) = FlattenSeq(P(q)) \o One(m) BY <1>2, <1>5, FlattenAppend
    <2>3. PICK f \in Seq(Message) : f = FlattenSeq(P(q)) BY <1>2, FlattenType
    <2>4. f \o <<>> = f OBVIOUS
    <2> QED BY <1>3, <1>4, <1>7, <2>1, <2>2, <2>3, <2>4, OwnNothing
  <1> QED BY <1>6, <1>7

LEMMA OwnRows ==
  ASSUME NEW q \in Seq(Message), NEW y \in Exchange, NEW m, m \in {Question(y), Reply({y})}
  PROVE  /\ m \in Message
         /\ Own(Append(q, m)) = IF y \in PanelSend THEN Append(Own(q), m) ELSE Own(q)
  <1>1. m \in Message BY MessageTypes
  <1>2. m.of = {y} BY DEF Question, Reply
  <1>3. Mine(m) <=> y \in PanelSend BY <1>2 DEF Mine
  <1> QED BY <1>1, <1>3, OwnFacts

\* A send is read until its loop has ended or it was cut off, and while nothing is tangled
\* there is one, in the panel's session.
ReadersInv ==
  /\ \A x \in PanelSend : ex[x].pc \in Asking => x \in reading \cup cut
  /\ \A x \in reading : ex[x].pc \in Asking \cup {"over", "failed"}
AloneInv ==
  ~tangled => \A x \in reading : reading = {x} /\ (ex[x].pc \in Asking => ex[x].sid = sess)

\* A session that was just made is nobody else's.
Apart(x) ==
  ex[x].pc = "created" =>
    /\ sess # ex[x].sid /\ Own(rows[ex[x].sid]) = <<>>
    /\ \A y \in PanelSend \ {x} : ex[y].pc \in Asking \cup {"created"} => ex[y].sid # ex[x].sid
ApartInv == \A x \in PanelSend : Apart(x)

LEMMA Kinds == PanelSend \subseteq Exchange /\ \A x \in OtherSend : x \notin PanelSend /\ x \in Exchange
  BY SendAssumption DEF Exchange

LEMMA DispatchKeeps ==
  ASSUME NEW x, NEW n, NEW b, Dispatch(x, n, b)
  PROVE  UNCHANGED <<sess, msgs, active, busy, reading>> /\ (x \notin reading => UNCHANGED view)
  BY DEF Dispatch, view

LEMMA PanelIs == UNCHANGED panel => UNCHANGED <<sess, msgs, content, lastEvent, active, reading, cut, tangled>>
  BY DEF panel, view, past

LEMMA ReadersStep ==
  ConvTyped /\ ReadersInv /\ AloneInv /\ [ConvNext]_convVars => ReadersInv' /\ AloneInv'
  <1> SUFFICES ASSUME ConvTyped, ReadersInv, AloneInv, [ConvNext]_convVars PROVE ReadersInv' /\ AloneInv'
    OBVIOUS
  <1>0. reading \subseteq PanelSend /\ PanelSend \subseteq Exchange /\ active \in PanelSend \cup {Nothing}
    BY Kinds DEF ConvTyped, PanelTyped
  \* The panel reads what it did, and an exchange moves on.
  <1>a. ASSUME NEW y \in Exchange, Others(y), UNCHANGED <<reading, cut, tangled, sess>>,
               y \in PanelSend /\ ex'[y].pc \in Asking => ex[y].pc \in Asking /\ ex'[y].sid = ex[y].sid,
               y \in reading => ex'[y].pc \in Asking \cup {"over", "failed"}
        PROVE  ReadersInv' /\ AloneInv'
    <2>1. ReadersInv' BY <1>0, <1>a DEF ReadersInv, Others
    <2>2. AloneInv' BY <1>0, <1>a DEF AloneInv, Others
    <2> QED BY <2>1, <2>2
  <1>b. ASSUME UNCHANGED <<reading, cut, tangled, sess, ex>> PROVE ReadersInv' /\ AloneInv'
    BY <1>b DEF ReadersInv, AloneInv
  <1>1. ASSUME NEW s \in Session, DeleteSession(s) PROVE ReadersInv' /\ AloneInv'
    BY <1>b, <1>1, Deletes, PanelIs
  <1>2. ASSUME NEW s \in Session, NEW x \in OtherSend, Post(x, s) PROVE ReadersInv' /\ AloneInv'
    BY <1>0, <1>a, <1>2, Posts, PanelIs, Kinds
  <1>3. ASSUME NEW b \in Backend, Select(b) PROVE ReadersInv' /\ AloneInv'
    <2>1. UNCHANGED ex /\ UNCHANGED <<reading, cut>> BY <1>3, Selects DEF Select, view, past
    <2>2. ~tangled' => ~tangled /\ (reading = {} \/ UNCHANGED sess) BY <1>3 DEF Select, view, past
    <2> QED BY <2>1, <2>2 DEF ReadersInv, AloneInv
  <1>4. ASSUME NEW x \in PanelSend, HandleSend(x), sess = NoSession PROVE ReadersInv' /\ AloneInv'
    <2>1. /\ Others(x) /\ UNCHANGED panel /\ ex[x].pc = "unsent" /\ ex'[x].pc = "create" /\ x \in Exchange
      BY <1>0, <1>4, Asks
    <2>2. x \notin reading BY <2>1 DEF ReadersInv, Asking
    <2> QED BY <1>a, <2>1, <2>2, PanelIs DEF Asking
  <1>5. ASSUME NEW x \in Exchange, (x \in PanelSend /\ HandleSend(x) /\ sess # NoSession) \/ Created(x)
        PROVE  ReadersInv' /\ AloneInv'
    <2>1. PICK s \in Session, q \in Seq(Message) :
            /\ Send(x, s, q) /\ Others(x) /\ sess' = s /\ x \in PanelSend
            /\ ex'[x].pc = "ask" /\ ex'[x].sid = s
      BY <1>5, SendsIn
    <2>2. reading' = reading \cup {x} /\ cut' = cut /\ (~tangled' => reading = {})
      BY <2>1 DEF Send
    <2>3. ReadersInv' BY <1>0, <2>1, <2>2 DEF ReadersInv, Others, Asking
    <2>4. AloneInv' BY <2>1, <2>2 DEF AloneInv
    <2> QED BY <2>3, <2>4
  <1>6. ASSUME NEW x \in Exchange, CreateSession(x) PROVE ReadersInv' /\ AloneInv'
    <2>1. ex[x].pc = "create" /\ UNCHANGED panel BY <1>6 DEF CreateSession, Stands
    <2>2. x \notin reading BY <2>1 DEF ReadersInv, Asking
    <2>3. Others(x) /\ ex'[x].pc \in {"over", "created"} BY <1>6, Ends, Creates
    <2> QED BY <1>a, <2>1, <2>2, <2>3, PanelIs DEF Asking
  <1>7. ASSUME NEW x \in Exchange, Raised(x) PROVE ReadersInv' /\ AloneInv'
    <2>1. UNCHANGED <<reading, cut, tangled>> BY <1>7, DispatchKeeps DEF Raised, past
    <2> QED BY <1>a, <1>7, <2>1, Raises DEF Asking
  <1>8. ASSUME NEW x \in Exchange, StoreQuestion(x), ~Raised(x) PROVE ReadersInv' /\ AloneInv'
    BY <1>a, <1>8, StoresQuestion, PanelIs DEF Asking
  <1>9. ASSUME NEW x \in Exchange, ReadContext(x), ~Raised(x) PROVE ReadersInv' /\ AloneInv'
    BY <1>a, <1>9, Reads, PanelIs DEF Asking
  <1>10. ASSUME NEW x \in Exchange, Delta(x) PROVE ReadersInv' /\ AloneInv'
    <2>1. UNCHANGED <<reading, cut, tangled>> BY <1>10, DispatchKeeps DEF Delta, past
    <2> QED BY <1>a, <1>10, <2>1, Deltas DEF Asking
  <1>11. ASSUME NEW x \in Exchange, ProviderEnds(x), ~Raised(x) PROVE ReadersInv' /\ AloneInv'
    <2>1. UNCHANGED <<reading, cut, tangled>> BY <1>11, StreamOver, DispatchKeeps DEF past
    <2> QED BY <1>a, <1>11, <2>1, StreamOver DEF Asking
  <1>12. ASSUME NEW x \in Exchange, SaveAnswer(x), ~Raised(x) PROVE ReadersInv' /\ AloneInv'
    <2>1. UNCHANGED panel /\ End(x, "over") BY <1>12, Saves
    <2> QED BY <1>a, <2>1, Ends, PanelIs DEF Asking
  <1>13. ASSUME NEW x \in Exchange, Cancelled(x) PROVE ReadersInv' /\ AloneInv'
    <2>1. UNCHANGED panel /\ End(x, "cancelled") /\ x \notin reading BY <1>13 DEF Cancelled
    <2> QED BY <1>a, <2>1, Ends, PanelIs DEF Asking
  \* Sends that are not read any more were over, or are cut off now.
  <1>14. ASSUME NEW S, reading' = reading \ S, UNCHANGED <<ex, sess, tangled>>, cut \subseteq cut',
                \A x \in S : x \in cut' \/ ex[x].pc \notin Asking
         PROVE  ReadersInv' /\ AloneInv'
    <2>1. ReadersInv' BY <1>14 DEF ReadersInv
    <2>2. AloneInv' BY <1>14 DEF AloneInv
    <2> QED BY <2>1, <2>2
  <1>15. ASSUME NEW x \in Exchange, StreamEnds(x) PROVE ReadersInv' /\ AloneInv'
    <2>1. reading' = reading \ {x} /\ ex[x].pc \notin Asking /\ UNCHANGED <<ex, sess, tangled, cut>>
      BY <1>15 DEF StreamEnds, Settle, past, Asking
    <2> QED BY <1>14, <2>1
  <1>16. ASSUME NEW x \in Exchange, Lost(x) PROVE ReadersInv' /\ AloneInv'
    <2>1. reading' = reading \ {x} /\ cut' = cut \cup {x} /\ UNCHANGED <<ex, sess, tangled>>
      BY <1>16 DEF Lost, Settle
    <2> QED BY <1>14, <2>1
  <1>17. CASE PanelWatchdog
    <2>1. UNCHANGED <<ex, sess, tangled>> /\ cut' = cut \cup Aborted BY <1>17 DEF PanelWatchdog, Settle
    <2>2. CASE reading' = reading \ Aborted BY <1>14, <2>1, <2>2
    <2>3. CASE reading' = reading BY <2>1, <2>3 DEF ReadersInv, AloneInv
    <2> QED BY <1>17, <2>2, <2>3 DEF PanelWatchdog, Settle
  <1>18. CASE UNCHANGED convVars
    BY <1>b, <1>18, PanelIs DEF convVars
  <1> QED BY <1>1, <1>2, <1>3, <1>4, <1>5, <1>6, <1>7, <1>8, <1>9, <1>10, <1>11, <1>12, <1>13,
             <1>15, <1>16, <1>17, <1>18, ConvSteps

\* Whoever waits to send in the session that was made for it has it to itself.
LEMMA ApartStep == ConvTyped /\ ApartInv /\ [ConvNext]_convVars => ApartInv'
  <1> SUFFICES ASSUME ConvTyped, ApartInv, [ConvNext]_convVars, NEW x \in PanelSend, ex'[x].pc = "created"
               PROVE  Apart(x)'
    BY DEF ApartInv, Apart
  <1>0. x \in Exchange /\ PanelSend \subseteq Exchange BY Kinds
  <1>t. ConvTyped' BY TypedStep
  <1>s. ex'[x].sid \in Session /\ ex'[x].sid # NoSession
    <2>1. ex'[x] \in Sends BY <1>0, <1>t DEF ConvTyped, ExTyped
    <2>2. ex'[x].sid \in Session \cup {NoSession} BY <2>1 DEF Sends
    <2> QED BY <1>0, <1>t, <2>2 DEF ConvTyped, SidInv, Asking
  \* Nothing new: no other send moves into its session, nor does the panel.
  <1>a. ASSUME ex'[x] = ex[x], sess' \in {sess, NoSession},
               \A y \in PanelSend \ {x} : ex'[y].pc \in Asking \cup {"created"} =>
                 ex[y].pc \in Asking \cup {"created"} /\ ex'[y].sid = ex[y].sid,
               rows'[ex[x].sid] = rows[ex[x].sid] \/ Own(rows'[ex[x].sid]) = Own(rows[ex[x].sid])
                 \/ rows'[ex[x].sid] = <<>>
        PROVE  Apart(x)'
    <2>1. Apart(x) /\ ex[x].pc = "created" BY <1>a DEF ApartInv
    <2>2. Own(rows'[ex[x].sid]) = <<>> BY <1>a, <2>1, OwnNothing DEF Apart
    <2> QED BY <1>a, <1>s, <2>1, <2>2 DEF Apart
  \* Another exchange moves on.
  <1>b. ASSUME NEW y \in Exchange, Others(y), UNCHANGED <<sess, rows>>, ex'[y].pc # "created",
               y \in PanelSend /\ ex'[y].pc \in Asking =>
                 ex[y].pc \in Asking \cup {"created"} /\ ex'[y].sid = ex[y].sid
        PROVE  Apart(x)'
    <2>1. y # x BY <1>b
    <2> QED BY <1>0, <1>a, <1>b, <2>1 DEF Others
  <1>1. ASSUME NEW s \in Session, DeleteSession(s) PROVE Apart(x)'
    <2>1. UNCHANGED <<ex, sess>> BY <1>1, Deletes, PanelIs
    <2>2. rows'[ex[x].sid] \in {rows[ex[x].sid], <<>>} BY <1>1, <1>s, <2>1, Deletes
    <2> QED BY <1>a, <2>1, <2>2
  <1>2. ASSUME NEW s \in Session, NEW y \in OtherSend, Post(y, s) PROVE Apart(x)'
    <2>1. Others(y) /\ ex'[y].pc = "ask" /\ y \in Exchange /\ UNCHANGED <<sess, rows>>
      BY <1>2, Posts, PanelIs DEF history
    <2> QED BY <1>b, <2>1, Kinds
  <1>3. ASSUME NEW b \in Backend, Select(b) PROVE Apart(x)'
    <2>1. UNCHANGED <<ex, rows>> /\ sess' = NoSession BY <1>3, Selects DEF history
    <2> QED BY <1>a, <2>1
  <1>4. ASSUME NEW y \in PanelSend, HandleSend(y), sess = NoSession PROVE Apart(x)'
    <2>1. Others(y) /\ ex'[y].pc = "create" /\ UNCHANGED <<sess, rows>>
      BY <1>4, Asks, PanelIs DEF history
    <2> QED BY <1>0, <1>b, <2>1 DEF Asking
  <1>5. ASSUME NEW y \in Exchange, (y \in PanelSend /\ HandleSend(y) /\ sess # NoSession) \/ Created(y)
        PROVE  Apart(x)'
    <2>1. PICK s \in Session :
            /\ Others(y) /\ sess' = s /\ y \in PanelSend /\ UNCHANGED history
            /\ s = sess \/ (s = ex[y].sid /\ ex[y].pc = "created")
            /\ ex'[y].pc = "ask" /\ ex'[y].sid = s
      BY <1>5, SendsIn
    <2>2. y # x /\ ex'[x] = ex[x] /\ UNCHANGED rows BY <1>0, <2>1 DEF Others, history
    <2>3. Apart(x) /\ ex[x].pc = "created" BY <2>2 DEF ApartInv
    <2>4. s # ex[x].sid BY <2>1, <2>2, <2>3 DEF Apart
    <2>5. ASSUME NEW z \in PanelSend \ {x}, ex'[z].pc \in Asking \cup {"created"} PROVE ex'[z].sid # ex[x].sid
      <3>1. CASE z = y BY <2>1, <2>4, <3>1
      <3>2. CASE z # y BY <1>0, <2>1, <2>3, <2>5, <3>2 DEF Others, Apart
      <3> QED BY <3>1, <3>2
    <2> QED BY <2>1, <2>2, <2>3, <2>4, <2>5 DEF Apart
  <1>6. ASSUME NEW y \in Exchange, CreateSession(y), ~End(y, "over") PROVE Apart(x)'
    <2>1. PICK n \in Session :
            /\ n = newest + 1 /\ rows[n] = <<>> /\ UNCHANGED <<rows, panel>>
            /\ Others(y) /\ ex'[y].pc = "created" /\ ex'[y].sid = n
      BY <1>6, Creates
    <2>2. UNCHANGED <<sess, rows>> BY <2>1, PanelIs
    <2>3. \A z \in Exchange : ex[z].sid # n
      BY <2>1, Fields DEF ConvTyped, SidInv
    <2>4. sess # n BY <2>1, Fields DEF ConvTyped, PanelTyped, SidInv
    <2>5. CASE y = x
      <3>1. \A z \in PanelSend \ {x} : ex'[z].sid # n BY <1>0, <2>1, <2>3, <2>5 DEF Others
      <3> QED BY <2>1, <2>2, <2>4, <2>5, <3>1, OwnNothing DEF Apart
    <2>6. CASE y # x
      <3>1. ex'[x] = ex[x] BY <1>0, <2>1, <2>6 DEF Others
      <3>2. Apart(x) /\ ex[x].pc = "created" BY <3>1 DEF ApartInv
      <3>3. ASSUME NEW z \in PanelSend \ {x}, ex'[z].pc \in Asking \cup {"created"} PROVE ex'[z].sid # ex[x].sid
        <4>1. CASE z = y BY <1>0, <2>1, <2>3, <4>1
        <4>2. CASE z # y BY <1>0, <2>1, <3>2, <3>3, <4>2 DEF Others, Apart
        <4> QED BY <4>1, <4>2
      <3> QED BY <2>2, <3>1, <3>2, <3>3 DEF Apart
    <2> QED BY <2>5, <2>6
  <1>7. ASSUME NEW y \in Exchange, CreateSession(y), End(y, "over") PROVE Apart(x)'
    <2>1. Others(y) /\ ex'[y].pc = "over" /\ UNCHANGED <<rows, panel>> BY <1>7, Ends DEF CreateSession
    <2> QED BY <1>b, <2>1, PanelIs DEF Asking
  <1>8. ASSUME NEW y \in Exchange, Raised(y), UNCHANGED history PROVE Apart(x)'
    BY <1>b, <1>8, Raises DEF Asking, history
  \* A message is stored: in another session, or it is not the panel's.
  <1>9. ASSUME NEW y \in Exchange, Others(y), ex[y].pc \in Asking, ex'[y].pc \notin {"created"}, UNCHANGED sess,
               y \in PanelSend /\ ex'[y].pc \in Asking => ex'[y].sid = ex[y].sid,
               NEW m, m \in {Question(y), Reply({y})}, ex[y].sid \in Session,
               rows'[ex[y].sid] = Append(rows[ex[y].sid], m),
               \A u \in Session \ {ex[y].sid} : rows'[u] = rows[u]
        PROVE  Apart(x)'
    <2>1. y # x /\ ex'[x] = ex[x] BY <1>0, <1>9 DEF Others
    <2>2. Apart(x) /\ ex[x].pc = "created" /\ ex[x].sid \in Session BY <1>s, <2>1 DEF ApartInv
    <2>3. CASE ex[y].sid # ex[x].sid BY <1>0, <1>9, <1>a, <2>1, <2>2, <2>3 DEF Others
    <2>4. CASE ex[y].sid = ex[x].sid
      <3>1. y \notin PanelSend BY <1>9, <2>1, <2>2, <2>4 DEF Apart
      <3>2. PICK q \in Seq(Message) : q = rows[ex[x].sid] BY <2>2 DEF ConvTyped, HistoryTyped
      <3>3. Own(Append(q, m)) = Own(q) BY <1>9, <3>1, OwnRows
      <3> QED BY <1>0, <1>9, <1>a, <2>1, <2>4, <3>1, <3>2, <3>3 DEF Others
    <2> QED BY <2>3, <2>4
  <1>10. ASSUME NEW y \in Exchange, StoreQuestion(y), ~Raised(y) PROVE Apart(x)'
    BY <1>9, <1>10, StoresQuestion, PanelIs DEF Asking
  <1>11. ASSUME NEW y \in Exchange, ReadContext(y), ~Raised(y) PROVE Apart(x)'
    BY <1>b, <1>11, Reads, PanelIs DEF history, Asking
  <1>12. ASSUME NEW y \in Exchange, Delta(y) PROVE Apart(x)'
    BY <1>b, <1>12, Deltas DEF history, Asking
  <1>13. ASSUME NEW y \in Exchange, ProviderEnds(y), ~Raised(y) PROVE Apart(x)'
    BY <1>b, <1>13, StreamOver DEF history, Asking
  <1>14. ASSUME NEW y \in Exchange, SaveAnswer(y), ~Raised(y) PROVE Apart(x)'
    <2>1. UNCHANGED panel /\ End(y, "over") /\ ex[y].pc = "save" BY <1>14, Saves
    <2>2. Others(y) /\ ex'[y].pc = "over" /\ UNCHANGED sess BY <2>1, Ends, PanelIs
    <2>3. CASE UNCHANGED rows BY <1>b, <2>2, <2>3 DEF Asking
    <2>4. CASE /\ ex[y].sid \in Session
               /\ rows'[ex[y].sid] = Append(rows[ex[y].sid], Reply({y}))
               /\ \A u \in Session \ {ex[y].sid} : rows'[u] = rows[u]
      BY <1>9, <2>1, <2>2, <2>4 DEF Asking
    <2> QED BY <1>14, <2>3, <2>4, Saves
  <1>15. ASSUME NEW y \in Exchange, Cancelled(y) PROVE Apart(x)'
    <2>1. UNCHANGED <<history, panel>> /\ End(y, "cancelled") BY <1>15 DEF Cancelled
    <2> QED BY <1>b, <2>1, Ends, PanelIs DEF Asking, history
  <1>16. CASE (\E y \in Exchange : StreamEnds(y) \/ Lost(y)) \/ PanelWatchdog
    <2>1. UNCHANGED <<rows, ex, sess>> BY <1>16, StopsReading DEF history
    <2> QED BY <1>a, <2>1
  <1>17. CASE UNCHANGED convVars
    <2>1. UNCHANGED <<rows, ex, sess>> BY <1>17, PanelIs DEF convVars, history
    <2> QED BY <1>a, <2>1
  <1> QED BY <1>1, <1>2, <1>3, <1>4, <1>5, <1>6, <1>7, <1>8, <1>10, <1>11, <1>12, <1>13, <1>14,
             <1>15, <1>16, <1>17, ConvSteps

\* Nothing was cut short, failed or mixed so far.
Good == ~tangled /\ \A x \in PanelSend : x \notin cut /\ ex[x].pc \notin {"failed", "cancelled"}

\* Then the send that is read has streamed what was sent, and what is shown is what is
\* stored, except that the panel has a question first and an answer last.
StreamedInv == Good =>
  \A x \in reading :
    /\ ex[x].pc \in Asking => content = IF ex[x].said > 0 THEN {x} ELSE {}
    /\ ex[x].pc \in Asking \ {"save"} => lastEvent = ex[x].said
Shows(x, own) ==
  /\ ex[x].pc = "ask" => msgs = Append(own, Question(x))
  /\ ex[x].pc \in Asking \ {"ask"} => msgs = own
  /\ ex[x].pc = "over" => Committed = own
ShownInv == Good /\ sess # NoSession /\ Live(sess) =>
  /\ reading = {} => msgs = Own(rows[sess])
  /\ \A x \in reading : Shows(x, Own(rows[sess]))

LEMMA CutShort ==
  ASSUME ConvTyped, ReadersInv, Good', NEW x \in Exchange
  PROVE  ~Lost(x) /\ (PanelWatchdog => UNCHANGED <<sess, msgs, content, lastEvent, reading>>)
         /\ (x \in PanelSend => ~Raised(x) /\ ~Cancelled(x))
  <1>1. ~Lost(x)
    <2>1. SUFFICES ASSUME Lost(x) PROVE FALSE OBVIOUS
    <2>2. x \in cut' /\ x \in PanelSend BY <2>1 DEF Lost, ConvTyped, PanelTyped
    <2> QED BY <2>2 DEF Good
  <1>2. ASSUME PanelWatchdog PROVE UNCHANGED <<sess, msgs, content, lastEvent, reading>>
    <2>1. CASE Aborted # {}
      <3>1. active \in PanelSend /\ active \in cut'
        BY <1>2, <2>1 DEF PanelWatchdog, Aborted, ConvTyped, PanelTyped
      <3> QED BY <3>1 DEF Good
    <2> QED BY <1>2, <2>1 DEF PanelWatchdog
  <1>3. ASSUME x \in PanelSend, Raised(x) PROVE FALSE BY <1>3, Raises DEF Good
  <1>4. ASSUME x \in PanelSend, Cancelled(x) PROVE FALSE
    <2>1. ex'[x].pc = "cancelled" BY <1>4, Ends DEF Cancelled
    <2> QED BY <1>4, <2>1 DEF Good
  <1> QED BY <1>1, <1>2, <1>3, <1>4

\* It has been so if it is so.
LEMMA GoodBefore ==
  ASSUME ConvTyped, [ConvNext]_convVars, Good'
  PROVE  Good
  <1>0. PanelSend \subseteq Exchange BY Kinds
  <1>a. ASSUME UNCHANGED <<tangled, cut, ex>> PROVE Good BY <1>a DEF Good
  <1>b. ASSUME NEW y \in Exchange, Others(y), cut \subseteq cut', tangled => tangled',
               y \in PanelSend => ex[y].pc \notin {"failed", "cancelled"} \/ ex'[y].pc \in {"failed", "cancelled"}
        PROVE  Good
    BY <1>0, <1>b DEF Good, Others
  <1>1. ASSUME NEW s \in Session, DeleteSession(s) PROVE Good BY <1>a, <1>1, Deletes, PanelIs
  <1>2. ASSUME NEW s \in Session, NEW x \in OtherSend, Post(x, s) PROVE Good
    BY <1>b, <1>2, Posts, PanelIs, Kinds
  <1>3. ASSUME NEW b \in Backend, Select(b) PROVE Good
    <2>1. cut' = cut /\ (tangled => tangled') /\ ex' = ex BY <1>3 DEF Select, past
    <2> QED BY <2>1 DEF Good
  <1>4. ASSUME NEW x \in PanelSend, HandleSend(x), sess = NoSession PROVE Good
    BY <1>0, <1>b, <1>4, Asks, PanelIs
  <1>5. ASSUME NEW x \in Exchange, (x \in PanelSend /\ HandleSend(x) /\ sess # NoSession) \/ Created(x)
        PROVE  Good
    <2>1. PICK s \in Session, q \in Seq(Message) :
            Send(x, s, q) /\ Others(x) /\ ex[x].pc \in {"unsent", "created"}
      BY <1>5, SendsIn
    <2> QED BY <1>b, <2>1 DEF Send
  <1>6. ASSUME NEW x \in Exchange, CreateSession(x) PROVE Good
    <2>1. ex[x].pc = "create" /\ UNCHANGED panel BY <1>6 DEF CreateSession, Stands
    <2>2. Others(x) BY <1>6, Ends, Creates
    <2> QED BY <1>b, <2>1, <2>2, PanelIs
  <1>7. ASSUME NEW x \in Exchange, Raised(x) PROVE Good
    BY <1>b, <1>7, Raises DEF past
  <1>8. ASSUME NEW x \in Exchange, StoreQuestion(x), ~Raised(x) PROVE Good
    BY <1>b, <1>8, StoresQuestion, PanelIs
  <1>9. ASSUME NEW x \in Exchange, ReadContext(x), ~Raised(x) PROVE Good
    BY <1>b, <1>9, Reads, PanelIs
  <1>10. ASSUME NEW x \in Exchange, Delta(x) PROVE Good BY <1>b, <1>10, Deltas DEF past
  <1>11. ASSUME NEW x \in Exchange, ProviderEnds(x), ~Raised(x) PROVE Good
    <2>1. Others(x) /\ UNCHANGED past /\ ex'[x].pc = "save" /\ ex[x].pc = "stream" BY <1>11, StreamOver
    <2>2. UNCHANGED <<cut, tangled>> BY <2>1 DEF past
    <2> QED BY <1>b, <2>1, <2>2
  <1>12. ASSUME NEW x \in Exchange, SaveAnswer(x), ~Raised(x) PROVE Good
    <2>1. UNCHANGED panel /\ End(x, "over") /\ ex[x].pc = "save" BY <1>12, Saves
    <2>2. Others(x) BY <2>1, Ends
    <2>3. UNCHANGED <<cut, tangled>> BY <2>1, PanelIs
    <2> QED BY <1>b, <2>1, <2>2, <2>3
  <1>13. ASSUME NEW x \in Exchange, Cancelled(x) PROVE Good
    <2>1. UNCHANGED panel /\ End(x, "cancelled") BY <1>13 DEF Cancelled
    <2> QED BY <1>b, <2>1, Ends, PanelIs
  <1>14. CASE (\E x \in Exchange : StreamEnds(x) \/ Lost(x)) \/ PanelWatchdog
    <2>1. UNCHANGED <<ex, tangled>> BY <1>14, StopsReading
    <2>2. cut \subseteq cut' BY <1>14 DEF StreamEnds, Lost, PanelWatchdog, past
    <2> QED BY <2>1, <2>2 DEF Good
  <1>15. CASE UNCHANGED convVars BY <1>a, <1>15, PanelIs DEF convVars
  <1> QED BY <1>1, <1>2, <1>3, <1>4, <1>5, <1>6, <1>7, <1>8, <1>9, <1>10, <1>11, <1>12, <1>13,
             <1>14, <1>15, ConvSteps

LEMMA StreamedStep ==
  ConvTyped /\ ReadersInv /\ AloneInv /\ StreamedInv /\ [ConvNext]_convVars => StreamedInv'
  <1> SUFFICES ASSUME ConvTyped, ReadersInv, AloneInv, StreamedInv, [ConvNext]_convVars, Good',
                      NEW x \in reading'
               PROVE  /\ ex'[x].pc \in Asking => content' = IF ex'[x].said > 0 THEN {x} ELSE {}
                      /\ ex'[x].pc \in Asking \ {"save"} => lastEvent' = ex'[x].said
    BY DEF StreamedInv
  <1> DEFINE Now == /\ ex[x].pc \in Asking => content = IF ex[x].said > 0 THEN {x} ELSE {}
                    /\ ex[x].pc \in Asking \ {"save"} => lastEvent = ex[x].said
  <1>0. Good /\ ~tangled /\ reading \subseteq PanelSend /\ PanelSend \subseteq Exchange
    BY GoodBefore, Kinds DEF Good, ConvTyped, PanelTyped
  <1>i. x \in reading => Now /\ reading = {x} BY <1>0 DEF StreamedInv, AloneInv
  <1>k. ReadersInv' /\ AloneInv' /\ ConvTyped' BY ReadersStep, TypedStep
  <1>x. x \in Exchange BY <1>0, <1>k DEF ConvTyped, PanelTyped
  <1>a. ASSUME UNCHANGED <<content, lastEvent, reading>>, ex'[x] = ex[x] PROVE Now' BY <1>i, <1>a
  \* Another exchange does something.
  <1>b. ASSUME NEW y \in Exchange, Others(y), UNCHANGED <<content, lastEvent, reading>>, y \notin reading
        PROVE  Now'
    BY <1>x, <1>a, <1>b DEF Others
  <1>c. ASSUME NEW y \in Exchange, Others(y), UNCHANGED <<content, lastEvent, reading>>,
               ex'[y].pc \in Asking => /\ ex[y].pc \in Asking /\ ex'[y].said = ex[y].said
                                       /\ ex'[y].pc # "save" => ex[y].pc # "save"
        PROVE  Now'
    <2>1. CASE y = x BY <1>i, <1>c, <2>1
    <2>2. CASE y # x BY <1>x, <1>a, <1>c, <2>2 DEF Others
    <2> QED BY <2>1, <2>2
  <1>1. ASSUME NEW s \in Session, DeleteSession(s) PROVE Now'
    BY <1>a, <1>1, Deletes, PanelIs
  <1>2. ASSUME NEW s \in Session, NEW y \in OtherSend, Post(y, s) PROVE Now'
    BY <1>0, <1>b, <1>2, Posts, PanelIs, Kinds
  <1>3. ASSUME NEW b \in Backend, Select(b) PROVE Now'
    <2>1. ex' = ex /\ reading' = reading /\ ~tangled' BY <1>3 DEF Select, view, Good
    <2>2. sess = NoSession BY <1>3, <2>1 DEF Select
    <2> QED BY <1>3, <1>a, <2>1, <2>2 DEF Select, view
  <1>4. ASSUME NEW y \in PanelSend, HandleSend(y), sess = NoSession PROVE Now'
    BY <1>0, <1>c, <1>4, Asks, PanelIs DEF Asking
  <1>5. ASSUME NEW y \in Exchange, (y \in PanelSend /\ HandleSend(y) /\ sess # NoSession) \/ Created(y)
        PROVE  Now'
    <2>1. PICK s \in Session, q \in Seq(Message) : Send(y, s, q) /\ ex'[y].pc = "ask" /\ ex'[y].said = 0
      BY <1>5, SendsIn
    <2>2. reading = {} /\ reading' = {y} /\ content' = {} /\ lastEvent' = 0
      BY <2>1 DEF Send, Good
    <2> QED BY <2>1, <2>2
  <1>6. ASSUME NEW y \in Exchange, CreateSession(y) PROVE Now'
    <2>1. Others(y) /\ ex'[y].pc \in {"over", "created"} BY <1>6, Ends, Creates
    <2>2. UNCHANGED panel BY <1>6 DEF CreateSession
    <2> QED BY <1>c, <2>1, <2>2, PanelIs DEF Asking
  <1>7. ASSUME NEW y \in Exchange, Raised(y) PROVE Now'
    <2>1. y \notin reading BY <1>0, <1>7, CutShort
    <2>2. UNCHANGED <<content, lastEvent, reading>> BY <1>7, <2>1, DispatchKeeps DEF Raised, view
    <2> QED BY <1>7, <1>b, <2>1, <2>2, Raises
  <1>8. ASSUME NEW y \in Exchange, StoreQuestion(y), ~Raised(y) PROVE Now'
    BY <1>8, <1>c, StoresQuestion, PanelIs DEF Asking
  <1>9. ASSUME NEW y \in Exchange, ReadContext(y), ~Raised(y) PROVE Now'
    BY <1>9, <1>c, Reads, PanelIs DEF Asking
  <1>10. ASSUME NEW y \in Exchange, Delta(y) PROVE Now'
    <2>1. /\ Others(y) /\ ex[y].pc = "stream" /\ ex'[y].pc = "stream" /\ ex'[y].said = ex[y].said + 1
          /\ Dispatch(y, ex[y].said + 1, FALSE)
      BY <1>10, Deltas DEF Delta
    <2>2. CASE y \notin reading BY <1>b, <2>1, <2>2, DispatchKeeps DEF view
    <2>3. CASE y \in reading
      <3>1. reading' = reading /\ y = x /\ x \in reading BY <1>0, <1>i, <2>1, <2>3, DispatchKeeps DEF AloneInv
      <3>2. PICK k \in Nat : k = ex[y].said BY Fields
      <3>3. content = (IF k > 0 THEN {x} ELSE {}) /\ lastEvent = k BY <1>i, <2>1, <3>1, <3>2 DEF Asking
      <3>4. content' = content \cup {x} /\ lastEvent' = k + 1
        BY <2>1, <2>3, <3>1, <3>2, <3>3 DEF Dispatch
      <3>5. content' = {x} /\ k + 1 > 0 BY <3>2, <3>3, <3>4
      <3> QED BY <2>1, <3>1, <3>2, <3>4, <3>5
    <2> QED BY <2>2, <2>3
  <1>11. ASSUME NEW y \in Exchange, ProviderEnds(y), ~Raised(y) PROVE Now'
    <2>1. /\ Others(y) /\ ex[y].pc = "stream" /\ ex'[y].pc = "save" /\ ex'[y].said = ex[y].said
          /\ Dispatch(y, ex[y].said + 1, TRUE)
      BY <1>11, StreamOver
    <2>2. CASE y \notin reading BY <1>b, <2>1, <2>2, DispatchKeeps DEF view
    <2>3. CASE y \in reading
      <3>1. reading' = reading /\ y = x /\ x \in reading BY <1>0, <1>i, <2>1, <2>3, DispatchKeeps DEF AloneInv
      <3>2. content' = content BY <2>1 DEF Dispatch, view
      <3> QED BY <1>i, <2>1, <3>1, <3>2 DEF Asking
    <2> QED BY <2>2, <2>3
  <1>12. ASSUME NEW y \in Exchange, SaveAnswer(y), ~Raised(y) PROVE Now'
    <2>1. UNCHANGED panel /\ End(y, "over") BY <1>12, Saves
    <2> QED BY <1>c, <2>1, Ends, PanelIs DEF Asking
  <1>13. ASSUME NEW y \in Exchange, Cancelled(y) PROVE Now'
    <2>1. UNCHANGED panel /\ End(y, "cancelled") BY <1>13 DEF Cancelled
    <2> QED BY <1>c, <2>1, Ends, PanelIs DEF Asking
  <1>14. ASSUME NEW y \in Exchange, StreamEnds(y) PROVE Now'
    <2>1. y \in reading /\ reading' = reading \ {y} BY <1>14 DEF StreamEnds, Settle
    <2>2. reading = {y} BY <1>0, <2>1 DEF AloneInv
    <2> QED BY <2>1, <2>2
  <1>15. ASSUME NEW y \in Exchange, Lost(y) PROVE Now' BY <1>15, CutShort
  <1>16. CASE PanelWatchdog
    <2>1. UNCHANGED <<content, lastEvent, reading>> BY <1>x, <1>16, CutShort
    <2>2. UNCHANGED ex BY <1>16, StopsReading
    <2> QED BY <1>a, <2>1, <2>2
  <1>17. CASE UNCHANGED convVars BY <1>17, <1>a, PanelIs DEF convVars
  <1> QED BY <1>1, <1>2, <1>3, <1>4, <1>5, <1>6, <1>7, <1>8, <1>9, <1>10, <1>11, <1>12, <1>13,
             <1>14, <1>15, <1>16, <1>17, ConvSteps

LEMMA ShownStep ==
  /\ ConvTyped /\ ReadersInv /\ AloneInv /\ ApartInv /\ StreamedInv /\ ShownInv /\ [ConvNext]_convVars
  => ShownInv'
  <1> SUFFICES ASSUME ConvTyped, ReadersInv, AloneInv, ApartInv, StreamedInv, ShownInv, [ConvNext]_convVars,
                      Good', sess' # NoSession, Live(sess)'
               PROVE  /\ reading' = {} => msgs' = Own(rows'[sess'])
                      /\ \A x \in reading' : Shows(x, Own(rows[sess]))'
    BY DEF ShownInv
  <1> DEFINE Goal == /\ reading' = {} => msgs' = Own(rows'[sess'])
                     /\ \A x \in reading' : Shows(x, Own(rows[sess]))'
  <1>0. Good /\ ~tangled /\ ~tangled' /\ reading \subseteq PanelSend /\ PanelSend \subseteq Exchange
    BY GoodBefore, Kinds DEF Good, ConvTyped, PanelTyped
  <1>i. sess # NoSession /\ Live(sess) => /\ reading = {} => msgs = Own(rows[sess])
                                          /\ \A x \in reading : Shows(x, Own(rows[sess]))
    BY <1>0 DEF ShownInv
  <1>n. sess # NoSession => sess \in Session /\ sess <= newest
    BY DEF ConvTyped, PanelTyped, SidInv
  \* An exchange moves on that is not read, or whose messages are shown by then.
  <1>a. ASSUME UNCHANGED <<msgs, reading, sess, content>>, Live(sess), Own(rows'[sess]) = Own(rows[sess]),
               \A x \in reading : ex'[x].pc = ex[x].pc
        PROVE  Goal
    <2>1. Committed' = Committed BY <1>a DEF Committed
    <2> QED BY <1>i, <1>a, <2>1 DEF Shows
  <1>b. ASSUME NEW y \in Exchange, Others(y), y \notin reading, UNCHANGED <<msgs, reading, sess, content>>,
               Live(sess), Own(rows'[sess]) = Own(rows[sess])
        PROVE  Goal
    <2>1. \A x \in reading : ex'[x].pc = ex[x].pc BY <1>0, <1>b DEF Others
    <2> QED BY <1>a, <1>b, <2>1
  <1>c. ASSUME NEW y \in Exchange, Others(y), UNCHANGED <<msgs, reading, sess>>, Live(sess),
               Own(rows'[sess]) = Own(rows[sess]), y \in reading,
               ex[y].pc \in Asking \ {"ask"}, ex'[y].pc \in Asking \ {"ask"}
        PROVE  Goal
    <2>1. reading = {y} BY <1>0, <1>c DEF AloneInv
    <2>2. msgs' = Own(rows'[sess']) BY <1>i, <1>c DEF Shows
    <2> QED BY <1>c, <2>1, <2>2 DEF Shows, Asking
  \* A message that is not the panel's.
  <1>o. ASSUME NEW y \in OtherSend, NEW m, m \in {Question(y), Reply({y})}, ex[y].sid \in Session,
               rows'[ex[y].sid] = Append(rows[ex[y].sid], m), sess \in Session,
               \A u \in Session \ {ex[y].sid} : rows'[u] = rows[u]
        PROVE  Own(rows'[sess]) = Own(rows[sess])
    <2>1. CASE ex[y].sid # sess BY <1>o, <2>1
    <2>2. CASE ex[y].sid = sess
      <3>1. PICK q \in Seq(Message) : q = rows[sess] BY <1>o DEF ConvTyped, HistoryTyped
      <3>2. y \notin PanelSend /\ y \in Exchange BY Kinds
      <3>3. rows'[sess] = Append(q, m) BY <1>o, <2>2, <3>1
      <3>4. Own(Append(q, m)) = Own(q) BY <1>o, <3>2, OwnRows
      <3> QED BY <3>1, <3>3, <3>4
    <2> QED BY <2>1, <2>2
  \* A send of the panel that is at work is read, in its session.
  <1>p. ASSUME NEW y \in PanelSend, ex[y].pc \in Asking PROVE reading = {y} /\ ex[y].sid = sess
    BY <1>0, <1>p DEF ReadersInv, AloneInv, Good
  <1>q. \A y \in Exchange : y \notin PanelSend => y \in OtherSend /\ y \notin reading
    BY <1>0 DEF Exchange
  <1>1. ASSUME NEW s \in Session, DeleteSession(s) PROVE Goal
    <2>1. /\ UNCHANGED <<ex, msgs, reading, sess, content>> /\ table'[s] = Nothing
          /\ \A u \in Session \ {s} : table'[u] = table[u] /\ rows'[u] = rows[u]
      BY <1>1, Deletes, PanelIs
    <2>2. s # sess BY <2>1 DEF Live
    <2> QED BY <1>a, <1>n, <2>1, <2>2 DEF Live
  <1>2. ASSUME NEW s \in Session, NEW y \in OtherSend, Post(y, s) PROVE Goal
    <2>1. Others(y) /\ y \in Exchange /\ y \notin reading /\ UNCHANGED <<history, panel>>
      BY <1>0, <1>2, Posts, Kinds
    <2> QED BY <1>b, <2>1, PanelIs DEF history, Live
  <1>3. ASSUME NEW b \in Backend, Select(b) PROVE Goal BY <1>3, Selects
  <1>4. ASSUME NEW y \in PanelSend, HandleSend(y), sess = NoSession PROVE Goal
    BY <1>4, Asks, PanelIs
  <1>5. ASSUME NEW y \in Exchange, (y \in PanelSend /\ HandleSend(y) /\ sess # NoSession) \/ Created(y)
        PROVE  Goal
    <2>1. PICK s \in Session, q \in Seq(Message) :
            /\ Send(y, s, q) /\ sess' = s /\ s # NoSession /\ UNCHANGED history /\ y \in PanelSend
            /\ \/ s = sess /\ q = msgs
               \/ s = ex[y].sid /\ q = <<>> /\ ex[y].pc = "created"
            /\ ex'[y].pc = "ask"
      BY <1>5, SendsIn
    <2>2. reading = {} /\ reading' = {y} /\ msgs' = Append(q, Question(y)) BY <1>0, <2>1 DEF Send
    <2>3. UNCHANGED <<table, rows>> BY <2>1 DEF history
    <2>4. q = Own(rows[s])
      <3>1. CASE s = sess /\ q = msgs
        <4>1. Live(sess) BY <2>1, <2>3, <3>1 DEF Live
        <4> QED BY <1>i, <2>1, <2>2, <3>1, <4>1
      <3>2. CASE s = ex[y].sid /\ q = <<>> /\ ex[y].pc = "created"
        BY <2>1, <3>2 DEF ApartInv, Apart
      <3> QED BY <2>1, <3>1, <3>2
    <2> QED BY <2>1, <2>2, <2>3, <2>4 DEF Shows, Asking
  <1>6. ASSUME NEW y \in Exchange, CreateSession(y), ~End(y, "over") PROVE Goal
    <2>1. PICK n \in Session :
            /\ n = newest + 1 /\ table' = [table EXCEPT ![n] = ex[y].acct] /\ UNCHANGED <<rows, panel>>
            /\ Others(y) /\ ex[y].pc = "create"
      BY <1>6, Creates
    <2>2. y \notin reading BY <2>1 DEF ReadersInv, Asking
    <2>3. UNCHANGED <<msgs, reading, sess, content>> BY <2>1, PanelIs
    <2>4. sess # n BY <1>n, <2>1, <2>3, Fields
    <2>5. Live(sess) BY <1>n, <2>1, <2>3, <2>4 DEF Live, ConvTyped, HistoryTyped
    <2> QED BY <1>b, <2>1, <2>2, <2>3, <2>5
  <1>7. ASSUME NEW y \in Exchange, CreateSession(y), End(y, "over") PROVE Goal
    <2>1. ex[y].pc = "create" /\ UNCHANGED panel /\ Others(y) BY <1>7, Ends DEF CreateSession, Stands
    <2>2. y \notin reading BY <2>1 DEF ReadersInv, Asking
    <2>3. UNCHANGED <<table, rows>>
      <3>1. CASE ex' = [ex EXCEPT ![y].pc = "created", ![y].sid = newest']
        <4>1. ex'[y].pc = "created" BY <3>1 DEF ConvTyped, ExTyped, Sends
        <4>2. ex'[y].pc = "over" BY <1>7, Ends
        <4> QED BY <4>1, <4>2
      <3> QED BY <1>7, <3>1 DEF CreateSession
    <2> QED BY <1>b, <2>1, <2>2, <2>3, PanelIs DEF Live
  <1>8. ASSUME NEW y \in Exchange, Raised(y), UNCHANGED history PROVE Goal
    <2>1. y \notin reading BY <1>0, <1>8, CutShort
    <2>2. UNCHANGED <<msgs, reading, sess, content>> BY <1>8, <2>1, DispatchKeeps DEF Raised, view
    <2> QED BY <1>8, <1>b, <2>1, <2>2, Raises DEF history, Live
  <1>9. ASSUME NEW y \in Exchange, StoreQuestion(y), ~Raised(y) PROVE Goal
    <2>1. /\ Others(y) /\ ex[y].pc = "ask" /\ ex'[y].pc = "context" /\ UNCHANGED <<table, panel>>
          /\ ex[y].sid \in Session /\ rows'[ex[y].sid] = Append(rows[ex[y].sid], Question(y))
          /\ \A u \in Session \ {ex[y].sid} : rows'[u] = rows[u]
      BY <1>9, StoresQuestion
    <2>2. UNCHANGED <<msgs, reading, sess, content>> BY <2>1, PanelIs
    <2>3. Live(sess) /\ sess # NoSession /\ sess \in Session BY <1>n, <2>1, <2>2 DEF Live
    <2>4. CASE y \in PanelSend
      <3>1. reading = {y} /\ ex[y].sid = sess BY <1>p, <2>1, <2>4 DEF Asking
      <3>2. msgs = Append(Own(rows[sess]), Question(y)) BY <1>i, <2>1, <2>3, <3>1 DEF Shows
      <3>3. PICK q \in Seq(Message) : q = rows[sess] BY <2>3 DEF ConvTyped, HistoryTyped
      <3>4. Own(Append(q, Question(y))) = Append(Own(q), Question(y)) BY <2>4, <3>3, OwnRows
      <3>5. msgs' = Own(rows'[sess']) BY <2>1, <2>2, <3>1, <3>2, <3>3, <3>4
      <3> QED BY <2>1, <2>2, <3>1, <3>5 DEF Shows, Asking
    <2>5. CASE y \notin PanelSend BY <1>b, <1>o, <1>q, <2>1, <2>2, <2>3, <2>5
    <2> QED BY <2>4, <2>5
  <1>10. ASSUME NEW y \in Exchange, Others(y), UNCHANGED <<history, sess, msgs, reading>>,
                ex[y].pc \in Asking \ {"ask"}, ex'[y].pc \in Asking \ {"ask"},
                y \notin reading => UNCHANGED content
         PROVE  Goal
    <2>1. Live(sess) /\ Own(rows'[sess]) = Own(rows[sess]) BY <1>10 DEF history, Live
    <2>2. CASE y \in reading BY <1>10, <1>c, <2>1, <2>2
    <2>3. CASE y \notin reading BY <1>10, <1>b, <2>1, <2>3
    <2> QED BY <2>2, <2>3
  <1>11. ASSUME NEW y \in Exchange, ReadContext(y), ~Raised(y) PROVE Goal
    BY <1>10, <1>11, Reads, PanelIs DEF Asking
  <1>12. ASSUME NEW y \in Exchange, Delta(y) PROVE Goal
    <2>1. UNCHANGED <<sess, msgs, reading>> /\ (y \notin reading => UNCHANGED content)
      BY <1>12, DispatchKeeps DEF Delta, view
    <2> QED BY <1>10, <1>12, <2>1, Deltas DEF Asking
  <1>13. ASSUME NEW y \in Exchange, ProviderEnds(y), ~Raised(y) PROVE Goal
    <2>1. UNCHANGED <<sess, msgs, reading>> /\ (y \notin reading => UNCHANGED content)
      BY <1>13, StreamOver, DispatchKeeps DEF view
    <2> QED BY <1>10, <1>13, <2>1, StreamOver DEF Asking
  <1>14. ASSUME NEW y \in Exchange, SaveAnswer(y), ~Raised(y) PROVE Goal
    <2>1. /\ UNCHANGED <<table, panel>> /\ End(y, "over") /\ ex[y].pc = "save"
          /\ \/ ex[y].said = 0 /\ UNCHANGED rows
             \/ /\ ex[y].said > 0 /\ ex[y].sid \in Session
                /\ rows'[ex[y].sid] = Append(rows[ex[y].sid], Reply({y}))
                /\ \A u \in Session \ {ex[y].sid} : rows'[u] = rows[u]
      BY <1>14, Saves
    <2>2. Others(y) /\ ex'[y].pc = "over" /\ UNCHANGED <<msgs, reading, sess, content>>
      BY <2>1, Ends, PanelIs
    <2>3. Live(sess) /\ sess # NoSession /\ sess \in Session BY <1>n, <2>1, <2>2 DEF Live
    <2>4. CASE y \in PanelSend
      <3>1. reading = {y} /\ ex[y].sid = sess BY <1>p, <2>1, <2>4 DEF Asking
      <3>2. msgs = Own(rows[sess]) BY <1>i, <2>1, <2>3, <3>1 DEF Shows, Asking
      <3>3. content = IF ex[y].said > 0 THEN {y} ELSE {} BY <1>0, <2>1, <3>1 DEF StreamedInv, Asking
      <3>4. PICK q \in Seq(Message) : q = rows[sess] BY <2>3 DEF ConvTyped, HistoryTyped
      <3>5. Own(Append(q, Reply({y}))) = Append(Own(q), Reply({y})) BY <2>4, <3>4, OwnRows
      <3>6. CASE ex[y].said = 0 /\ UNCHANGED rows
        <4>1. content = {} BY <3>3, <3>6
        <4>2. Committed' = Own(rows'[sess']) BY <2>2, <3>2, <3>6, <4>1 DEF Committed
        <4> QED BY <2>2, <3>1, <4>2 DEF Shows, Asking
      <3>7. CASE ex[y].said > 0 /\ rows'[ex[y].sid] = Append(rows[ex[y].sid], Reply({y}))
        <4>1. content = {y} BY <3>3, <3>7
        <4>2. Committed' = Own(rows'[sess']) BY <2>2, <3>1, <3>2, <3>4, <3>5, <3>7, <4>1 DEF Committed
        <4> QED BY <2>2, <3>1, <4>2 DEF Shows, Asking
      <3> QED BY <2>1, <3>6, <3>7
    <2>5. CASE y \notin PanelSend
      <3>1. Own(rows'[sess]) = Own(rows[sess]) BY <1>o, <1>q, <2>1, <2>3, <2>5
      <3> QED BY <1>b, <1>q, <2>2, <2>3, <2>5, <3>1
    <2> QED BY <2>4, <2>5
  <1>15. ASSUME NEW y \in Exchange, Cancelled(y) PROVE Goal
    <2>1. UNCHANGED <<history, panel>> /\ End(y, "cancelled") /\ y \notin reading BY <1>15 DEF Cancelled
    <2> QED BY <1>b, <2>1, Ends, PanelIs DEF history, Live
  <1>16. ASSUME NEW y \in Exchange, StreamEnds(y) PROVE Goal
    <2>1. /\ y \in reading /\ reading' = reading \ {y} /\ msgs' = Committed
          /\ ex[y].pc \in {"over", "failed"} /\ UNCHANGED <<sess, history>>
      BY <1>16 DEF StreamEnds, Settle
    <2>2. reading = {y} /\ y \in PanelSend BY <1>0, <2>1 DEF AloneInv
    <2>3. ex[y].pc = "over" /\ Live(sess) BY <1>0, <2>1, <2>2 DEF Good, history, Live
    <2>4. Committed = Own(rows[sess]) BY <1>i, <2>1, <2>3 DEF Shows
    <2> QED BY <2>1, <2>2, <2>4 DEF history
  <1>17. ASSUME NEW y \in Exchange, Lost(y) PROVE Goal BY <1>17, CutShort
  <1>18. CASE PanelWatchdog
    <2>1. UNCHANGED <<history, ex, sess>> BY <1>18, StopsReading
    <2>2. CASE Exchange = {}
      <3>1. reading = {} /\ active = Nothing BY <1>0, <2>2 DEF ConvTyped, PanelTyped
      <3>2. UNCHANGED <<msgs, reading, content>> BY <1>18, <3>1 DEF PanelWatchdog, Aborted
      <3> QED BY <1>a, <2>1, <3>2 DEF history, Live
    <2>3. CASE Exchange # {}
      <3>1. UNCHANGED <<msgs, reading, content>> BY <1>18, <2>3, CutShort
      <3> QED BY <1>a, <2>1, <3>1 DEF history, Live
    <2> QED BY <2>2, <2>3
  <1>19. CASE UNCHANGED convVars
    <2>1. UNCHANGED <<history, ex, msgs, reading, sess, content>> BY <1>19, PanelIs DEF convVars
    <2> QED BY <1>a, <2>1 DEF history, Live
  <1> QED BY <1>1, <1>2, <1>3, <1>4, <1>5, <1>6, <1>7, <1>8, <1>9, <1>11, <1>12, <1>13, <1>14,
             <1>15, <1>16, <1>17, <1>18, <1>19, ConvSteps

LEMMA ShownTrue == ShownInv => ShownIsStored
  BY DEF ShownInv, ShownIsStored, Good

-----------------------------------------------------------------------------
\* The types of both, which need bounds: no event has a number beyond the last one's.

Few(S) == \A x \in S : x.ev.n <= MaxEvents
Bounded ==
  /\ armed \in [Client -> BOOLEAN] /\ Few(Elems(log))
  /\ \A s \in Stream : st[s].made <= MaxEvents /\ st[s].sent <= st[s].made /\ Few(st[s].todo)
  /\ \A c \in Client : \A e \in Elems(got[c]) : e.n <= MaxEvents

LEMMA RingKeeps ==
  ASSUME NEW q \in Seq(Item), NEW x \in Item
  PROVE  Elems(Retain(Append(q, x))) \subseteq Elems(q) \cup {x}
  <1>1. PICK r : r = Append(q, x) OBVIOUS
  <1>2. r \in Seq(Item) /\ Len(r) > 0 BY <1>1
  <1>3. Elems(r) = Elems(q) \cup {x} BY <1>1, AppendFacts
  <1>4. Elems(Tail(r)) \subseteq Elems(r) BY <1>2, TailFacts
  <1> QED BY <1>1, <1>3, <1>4 DEF Retain

\* A step that tells nobody anything: the log is the same or empty, and one request, if any,
\* goes on with what its bounds allow.
LEMMA BoundedQuietly ==
  ASSUME IInv, Bounded, armed' \in [Client -> BOOLEAN], log' = log \/ log' = <<>>,
         \A c \in Client : got'[c] = got[c] \/ got'[c] = <<>>,
         \A s \in Stream : \/ st'[s] = st[s]
                           \/ st'[s].made <= MaxEvents /\ st'[s].sent <= st'[s].made /\ Few(st'[s].todo)
  PROVE  Bounded'
  <1>1. Few(Elems(log')) BY NothingThere DEF Bounded, Few
  <1>2. \A c \in Client : \A e \in Elems(got'[c]) : e.n <= MaxEvents BY NothingThere DEF Bounded
  <1> QED BY <1>1, <1>2 DEF Bounded, Few

LEMMA NothingMade ==
  /\ \A c, n : Request(c, n).made = 0 /\ Request(c, n).sent = 0 /\ Request(c, n).todo = {}
  /\ Over.made = 0 /\ Over.sent = 0 /\ Over.todo = {}
  /\ Unused.made = 0 /\ Unused.sent = 0 /\ Unused.todo = {}
  /\ [Over EXCEPT !.pc = "closing"].made = 0 /\ [Over EXCEPT !.pc = "closing"].sent = 0
  /\ [Over EXCEPT !.pc = "closing"].todo = {}
  /\ 0 <= MaxEvents /\ 0 <= 0 /\ Few({})
  BY MaxEventsAssumption DEF Request, Over, Unused, Few

\* An event is told: pushed before, or from the log.
LEMMA BoundedTold ==
  ASSUME IInv, Bounded, NEW s \in Stream, NEW e \in ChatEv, e.n <= MaxEvents,
         NEW n \in Nat \cup {-1}, Deliver(s, e, n),
         NEW r, Become(s, r), r.made <= MaxEvents, r.sent <= r.made, Few(r.todo), Few(Elems(log'))
  PROVE  Bounded'
  <1>1. ClientTyped /\ StTyped BY TypedParts
  <1>2. ASSUME NEW c \in Client PROVE \A a \in Elems(got'[c]) : a.n <= MaxEvents
    <2>1. CASE got'[c] = got[c] BY <2>1 DEF Bounded
    <2>2. CASE got'[c] = Append(got[c], e)
      <3>1. got[c] \in Seq(ChatEv) BY <1>1 DEF ClientTyped
      <3>2. Elems(got'[c]) = Elems(got[c]) \cup {e} BY <2>2, <3>1, AppendFacts
      <3> QED BY <3>2 DEF Bounded
    <2> QED BY <1>1, <2>1, <2>2, DeliverFacts
  <1>3. armed' \in [Client -> BOOLEAN]
    <2>1. CASE armed' = armed BY <2>1 DEF Bounded
    <2>2. CASE \E c \in Client : armed' = [armed EXCEPT ![c] = ArmedBy(e)]
      <3>1. ArmedBy(e) \in BOOLEAN BY DEF ArmedBy
      <3> QED BY <2>2, <3>1 DEF Bounded
    <2>3. Reading(s) => st[s].who \in Client BY <1>1, DeliverFacts
    <2> QED BY <2>1, <2>2, <2>3 DEF Deliver, clientVars
  <1>4. \A u \in Stream : st'[u] = st[u] \/ st'[u] = r BY <1>1 DEF StTyped, Become
  <1> QED BY <1>2, <1>3, <1>4 DEF Bounded

LEMMA BoundedStep == IInv /\ Bounded /\ [Next]_vars => Bounded'
  <1> SUFFICES ASSUME IInv, Bounded, [Next]_vars PROVE Bounded' OBVIOUS
  <1>0. /\ LogTyped /\ StTyped /\ ClientTyped /\ armed \in [Client -> BOOLEAN] /\ MaxEvents \in Nat
        /\ \A s \in Stream : /\ st[s] \in Requests /\ st[s].made \in Nat /\ st[s].sent \in Nat
                             /\ st[s].made <= MaxEvents /\ st[s].sent <= st[s].made /\ Few(st[s].todo)
    BY TypedParts, MaxEventsAssumption DEF Bounded, StTyped, Requests
  <1>a. ASSUME NEW s \in Stream, NEW r, Become(s, r), r.made <= MaxEvents, r.sent <= r.made, Few(r.todo),
               armed' \in [Client -> BOOLEAN], log' = log \/ log' = <<>>,
               \A c \in Client : got'[c] = got[c] \/ got'[c] = <<>>
        PROVE  Bounded'
    <2>1. \A u \in Stream : st'[u] = st[u] \/ st'[u] = r BY <1>0, <1>a DEF StTyped, Become
    <2> QED BY <1>a, <2>1, BoundedQuietly
  <1>1. ASSUME NEW s \in Stream, NEW c \in Client, OpenFresh(s, c) PROVE Bounded'
    <2>1. armed' \in [Client -> BOOLEAN] /\ log' = <<>> /\ Become(s, Request(c, 0))
      BY <1>0, <1>1 DEF OpenFresh, Connect, InitSession
    <2>2. \A d \in Client : got'[d] = got[d] \/ got'[d] = <<>>
      BY <1>0, <1>1 DEF OpenFresh, ClientTyped
    <2> QED BY <1>a, <2>1, <2>2, NothingMade
  <1>2. ASSUME NEW s \in Stream, NEW c \in Client, Reopen(s, c) PROVE Bounded'
    <2>1. armed' \in [Client -> BOOLEAN] /\ got' = got /\ last[c] \in Nat
      BY <1>0, <1>2 DEF Reopen, Connect, ClientTyped
    <2>2. CASE Become(s, Request(c, last[c])) /\ Seed(last[c])
      <3>1. log' = log \/ log' = <<>> BY <2>2 DEF Seed, InitSession, logVars
      <3> QED BY <1>a, <2>1, <2>2, <3>1, NothingMade
    <2>3. CASE UNCHANGED logVars /\ Become(s, [Request(c, last[c]) EXCEPT !.pc = "replay", !.todo = Replayed(last[c])])
      <3>1. PICK r : r = [Request(c, last[c]) EXCEPT !.pc = "replay", !.todo = Replayed(last[c])] OBVIOUS
      <3>2. r.made = 0 /\ r.sent = 0 /\ r.todo = Replayed(last[c]) BY <3>1 DEF Request
      <3>3. Few(r.todo) BY <1>0, <2>1, <3>2, ReplayFacts DEF IInv, Bounded, Few
      <3>4. r.made <= MaxEvents /\ r.sent <= r.made BY <3>2, NothingMade
      <3> QED BY <1>a, <2>1, <2>3, <3>1, <3>3, <3>4 DEF logVars
    <2> QED BY <1>2, <2>2, <2>3 DEF Reopen
  <1>3. ASSUME NEW s \in Stream, NEW x \in st[s].todo, ReplayEvent(s, x) PROVE Bounded'
    <2>1. x \in Item /\ x.ev \in ChatEv /\ x.seq \in Nat /\ x.ev.n <= MaxEvents
      <3>1. x \in Item BY <1>0 DEF Requests
      <3> QED BY <1>0, <3>1 DEF Item, Few
    <2>2. PICK r : r = [st[s] EXCEPT !.todo = @ \ {x}] OBVIOUS
    <2>3. r.made = st[s].made /\ r.sent = st[s].sent /\ r.todo \subseteq st[s].todo
      BY <1>0, <2>2 DEF Requests
    <2>4. Few(r.todo) BY <1>0, <2>3 DEF Few
    <2>5. Become(s, r) /\ Deliver(s, x.ev, x.seq) /\ log' = log BY <1>3, <2>2 DEF ReplayEvent, logVars
    <2>6. Few(Elems(log')) BY <2>5 DEF Bounded
    <2> QED BY <1>0, <2>1, <2>3, <2>4, <2>5, <2>6, BoundedTold
  \* What leaves numbers and the replay alone.
  <1>b. ASSUME NEW s \in Stream, NEW r, Become(s, r), r.made = st[s].made, r.sent = st[s].sent,
               r.todo = st[s].todo, log' = log \/ log' = <<>>, UNCHANGED clientVars
        PROVE  Bounded'
    BY <1>0, <1>a, <1>b DEF clientVars
  <1>4. ASSUME NEW s \in Stream, GoLive(s) PROVE Bounded'
    <2>1. PICK r : r = [st[s] EXCEPT !.pc = "live"] OBVIOUS
    <2>2. r.made = st[s].made /\ r.sent = st[s].sent /\ r.todo = st[s].todo BY <1>0, <2>1 DEF Requests
    <2>3. log' = log \/ log' = <<>> BY <1>4 DEF GoLive, Seed, InitSession, logVars
    <2> QED BY <1>4, <1>b, <2>1, <2>2, <2>3 DEF GoLive
  <1>5. ASSUME NEW s \in Stream, NEW how, Finish(s, how) PROVE Bounded'
    <2>1. PICK r : r = [st[s] EXCEPT !.fin = how] OBVIOUS
    <2>2. r.made = st[s].made /\ r.sent = st[s].sent /\ r.todo = st[s].todo BY <1>0, <2>1 DEF Requests
    <2> QED BY <1>5, <1>b, <2>1, <2>2 DEF Finish, logVars
  <1>6. ASSUME NEW s \in Stream, Produce(s) PROVE Bounded'
    <2>1. PICK r : r = [st[s] EXCEPT !.made = @ + 1] OBVIOUS
    <2>2. r.made = st[s].made + 1 /\ r.sent = st[s].sent /\ r.todo = st[s].todo BY <1>0, <2>1 DEF Requests
    <2>3. r.made <= MaxEvents /\ r.sent <= r.made BY <1>0, <1>6, <2>2 DEF Produce
    <2>4. Become(s, r) /\ UNCHANGED <<logVars, clientVars>> BY <1>6, <2>1 DEF Produce
    <2> QED BY <1>0, <1>a, <2>2, <2>3, <2>4 DEF logVars, clientVars
  \* What is pushed has a number within the bound.
  <1>c. ASSUME NEW e \in ChatEv, e.n <= MaxEvents, Push(e)
        PROVE  Few(Elems(log')) /\ PushAnswer \in Nat \cup {-1}
    <2>1. CASE UNCHANGED logVars BY <1>0, <2>1 DEF Bounded, logVars, PushAnswer, LogTyped
    <2>2. CASE known /\ log' = Retain(Append(log, Tagged(e, seq + 1)))
      <3>1. PICK x : x = Tagged(e, seq + 1) OBVIOUS
      <3>2. x \in Item /\ x.ev = e BY <1>0, <1>c, <3>1 DEF Tagged, Item, LogTyped
      <3>3. Elems(log') \subseteq Elems(log) \cup {x} BY <1>0, <2>2, <3>1, <3>2, RingKeeps DEF LogTyped
      <3> QED BY <1>0, <1>c, <2>2, <3>1, <3>2, <3>3 DEF Bounded, Few, PushAnswer, LogTyped
    <2> QED BY <1>c, <2>1, <2>2 DEF Push
  <1>7. ASSUME NEW s \in Stream, Emit(s) PROVE Bounded'
    <2>0. PICK e : e = Ev(s, st[s].sent + 1) OBVIOUS
    <2>1. e \in ChatEv /\ e = Ev(s, st[s].sent + 1) /\ e.n = st[s].sent + 1 BY <1>0, <2>0 DEF Ev, ChatEv
    <2>2. PICK r : r = [st[s] EXCEPT !.sent = @ + 1] OBVIOUS
    <2>3. r.made = st[s].made /\ r.sent = st[s].sent + 1 /\ r.todo = st[s].todo BY <1>0, <2>2 DEF Requests
    <2>4. Push(e) /\ Deliver(s, e, PushAnswer) /\ Become(s, r) /\ st[s].sent < st[s].made
      BY <1>7, <2>1, <2>2 DEF Emit
    <2>5. e.n <= MaxEvents /\ r.sent <= r.made BY <1>0, <2>1, <2>3, <2>4
    <2>6. Few(Elems(log')) /\ PushAnswer \in Nat \cup {-1} BY <1>c, <2>1, <2>4, <2>5
    <2> QED BY <1>0, <2>1, <2>3, <2>4, <2>5, <2>6, BoundedTold
  <1>8. ASSUME NEW s \in Stream, EmitError(s) PROVE Bounded'
    <2>0. PICK e : e = Ev(s, 0) OBVIOUS
    <2>1. e \in ChatEv /\ e = Ev(s, 0) /\ e.n = 0 BY <2>0 DEF Ev, ChatEv
    <2>2. PICK r : r = [st[s] EXCEPT !.fin = "told"] OBVIOUS
    <2>3. r.made = st[s].made /\ r.sent = st[s].sent /\ r.todo = st[s].todo BY <1>0, <2>2 DEF Requests
    <2>4. Push(e) /\ Deliver(s, e, PushAnswer) /\ Become(s, r) BY <1>8, <2>1, <2>2 DEF EmitError
    <2>5. e.n <= MaxEvents BY <1>0, <2>1
    <2>6. Few(Elems(log')) /\ PushAnswer \in Nat \cup {-1} BY <1>c, <2>1, <2>4, <2>5
    <2> QED BY <1>0, <2>1, <2>3, <2>4, <2>5, <2>6, BoundedTold
  <1>9. ASSUME NEW s \in Stream, Done(s) PROVE Bounded'
    <2>1. log' = <<>> /\ Become(s, Over) /\ HangUp(s) BY <1>9 DEF Done, RemoveSession
    <2>2. armed' \in [Client -> BOOLEAN] /\ got' = got BY <1>0, <2>1 DEF HangUp, clientVars
    <2> QED BY <1>a, <2>1, <2>2, NothingMade
  <1>10. ASSUME NEW s \in Stream, Notice(s) \/ Cleanup(s) PROVE Bounded'
    <2>1. UNCHANGED clientVars /\ (log' = log \/ log' = <<>>)
      BY <1>10 DEF Notice, Cleanup, RemoveSession, logVars
    <2>2. Become(s, Over) \/ Become(s, [Over EXCEPT !.pc = "closing"]) BY <1>10 DEF Notice, Cleanup
    <2>3. armed' \in [Client -> BOOLEAN] /\ got' = got BY <1>0, <2>1 DEF clientVars
    <2>4. CASE Become(s, Over) BY <1>a, <2>1, <2>3, <2>4, NothingMade
    <2>5. CASE Become(s, [Over EXCEPT !.pc = "closing"]) BY <1>a, <2>1, <2>3, <2>5, NothingMade
    <2> QED BY <2>2, <2>4, <2>5
  <1>11. ASSUME NEW c \in Client, Drop(c) PROVE Bounded'
    <2>1. armed' \in [Client -> BOOLEAN] /\ UNCHANGED <<log, st, got>> BY <1>0, <1>11 DEF Drop, logVars
    <2> QED BY <2>1, BoundedQuietly
  <1>12. CASE Crash
    <2>1. armed' \in [Client -> BOOLEAN] /\ log' = <<>> /\ got' = got BY <1>12 DEF Crash, RemoveSession
    <2>2. \A s \in Stream : st'[s] = st[s] \/ st'[s] = Over BY <1>12 DEF Crash
    <2> QED BY <2>1, <2>2, BoundedQuietly, NothingMade
  <1>13. CASE UNCHANGED vars
    <2>1. armed' \in [Client -> BOOLEAN] /\ UNCHANGED <<log, st, got>>
      BY <1>0, <1>13 DEF vars, logVars, clientVars
    <2> QED BY <2>1, BoundedQuietly
  <1> QED BY <1>1, <1>2, <1>3, <1>4, <1>5, <1>6, <1>7, <1>8, <1>9, <1>10, <1>11, <1>12, <1>13
          DEF Next, Serve

LEMMA TypesOfStreams == IInv /\ Bounded => TypeOK
  <1> SUFFICES ASSUME IInv, Bounded PROVE TypeOK OBVIOUS
  <1>0. LogTyped /\ StTyped /\ ClientTyped /\ MaxEvents \in Nat
    BY TypedParts, MaxEventsAssumption
  <1>a. ASSUME NEW e \in ChatEv, e.n <= MaxEvents PROVE e \in ChatEvent
    BY <1>0, <1>a DEF ChatEv, ChatEvent
  <1>1. ASSUME NEW i \in DOMAIN log PROVE log[i].ev \in ChatEvent /\ log[i].seq \in 1..seq
    <2>1. log[i] \in Item /\ log[i] \in Elems(log) BY <1>0 DEF LogTyped, Elems
    <2>2. log[i].ev \in ChatEv /\ log[i].seq \in Nat \ {0} /\ seq \in Nat BY <1>0, <2>1 DEF Item, LogTyped
    <2>3. log[i].seq <= seq /\ log[i].ev.n <= MaxEvents BY <2>1 DEF IInv, LogInv, Bounded, Few
    <2> QED BY <1>a, <2>2, <2>3
  <1>2. ASSUME NEW s \in Stream
        PROVE /\ st[s].pc \in {"unused", "replay", "live", "closing", "over"}
              /\ st[s].who \in Client \cup {None} /\ st[s].cursor \in Nat
              /\ \A x \in st[s].todo : x.ev \in ChatEvent /\ x.seq \in Nat
              /\ st[s].made \in 0..MaxEvents /\ st[s].sent \in 0..st[s].made
              /\ st[s].fin \in {"run", "ok", "err", "told"}
    <2>1. st[s] \in Requests BY <1>0 DEF StTyped
    <2>2. st[s].made <= MaxEvents /\ st[s].sent <= st[s].made /\ Few(st[s].todo) BY DEF Bounded
    <2>3. \A x \in st[s].todo : x \in Item BY <2>1 DEF Requests
    <2>4. \A x \in st[s].todo : x.ev \in ChatEvent /\ x.seq \in Nat BY <1>a, <2>2, <2>3 DEF Item, Few
    <2>5. st[s].made \in 0..MaxEvents /\ st[s].sent \in 0..st[s].made BY <1>0, <2>1, <2>2 DEF Requests
    <2> QED BY <2>1, <2>4, <2>5 DEF Requests, Places
  <1>3. ASSUME NEW c \in Client PROVE got[c] \in Seq(ChatEvent)
    <2>1. got[c] \in Seq(ChatEv) BY <1>0 DEF ClientTyped
    <2>2. \A i \in 1..Len(got[c]) : got[c][i] \in ChatEv /\ got[c][i] \in Elems(got[c]) BY <2>1 DEF Elems
    <2>3. \A i \in 1..Len(got[c]) : got[c][i] \in ChatEvent BY <1>a, <2>2 DEF Bounded
    <2> QED BY <2>1, <2>3
  <1> QED BY <1>0, <1>1, <1>2, <1>3 DEF TypeOK, LogTyped, ClientTyped, Bounded

-----------------------------------------------------------------------------
ConvInv == ConvTyped /\ PromptInv /\ ReadersInv /\ AloneInv /\ ApartInv /\ StreamedInv /\ ShownInv

LEMMA ConvStep == ConvInv /\ [ConvNext]_convVars => ConvInv'
  BY TypedStep, PromptStep, ReadersStep, ApartStep, StreamedStep, ShownStep DEF ConvInv

LEMMA ConvStarts ==
  ASSUME NothingSaid, sel \in Backend, ExTyped,
         \A x \in Exchange : ex[x].pc \in {"unsent", "over"} /\ ex[x].sid = NoSession /\ ex[x].said = 0
  PROVE  ConvInv
  <1>0. NoSession = 0 /\ <<>> \in Seq(Message) BY MessageTypes DEF NoSession
  <1>1. HistoryTyped BY <1>0 DEF NothingSaid, HistoryTyped
  <1>2. PanelTyped BY <1>0 DEF NothingSaid, PanelTyped
  <1>3. SidInv BY <1>0 DEF NothingSaid, SidInv, Asking
  <1>4. PromptInv BY DEF PromptInv, Prompted
  <1>5. PanelSend \subseteq Exchange BY DEF Exchange
  <1>6. ReadersInv /\ AloneInv /\ ApartInv /\ StreamedInv /\ ShownInv
    BY <1>5 DEF NothingSaid, ReadersInv, AloneInv, ApartInv, Apart, StreamedInv, ShownInv, Asking
  <1> QED BY <1>1, <1>2, <1>3, <1>4, <1>6 DEF ConvInv, ConvTyped

LEMMA ConvTypes == ConvTyped => ConvTypeOK
  <1> SUFFICES ASSUME ConvTyped PROVE ConvTypeOK OBVIOUS
  <1>1. \A x \in Exchange :
          /\ ex[x].pc \in Stages /\ ex[x].acct \in Backend \cup {Nothing}
          /\ ex[x].sid \in Session \cup {NoSession} /\ ex[x].said \in 0..MaxDeltas
    BY DEF ConvTyped, ExTyped, Sends
  <1> QED BY <1>1 DEF ConvTyped, HistoryTyped, PanelTyped, ConvTypeOK, Stages

\* The streams, or the conversations, move: each keeps its invariant, and what it promises.
ChatsInv == IInv /\ Bounded /\ ConvInv

LEMMA ChatsStart == ChatsInit => ChatsInv
  <1> SUFFICES ASSUME ChatsInit PROVE ChatsInv OBVIOUS
  <1>1. IInv BY Starts DEF ChatsInit
  <1>2. Bounded
    <2>1. log = <<>> /\ (\A s \in Stream : st[s] = Unused) /\ (\A c \in Client : got[c] = <<>>)
          /\ armed \in [Client -> BOOLEAN]
      BY DEF ChatsInit, Init, EmptyLog
    <2> QED BY <2>1, NothingThere, NothingMade DEF Bounded, Few
  <1>3. NothingSaid /\ sel \in Backend BY SelectedAssumption DEF ChatsInit, Talks, NobodyTalks
  <1>4. ExTyped /\ \A x \in Exchange : ex[x].pc \in {"unsent", "over"} /\ ex[x].sid = NoSession /\ ex[x].said = 0
    <2>1. PICK o : o = [Unsent EXCEPT !.pc = "over"] OBVIOUS
    <2>2. <<>> \in Seq(Message) /\ 0 \in 0..MaxDeltas BY MessageTypes, MaxAssumption
    <2>3. Unsent \in Sends /\ Unsent.pc = "unsent" /\ Unsent.sid = NoSession /\ Unsent.said = 0
      BY <2>2 DEF Unsent, Sends, Stages
    <2>4. o \in Sends /\ o.pc = "over" /\ o.sid = NoSession /\ o.said = 0
      BY <2>1, <2>2 DEF Unsent, Sends, Stages
    <2>5. CASE ex = [x \in Exchange |-> Unsent] BY <2>3, <2>5 DEF ExTyped
    <2>6. ASSUME NEW y, ex = [x \in Exchange |-> IF x = y THEN o ELSE Unsent]
          PROVE ExTyped /\ \A x \in Exchange : ex[x].pc \in {"unsent", "over"} /\ ex[x].sid = NoSession /\ ex[x].said = 0
      BY <2>3, <2>4, <2>6 DEF ExTyped
    <2> QED BY <2>1, <2>5, <2>6 DEF ChatsInit, Talks, NobodyTalks
  <1>5. ConvInv BY <1>3, <1>4, ConvStarts
  <1> QED BY <1>1, <1>2, <1>5 DEF ChatsInv

LEMMA ChatsStep == ChatsInv /\ [ChatsNext]_<<part, vars, convVars>> => ChatsInv'
  <1> SUFFICES ASSUME ChatsInv, [ChatsNext]_<<part, vars, convVars>> PROVE ChatsInv' OBVIOUS
  <1>1. [Next]_vars /\ [ConvNext]_convVars BY DEF ChatsNext
  <1> QED BY <1>1, Steps, BoundedStep, ConvStep DEF ChatsInv

LEMMA ChatsAlways == Chats => []ChatsInv
  BY ChatsStart, ChatsStep, PTL DEF Chats

\* Every variable of streams and conversations has its type.
THEOREM ChatsTyped == Chats => []TypesOK
  <1>1. ChatsInv => TypesOK BY TypesOfStreams, ConvTypes DEF ChatsInv, ConvInv, TypesOK
  <1> QED BY <1>1, ChatsAlways, PTL

\* A provider is shown the question it is to answer, and nothing but the stored conversation,
\* whoever else sends in it, and whatever is deleted meanwhile.
THEOREM PromptsCorrect == Chats => []PromptIsHistory
  <1>1. ChatsInv => PromptIsHistory BY PromptsTrue DEF ChatsInv, ConvInv
  <1> QED BY <1>1, ChatsAlways, PTL

\* What the panel shows of its own messages is what is stored, once its sends are over and
\* none of them failed, was cut short or mixed with another.
THEOREM ShownCorrect == Chats => []ShownIsStored
  <1>1. ChatsInv => ShownIsStored BY ShownTrue DEF ChatsInv, ConvInv
  <1> QED BY <1>1, ChatsAlways, PTL
=============================================================================
