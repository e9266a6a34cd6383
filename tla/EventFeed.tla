----------------------------- MODULE EventFeed ------------------------------
(***************************************************************************)
(* What the event log of one session promises its callers, without saying  *)
(* how it stores events: every event pushed since the session was set up   *)
(* has its place in the numbering, a replay returns an unbroken run of     *)
(* them up to the newest, at least the Recent newest ones the cursor has   *)
(* not seen, and says so when the run does not continue at the cursor.     *)
(***************************************************************************)
EXTENDS Integers, Sequences

CONSTANTS
  Event,    \* what may be pushed
  Position, \* numbers a session may start from and cursors a client may hold
  Recent    \* how many events a session never forgets

VARIABLES
  known,   \* the session is set up
  base,    \* number before the first event
  hist,    \* every event pushed since then
  reply    \* the last call's question and answer

feedVars == <<known, base, hist, reply>>

\* The answers of the calls: nothing, the number of an event, what cursor c is
\* given with a gap mark.
Nothing == [kind |-> "none", n |-> 0, events |-> {}, gap |-> FALSE]
Number(n) == [kind |-> "number", n |-> n, events |-> {}, gap |-> FALSE]
Events(c, es, g) == [kind |-> "events", n |-> c, events |-> es, gap |-> g]

\* Event i of the session with its number.
Numbered(i) == [ev |-> hist[i], seq |-> base + i]

\* The events after the first k that cursor c has not seen.
Run(k, c) == {Numbered(i) : i \in {j \in DOMAIN hist : j > k /\ base + j > c}}

Init == known = FALSE /\ base = 0 /\ hist = <<>> /\ reply = Nothing

SetUp == \E start \in Position :
  known' = TRUE /\ base' = start /\ hist' = <<>> /\ reply' = Nothing

TearDown == known' = FALSE /\ base' = 0 /\ hist' = <<>> /\ reply' = Nothing

Publish == \E e \in Event :
  /\ UNCHANGED <<known, base>>
  /\ \/ /\ known
        /\ hist' = Append(hist, e)
        /\ reply' = Number(base + Len(hist) + 1)
     \/ ~known /\ UNCHANGED hist /\ reply' = Number(-1)

Answer == \E c \in Position, k \in 0..Len(hist) :
  /\ k = 0 \/ k + Recent <= Len(hist)
  /\ reply' = Events(c, Run(k, c), Len(hist) > 0 /\ 0 < c /\ c < base + k)
  /\ UNCHANGED <<known, base, hist>>

Next == SetUp \/ TearDown \/ Publish \/ Answer

Spec == Init /\ [][Next]_feedVars
=============================================================================
