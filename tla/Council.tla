------------------------------- MODULE Council -------------------------------
(***************************************************************************)
(* One council (services/council.py): seats for every role, independent    *)
(* positions, rebuttal rounds over a transcript of the round before, and a *)
(* chairman's decision or the majority of the votes; its stream            *)
(* (routes/council.py) and the command line that reads it (cli_council.py).*)
(*                                                                         *)
(* The calls of a round run side by side; each ends in a text, whose last  *)
(* VOTE line may name an option, in an error, or in its timeout.           *)
(*                                                                         *)
(* Abstracted: texts, except the vote they end with; which account backs a *)
(* seat; the events of a round, sent together once the round is complete   *)
(* (between them only the client can leave).                               *)
(***************************************************************************)
EXTENDS Naturals, Integers, Sequences, FiniteSets

CONSTANTS
  NSeats,        \* the number of roles
  OptionLists,   \* the lists of options asked about; labels may repeat
  MaxRounds,     \* _MAX_ROUNDS
  Requested      \* numbers of rounds a caller may ask for
ASSUME SeatAssumption == NSeats \in Nat \ {0}
ASSUME OptionAssumption == \A o \in OptionLists : o \in Seq(STRING) /\ Len(o) >= 2
ASSUME RoundAssumption == MaxRounds \in Nat /\ Requested \subseteq Int

Seat == 1..NSeats
NoVote == 0

VARIABLES
  options, rounds,  \* the request, rounds clamped
  stage,               \* where convene() is
  round,            \* 0 while the positions are asked
  seated,           \* members that have produced a position
  answer,           \* what the current round's call of each seat has come to
  vote,             \* member.vote
  transcript,       \* votes in the transcript of this round, for the members seated
  saw,              \* the transcript that was in each member's last prompt
  calls,            \* history: provider calls made
  decision,         \* [choice, by] once there is one
  wire,             \* events on their way to the client that it acts on
  got, exit         \* client: what it has received, and its exit code

councilVars == <<options, rounds, stage, round, seated, answer, vote, transcript, saw, calls,
          decision, wire, got, exit>>
debate == <<options, rounds>>
cli == <<got, exit>>

Undecided == [choice |-> 0, by |-> "nobody"]
NotAsked == -1
Asked == -2
Failed == -3
Least(S) == CHOOSE n \in S : \A m \in S : n <= m

\* rounds = min(max(rounds, 0), _MAX_ROUNDS)
Clamp(r) == IF r < 0 THEN 0 ELSE IF r > MaxRounds THEN MaxRounds ELSE r

NothingAsked ==
  /\ options \in OptionLists /\ \E r \in Requested : rounds = Clamp(r)
  /\ round = 0 /\ seated = {}
  /\ answer = [i \in Seat |-> NotAsked] /\ vote = [i \in Seat |-> NoVote]
  /\ transcript = <<>> /\ saw = [i \in Seat |-> <<>>] /\ calls = 0
  /\ decision = Undecided /\ wire = <<>> /\ got = "nothing"

CouncilInit == NothingAsked /\ stage = "seat" /\ exit = "none"

-----------------------------------------------------------------------------
BugWinners(n) == {k \in 1..Len(options) : n[k] # 0}     \* Winners: any option with a vote

-----------------------------------------------------------------------------
\* The stages.

Conclude(e) == stage' = "over" /\ wire' = wire \o <<e, "end">>

\* _ask_all(): one call for each member of S.
AskAll(S) ==
  /\ stage' = "ask" /\ calls' = calls + Cardinality(S)
  /\ answer' = [i \in Seat |-> IF i \in S THEN Asked ELSE NotAsked]

\* Accounts that are limited, near their limit, without credential or models are
\* left out; with none left there is no council.
SeatMembers ==
  /\ stage = "seat"
  /\ \/ AskAll(Seat) /\ UNCHANGED wire
     \/ Conclude("error") /\ UNCHANGED <<answer, calls>>
  /\ UNCHANGED <<debate, round, seated, vote, transcript, saw, decision, cli>>

\* What an answer changes at once: nothing, all are collected first (gather).
Arrive(i, v) == vote

\* _chat_once() has returned: v is the last option it votes for, if that exists.
Answered(i) ==
  /\ stage = "ask" /\ answer[i] = Asked
  /\ \E v \in 0..Len(options) : answer' = [answer EXCEPT ![i] = v] /\ vote' = Arrive(i, v)
  /\ saw' = [saw EXCEPT ![i] = transcript]
  /\ UNCHANGED <<debate, stage, round, seated, transcript, calls, decision, wire, cli>>

\* An exception of the call, an error event, or an empty text.
CallFails(i) ==
  /\ stage = "ask" /\ answer[i] = Asked
  /\ answer' = [answer EXCEPT ![i] = Failed]
  /\ saw' = [saw EXCEPT ![i] = transcript]
  /\ UNCHANGED <<debate, stage, round, seated, vote, transcript, calls, decision, wire, cli>>

\* wait_for of the member's call fires.
Expire(i) == answer[i] = Asked
MemberTimeOut(i) == stage = "ask" /\ Expire(i) /\ CallFails(i)

\* The vote a member has after its answer: one that names no option changes nothing.
NewVote(i) == IF answer[i] \in {Failed, NoVote} THEN vote[i] ELSE answer[i]

\* gather() returns when every call has ended; the round's transcript is done with.
RoundEnds ==
  /\ stage = "ask" /\ \A i \in Seat : answer[i] # Asked
  /\ vote' = [i \in Seat |-> IF answer[i] = NotAsked THEN vote[i] ELSE NewVote(i)]
  /\ seated' = IF round = 0 THEN {i \in Seat : answer[i] # Failed} ELSE seated
  /\ IF Cardinality(seated') < 2 THEN Conclude("error") ELSE stage' = "debate" /\ UNCHANGED wire
  /\ answer' = [i \in Seat |-> NotAsked]
  /\ transcript' = <<>> /\ saw' = [i \in Seat |-> <<>>]
  /\ UNCHANGED <<debate, round, calls, decision, cli>>

\* The next rebuttal round, or the chairman: the first member seated.
NextRound ==
  /\ stage = "debate" /\ round < rounds
  /\ round' = round + 1 /\ transcript' = vote /\ AskAll(seated)
  /\ UNCHANGED <<debate, seated, vote, saw, decision, wire, cli>>

AskChair ==
  /\ stage = "debate" /\ round = rounds
  /\ stage' = "chair" /\ calls' = calls + 1
  /\ UNCHANGED <<debate, round, seated, answer, vote, transcript, saw, decision, wire, cli>>

-----------------------------------------------------------------------------
\* The decision.

\* The tally goes by label: equal labels share their votes.
Tally == [k \in 1..Len(options) |->
            Cardinality({i \in seated : vote[i] # NoVote /\ options[vote[i]] = options[k]})]

Winners(n) == {k \in 1..Len(options) : n[k] # 0 /\ \A j \in 1..Len(options) : n[j] <= n[k]}

\* Whether the votes may decide when the chairman did not.
MayFallBack(chair) == chair = NoVote /\ Winners(Tally) # {}

Majority ==
  LET w == Winners(Tally) IN
  [choice |-> Least(w),
   by |-> IF \E j \in w : options[j] # options[Least(w)] THEN "tie" ELSE "majority"]

Decide(d) == decision' = d /\ Conclude("decision")

\* _chair_decision(): 0 stands for a failed call, a timeout and an unusable answer.
ChairEnds(c) ==
  /\ stage = "chair"
  /\ \/ c # NoVote /\ Decide([choice |-> c, by |-> "chairman"])
     \/ MayFallBack(c) /\ Decide(Majority)
     \/ c = NoVote /\ ~MayFallBack(c) /\ Conclude("error") /\ UNCHANGED decision
  /\ UNCHANGED <<debate, round, seated, answer, vote, transcript, saw, calls, cli>>

-----------------------------------------------------------------------------
\* The stream and its reader.

\* The producer is cancelled where it waits, and with it the calls of its round.
Adjourn ==
  /\ stage \notin {"over", "closed"} /\ exit # "none"
  /\ stage' = "closed" /\ answer' = [i \in Seat |-> NotAsked]
  /\ UNCHANGED <<debate, round, seated, vote, transcript, saw, calls, decision, wire, cli>>

\* An exception out of convene(), while accounts are read or mark_used() writes, is
\* sent as council_error.
Raise ==
  /\ stage = "seat" \/ (stage = "debate" /\ round = 0)
  /\ Conclude("error")
  /\ UNCHANGED <<debate, round, seated, answer, vote, transcript, saw, calls, decision, cli>>

Verdict == IF got = "decision" THEN "0" ELSE "1"

Receive ==
  /\ exit = "none" /\ wire # <<>> /\ wire' = Tail(wire)
  /\ IF Head(wire) = "end" THEN exit' = Verdict /\ UNCHANGED got
     ELSE got' = (IF got = "decision" THEN got ELSE Head(wire)) /\ UNCHANGED exit
  /\ UNCHANGED <<debate, stage, round, seated, answer, vote, transcript, saw, calls, decision>>

\* The connection breaks, or was never made: a decision that came keeps its worth.
ExitOnDrop == Verdict
Break ==
  /\ exit = "none" /\ exit' = ExitOnDrop
  /\ UNCHANGED <<debate, stage, round, seated, answer, vote, transcript, saw, calls, decision,
                 wire, got>>

-----------------------------------------------------------------------------
MemberCall(i) == Answered(i) \/ CallFails(i)
CouncilWork == RoundEnds \/ NextRound \/ AskChair \/ Receive

CouncilNext ==
  \/ SeatMembers \/ CouncilWork \/ Raise \/ Adjourn \/ Break
  \/ \E i \in Seat : MemberCall(i) \/ MemberTimeOut(i)
  \/ \E c \in 0..Len(options) : ChairEnds(c)

CouncilSpec == CouncilInit /\ [][CouncilNext]_councilVars

\* The event loop runs what can run; every call of a member, and the chairman's, has
\* a timeout.  Seating has none: list_models may hang.
CouncilFairness ==
  /\ WF_councilVars(CouncilWork) /\ WF_councilVars(ChairEnds(NoVote))
  /\ \A i \in Seat : WF_councilVars(MemberTimeOut(i))
CouncilFairSpec == CouncilSpec /\ CouncilFairness

-----------------------------------------------------------------------------
Voting(o) == 0..Len(o)
\* Every variable has its type.
CouncilTypeOK ==
  /\ options \in OptionLists /\ rounds \in Nat /\ round \in 0..rounds
  /\ stage \in {"seat", "ask", "debate", "chair", "over", "closed"}
  /\ seated \in SUBSET Seat
  /\ \A i \in Seat : answer[i] \in {NotAsked, Asked, Failed} \cup Voting(options)
  /\ vote \in [Seat -> Voting(options)]
  /\ transcript = <<>> \/ transcript \in [Seat -> Voting(options)]
  /\ \A i \in Seat : saw[i] = <<>> \/ saw[i] \in [Seat -> Voting(options)]
  /\ calls \in Nat /\ decision \in [choice: Voting(options),
                                    by: {"nobody", "chairman", "majority", "tie"}]
  /\ wire \in Seq({"decision", "error", "end"})
  /\ got \in {"nothing", "decision", "error"} /\ exit \in {"none", "0", "1"}

\* "Clamp regardless of what the caller sent": a council costs one call per seat and
\* round, and the chairman's.
QuotaBound == calls <= NSeats * (MaxRounds + 1) + 1

\* Members argue with each other's last positions and nobody is shown what another
\* one says in the same round (_rebuttal_prompt_for).
SameTranscript ==
  \A i \in seated :
    stage = "ask" /\ round > 0 /\ answer[i] # Asked => saw[i] = transcript /\ saw[i] = vote

\* A decision by majority is one: no label has more votes than the chosen one, no
\* label listed before it has as many, and a tie is declared (_chair_decision).
For(k) == {i \in seated : vote[i] # NoVote /\ options[vote[i]] = options[k]}
MajorityRight ==
  decision.by \in {"majority", "tie"} =>
    LET c == decision.choice IN
    /\ For(c) # {}
    /\ \A k \in 1..Len(options) :
         /\ Cardinality(For(k)) <= Cardinality(For(c))
         /\ Cardinality(For(k)) = Cardinality(For(c)) => c <= k
    /\ decision.by = "tie" <=>
         \E k \in 1..Len(options) : /\ options[k] # options[c]
                                    /\ Cardinality(For(k)) = Cardinality(For(c))

\* "A sloppy chairman never blocks a verdict": a council that got as far as its
\* chairman fails only when no seated member has cast a vote.
VerdictNotBlocked ==
  stage = "over" /\ decision = Undecided /\ calls > NSeats + rounds * Cardinality(seated) =>
    \A i \in seated : vote[i] = NoVote

\* The command exits with 0 just when it has received a decision of the council.
ExitRight ==
  exit # "none" => (exit = "0" <=> got = "decision") /\ (got = "decision" => decision # Undecided)

\* A round ends, hanging providers notwithstanding, and so does a council.
CouncilEnds == stage = "ask" ~> stage \in {"over", "closed"}

\* What a council is held to, whichever calls fail, hang or answer out of turn.
CouncilKeepsRules ==
  QuotaBound /\ SameTranscript /\ MajorityRight /\ VerdictNotBlocked /\ ExitRight
=============================================================================
