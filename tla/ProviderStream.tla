---------------------------- MODULE ProviderStream ----------------------------
(***************************************************************************)
(* chat() of one backend adapter: it asks its provider and turns what      *)
(* arrives into the events its consumer reads.  Adapters of provider APIs  *)
(* read a stream of data lines and differ in which of them they know, and  *)
(* in what they do with those they do not; aider.py and goose.py run the   *)
(* CLI in a process of its own.                                            *)
(*                                                                         *)
(* Providers are external: they send any lines, break off, fall silent or  *)
(* say with a line that the answer has failed.                             *)
(*                                                                         *)
(* Abstracted: texts and arguments, as the number of the line they came    *)
(* with; the request; usage and model of a done event.                     *)
(***************************************************************************)
EXTENDS Naturals, Sequences, SequencesExt, FiniteSetsExt

CONSTANTS
  Adapter,    \* adapters that may be asked
  Index,      \* indices of the tool calls of one answer
  MaxLines    \* bound: lines a provider sends
ASSUME AdapterAssumption ==
  Adapter \subseteq {"claude", "claude_custom", "openai", "openai_compat", "antigravity",
                     "cliproxy", "goose", "aider"}
ASSUME StreamAssumption == Index \subseteq Nat /\ MaxLines \in Nat

VARIABLES
  adapter,
  phase,    \* of chat(): "unused", "asking", "reading", "over", "raised", "cut"
  lines,    \* how many lines have come
  pending,  \* pending_tool_calls: the fragments of each index
  told,     \* the events the consumer has been given
  child,    \* the process of a CLI
  sent,     \* history: all fragments of each index
  broke     \* history: how the provider broke the answer off, if it has

psVars == <<adapter, phase, lines, pending, told, child, sent, broke>>

NothingHeard ==
  /\ lines = 0 /\ pending = [i \in Index |-> <<>>] /\ told = <<>> /\ child = "none"
  /\ sent = [i \in Index |-> <<>>] /\ broke = "no"
PSInit == NothingHeard /\ adapter \in Adapter /\ phase = "asking"

-----------------------------------------------------------------------------
\* What each adapter makes of a line: "unknown" is one its JSON parser refuses, "empty"
\* one without a choice or candidate, "error" says that the answer has failed, "mark"
\* is the [DONE] of the protocols that have it.

Claude ==
  [text |-> "token", finish |-> "done", unknown |-> "raise", empty |-> "skip",
   error |-> "skip", call |-> "skip", mark |-> "skip"]
ClaudeCustom == [Claude EXCEPT !.unknown = "skip", !.error = "fail"]
OpenAI == [Claude EXCEPT !.empty = "raise", !.mark = "stop"]
OpenAICompat == [OpenAI EXCEPT !.unknown = "skip"]
Gemini == [Claude EXCEPT !.unknown = "skip"]
Cliproxy == [OpenAICompat EXCEPT !.call = "keep"]
Goose == [Claude EXCEPT !.unknown = "skip", !.finish = "skip"]
Aider == [Goose EXCEPT !.text = "skip"]

Reads ==
  CASE adapter = "claude" -> Claude [] adapter = "claude_custom" -> ClaudeCustom
    [] adapter = "openai" -> OpenAI [] adapter = "openai_compat" -> OpenAICompat
    [] adapter = "antigravity" -> Gemini [] adapter = "cliproxy" -> Cliproxy
    [] adapter = "goose" -> Goose [] adapter = "aider" -> Aider
Cli == adapter \in {"goose", "aider"}

-----------------------------------------------------------------------------
Chunk(k, parts) == [kind |-> k, parts |-> parts]
Note(k) == Chunk(k, <<lines'>>)

\* _drain_tool_calls(): one event for each index that has fragments, in their order.
Begun == {i \in Index : pending[i] # <<>>}
Place(i) == Cardinality({j \in Begun : j <= i})
Pending == [n \in 1..Cardinality(Begun) |-> CHOOSE i \in Begun : Place(i) = n]
Drained == [n \in DOMAIN Pending |-> [kind |-> "tool_call", index |-> Pending[n],
                                      parts |-> pending[Pending[n]]]]
Drain == pending' = [i \in Index |-> <<>>]

\* An exception: told as an error by the proxy's adapter, raised by all others.
Fails ==
  IF adapter = "cliproxy" THEN told' = Append(told, Note("error")) /\ phase' = "over"
                          ELSE phase' = "raised" /\ UNCHANGED told

\* The loop has ended.
BugLeaves == told' = told \o (IF Cli THEN <<Note("done")>> ELSE <<>>)    \* no drain
Leaves ==
  told' = told \o Drained \o (IF adapter = "aider" THEN <<Note("token")>> ELSE <<>>)
               \o (IF Cli THEN <<Note("done")>> ELSE <<>>)

-----------------------------------------------------------------------------
\* Connecting, or starting the CLI.

Connects ==
  /\ phase = "asking" /\ phase' = "reading"
  /\ child' = IF Cli THEN "running" ELSE child
  /\ UNCHANGED <<adapter, lines, pending, told, sent, broke>>

\* No provider, a status other than 200, or no executable.
Refuses ==
  /\ phase = "asking" /\ UNCHANGED <<adapter, lines, pending, child, sent>> /\ broke' = "refused"
  /\ \/ ~Cli /\ told' = Append(told, Note("error")) /\ phase' = "over"
     \/ Fails

-----------------------------------------------------------------------------
\* The loop over the lines.

Incoming == phase = "reading" /\ broke = "no" /\ lines < MaxLines /\ lines' = lines + 1

Line(k) ==
  /\ Incoming /\ broke' = (IF k = "error" THEN "said so" ELSE broke)
  /\ CASE Reads[k] = "skip" -> UNCHANGED <<phase, told, pending>>
       [] Reads[k] = "token" -> told' = Append(told, Note("token")) /\ UNCHANGED <<phase, pending>>
       [] Reads[k] = "done" -> told' = told \o Drained \o <<Note("done")>> /\ Drain /\ UNCHANGED phase
       [] Reads[k] = "fail" -> told' = Append(told, Note("error")) /\ phase' = "over" /\ UNCHANGED pending
       [] Reads[k] = "raise" -> Fails /\ UNCHANGED pending
       [] Reads[k] = "stop" -> Leaves /\ Drain /\ phase' = "over"
  /\ UNCHANGED <<adapter, child, sent>>

\* A fragment of a tool call.
Fragment(i) ==
  /\ Incoming /\ sent' = [sent EXCEPT ![i] = Append(@, lines')]
  /\ pending' = IF Reads.call = "keep" THEN [pending EXCEPT ![i] = Append(@, lines')] ELSE pending
  /\ UNCHANGED <<adapter, phase, told, child, broke>>

\* The provider closes the connection; or the CLI ends, its exit status unread.
Closes(how) ==
  /\ phase = "reading" /\ UNCHANGED <<adapter, lines, sent>>
  /\ Leaves /\ Drain /\ phase' = "over" /\ broke' = how
  /\ child' = IF Cli THEN "dead" ELSE child
ProviderCloses == Closes(broke)
CliFails == Cli /\ Closes("exit status")

\* The connection is lost, or silent for two minutes.
ConnectionFails ==
  /\ phase \in {"asking", "reading"} /\ ~Cli /\ UNCHANGED <<adapter, lines, pending, child, sent>>
  /\ broke' = "lost" /\ Fails

\* The consumer stops reading: a connection is closed with the generator, a CLI goes on.
ConsumerLeaves ==
  /\ phase = "reading" /\ phase' = "cut"
  /\ UNCHANGED <<adapter, lines, pending, told, child, sent, broke>>

PSNext ==
  \/ Connects \/ Refuses \/ ProviderCloses \/ CliFails \/ ConnectionFails \/ ConsumerLeaves
  \/ \E k \in DOMAIN Claude \ {"call"} : Line(k)
  \/ \E i \in Index : Fragment(i)

\* A connection is established, and is not silent for ever, or httpx gives up.
PSFairness == WF_psVars(ConnectionFails)

-----------------------------------------------------------------------------
\* Every variable has its type.
PSTypeOK ==
  /\ adapter \in Adapter /\ phase \in {"unused", "asking", "reading", "over", "raised", "cut"}
  /\ lines \in 0..MaxLines /\ child \in {"none", "running", "dead"}
  /\ \A i \in Index : pending[i] \in Seq(1..MaxLines) /\ sent[i] \in Seq(1..MaxLines)
  /\ \A n \in DOMAIN told : told[n].kind \in {"token", "tool_call", "done", "error"}
  /\ broke \in {"no", "refused", "said so", "exit status", "lost"}

\* The fragments of index i in the tool calls told.
ToldOf(i) ==
  FlattenSeq([n \in DOMAIN told |->
    IF told[n].kind = "tool_call" /\ told[n].index = i THEN told[n].parts ELSE <<>>])
\* Those among the first n events, of any index.
ToldBefore(n) ==
  UNION {Range(told[m].parts) : m \in {m \in 1..n : told[m].kind = "tool_call"}}

\* Each fragment the proxy sends is told once, with the fragments of its call, in their
\* order, and before the event that ends its turn: nothing is left when the stream ends.
CallsAreWhole ==
  adapter = "cliproxy" =>
    /\ \A i \in Index : sent[i] = ToldOf(i) \o pending[i]
    /\ phase = "over" /\ broke \in {"no", "said so"} /\ ~(told # <<>> /\ Last(told).kind = "error") =>
         \A i \in Index : pending[i] = <<>>
    /\ \A n \in DOMAIN told : told[n].kind = "done" =>
         \A i \in Index : \A f \in Range(sent[i]) :
           f < told[n].parts[1] => f \in ToldBefore(n)

\* Adapters that do not know how their provider says that an answer has failed, and CLIs,
\* whose exit status nobody reads.
Deaf == broke = "exit status" \/ (broke = "said so" /\ Reads.error = "skip")

\* An answer that was broken off ends with an error or an exception, and so is not
\* taken for a whole one.
BrokenIsTold ==
  broke # "no" /\ ~Deaf /\ phase = "over" => told # <<>> /\ Last(told).kind = "error"

\* The CLI has ended when its answer has; only a consumer that leaves leaves it running.
CliHasEnded == phase \in {"over", "raised"} => child # "running"

\* What chat() tells is what its provider has said.
ToldInFull == CallsAreWhole /\ BrokenIsTold /\ CliHasEnded

\* The answer of a provider API ends, at the latest when it has been silent too long.
ProviderEnds == phase \in {"asking", "reading"} /\ ~Cli ~> phase \notin {"asking", "reading"}
=============================================================================
