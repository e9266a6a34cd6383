------------------------------ MODULE PromptLogin ------------------------------
(***************************************************************************)
(* Login sessions that ask one question after another: the endpoint of a   *)
(* self-hosted Claude (backends/claude_custom.py) or of any server that    *)
(* speaks OpenAI's protocol (backends/openai_compat.py).  One stream asks, *)
(* POST /respond answers through a queue of length one, and POST /cancel   *)
(* or the end of the stream puts a sentinel there, if it fits.             *)
(*                                                                         *)
(* No answer says which question it is for as far as the session looks.    *)
(*                                                                         *)
(* Abstracted: answers, as what the session tells apart ("bad" is one it   *)
(* refuses, "other" one that chooses the other branch); a second stream of *)
(* the session and the sweep (module LoginFlow); storing the credential.   *)
(***************************************************************************)
EXTENDS Naturals, FiniteSets

CONSTANTS
  Form,       \* sessions: "claude_custom", "openai_compat"
  MaxPuts     \* bound: requests that wait in put()
ASSUME FormAssumption == Form \subseteq {"claude_custom", "openai_compat"}
ASSUME PutsAssumption == MaxPuts \in Nat

Question == {"base_url", "auth_mode", "preset", "api_key", "models"}
Reply == [to : Question, says : {"good", "other", "bad"}]
Nothing == [to |-> "none", says |-> "nothing"]       \* an empty queue
Sentinel == [to |-> "__cancel__", says |-> "cancel"]

VARIABLES
  form,      \* the session
  asking,    \* the question it waits with, or how it ended
  box,       \* self._answers
  puts,      \* answers of requests that wait in put(): how many of each
  finished,  \* self._done
  open,      \* it is in the registry
  fields,    \* the question each answer it has taken was given to
  saved,     \* self._credential is set
  replied,   \* history: questions that have been answered
  twice,     \* history: a question was answered a second time
  early      \* history: it was cancelled when no answer was waiting

pdHistory == <<replied, twice, early>>
pdVars == <<form, asking, box, puts, finished, open, fields, saved, pdHistory>>

NothingAnswered ==
  /\ box = Nothing /\ puts = [r \in Reply |-> 0] /\ finished = FALSE /\ open = TRUE
  /\ fields = [q \in Question |-> "none"] /\ saved = FALSE
  /\ replied = {} /\ twice = FALSE /\ early = FALSE
First == IF form = "claude_custom" THEN "base_url" ELSE "preset"
PDInit == NothingAnswered /\ form \in Form /\ asking = First

-----------------------------------------------------------------------------
\* events(): what follows an answer to question q.

AfterCustom(q, says) ==
  IF q # "auth_mode" /\ says = "bad" THEN "failed"
  ELSE IF q = "base_url" THEN "auth_mode"
  ELSE IF q = "auth_mode" /\ says # "other" THEN "api_key"
  ELSE IF q = "models" THEN "complete" ELSE "models"

\* A preset may have a URL, and then need no key.
AfterCompat(q, says) ==
  IF q = "preset" THEN (IF says = "bad" THEN "base_url" ELSE IF says = "other" THEN "complete" ELSE "api_key")
  ELSE IF q = "base_url" THEN (IF says = "bad" THEN "failed" ELSE "api_key")
  ELSE "complete"

Following(q, says) == IF form = "claude_custom" THEN AfterCustom(q, says) ELSE AfterCompat(q, says)
Asks(p) == asking' = p /\ finished' = (finished \/ p \in {"failed", "complete"})

\* answers.get() has returned.
Takes ==
  /\ asking \in Question /\ box # Nothing /\ box' = Nothing
  /\ IF box = Sentinel
     THEN Asks("failed") /\ UNCHANGED <<fields, saved>>
     ELSE /\ Asks(Following(asking, box.says))
          /\ fields' = [fields EXCEPT ![asking] = box.to]
          /\ saved' = (asking' = "complete")
  /\ UNCHANGED <<form, puts, open, pdHistory>>

\* Nobody has answered for five minutes.
AnswerTimeout ==
  /\ asking \in Question /\ box = Nothing /\ Asks("failed")
  /\ UNCHANGED <<form, box, puts, open, fields, saved, pdHistory>>

-----------------------------------------------------------------------------
\* POST /respond, by any client that has been shown question q.

Shown(q) == q = asking \/ fields[q] # "none"
Responds(r) ==
  /\ open /\ ~finished /\ Shown(r.to)
  /\ IF box = Nothing THEN box' = r /\ UNCHANGED puts
     ELSE /\ \A a \in Reply : puts[a] < MaxPuts
          /\ puts' = [puts EXCEPT ![r] = @ + 1] /\ UNCHANGED box
  /\ twice' = (twice \/ r.to \in replied) /\ replied' = replied \cup {r.to}
  /\ UNCHANGED <<form, asking, finished, open, fields, saved, early>>

\* A request that waited has room; whether the session is done is not asked again.
Puts(r) ==
  /\ puts[r] > 0 /\ box = Nothing
  /\ box' = r /\ puts' = [puts EXCEPT ![r] = @ - 1]
  /\ UNCHANGED <<form, asking, finished, open, fields, saved, pdHistory>>

\* cancel(), which the end of the stream calls as well; the entry then goes.
CancelDialog ==
  /\ open /\ open' = FALSE /\ finished' = TRUE
  /\ box' = IF box = Nothing THEN Sentinel ELSE box
  /\ early' = (asking \in Question /\ box = Nothing /\ \A r \in Reply : puts[r] = 0)
  /\ UNCHANGED <<form, asking, puts, fields, saved, replied, twice>>

-----------------------------------------------------------------------------
PDNext ==
  \/ Takes \/ AnswerTimeout \/ CancelDialog
  \/ \E r \in Reply : Responds(r) \/ Puts(r)

\* The task of the stream runs, and its timer.
PDFairness == WF_pdVars(Takes \/ AnswerTimeout)

-----------------------------------------------------------------------------
\* Every variable has its type.
PDTypeOK ==
  /\ form \in {"claude_custom", "openai_compat"} /\ asking \in Question \cup {"failed", "complete"}
  /\ box \in Reply \cup {Nothing, Sentinel} /\ puts \in [Reply -> 0..MaxPuts]
  /\ {finished, open, saved, twice, early} \subseteq BOOLEAN
  /\ fields \in [Question -> Question \cup {"none"}] /\ replied \subseteq Question

\* A credential is made of answers to the questions it is made of, unless a question was
\* answered twice: the second answer is then taken for one to the question that follows.
AnswersAreOwn == saved /\ ~twice => \A q \in Question : fields[q] \in {q, "none"}

\* A login that is cancelled while it waits for an answer stores nothing.
CancelIsHeard == early => ~saved

\* What a dialog stores is what it was told, and only if it was not called off.
DialogIsTrue == AnswersAreOwn /\ CancelIsHeard

\* A dialog ends, whether or not anybody answers.
DialogEnds == asking \in Question ~> asking \notin Question
=============================================================================
