---------------------------- MODULE Conversation ----------------------------
(***************************************************************************)
(* Conversations: sessions and messages of the history repository, one     *)
(* exchange as send_message runs it (services/chat.py), and the panel that *)
(* shows them (useSmartChat.ts, handleSend of AiChatPanel.vue).            *)
(*                                                                         *)
(* Several exchanges of one session interleave at every await: two tabs,   *)
(* or two messages sent before the first session was there.  Sessions and  *)
(* accounts are deleted at any time.                                       *)
(*                                                                         *)
(* Abstracted: texts, except whose they are; the log between server and    *)
(* client (module ChatSend), so an event arrives when it is made.          *)
(***************************************************************************)
EXTENDS Naturals, Sequences, SequencesExt

CONSTANTS
  MaxSessions, \* bound: sessions ever created
  PanelSend,   \* messages the user sends from the panel
  OtherSend,   \* messages somebody else posts
  Backend,     \* accounts
  MaxDeltas,   \* bound: tokens of one answer
  Nothing
ASSUME SendAssumption == PanelSend \cap OtherSend = {}
ASSUME NothingAssumption == Nothing \notin PanelSend \cup OtherSend \cup Backend
ASSUME MaxAssumption == MaxDeltas \in Nat /\ MaxSessions \in Nat

Exchange == PanelSend \cup OtherSend
Session == 1..MaxSessions     \* named in the order of their creation
NoSession == 0

VARIABLES
  table,      \* the account of each session in the table; Nothing before and after
  newest,     \* the session created last
  rows,       \* messages of each session, in the order of created_at
  ex,         \* the exchange of each message
  sel,        \* panel: the account selected
  sess,       \* panel: sessionId
  msgs,       \* panel: messages
  content,    \* panel: streamingContent, as the messages whose tokens it has
  lastEvent,  \* panel: lastSeq
  active,     \* panel: whose AbortController activeAbort is
  busy,       \* panel: isStreaming
  watched,    \* panel: the heartbeat timer runs
  reading,    \* panel: sends whose loop over events has not ended
  cut,        \* history: sends that ended without their commit
  tangled     \* history: a send began, or a session was reset, while one was running

history == <<table, newest, rows>>
view == <<sess, msgs, content, lastEvent, active, busy, watched, reading>>
past == <<cut, tangled>>
panel == <<sel, view, past>>
convVars == <<history, ex, panel>>

Question(x) == [of |-> {x}, by |-> "user"]
Reply(S) == [of |-> S, by |-> "assistant"]
Live(s) == table[s] # Nothing

\* An exchange: where it is, the account a session is created for, its session, what
\* its prompt was made of, tokens sent.
Unsent == [pc |-> "unsent", acct |-> Nothing, sid |-> NoSession, prompt |-> <<>>, said |-> 0]
Step(x, p) == ex' = [ex EXCEPT ![x].pc = p]
End(x, p) == ex' = [ex EXCEPT ![x] = [Unsent EXCEPT !.pc = p]]
Stands(x, p) == ex[x].pc = p

NothingSaid ==
  /\ table = [s \in Session |-> Nothing] /\ newest = NoSession
  /\ rows = [s \in Session |-> <<>>]
  /\ sess = NoSession /\ msgs = <<>> /\ content = {} /\ lastEvent = 0 /\ active = Nothing
  /\ busy = FALSE /\ watched = FALSE /\ reading = {}
  /\ cut = {} /\ tangled = FALSE

ConvInit == NothingSaid /\ sel \in Backend /\ ex = [x \in Exchange |-> Unsent]

-----------------------------------------------------------------------------
\* The history repository.

BugInsert(s, m) == rows' = [rows EXCEPT ![s] = Append(@, m)]    \* Insert: no foreign key
BugNewest(s) == [i \in 1..Len(rows[s]) |->                      \* Listed: newest first
                   rows[s][Len(rows[s]) + 1 - i]]
BugStored(x) == rows'= rows                                     \* Stored: the save is dropped

\* append_message: the foreign key refuses a message of a deleted session.
Insert(s, m) == Live(s) /\ rows' = [rows EXCEPT ![s] = Append(@, m)]
Listed(s) == rows[s]

\* delete_session, or the deletion of its account: the messages go by cascade.
DeleteSession(s) ==
  /\ Live(s) /\ table' = [table EXCEPT ![s] = Nothing] /\ rows' = [rows EXCEPT ![s] = <<>>]
  /\ UNCHANGED <<newest, ex, panel>>

-----------------------------------------------------------------------------
\* What the panel does with the events of exchange x.

BugAborted == {}                                                \* Aborted: nobody is told

\* dispatch(): an event numbered n is skipped when it is not new; after a terminal
\* one the timer stays off.
Dispatch(x, n, terminal) ==
  IF x \notin reading \/ n <= lastEvent THEN UNCHANGED view
  ELSE /\ lastEvent' = n /\ watched' = ~terminal
       /\ content' = IF terminal THEN content ELSE content \cup {x}
       /\ UNCHANGED <<sess, msgs, active, busy, reading>>

\* The finally clause of send(), after its commit, for the sends in S.
Settle(S, committed) ==
  /\ msgs' = committed /\ reading' = reading \ S /\ content' = {} /\ active' = Nothing
  /\ busy' = FALSE /\ watched' = FALSE /\ UNCHANGED <<sess, lastEvent>>

\* The loop has ended: what was streamed becomes a message.
Committed == IF content = {} THEN msgs ELSE Append(msgs, Reply(content))

StreamEnds(x) ==
  /\ x \in reading /\ ex[x].pc \in {"over", "failed"}
  /\ Settle({x}, Committed) /\ UNCHANGED <<history, ex, sel, past>>

\* 90 seconds without an event.
Aborted == {active} \ {Nothing}
PanelWatchdog ==
  /\ watched
  /\ cut' = cut \cup Aborted
  /\ IF Aborted # {} THEN Settle(Aborted, msgs)
     ELSE busy' = FALSE /\ watched' = FALSE
          /\ UNCHANGED <<sess, msgs, content, lastEvent, active, reading>>
  /\ UNCHANGED <<history, ex, sel, tangled>>

\* The connection breaks.
Lost(x) ==
  /\ x \in reading /\ Settle({x}, msgs) /\ cut' = cut \cup {x}
  /\ UNCHANGED <<history, ex, sel, tangled>>

-----------------------------------------------------------------------------
\* The panel: handleSend, createSession, send, resetSession.

\* send(): the state of one send replaces that of another.
Send(x, s, shown) ==
  /\ sess' = s /\ msgs' = Append(shown, Question(x)) /\ content' = {} /\ lastEvent' = 0
  /\ active' = x /\ busy' = TRUE /\ watched' = TRUE /\ reading' = reading \cup {x}
  /\ tangled' = (tangled \/ reading # {}) /\ UNCHANGED cut
  /\ ex' = [ex EXCEPT ![x].pc = "ask", ![x].acct = Nothing, ![x].sid = s]

\* The input is disabled while busy, but not while a session is created.
HandleSend(x) ==
  /\ Stands(x, "unsent") /\ ~busy
  /\ IF sess # NoSession THEN Send(x, sess, msgs) /\ UNCHANGED <<history, sel>>
     ELSE /\ ex' = [ex EXCEPT ![x].pc = "create", ![x].acct = sel]
          /\ UNCHANGED <<history, panel>>

\* POST /conversations, for the account that was selected; or it fails.
CreateSession(x) ==
  /\ Stands(x, "create") /\ UNCHANGED <<rows, panel>>
  /\ \/ /\ newest < MaxSessions /\ newest' = newest + 1
        /\ table' = [table EXCEPT ![newest'] = ex[x].acct]
        /\ ex' = [ex EXCEPT ![x].pc = "created", ![x].sid = newest']
     \/ End(x, "over") /\ UNCHANGED <<table, newest>>

Created(x) == Stands(x, "created") /\ Send(x, ex[x].sid, <<>>) /\ UNCHANGED <<history, sel>>

\* Another account is selected: the watcher resets the session, if there is one.
Select(b) ==
  /\ b # sel /\ sel' = b
  /\ IF sess = NoSession THEN UNCHANGED <<view, past>>
     ELSE /\ sess' = NoSession /\ msgs' = <<>> /\ content' = {}
          /\ tangled' = (tangled \/ reading # {})
          /\ UNCHANGED <<lastEvent, active, busy, watched, reading, cut>>
  /\ UNCHANGED <<history, ex>>

\* Somebody else posts to a session that exists (preflight).
Post(x, s) ==
  /\ Stands(x, "unsent") /\ Live(s)
  /\ ex' = [ex EXCEPT ![x].pc = "ask", ![x].sid = s]
  /\ UNCHANGED <<history, panel>>

-----------------------------------------------------------------------------
\* send_message, and the stream around it.

\* An exception is sent as an error, and the stream ends.
Raised(x) == End(x, "failed") /\ Dispatch(x, ex[x].said + 1, TRUE) /\ UNCHANGED <<sel, past>>

\* get_session, then append_message.
StoreQuestion(x) ==
  /\ Stands(x, "ask") /\ UNCHANGED <<table, newest>>
  /\ \/ Insert(ex[x].sid, Question(x)) /\ Step(x, "context") /\ UNCHANGED panel
     \/ ~Live(ex[x].sid) /\ Raised(x) /\ UNCHANGED rows

\* get_messages looks the session up, then reads its rows: deleted between the two,
\* there are none.  The credential may be missing or unreadable.
ReadContext(x) ==
  /\ Stands(x, "context") /\ UNCHANGED history
  /\ \/ /\ UNCHANGED panel
        /\ ex' = [ex EXCEPT ![x].pc = "stream", ![x].prompt = Listed(ex[x].sid)]
     \/ Raised(x)

Delta(x) ==
  /\ Stands(x, "stream") /\ ex[x].said < MaxDeltas
  /\ ex' = [ex EXCEPT ![x].said = @ + 1] /\ Dispatch(x, ex[x].said + 1, FALSE)
  /\ UNCHANGED <<history, sel, past>>

\* Its last event, after which it ends; or an exception.
ProviderEnds(x) ==
  /\ Stands(x, "stream") /\ UNCHANGED <<history, sel, past>>
  /\ \/ /\ ex' = [ex EXCEPT ![x].pc = "save", ![x].prompt = <<>>]
        /\ Dispatch(x, ex[x].said + 1, TRUE)
     \/ Raised(x)

\* The answer is stored when there is one, and the stream ends.
Stored(x) == Insert(ex[x].sid, Reply({x}))
SaveAnswer(x) ==
  /\ Stands(x, "save") /\ UNCHANGED <<table, newest>>
  /\ \/ ex[x].said > 0 /\ Stored(x) /\ End(x, "over") /\ UNCHANGED panel
     \/ ex[x].said = 0 /\ End(x, "over") /\ UNCHANGED <<rows, panel>>
     \/ ex[x].said > 0 /\ ~Live(ex[x].sid) /\ Raised(x) /\ UNCHANGED rows

\* The client is gone: the generator is cancelled where it waits.
Cancelled(x) ==
  /\ x \notin reading /\ ex[x].pc \in {"ask", "context", "stream", "save"}
  /\ End(x, "cancelled") /\ UNCHANGED <<history, panel>>

-----------------------------------------------------------------------------
Proceed(x) ==
  StoreQuestion(x) \/ ReadContext(x) \/ SaveAnswer(x)
PanelTurn(x) == CreateSession(x) \/ Created(x) \/ StreamEnds(x)

ConvNext ==
  \/ \E s \in Session : DeleteSession(s) \/ \E x \in OtherSend : Post(x, s)
  \/ \E b \in Backend : Select(b)
  \/ \E x \in PanelSend : HandleSend(x)
  \/ \E x \in Exchange :
       Proceed(x) \/ PanelTurn(x) \/ Delta(x) \/ ProviderEnds(x) \/ Cancelled(x) \/ Lost(x)
  \/ PanelWatchdog

ConvSpec == ConvInit /\ [][ConvNext]_convVars

\* The event loops run what can run, and the panel's timer fires.  Providers may hang.
ConvFairness ==
  WF_convVars(PanelWatchdog) /\ \A x \in Exchange : WF_convVars(Proceed(x)) /\ WF_convVars(PanelTurn(x))

-----------------------------------------------------------------------------
Message == [of: SUBSET Exchange, by: {"user", "assistant"}]
\* Every variable has its type; what a deleted session had is gone with it, and
\* nothing is stored for it later (ON DELETE CASCADE, the foreign key).
ConvTypeOK ==
  /\ table \in [Session -> Backend \cup {Nothing}]
  /\ newest \in Session \cup {NoSession} /\ rows \in [Session -> Seq(Message)]
  /\ \A s \in Session : table[s] = Nothing => rows[s] = <<>>
  /\ \A x \in Exchange :
       /\ ex[x].pc \in {"unsent", "create", "created", "ask", "context", "stream", "save",
                        "over", "failed", "cancelled"}
       /\ ex[x].acct \in Backend \cup {Nothing} /\ ex[x].sid \in Session \cup {NoSession}
       /\ ex[x].said \in 0..MaxDeltas
  /\ sel \in Backend /\ sess \in Session \cup {NoSession} /\ msgs \in Seq(Message)
  /\ content \in SUBSET PanelSend /\ lastEvent \in Nat
  /\ active \in PanelSend \cup {Nothing} /\ reading \in SUBSET PanelSend
  /\ busy \in BOOLEAN /\ watched \in BOOLEAN
  /\ cut \in SUBSET PanelSend /\ tangled \in BOOLEAN

\* A prompt holds the question it is to answer and, as long as the session exists,
\* what the history holds up to then: a provider never sees a conversation that is
\* not the stored one ("Build context from history").
PromptIsHistory ==
  \A x \in Exchange :
    ex[x].pc = "stream" /\ Live(ex[x].sid) =>
      /\ \E i \in 1..Len(ex[x].prompt) : ex[x].prompt[i] = Question(x)
      /\ ex[x].prompt = SubSeq(rows[ex[x].sid], 1, Len(ex[x].prompt))

\* The messages of a conversation that are the panel's.
Mine(m) == m.of \subseteq PanelSend
Own(q) == FlattenSeq([i \in 1..Len(q) |-> IF Mine(q[i]) THEN <<q[i]>> ELSE <<>>])

\* What the panel shows is what the history holds of its messages, once its sends
\* are over and none was cut short, failed, or mixed with another one.
ShownIsStored ==
  /\ sess # NoSession /\ Live(sess) /\ reading = {} /\ ~tangled
  /\ \A x \in PanelSend : x \notin cut /\ ex[x].pc \in {"unsent", "create", "over"}
  => msgs = Own(rows[sess])

\* A send returns, hanging providers notwithstanding ("Heartbeat timeout now aborts
\* in-flight fetch via AbortController"), unless another one was mixed with it.
AloneEnds == reading # {} ~> reading = {} \/ tangled
=============================================================================
