-------------------------------- MODULE Chat --------------------------------
(***************************************************************************)
(* The analyst conversation of the dashboard: the overlay that             *)
(* IntelligenceAsk.tsx opens, the surface ChatSurface.tsx inside it, the   *)
(* streamed question of lib/api.ts with its batch fallback, and the        *)
(* transcript chatStore.ts keeps in localStorage, one per tenant and       *)
(* persona (an identity).                                                  *)
(*                                                                         *)
(* One action is one turn of the event loop with the renders and effects   *)
(* it causes: the save effect runs after every change of the messages, and *)
(* after a change of the identity the load effect runs before it.  The     *)
(* server is external: it answers once or reports an error before it ends  *)
(* a stream, and the connection may break at any point of it.              *)
(***************************************************************************)
EXTENDS Naturals, Sequences, SequencesExt, FiniteSets

CONSTANTS Identities,     \* tenant and persona pairs
          NoAsk,          \* no question is under way
          MaxMessages,    \* the transcript's cap, 40 in the code
          KeptTail,       \* the tail of the second attempt, 8 in the code
          Quota,          \* what the origin's localStorage takes of all transcripts together
          AnswerSize,     \* what an answer with its tables and charts takes, a question taking 1
          MaxAsks         \* bound on the questions asked

VARIABLES
  who,        \* the identity in force
  open,       \* the surface is mounted
  messages,   \* its transcript
  ask,        \* the question it runs, or NoAsk (the state `running`)
  error,      \* an error is on screen
  stored,     \* localStorage: the transcript of each identity
  blocked,    \* localStorage throws in this browser
  asks        \* questions asked so far

vars == <<who, open, messages, ask, error, stored, blocked, asks>>

User(q, k)      == [role |-> "user", ask |-> q, of |-> k]
Assistant(q, k) == [role |-> "assistant", ask |-> q, of |-> k]
Turns == [role : {"user", "assistant"}, ask : 1 .. MaxAsks, of : Identities]

(* moved: the identity changed or the chat was wiped while it ran;          *)
(* answered: an answer was delivered.                                       *)
Asks == [ask : 1 .. MaxAsks, of : Identities, moved : BOOLEAN,
         answered : BOOLEAN, by : {"stream", "batch"}]

ASSUME ChatAssumption ==
  /\ {MaxMessages, KeptTail, Quota, AnswerSize, MaxAsks} \subseteq Nat
  /\ KeptTail <= MaxMessages /\ AnswerSize >= 1 /\ IsFiniteSet(Identities)
  /\ NoAsk \notin Asks

TypeOK ==
  /\ who \in Identities /\ open \in BOOLEAN /\ error \in BOOLEAN
  /\ messages \in Seq(Turns) /\ stored \in [Identities -> Seq(Turns)]
  /\ ask \in Asks \cup {NoAsk} /\ blocked \in BOOLEAN
  /\ asks \in 0 .. MaxAsks

-----------------------------------------------------------------------------
LastOf(ms, n) == SubSeq(ms, Len(ms) - n + 1, Len(ms))
Newest(ms, n) == IF Len(ms) <= n THEN ms ELSE LastOf(ms, n)

(* The pieces a store is made of, one unit each: nothing longer than the    *)
(* cap is ever written, and the identities share one quota.                 *)
SizeOf(m) == IF m.role = "assistant" THEN AnswerSize ELSE 1
Pieces(store) ==
  {p \in Identities \X ((1 .. MaxMessages) \X (1 .. AnswerSize)) :
     LET ms == store[p[1]] turn == p[2][1] unit == p[2][2] IN turn <= Len(ms) /\ unit <= SizeOf(ms[turn])}
Bytes(store) == Cardinality(Pieces(store))
HasRoom(store, k, ms) == Bytes([store EXCEPT ![k] = ms]) <= Quota

(* saveChat: the newest of a capped transcript, or the tail when the quota  *)
(* refuses it; when it refuses that too, what was there stays.              *)
Kept(store, k, ms) ==
  CASE HasRoom(store, k, Newest(ms, MaxMessages)) -> Newest(ms, MaxMessages)
    [] ~HasRoom(store, k, Newest(ms, MaxMessages)) /\ HasRoom(store, k, Newest(ms, KeptTail)) -> Newest(ms, KeptTail)
    [] OTHER -> store[k]

(* The save effect: an empty transcript is not written.                     *)
Saved(store, k, ms) ==
  IF ms = <<>> \/ blocked THEN store ELSE [store EXCEPT ![k] = Kept(store, k, ms)]

Show(ms) == messages' = ms /\ stored' = Saved(stored, who, ms)

Init ==
  /\ who \in Identities /\ open = FALSE /\ messages = <<>>
  /\ ask = NoAsk /\ error = FALSE
  /\ stored = [k \in Identities |-> <<>>] /\ blocked \in BOOLEAN /\ asks = 0

(* submit: the question joins the transcript ms and is sent.                *)
Submit(ms) ==
  /\ asks < MaxAsks /\ asks' = asks + 1
  /\ Show(Append(ms, User(asks + 1, who)))
  /\ ask' = [ask |-> asks + 1, of |-> who, moved |-> FALSE,
             answered |-> FALSE, by |-> "stream"]
  /\ error' = FALSE
  /\ UNCHANGED <<who, blocked>>

(* launch with a question typed on the page: the surface mounts, restores   *)
(* the transcript and submits the seed once; resuming only restores.        *)
Launch == ~open /\ open' = TRUE /\ Submit(stored[who])
Resume ==
  /\ ~open /\ stored[who] # <<>>
  /\ open' = TRUE /\ Show(stored[who])
  /\ UNCHANGED <<who, ask, error, blocked, asks>>

(* A question typed in the surface, or a suggestion clicked.                *)
Ask == open /\ ask = NoAsk /\ Submit(messages) /\ UNCHANGED open

(* Slip: a transcript is saved when a question is asked and not again. *)
DeliverUnsaved ==
  messages' = Append(messages, Assistant(ask.ask, ask.of)) /\ UNCHANGED stored

(* setMessages of the answer, whatever the transcript is by now.            *)
Deliver == Show(Append(messages, Assistant(ask.ask, ask.of)))

Frame == ask # NoAsk /\ ask.by = "stream"
Settled == ask' = NoAsk /\ UNCHANGED <<who, open, blocked, asks>>

AnswerFrame ==
  /\ Frame /\ ~ask.answered /\ ~error
  /\ Deliver /\ ask' = [ask EXCEPT !.answered = TRUE]
  /\ UNCHANGED <<who, open, error, blocked, asks>>

(* An error frame ends the stream; so does a response that is not ok.       *)
ErrorFrame ==
  /\ Frame /\ ~ask.answered
  /\ error' = TRUE /\ Settled /\ UNCHANGED <<messages, stored>>

StreamEnds ==
  /\ Frame /\ ask.answered
  /\ Settled /\ UNCHANGED <<messages, error, stored>>

(* Slip: a stream that breaks is taken for one that was aborted. *)
StreamBreaksOff ==
  /\ ask # NoAsk /\ ask.by = "stream"
  /\ Settled /\ UNCHANGED <<messages, error, stored>>

(* Anything thrown, before or after the answer, goes to the batch route.    *)
StreamBreaks ==
  /\ Frame
  /\ ask' = [ask EXCEPT !.by = "batch"]
  /\ UNCHANGED <<who, open, messages, error, stored, blocked, asks>>

BatchAnswers ==
  /\ ask # NoAsk /\ ask.by = "batch"
  /\ Deliver /\ Settled /\ UNCHANGED error
BatchFails ==
  /\ ask # NoAsk /\ ask.by = "batch"
  /\ error' = TRUE /\ Settled /\ UNCHANGED <<messages, stored>>

Moved == IF ask = NoAsk THEN NoAsk ELSE [ask EXCEPT !.moved = TRUE]

(* Another persona is chosen, or the tenants in scope change.  With the     *)
(* surface open the load effect reads the new identity's transcript, the    *)
(* save effect then writes the old one under the new identity, and the next *)
(* render shows and saves what was read.                                    *)
Switch(k) ==
  /\ k # who /\ who' = k
  /\ IF open
     THEN /\ messages' = stored[k]
          /\ stored' = Saved(Saved(stored, k, messages), k, stored[k])
     ELSE UNCHANGED <<messages, stored>>
  /\ ask' = Moved
  /\ UNCHANGED <<open, error, blocked, asks>>

(* "New chat": the stored transcript goes, a question under way does not.   *)
Wipe ==
  /\ open /\ messages # <<>> /\ messages' = <<>>
  /\ stored' = IF blocked THEN stored ELSE [stored EXCEPT ![who] = <<>>]
  /\ ask' = Moved
  /\ UNCHANGED <<who, open, error, blocked, asks>>

Dismiss(i) ==
  /\ open /\ messages[i].role = "assistant"
  /\ Show(RemoveAt(messages, i))
  /\ UNCHANGED <<who, open, ask, error, blocked, asks>>

(* The overlay closes: handlers of a question under way change nothing.     *)
Close ==
  /\ open /\ open' = FALSE
  /\ messages' = <<>> /\ ask' = NoAsk /\ error' = FALSE
  /\ UNCHANGED <<who, stored, blocked, asks>>

Next ==
  \/ Launch \/ Resume \/ Ask \/ AnswerFrame \/ ErrorFrame \/ StreamEnds
  \/ StreamBreaks \/ BatchAnswers \/ BatchFails \/ Wipe \/ Close
  \/ \E k \in Identities : Switch(k)
  \/ \E i \in DOMAIN messages : Dismiss(i)

Spec == Init /\ [][Next]_vars

-----------------------------------------------------------------------------
(* What a reader gets back on reopening is what was on screen: after every  *)
(* turn, late answers, dismissals and switches included, the transcript in  *)
(* force is stored under the identity in force (ChatSurface.tsx 389-391),   *)
(* or its tail where only that fits beside the other identities'; when not  *)
(* even the tail fits "the session simply is not persisted" (chatStore.ts   *)
(* 63-64).                                                                  *)
StorageFollowsTheScreen ==
  open /\ ~blocked /\ messages # <<>> =>
    /\ HasRoom(stored, who, Newest(messages, MaxMessages)) => stored[who] = Newest(messages, MaxMessages)
    /\ HasRoom(stored, who, Newest(messages, KeptTail)) =>
         stored[who] \in {Newest(messages, MaxMessages), Newest(messages, KeptTail)}

(* "A question is never lost to transport" (IntelligenceAsk.tsx 96-98): a   *)
(* question stops running only with an answer delivered or an error shown,  *)
(* unless the reader closed the overlay.                                    *)
NoQuestionIsLost ==
  [][ask # NoAsk /\ open' /\ (ask' = NoAsk \/ ask'.ask # ask.ask)
       => \/ ask.answered \/ error'
          \/ \E i \in DOMAIN messages' : messages'[i] = Assistant(ask.ask, ask.of)]_vars

(* An identity that has a conversation gets exactly that one back when it   *)
(* is switched to, whatever was on screen: the outgoing transcript is       *)
(* neither shown under it nor left in its place (ChatSurface.tsx 385-391).  *)
SwitchKeepsTheTranscript ==
  [][open /\ who' # who /\ stored[who'] # <<>>
       => messages' = stored[who'] /\ stored' = stored]_vars

(* "Keyed by tenant and persona so two tenants never share a history"       *)
(* (chatStore.ts 5-6).                                                      *)
TranscriptsStayApart ==
  \A k \in Identities : \A i \in DOMAIN stored[k] : stored[k][i].of = k

(* The transcript is capped because a long session would otherwise fail     *)
(* "writes silently, losing the newest messages rather than the oldest"     *)
(* (chatStore.ts 13-15).                                                    *)
NewestIsKept ==
  open /\ ~blocked /\ messages # <<>> => stored[who] # <<>> /\ Last(stored[who]) = Last(messages)
=============================================================================
