--------------------------- MODULE DashboardProofs ---------------------------
(***************************************************************************)
(* Theorems about the two halves of a dashboard tab: the transcript of the *)
(* chat (Chat), for any identities, any cap, tail and quota and any number *)
(* of questions, and the live stream (LiveStream), for any tenants, any    *)
(* number of sockets and timers and any number of changes of selection;    *)
(* and about the agent that answers a question (Agent), for any metrics,   *)
(* questions and findings, any proposals of a model and any number of      *)
(* rounds, sweeps and failing calls.                                       *)
(***************************************************************************)
EXTENDS MCDashboard, Agent, SequenceTheorems, FiniteSetTheorems, WellFoundedInduction, TLAPS

(***************************************************************************)
(* The chat.                                                               *)
(***************************************************************************)

\* Every stored transcript is within the cap and all of them within the quota, so saving
\* one again keeps it; a question only runs while the surface is open.
Capped(disk) == Bytes(disk) <= Quota /\ \A k \in Identities : Len(disk[k]) <= MaxMessages
WithinCaps == Capped(stored)
IInv ==
  /\ TypeOK /\ WithinCaps /\ StorageFollowsTheScreen
  /\ ask # NoAsk => open

-----------------------------------------------------------------------------
\* The newest turns that are kept are no more than asked for.
LEMMA NewestIsShort ==
  ASSUME NEW S, NEW ms \in Seq(S), NEW n \in Nat
  PROVE  Newest(ms, n) \in Seq(S) /\ Len(Newest(ms, n)) <= n
<1>1. CASE Len(ms) <= n
  BY <1>1 DEF Newest
<1>2. CASE ~(Len(ms) <= n)
  <2>1. Len(ms) \in Nat /\ \A i \in 1 .. Len(ms) : ms[i] \in S
    BY LenProperties
  <2>2. \A i \in (Len(ms) - n + 1) .. Len(ms) : ms[i] \in S
    BY <1>2, <2>1
  <2> QED BY <1>2, <2>1, <2>2, SubSeqProperties DEF Newest, LastOf
<1> QED BY <1>1, <1>2

\* Without transcripts nothing is taken, and dropping one frees what it took.
LEMMA EmptyFits == Bytes([k \in Identities |-> <<>>]) <= Quota
<1> DEFINE none == [k \in Identities |-> <<>>]
<1>1. \A k \in Identities : Len(none[k]) = 0
  OBVIOUS
<1> HIDE DEF none
<1>2. Pieces(none) = {}
  BY <1>1, ChatAssumption DEF Pieces
<1>3. Bytes(none) = 0
  BY <1>2, FS_EmptySet DEF Bytes
<1>4. Bytes(none) <= Quota
  BY <1>3, ChatAssumption
<1> QED BY <1>4 DEF none

\* Removing a stored transcript leaves the others within the quota.
LEMMA DroppingFits ==
  ASSUME NEW disk \in [Identities -> Seq(Turns)], NEW k \in Identities, Bytes(disk) <= Quota
  PROVE  Bytes([disk EXCEPT ![k] = <<>>]) <= Quota
<1> DEFINE less == [disk EXCEPT ![k] = <<>>]
<1>1. Len(less[k]) = 0 /\ \A j \in Identities \ {k} : less[j] = disk[j]
  OBVIOUS
<1> HIDE DEF less
<1>2. Pieces(less) \subseteq Pieces(disk)
  BY <1>1, ChatAssumption DEF Pieces
<1>3. IsFiniteSet(Pieces(disk))
  <2>1. IsFiniteSet(1 .. MaxMessages) /\ IsFiniteSet(1 .. AnswerSize)
    BY ChatAssumption, FS_Interval
  <2>2. IsFiniteSet((1 .. MaxMessages) \X (1 .. AnswerSize))
    BY <2>1, FS_Product
  <2>3. IsFiniteSet(Identities \X ((1 .. MaxMessages) \X (1 .. AnswerSize)))
    BY <2>2, ChatAssumption, FS_Product
  <2> QED BY <2>3, FS_Subset DEF Pieces
<1>4. Bytes(less) \in Nat /\ Bytes(disk) \in Nat /\ Bytes(less) <= Bytes(disk)
  BY <1>2, <1>3, FS_Subset, FS_CardinalityType DEF Bytes
<1>5. Bytes(less) <= Quota
  BY <1>4, ChatAssumption
<1> QED BY <1>5 DEF less

\* What fits of a transcript is kept.
FitsIsStored(disk, k, ms) ==
  /\ HasRoom(disk, k, Newest(ms, MaxMessages)) => disk[k] = Newest(ms, MaxMessages)
  /\ HasRoom(disk, k, Newest(ms, KeptTail)) => disk[k] \in {Newest(ms, MaxMessages), Newest(ms, KeptTail)}

\* Saving what is on the screen stores what the cap and the quota keep of it.
LEMMA SavedIsStored ==
  ASSUME NEW before \in [Identities -> Seq(Turns)], NEW k \in Identities, NEW ms \in Seq(Turns),
         Capped(before)
  PROVE  /\ Saved(before, k, ms) \in [Identities -> Seq(Turns)]
         /\ Capped(Saved(before, k, ms))
         /\ ms # <<>> /\ ~blocked => FitsIsStored(Saved(before, k, ms), k, ms)
<1>1. CASE ms = <<>> \/ blocked
  BY <1>1 DEF Saved
<1>2. CASE ms # <<>> /\ ~blocked
  <2>1. PICK whole : whole = Newest(ms, MaxMessages)
    OBVIOUS
  <2>2. PICK tail : tail = Newest(ms, KeptTail)
    OBVIOUS
  <2>3. /\ whole \in Seq(Turns) /\ Len(whole) <= MaxMessages
        /\ tail \in Seq(Turns) /\ Len(tail) <= MaxMessages
    <3>1. MaxMessages \in Nat /\ KeptTail \in Nat /\ KeptTail <= MaxMessages
      BY ChatAssumption
    <3>2. tail \in Seq(Turns) /\ Len(tail) <= KeptTail /\ Len(tail) \in Nat
      BY <2>2, <3>1, NewestIsShort, LenProperties
    <3> QED BY <2>1, <3>1, <3>2, NewestIsShort
  <2>4. PICK kept : kept = Kept(before, k, ms)
    OBVIOUS
  <2>5. \/ HasRoom(before, k, whole) /\ kept = whole
        \/ ~HasRoom(before, k, whole) /\ HasRoom(before, k, tail) /\ kept = tail
        \/ ~HasRoom(before, k, whole) /\ ~HasRoom(before, k, tail) /\ kept = before[k]
    BY <2>1, <2>2, <2>4 DEF Kept
  <2>6. PICK after : after = Saved(before, k, ms)
    OBVIOUS
  <2>7. after = [before EXCEPT ![k] = kept]
    BY <1>2, <2>4, <2>6 DEF Saved
  <2>8. kept \in Seq(Turns) /\ Len(kept) <= MaxMessages
    BY <2>3, <2>5 DEF Capped
  <2>9. after \in [Identities -> Seq(Turns)] /\ after[k] = kept /\ \A j \in Identities : Len(after[j]) <= MaxMessages
    BY <2>7, <2>8 DEF Capped
  <2>10. Bytes(after) <= Quota
    <3>1. CASE kept = before[k]
      <4>1. after = before
        BY <2>7, <3>1
      <4> QED BY <4>1 DEF Capped
    <3>2. CASE kept # before[k]
      BY <2>5, <2>7, <3>2 DEF HasRoom
    <3> QED BY <3>1, <3>2
  <2>11. \A x : HasRoom(after, k, x) <=> HasRoom(before, k, x)
    <3>1. ASSUME NEW x PROVE [after EXCEPT ![k] = x] = [before EXCEPT ![k] = x]
      BY <2>7
    <3> QED BY <3>1 DEF HasRoom
  <2>12. FitsIsStored(after, k, ms)
    BY <2>1, <2>2, <2>5, <2>9, <2>11 DEF FitsIsStored
  <2> QED BY <2>6, <2>9, <2>10, <2>12 DEF Capped
<1> QED BY <1>1, <1>2

\* A transcript that is stored comes back whole when it is saved over another.
LEMMA SavedComesBack ==
  ASSUME NEW before \in [Identities -> Seq(Turns)], NEW k \in Identities, NEW ms \in Seq(Turns),
         Capped(before), before[k] # <<>>
  PROVE  Saved(Saved(before, k, ms), k, before[k]) = before
<1>1. CASE blocked
  BY <1>1 DEF Saved
<1>2. CASE ~blocked
  <2>1. PICK once : once = Saved(before, k, ms)
    OBVIOUS
  <2>2. once \in [Identities -> Seq(Turns)] /\ [once EXCEPT ![k] = before[k]] = before
    <3>1. once = before \/ once = [before EXCEPT ![k] = Kept(before, k, ms)]
      BY <2>1 DEF Saved
    <3>2. once \in [Identities -> Seq(Turns)]
      BY <2>1, SavedIsStored
    <3> QED BY <3>1, <3>2
  <2>3. Newest(before[k], MaxMessages) = before[k]
    BY DEF Newest, Capped
  <2>4. HasRoom(once, k, before[k])
    BY <2>2 DEF HasRoom, Capped
  <2>5. Kept(once, k, before[k]) = before[k]
    BY <2>3, <2>4 DEF Kept
  <2> QED BY <1>2, <2>1, <2>2, <2>5 DEF Saved
<1> QED BY <1>1, <1>2

\* Whatever handler shows a transcript, the storage follows it.
LEMMA ShowInv ==
  ASSUME IInv, NEW ms \in Seq(Turns), Show(ms), who' = who, blocked' = blocked
  PROVE  /\ messages' \in Seq(Turns) /\ stored' \in [Identities -> Seq(Turns)]
         /\ WithinCaps' /\ StorageFollowsTheScreen'
<1>1. /\ Saved(stored, who, ms) \in [Identities -> Seq(Turns)]
      /\ Capped(Saved(stored, who, ms))
      /\ ms # <<>> /\ ~blocked => FitsIsStored(Saved(stored, who, ms), who, ms)
  BY SavedIsStored DEF IInv, TypeOK, WithinCaps
<1>2. messages' = ms /\ stored' = Saved(stored, who, ms)
  BY DEF Show
<1>3. WithinCaps'
  BY <1>1, <1>2 DEF WithinCaps
<1>4. ms # <<>> /\ ~blocked => FitsIsStored(stored', who, ms)
  BY <1>1, <1>2
<1> QED BY <1>1, <1>2, <1>3, <1>4 DEF StorageFollowsTheScreen, FitsIsStored

\* Submit keeps the invariant.
LEMMA SubmitInv ==
  ASSUME IInv, NEW ms \in Seq(Turns), Submit(ms), open' = TRUE
  PROVE  IInv'
<1>1. asks + 1 \in 1 .. MaxAsks /\ asks' = asks + 1 /\ who \in Identities
  BY ChatAssumption DEF IInv, TypeOK, Submit
<1>2. User(asks + 1, who) \in Turns
  BY <1>1 DEF Turns, User
<1>3. Append(ms, User(asks + 1, who)) \in Seq(Turns)
  BY <1>2, AppendProperties
<1>4. ask' \in Asks
  BY <1>1 DEF Submit, Asks
<1>5. /\ messages' \in Seq(Turns) /\ stored' \in [Identities -> Seq(Turns)]
      /\ WithinCaps' /\ StorageFollowsTheScreen'
  BY <1>3, ShowInv DEF Submit
<1>6. who' \in Identities /\ asks' \in 0 .. MaxAsks /\ blocked' \in BOOLEAN
  BY <1>1 DEF IInv, TypeOK, Submit
<1>7. open' \in BOOLEAN /\ error' \in BOOLEAN
  BY Zenon DEF Submit
<1> QED BY <1>4, <1>5, <1>6, <1>7 DEF IInv, TypeOK

\* What a delivery adds to the transcript.
LEMMA DeliverAdds ==
  ASSUME IInv, ask # NoAsk, Deliver, who' = who, blocked' = blocked
  PROVE  /\ messages' \in Seq(Turns) /\ stored' \in [Identities -> Seq(Turns)]
         /\ WithinCaps' /\ StorageFollowsTheScreen'
         /\ \E i \in DOMAIN messages' : messages'[i] = Assistant(ask.ask, ask.of)
<1> DEFINE a == Assistant(ask.ask, ask.of)
<1>1. a \in Turns /\ messages \in Seq(Turns)
  BY DEF IInv, TypeOK, Asks, Turns, Assistant
<1>2. Append(messages, a) \in Seq(Turns)
  BY <1>1, AppendProperties
<1>3. messages' = Append(messages, a)
  BY DEF Deliver, Show
<1>4. Len(messages) + 1 \in DOMAIN messages' /\ messages'[Len(messages) + 1] = a
  BY <1>1, <1>2, <1>3, AppendProperties, LenProperties
<1> QED BY <1>2, <1>4, ShowInv DEF Deliver

\* The chat begins in the invariant.
LEMMA InitInv ==
  ASSUME Init PROVE IInv
<1>1. <<>> \in Seq(Turns) /\ Len(<<>>) = 0
  OBVIOUS
<1>2. TypeOK
  <2>1. stored \in [Identities -> Seq(Turns)] /\ messages \in Seq(Turns) /\ asks \in 0 .. MaxAsks
    BY <1>1, ChatAssumption DEF Init
  <2>2. open \in BOOLEAN /\ error \in BOOLEAN /\ blocked \in BOOLEAN
    BY Zenon DEF Init
  <2> QED BY <2>1, <2>2 DEF Init, TypeOK
<1>3. WithinCaps /\ StorageFollowsTheScreen
  BY <1>1, ChatAssumption, EmptyFits DEF Init, WithinCaps, Capped, StorageFollowsTheScreen
<1> QED BY <1>2, <1>3 DEF IInv, Init

\* Switch keeps the invariant.
LEMMA SwitchInv ==
  ASSUME IInv, NEW k \in Identities, Switch(k)
  PROVE  IInv'
<1> USE DEF IInv, TypeOK, Switch
<1>1. ask' \in Asks \cup {NoAsk} /\ (ask' # NoAsk => ask # NoAsk)
  BY DEF Moved, Asks
<1>2. CASE open
  <2> DEFINE once == Saved(stored, k, messages)
  <2>1. /\ once \in [Identities -> Seq(Turns)]
        /\ Capped(once)
    BY SavedIsStored DEF WithinCaps
  <2> HIDE DEF once
  <2>2. /\ messages' \in Seq(Turns) /\ stored' \in [Identities -> Seq(Turns)]
        /\ WithinCaps' /\ StorageFollowsTheScreen'
    <3>1. messages' = stored[k] /\ stored[k] \in Seq(Turns) /\ who' = k /\ blocked' = blocked
      BY <1>2
    <3>2. stored' = Saved(once, k, stored[k])
      BY <1>2 DEF once
    <3>3. /\ Saved(once, k, stored[k]) \in [Identities -> Seq(Turns)]
          /\ Capped(Saved(once, k, stored[k]))
          /\ stored[k] # <<>> /\ ~blocked => FitsIsStored(Saved(once, k, stored[k]), k, stored[k])
      BY <2>1, <3>1, SavedIsStored
    <3>4. stored' \in [Identities -> Seq(Turns)] /\ WithinCaps'
      BY <3>2, <3>3 DEF WithinCaps
    <3>5. messages' # <<>> /\ ~blocked' => FitsIsStored(stored', who', messages')
      BY <3>1, <3>2, <3>3
    <3> QED BY <3>1, <3>4, <3>5 DEF StorageFollowsTheScreen, FitsIsStored
  <2> QED BY <1>1, <2>2
<1>3. CASE ~open
  BY <1>1, <1>3 DEF WithinCaps, StorageFollowsTheScreen
<1> QED BY <1>2, <1>3

\* Wipe keeps the invariant.
LEMMA WipeInv ==
  ASSUME IInv, Wipe
  PROVE  IInv'
<1> USE DEF IInv, TypeOK, Wipe
<1>1. ask' \in Asks \cup {NoAsk} /\ (ask' # NoAsk => ask # NoAsk)
  BY DEF Moved, Asks
<1>2. <<>> \in Seq(Turns) /\ Len(<<>>) = 0
  OBVIOUS
<1>3. Capped([stored EXCEPT ![who] = <<>>])
  <2>1. Bytes([stored EXCEPT ![who] = <<>>]) <= Quota
    BY DroppingFits DEF WithinCaps, Capped
  <2>2. \A k \in Identities : Len([stored EXCEPT ![who] = <<>>][k]) <= MaxMessages
    BY <1>2, ChatAssumption DEF WithinCaps, Capped
  <2> QED BY <2>1, <2>2 DEF Capped
<1>4. WithinCaps' /\ StorageFollowsTheScreen'
  BY <1>3 DEF WithinCaps, StorageFollowsTheScreen
<1> QED BY <1>1, <1>2, <1>4

\* Dismiss keeps the invariant.
LEMMA DismissInv ==
  ASSUME IInv, NEW i \in DOMAIN messages, Dismiss(i)
  PROVE  IInv'
<1>1. messages \in Seq(Turns) /\ i \in 1 .. Len(messages) /\ Len(messages) \in Nat
      /\ \A j \in 1 .. Len(messages) : messages[j] \in Turns
  BY LenProperties DEF IInv, TypeOK
<1>2. SubSeq(messages, 1, i - 1) \in Seq(Turns) /\ SubSeq(messages, i + 1, Len(messages)) \in Seq(Turns)
  BY <1>1, SubSeqProperties
<1>3. RemoveAt(messages, i) \in Seq(Turns)
  BY <1>2, ConcatProperties DEF RemoveAt
<1> QED BY <1>3, ShowInv DEF Dismiss, IInv, TypeOK

\* Every step of the chat keeps the invariant.
LEMMA StepInv ==
  ASSUME IInv, [Next]_vars
  PROVE  IInv'
<1>1. CASE Launch
  <2>1. stored[who] \in Seq(Turns)
    BY DEF IInv, TypeOK
  <2> QED BY <1>1, <2>1, SubmitInv DEF Launch
<1>2. CASE Ask
  <2>1. messages \in Seq(Turns) /\ open' = TRUE
    BY <1>2 DEF Ask, IInv, TypeOK
  <2> QED BY <1>2, <2>1, SubmitInv DEF Ask
<1>3. CASE Resume
  <2>1. stored[who] \in Seq(Turns)
    BY DEF IInv, TypeOK
  <2> QED BY <1>3, <2>1, ShowInv DEF Resume, IInv, TypeOK
<1>4. CASE AnswerFrame \/ BatchAnswers
  <2>1. /\ ask # NoAsk /\ Deliver /\ who' = who /\ blocked' = blocked /\ open' = open
        /\ asks' = asks /\ error' = error
    BY <1>4 DEF AnswerFrame, BatchAnswers, Frame, Settled
  <2>2. ask' \in Asks \cup {NoAsk}
    BY <1>4 DEF AnswerFrame, BatchAnswers, Frame, Settled, IInv, TypeOK, Asks
  <2> QED BY <2>1, <2>2, DeliverAdds DEF IInv, TypeOK
<1>5. CASE ErrorFrame \/ StreamEnds \/ StreamBreaks \/ BatchFails
  <2>1. /\ UNCHANGED <<who, open, messages, stored, blocked, asks>> /\ ask # NoAsk
        /\ ask' \in Asks \cup {NoAsk} /\ error' \in BOOLEAN
    BY <1>5 DEF ErrorFrame, StreamEnds, StreamBreaks, BatchFails, Frame, Settled, IInv, TypeOK, Asks
  <2> QED BY <2>1 DEF IInv, TypeOK, WithinCaps, StorageFollowsTheScreen
<1>6. CASE Close
  <2>1. <<>> \in Seq(Turns)
    OBVIOUS
  <2> QED BY <1>6, <2>1 DEF Close, IInv, TypeOK, WithinCaps, StorageFollowsTheScreen
<1>7. CASE UNCHANGED vars
  BY <1>7 DEF vars, IInv, TypeOK, WithinCaps, StorageFollowsTheScreen
<1> QED BY <1>1, <1>2, <1>3, <1>4, <1>5, <1>6, <1>7, SwitchInv, WipeInv, DismissInv DEF Next

\* The invariant of the chat holds always.
LEMMA Invariance == Spec => []IInv
BY InitInv, StepInv, PTL DEF Spec

-----------------------------------------------------------------------------
\* The variables keep their types.
THEOREM ChatTypes == Spec => []TypeOK
BY Invariance, PTL DEF IInv

\* What is on screen is what is stored under the identity in force, or its tail, as far as
\* either fits beside the other identities' transcripts, whatever the cap, the tail and the
\* quota.
THEOREM ScreenIsStored == Spec => []StorageFollowsTheScreen
BY Invariance, PTL DEF IInv

\* A question ends with an answer in the transcript or an error on screen.
THEOREM QuestionsEnd == Spec => NoQuestionIsLost
<1> DEFINE Lost == /\ ask # NoAsk /\ open' /\ (ask' = NoAsk \/ ask'.ask # ask.ask)
                   /\ ~(\/ ask.answered \/ error'
                        \/ \E i \in DOMAIN messages' : messages'[i] = Assistant(ask.ask, ask.of))
<1>1. ASSUME IInv, [Next]_vars PROVE ~Lost
  <2> SUFFICES ASSUME Lost PROVE FALSE
    OBVIOUS
  <2>1. open /\ ask \in Asks
    BY <1>1 DEF IInv, TypeOK
  <2>2. ask' # ask
    BY DEF Asks
  <2>3. ~Launch /\ ~Resume /\ ~Ask
    BY <2>1 DEF Launch, Resume, Ask
  <2>4. ~AnswerFrame /\ ~StreamBreaks
    BY <2>1, ChatAssumption DEF AnswerFrame, StreamBreaks, Asks
  <2>5. ~ErrorFrame /\ ~StreamEnds /\ ~BatchFails
    BY DEF ErrorFrame, StreamEnds, BatchFails
  <2>6. ~BatchAnswers
    BY <1>1, DeliverAdds DEF BatchAnswers, Settled
  <2>7. ~Wipe /\ \A k \in Identities : ~Switch(k)
    BY <2>1, ChatAssumption DEF Wipe, Switch, Moved, Asks
  <2>8. ~Close /\ \A i \in DOMAIN messages : ~Dismiss(i)
    BY <2>2 DEF Close, Dismiss
  <2> QED BY <1>1, <2>2, <2>3, <2>4, <2>5, <2>6, <2>7, <2>8 DEF Next, vars
<1>2. ASSUME IInv, [Next]_vars
      PROVE  [ask # NoAsk /\ open' /\ (ask' = NoAsk \/ ask'.ask # ask.ask)
                => \/ ask.answered \/ error'
                   \/ \E i \in DOMAIN messages' : messages'[i] = Assistant(ask.ask, ask.of)]_vars
  BY <1>1, <1>2
<1> QED BY <1>2, Invariance, PTL DEF Spec, NoQuestionIsLost

\* An identity that has a conversation gets it back, and keeps it, when switched to.
THEOREM SwitchesKeep == Spec => SwitchKeepsTheTranscript
<1>1. ASSUME IInv, [Next]_vars
      PROVE  [open /\ who' # who /\ stored[who'] # <<>>
                => messages' = stored[who'] /\ stored' = stored]_vars
  <2> SUFFICES ASSUME open, who' # who, stored[who'] # <<>>
               PROVE  messages' = stored[who'] /\ stored' = stored
    OBVIOUS
  <2>1. PICK k \in Identities : Switch(k)
    BY <1>1 DEF Next, vars, Launch, Resume, Ask, Submit, AnswerFrame, ErrorFrame, StreamEnds,
       StreamBreaks, BatchAnswers, BatchFails, Settled, Wipe, Close, Dismiss
  <2>2. who' = k /\ messages' = stored[k]
        /\ stored' = Saved(Saved(stored, k, messages), k, stored[k])
    BY <2>1 DEF Switch
  <2>3. stored \in [Identities -> Seq(Turns)] /\ messages \in Seq(Turns) /\ Capped(stored)
    BY <1>1 DEF IInv, TypeOK, WithinCaps
  <2>4. stored[k] # <<>>
    BY <2>2
  <2>5. stored' = stored
    BY <2>2, <2>3, <2>4, SavedComesBack
  <2> QED BY <2>2, <2>5
<1> QED BY <1>1, Invariance, PTL DEF Spec, SwitchKeepsTheTranscript

(***************************************************************************)
(* The live stream.                                                        *)
(***************************************************************************)

\* The flag is up exactly when nothing is mounted; a socket in use has the tenant its
\* connect was made for, and one that is closing was closed by the hook.
Flags ==
  /\ Mounted <=> ~teardownRef
  /\ \A s \in Sockets :
       /\ sock[s].ready = "free" => sock[s] = Free
       /\ sock[s].ready # "free" => sock[s].tenant \in Tenants
       /\ sock[s].ours <=> sock[s].ready = "closing"
\* Before the first race a page waits for a timer or has a socket, not both.
OneOrTheOther == ~raced /\ Handles # {} => wsRef = None

HookIInv == HookTypeOK /\ Flags /\ OneOrTheOther /\ StreamNeverStops /\ UnracedPageLetsGo

\* Opening a socket: what it changes and what it finds.
LEMMA ConnectOpens ==
  ASSUME NEW t, NEW ref, NEW socks, Connect(t, ref, socks)
  PROVE  \/ ref # None /\ socks[ref].ready \in {"connecting", "open"} /\ sock' = socks /\ wsRef' = ref
         \/ \E s \in Sockets :
              /\ socks[s] = Free /\ wsRef' = s
              /\ sock' = [socks EXCEPT ![s] =
                            [ready |-> "connecting", tenant |-> t, ours |-> FALSE]]
BY DEF Connect

\* The live page begins in the invariant.
LEMMA HookInitInv ==
  ASSUME HookInit PROVE HookIInv
<1> USE LiveStreamAssumption DEF HookInit, Mounted, Free, Live, Handles
<1>1. HookTypeOK
  <2>1. sock \in [Sockets -> [ready : {"free", "connecting", "open", "closing"},
                             tenant : Tenants \cup {None}, ours : BOOLEAN]]
    OBVIOUS
  <2>2. armed \in [Timers -> Tenants \cup {None}]
    OBVIOUS
  <2>3. /\ teardownRef \in BOOLEAN /\ ping \in BOOLEAN
        /\ connected \in BOOLEAN /\ raced \in BOOLEAN
    BY Zenon
  <2>4. selects \in 0 .. MaxSelects
    OBVIOUS
  <2> QED BY <2>1, <2>2, <2>3, <2>4 DEF HookTypeOK
<1>2. Flags /\ OneOrTheOther
  BY DEF Flags, OneOrTheOther
<1>3. StreamNeverStops /\ UnracedPageLetsGo
  BY DEF StreamNeverStops, UnracedPageLetsGo
<1> QED BY <1>1, <1>2, <1>3 DEF HookIInv

\* Select keeps the invariant.
LEMMA SelectInv ==
  ASSUME HookIInv, NEW t \in Tenants, Select(t)
  PROVE  HookIInv'
<1> USE LiveStreamAssumption DEF HookIInv, Mounted, Free, Live, Handles
<1>1. Closing \in [Sockets -> [ready : {"free", "connecting", "open", "closing"},
                               tenant : Tenants \cup {None}, ours : BOOLEAN]]
  BY DEF HookTypeOK, Closing
<1>2. PICK s \in Sockets :
        /\ Closing[s] = Free /\ wsRef' = s
        /\ sock' = [Closing EXCEPT ![s] = [ready |-> "connecting", tenant |-> t, ours |-> FALSE]]
  BY ConnectOpens DEF Select
<1>3. /\ tenant' = t /\ teardownRef' = FALSE /\ timerRef' = None /\ ping' = FALSE
      /\ armed' = Cleared /\ selects' \in 0 .. MaxSelects /\ UNCHANGED <<connected, raced>>
  BY DEF Select, HookTypeOK
<1>4. HookTypeOK'
  BY <1>1, <1>2, <1>3 DEF HookTypeOK, Cleared
<1>5. Flags'
  BY <1>1, <1>2, <1>3 DEF Flags, Closing, HookTypeOK
<1>6. ~raced => \A h \in Timers : armed'[h] = None
  BY <1>3 DEF UnracedPageLetsGo, Cleared, HookTypeOK
<1>7. OneOrTheOther'
  BY <1>3, <1>6 DEF OneOrTheOther
<1>8. StreamNeverStops'
  BY <1>1, <1>2 DEF StreamNeverStops
<1>9. UnracedPageLetsGo'
  <2>1. ~raced => \A x \in Sockets : Closing[x].ready \notin {"connecting", "open"}
    BY DEF UnracedPageLetsGo, Closing, HookTypeOK
  <2> QED BY <1>1, <1>2, <1>3, <1>6, <2>1 DEF UnracedPageLetsGo
<1> QED BY <1>4, <1>5, <1>7, <1>8, <1>9

\* Unmount keeps the invariant.
LEMMA UnmountInv ==
  ASSUME HookIInv, Unmount
  PROVE  HookIInv'
<1> USE LiveStreamAssumption DEF HookIInv, Mounted, Free, Live, Handles, Unmount, HookTypeOK
<1>1. HookTypeOK'
  BY DEF Closing, Cleared
<1>2. Flags'
  BY DEF Flags, Closing
<1>3. OneOrTheOther' /\ StreamNeverStops'
  BY DEF OneOrTheOther, StreamNeverStops
<1>4. UnracedPageLetsGo'
  BY DEF UnracedPageLetsGo, Closing, Cleared
<1> QED BY <1>1, <1>2, <1>3, <1>4

\* A socket that opens keeps the invariant.
LEMMA OpenedInv ==
  ASSUME HookIInv, NEW s \in Sockets, Opened(s)
  PROVE  HookIInv'
<1> USE LiveStreamAssumption DEF HookIInv, Mounted, Free, Live, Handles, Opened, page, HookTypeOK
<1>1. HookTypeOK'
  OBVIOUS
<1>2. Flags'
  BY DEF Flags
<1>3. OneOrTheOther' /\ StreamNeverStops'
  BY DEF OneOrTheOther, StreamNeverStops
<1>4. UnracedPageLetsGo'
  BY DEF UnracedPageLetsGo, Flags
<1> QED BY <1>1, <1>2, <1>3, <1>4

\* A socket that is dropped and one whose close ends are handled alike.
LEMMA OnCloseInv ==
  ASSUME HookIInv, NEW s \in Sockets, sock[s].ready # "free", OnClose(s)
  PROVE  HookIInv'
<1> USE LiveStreamAssumption DEF HookIInv, Mounted, Free, Live, Handles, OnClose, page
<1>1. sock' = [sock EXCEPT ![s] = Free] /\ wsRef' = None /\ ping' = FALSE
      /\ UNCHANGED <<tenant, selects, teardownRef>>
  OBVIOUS
<1>2. connected' \in BOOLEAN
  BY Zenon
<1>3. sock' \in [Sockets -> [ready : {"free", "connecting", "open", "closing"},
                            tenant : Tenants \cup {None}, ours : BOOLEAN]]
  BY <1>1 DEF HookTypeOK
<1>4. CASE teardownRef
  <2>1. tenant = None /\ UNCHANGED <<armed, timerRef, raced>>
    BY <1>4 DEF Flags, HookTypeOK
  <2>2. HookTypeOK'
    BY <1>1, <1>2, <1>3, <2>1 DEF HookTypeOK
  <2>3. Flags'
    BY <1>1, <2>1, <1>4 DEF Flags, HookTypeOK
  <2>4. OneOrTheOther' /\ StreamNeverStops'
    BY <1>1, <2>1 DEF OneOrTheOther, StreamNeverStops
  <2>5. UnracedPageLetsGo'
    BY <1>1, <2>1 DEF UnracedPageLetsGo, Flags, HookTypeOK
  <2> QED BY <2>2, <2>3, <2>4, <2>5
<1>5. CASE ~teardownRef
  <2>1. PICK h \in Timers \ (Handles \cup {timerRef}) :
          armed' = [armed EXCEPT ![h] = sock[s].tenant] /\ timerRef' = h
    BY <1>5
  <2>2. /\ sock[s].tenant \in Tenants /\ tenant # None
        /\ raced' \in BOOLEAN /\ (~raced' => ~raced /\ ~sock[s].ours)
    <3>1. sock[s].tenant \in Tenants /\ tenant # None
      BY <1>5 DEF Flags
    <3>2. raced' = (raced \/ (sock[s].ours /\ ~teardownRef))
      OBVIOUS
    <3> QED BY <1>5, <3>1, <3>2, Zenon
  <2>3. HookTypeOK'
    BY <1>1, <1>2, <1>3, <2>1, <2>2 DEF HookTypeOK
  <2>4. Flags'
    BY <1>1, <1>5 DEF Flags, HookTypeOK
  <2>5. OneOrTheOther'
    BY <1>1 DEF OneOrTheOther
  <2>6. StreamNeverStops'
    BY <1>1, <2>1, <2>2 DEF StreamNeverStops, HookTypeOK
  <2>7. UnracedPageLetsGo'
    <3> SUFFICES ASSUME ~raced' PROVE UnracedPageLetsGo'
      BY DEF UnracedPageLetsGo
    <3>1. ~raced /\ ~sock[s].ours
      BY <2>2 DEF HookTypeOK
    <3>2. Live(s) /\ s = wsRef /\ sock[s].tenant = tenant
      BY <3>1 DEF UnracedPageLetsGo, Flags, HookTypeOK
    <3>3. \A x \in Sockets : x # s => ~Live(x)
      BY <3>1, <3>2 DEF UnracedPageLetsGo
    <3>4. \A x \in Timers : armed[x] = None
      BY <3>1, <3>2 DEF OneOrTheOther
    <3> QED BY <1>1, <2>1, <2>2, <3>2, <3>3, <3>4 DEF UnracedPageLetsGo, HookTypeOK
  <2> QED BY <2>3, <2>4, <2>5, <2>6, <2>7
<1> QED BY <1>4, <1>5

\* A timer that fires keeps the invariant.
LEMMA FireInv ==
  ASSUME HookIInv, NEW h \in Timers, Fire(h)
  PROVE  HookIInv'
<1> USE LiveStreamAssumption DEF HookIInv, Mounted, Free, Live, Handles, page
<1>1. /\ armed[h] \in Tenants /\ armed' = [armed EXCEPT ![h] = None]
      /\ UNCHANGED <<tenant, selects, teardownRef, timerRef, ping, connected, raced>>
  BY DEF Fire, HookTypeOK
<1>2. CASE /\ wsRef # None /\ sock[wsRef].ready \in {"connecting", "open"}
           /\ sock' = sock /\ wsRef' = wsRef
  <2>1. HookTypeOK' /\ Flags'
    BY <1>1, <1>2 DEF HookTypeOK, Flags
  <2>2. OneOrTheOther' /\ UnracedPageLetsGo'
    BY <1>1, <1>2 DEF OneOrTheOther, UnracedPageLetsGo, HookTypeOK
  <2>3. StreamNeverStops'
    BY <1>1, <1>2 DEF StreamNeverStops, HookTypeOK
  <2> QED BY <2>1, <2>2, <2>3
<1>3. ASSUME NEW s \in Sockets, sock[s] = Free, wsRef' = s,
             sock' = [sock EXCEPT ![s] =
                        [ready |-> "connecting", tenant |-> armed[h], ours |-> FALSE]]
      PROVE  HookIInv'
  <2>1. HookTypeOK'
    BY <1>1, <1>3 DEF HookTypeOK
  <2>2. Flags'
    BY <1>1, <1>3 DEF HookTypeOK, Flags
  <2>3. StreamNeverStops'
    BY <1>1, <1>3 DEF StreamNeverStops, HookTypeOK
  <2>4. ~raced => /\ wsRef = None /\ armed[h] = tenant /\ h = timerRef
                  /\ \A x \in Sockets : ~Live(x)
                  /\ \A x \in Timers : armed'[x] = None
    BY <1>1 DEF OneOrTheOther, UnracedPageLetsGo, HookTypeOK
  <2>5. OneOrTheOther'
    BY <1>1, <2>4 DEF OneOrTheOther
  <2>6. UnracedPageLetsGo'
    BY <1>1, <1>3, <2>4 DEF UnracedPageLetsGo, HookTypeOK
  <2> QED BY <2>1, <2>2, <2>3, <2>5, <2>6
<1> QED BY <1>2, <1>3, ConnectOpens DEF Fire

\* Every step of the live page keeps the invariant.
LEMMA HookStepInv ==
  ASSUME HookIInv, [HookNext]_hookVars
  PROVE  HookIInv'
<1>1. ASSUME NEW s \in Sockets, Opened(s) \/ Drop(s) \/ CloseEnds(s) PROVE HookIInv'
  BY <1>1, OpenedInv, OnCloseInv DEF Drop, CloseEnds, Live
<1>2. CASE UNCHANGED hookVars
  BY <1>2 DEF hookVars, page, refs, HookIInv, HookTypeOK, Flags, OneOrTheOther, StreamNeverStops,
     UnracedPageLetsGo, Mounted, Handles, Live, Free
<1> QED BY <1>1, <1>2, SelectInv, UnmountInv, FireInv DEF HookNext, Network

\* The invariant of the live page holds always.
LEMMA HookInvariance == HookSpec => []HookIInv
BY HookInitInv, HookStepInv, PTL DEF HookSpec

\* A mounted page always has a socket, a close to be told of or an armed timer.
THEOREM PageKeepsTrying == HookSpec => []StreamNeverStops
BY HookInvariance, PTL DEF HookIInv

\* Until a selection is told of an earlier one's close, the page has one socket or one
\* timer, for its tenant, and leaves neither behind.
THEOREM PageLetsGo == HookSpec => []UnracedPageLetsGo
BY HookInvariance, PTL DEF HookIInv

(***************************************************************************)
(* The agent.                                                              *)
(***************************************************************************)

\* Every set of naturals that is not empty has a least one.
LEMMA Least ==
  ASSUME NEW S, S \subseteq Nat, S # {}
  PROVE  \E x \in S : \A y \in S : x <= y
<1>1. PICK x \in S : \A y \in S : ~ (<<y, x>> \in OpToRel(<, Nat))
  <2> DEFINE R == OpToRel(<, Nat)
  <2>1. IsWellFoundedOn(R, Nat) BY NatLessThanWellFounded
  <2> HIDE DEF R
  <2>2. \E x \in S : \A y \in S : ~ (<<y, x>> \in R) BY <2>1, WFMin
  <2> QED BY <2>2 DEF R
<1>2. \A y \in S : ~(y < x)
  BY <1>1 DEF OpToRel
<1>3. x \in Nat /\ \A y \in S : y \in Nat
  OBVIOUS
<1> QED BY <1>2, <1>3

\* A set of positions that is not empty has a last one.
LEMMA Greatest ==
  ASSUME NEW n \in Nat, NEW S, S \subseteq 1 .. n, S # {}
  PROVE  \E x \in S : \A y \in S : y <= x
<1> DEFINE B == {m \in Nat : \A y \in S : y <= m}
<1>1. n \in B OBVIOUS
<1>2. PICK x \in B : \A m \in B : x <= m BY <1>1, Least
<1>3. x \in Nat /\ \A y \in S : y \in Nat /\ y >= 1 /\ y <= x BY <1>2
<1>4. PICK y \in S : TRUE OBVIOUS
<1>5. x \in S
  <2>1. SUFFICES ASSUME x \notin S PROVE FALSE OBVIOUS
  <2>2. \A z \in S : z <= x - 1 BY <1>3, <2>1
  <2>3. x - 1 \in Nat BY <1>3, <1>4
  <2>4. x - 1 \in B BY <2>2, <2>3
  <2> QED BY <1>2, <1>3, <2>4
<1> QED BY <1>3, <1>5

\* Induction, for a set instead of a predicate.
LEMMA Induct ==
  ASSUME NEW S, 0 \in S, \A n \in Nat : n \in S => n + 1 \in S
  PROVE  Nat \subseteq S
<1> SUFFICES ASSUME Nat \ S # {} PROVE FALSE OBVIOUS
<1>1. PICK x \in Nat \ S : \A y \in Nat \ S : x <= y
  BY Least
<1>2. x # 0 /\ x \in Nat
  BY <1>1
<1>3. x - 1 \in Nat /\ (x - 1) + 1 = x /\ ~ (x <= x - 1)
  BY <1>2
<1>4. x - 1 \in S
  BY <1>1, <1>3
<1> QED BY <1>1, <1>3, <1>4

\* A sequence of whatever it holds.
Listing(s) == s \in Seq(Range(s))

\* A listing is the function of its positions.
LEMMA ListingFacts ==
  ASSUME NEW s, Listing(s)
  PROVE  Len(s) \in Nat /\ DOMAIN s = 1 .. Len(s) /\ s = [j \in 1 .. Len(s) |-> s[j]]
BY LenProperties DEF Listing

\* Every sequence is a listing of its own elements.
LEMMA ListingOf ==
  ASSUME NEW T, NEW s \in Seq(T)
  PROVE  Listing(s)
<1>1. Len(s) \in Nat /\ DOMAIN s = 1 .. Len(s) /\ s = [j \in 1 .. Len(s) |-> s[j]]
  BY LenProperties
<1>2. s \in [1 .. Len(s) -> Range(s)] BY <1>1 DEF Range
<1> QED BY <1>1, <1>2, SeqDef DEF Listing

\* A function written by positions is a sequence.
LEMMA ListingMade ==
  ASSUME NEW n \in Nat, NEW s, DOMAIN s = 1 .. n, s = [j \in 1 .. n |-> s[j]]
  PROVE  Listing(s) /\ Len(s) = n
<1>1. s \in [1 .. n -> Range(s)] BY DEF Range
<1>2. s \in Seq(Range(s)) BY <1>1, SeqDef
<1>3. Len(s) \in Nat /\ DOMAIN s = 1 .. Len(s) BY <1>2, LenProperties
<1>4. n = Len(s) BY <1>3
<1> QED BY <1>2, <1>4 DEF Listing

\* The empty sequence and those of one element are listings.
LEMMA NoneListed == Listing(<<>>) /\ Range(<<>>) = {} /\ \A a : Listing(<<a>>) /\ Range(<<a>>) = {a}
<1>1. <<>> \in Seq({}) OBVIOUS
<1>2. Range(<<>>) = {} BY DEF Range
<1>3. ASSUME NEW a PROVE Listing(<<a>>) /\ Range(<<a>>) = {a}
  <2>1. Range(<<a>>) = {a} /\ <<a>> \in Seq({a}) BY DEF Range
  <2> QED BY <2>1 DEF Listing
<1> QED BY <1>1, <1>2, <1>3, ListingOf

\* Two sequences, one after the other.
LEMMA Joined ==
  ASSUME NEW s, NEW t, Listing(s), Listing(t)
  PROVE  Listing(s \o t) /\ Range(s \o t) = Range(s) \cup Range(t) /\ Len(s \o t) = Len(s) + Len(t)
<1> DEFINE S == Range(s) \cup Range(t)
           u == s \o t
<1>1. s \in Seq(S) /\ t \in Seq(S)
  <2>1. s \in Seq(Range(s)) /\ t \in Seq(Range(t)) BY DEF Listing
  <2>2. /\ Len(s) \in Nat /\ s \in [1 .. Len(s) -> Range(s)]
        /\ Len(t) \in Nat /\ t \in [1 .. Len(t) -> Range(t)] BY <2>1, LenProperties
  <2>3. s \in [1 .. Len(s) -> S] /\ t \in [1 .. Len(t) -> S] BY <2>2
  <2> QED BY <2>2, <2>3, SeqDef
<1>2. Len(s) \in Nat /\ DOMAIN s = 1 .. Len(s) /\ Len(t) \in Nat /\ DOMAIN t = 1 .. Len(t)
  BY ListingFacts
<1> HIDE DEF S
<1>3. /\ u \in Seq(S) /\ Len(u) = Len(s) + Len(t)
      /\ \A i \in 1 .. Len(s) : u[i] = s[i]
      /\ \A i \in 1 .. Len(t) : u[Len(s) + i] = t[i]
  <2>1. u \in Seq(S) BY <1>1, ConcatProperties, ZenonT(20)
  <2>2. Len(u) = Len(s) + Len(t) BY <1>1, ConcatProperties, ZenonT(20)
  <2>3. \A i \in 1 .. Len(s) + Len(t) : u[i] = IF i <= Len(s) THEN s[i] ELSE t[i - Len(s)]
    BY <1>1, ConcatProperties, ZenonT(20)
  <2>4. ASSUME NEW i \in 1 .. Len(s) PROVE u[i] = s[i]
    <3>1. i \in 1 .. Len(s) + Len(t) /\ i <= Len(s) BY <1>2
    <3> QED BY <2>3, <3>1
  <2>5. ASSUME NEW i \in 1 .. Len(t) PROVE u[Len(s) + i] = t[i]
    <3>1. Len(s) + i \in 1 .. Len(s) + Len(t) /\ ~(Len(s) + i <= Len(s)) /\ (Len(s) + i) - Len(s) = i
      BY <1>2
    <3> QED BY <2>3, <3>1
  <2> QED BY <2>1, <2>2, <2>4, <2>5
<1> HIDE DEF u
<1>4. Listing(u) /\ DOMAIN u = 1 .. Len(s) + Len(t) BY <1>3, ListingOf, ListingFacts
<1>5. ASSUME NEW x \in Range(u) PROVE x \in S
  <2>1. PICK i \in DOMAIN u : u[i] = x BY DEF Range
  <2>2. CASE i <= Len(s)
    <3>1. i \in 1 .. Len(s) BY <1>2, <1>4, <2>1, <2>2
    <3> QED BY <3>1, <1>3, <1>2, <2>1 DEF Range, S
  <2>3. CASE ~(i <= Len(s))
    <3>1. i - Len(s) \in 1 .. Len(t) /\ Len(s) + (i - Len(s)) = i BY <1>2, <1>4, <2>1, <2>3
    <3>2. u[i] = t[i - Len(s)] BY <1>3, <3>1
    <3> QED BY <3>1, <3>2, <1>2, <2>1 DEF Range, S
  <2> QED BY <2>2, <2>3
<1>6. ASSUME NEW x \in S PROVE x \in Range(u)
  <2>1. CASE x \in Range(s)
    <3>1. PICK i \in 1 .. Len(s) : s[i] = x BY <2>1, <1>2 DEF Range
    <3>2. i \in DOMAIN u /\ u[i] = x BY <1>2, <1>3, <1>4, <3>1
    <3> QED BY <3>2 DEF Range
  <2>2. CASE x \in Range(t)
    <3>1. PICK i \in 1 .. Len(t) : t[i] = x BY <2>2, <1>2 DEF Range
    <3>2. Len(s) + i \in DOMAIN u /\ u[Len(s) + i] = x BY <1>2, <1>3, <1>4, <3>1
    <3> QED BY <3>2 DEF Range
  <2> QED BY <2>1, <2>2 DEF S
<1> QED BY <1>3, <1>4, <1>5, <1>6 DEF u, S

Sift(f, s, T, m) ==
  f = [n \in 0 .. m |->
        IF n = 0 THEN <<>> ELSE IF s[n] \in T THEN Append(f[n - 1], s[n]) ELSE f[n - 1]]

\* The sifting of a sequence exists up to each of its positions, by induction.
LEMMA SiftExists ==
  ASSUME NEW s, NEW T
  PROVE  \A m \in Nat : \E f : Sift(f, s, T, m)
<1> DEFINE S == {m \in Nat : \E f : Sift(f, s, T, m)}
<1>1. 0 \in S
  <2>1. Sift([k \in 0 .. 0 |-> <<>>], s, T, 0) BY DEF Sift
  <2> QED BY <2>1
<1>2. ASSUME NEW m \in Nat, m \in S PROVE m + 1 \in S
  <2>1. PICK f : Sift(f, s, T, m) BY <1>2
  <2> DEFINE New == IF s[m + 1] \in T THEN Append(f[m], s[m + 1]) ELSE f[m]
             h == [k \in 0 .. m + 1 |-> IF k = m + 1 THEN New ELSE f[k]]
             h2 == [k \in 0 .. m + 1 |->
                     IF k = 0 THEN <<>> ELSE IF s[k] \in T THEN Append(h[k - 1], s[k]) ELSE h[k - 1]]
  <2>2. ASSUME NEW k \in 0 .. m + 1 PROVE h[k] = h2[k]
    <3>1. CASE k = m + 1
      <4>1. h[k] = New /\ k - 1 = m /\ k # 0 /\ h[k - 1] = f[m] BY <3>1
      <4>2. h2[k] = IF s[k] \in T THEN Append(h[k - 1], s[k]) ELSE h[k - 1] BY <4>1
      <4> QED BY <4>1, <4>2, <3>1
    <3>2. CASE k # m + 1
      <4>1. k \in 0 .. m /\ h[k] = f[k] BY <3>2
      <4>2. CASE k = 0
        <5>1. f[k] = <<>> BY <2>1, <4>1, <4>2 DEF Sift
        <5> QED BY <4>1, <4>2, <5>1
      <4>3. CASE k # 0
        <5>1. k - 1 \in 0 .. m + 1 /\ k - 1 # m + 1 BY <4>1, <4>3
        <5>2. h[k - 1] = f[k - 1] BY <5>1
        <5>3. f[k] = IF s[k] \in T THEN Append(f[k - 1], s[k]) ELSE f[k - 1]
          BY <2>1, <4>1, <4>3 DEF Sift
        <5> QED BY <4>1, <4>3, <5>2, <5>3
      <4> QED BY <4>2, <4>3
    <3> QED BY <3>1, <3>2
  <2>3. h = h2
    <3> HIDE DEF New
    <3> QED BY <2>2
  <2>4. Sift(h, s, T, m + 1)
    <3> HIDE DEF h
    <3> QED BY <2>3 DEF Sift
  <2> QED BY <2>4
<1> QED BY <1>1, <1>2, Induct

\* Among is the last value of a sift.
LEMMA AmongIs ==
  ASSUME NEW s, NEW T, Len(s) \in Nat
  PROVE  \E f : Sift(f, s, T, Len(s)) /\ Among(s, T) = f[Len(s)]
<1> DEFINE kept[n \in 0 .. Len(s)] ==
             IF n = 0 THEN <<>> ELSE IF s[n] \in T THEN Append(kept[n - 1], s[n]) ELSE kept[n - 1]
<1>1. kept = CHOOSE f : f = [n \in 0 .. Len(s) |->
        IF n = 0 THEN <<>> ELSE IF s[n] \in T THEN Append(f[n - 1], s[n]) ELSE f[n - 1]]
  OBVIOUS
<1>2. kept = CHOOSE f : Sift(f, s, T, Len(s)) BY <1>1 DEF Sift
<1>3. Among(s, T) = kept[Len(s)] BY DEF Among
<1> HIDE DEF kept
<1> QED BY <1>2, <1>3, SiftExists

\* What is left of a sequence is a sequence of those of its elements that are in the set.
LEMMA AmongFacts ==
  ASSUME NEW s, NEW T, Listing(s)
  PROVE  Listing(Among(s, T)) /\ Range(Among(s, T)) = Range(s) \cap T
<1>1. Len(s) \in Nat /\ DOMAIN s = 1 .. Len(s) BY ListingFacts
<1>2. PICK f : Sift(f, s, T, Len(s)) /\ Among(s, T) = f[Len(s)] BY <1>1, AmongIs
<1> DEFINE Upto(n) == {s[i] : i \in 1 .. n} \cap T
           S == {n \in Nat : n <= Len(s) => Listing(f[n]) /\ Range(f[n]) = Upto(n)}
<1>3. 0 \in S
  <2>1. f[0] = <<>> BY <1>1, <1>2 DEF Sift
  <2>2. Upto(0) = {} OBVIOUS
  <2> QED BY <2>1, <2>2, NoneListed
<1>4. ASSUME NEW n \in Nat, n \in S PROVE n + 1 \in S
  <2> SUFFICES ASSUME n + 1 <= Len(s)
               PROVE  Listing(f[n + 1]) /\ Range(f[n + 1]) = Upto(n + 1)
    OBVIOUS
  <2>1. Listing(f[n]) /\ Range(f[n]) = Upto(n) BY <1>1, <1>4
  <2>2. f[n + 1] = IF s[n + 1] \in T THEN Append(f[n], s[n + 1]) ELSE f[n]
    <3>1. n + 1 \in 0 .. Len(s) /\ n + 1 # 0 /\ (n + 1) - 1 = n BY <1>1
    <3> QED BY <1>2, <3>1 DEF Sift
  <2>3. {s[i] : i \in 1 .. n + 1} = {s[i] : i \in 1 .. n} \cup {s[n + 1]}
    <3>1. \A i : i \in 1 .. n + 1 <=> i \in 1 .. n \/ i = n + 1 OBVIOUS
    <3> HIDE DEF S, Upto
    <3> QED BY <3>1
  <2>4. CASE s[n + 1] \in T
    <3>1. Append(f[n], s[n + 1]) = f[n] \o <<s[n + 1]>>
      <4>1. f[n] \in Seq(Range(f[n]) \cup {s[n + 1]})
        <5>1. f[n] \in Seq(Range(f[n])) BY <2>1 DEF Listing
        <5>2. Len(f[n]) \in Nat /\ f[n] \in [1 .. Len(f[n]) -> Range(f[n])] BY <5>1, LenProperties
        <5>3. f[n] \in [1 .. Len(f[n]) -> Range(f[n]) \cup {s[n + 1]}] BY <5>2
        <5> QED BY <5>2, <5>3, SeqDef
      <4> QED BY <4>1, AppendIsConcat
    <3>2. Listing(<<s[n + 1]>>) /\ Range(<<s[n + 1]>>) = {s[n + 1]} BY NoneListed
    <3>3. Listing(f[n + 1]) /\ Range(f[n + 1]) = Upto(n) \cup {s[n + 1]}
      <4> HIDE DEF Upto, S
      <4> QED BY <2>1, <2>2, <2>4, <3>1, <3>2, Joined
    <3>4. Upto(n) \cup {s[n + 1]} = Upto(n + 1) BY <2>3, <2>4
    <3> QED BY <3>3, <3>4
  <2>5. CASE s[n + 1] \notin T
    <3>1. Upto(n) = Upto(n + 1) BY <2>3, <2>5
    <3> QED BY <2>1, <2>2, <2>5, <3>1
  <2> QED BY <2>4, <2>5
<1>5. Len(s) \in S
  <2> HIDE DEF S
  <2> QED BY <1>1, <1>3, <1>4, Induct
<1>6. Upto(Len(s)) = Range(s) \cap T BY <1>1 DEF Range
<1> QED BY <1>1, <1>2, <1>5, <1>6

-----------------------------------------------------------------------------
\* The registry names each capability once.
Index == [greet |-> 1, describe_identity |-> 2, describe_capabilities |-> 3, list_metrics |-> 4,
          get_insight |-> 5, get_causes |-> 6, get_factors |-> 7, get_forecast |-> 8,
          get_trend |-> 9, get_recommendations |-> 10, get_trust |-> 11, get_source_health |-> 12,
          get_runtime_cost |-> 13, rank_movements |-> 14, get_metric_contract |-> 15, compare_metrics |-> 16,
          run_localized_search |-> 17]

\* Every tool of the registry stands at one place of it.
LEMMA RegistryIndex ==
  /\ Listing(REGISTRY) /\ DOMAIN REGISTRY = 1 .. 17
  /\ \A i \in 1 .. 17 : Index[REGISTRY[i].name] = i
<1>1. Index[REGISTRY[1].name] = 1 BY DEF REGISTRY, Entry, Index
<1>2. Index[REGISTRY[2].name] = 2 BY DEF REGISTRY, Entry, Index
<1>3. Index[REGISTRY[3].name] = 3 BY DEF REGISTRY, Entry, Index
<1>4. Index[REGISTRY[4].name] = 4 BY DEF REGISTRY, Entry, Index
<1>5. Index[REGISTRY[5].name] = 5 BY DEF REGISTRY, Entry, Index
<1>6. Index[REGISTRY[6].name] = 6 BY DEF REGISTRY, Entry, Index
<1>7. Index[REGISTRY[7].name] = 7 BY DEF REGISTRY, Entry, Index
<1>8. Index[REGISTRY[8].name] = 8 BY DEF REGISTRY, Entry, Index
<1>9. Index[REGISTRY[9].name] = 9 BY DEF REGISTRY, Entry, Index
<1>10. Index[REGISTRY[10].name] = 10 BY DEF REGISTRY, Entry, Index
<1>11. Index[REGISTRY[11].name] = 11 BY DEF REGISTRY, Entry, Index
<1>12. Index[REGISTRY[12].name] = 12 BY DEF REGISTRY, Entry, Index
<1>13. Index[REGISTRY[13].name] = 13 BY DEF REGISTRY, Entry, Index
<1>14. Index[REGISTRY[14].name] = 14 BY DEF REGISTRY, Entry, Index
<1>15. Index[REGISTRY[15].name] = 15 BY DEF REGISTRY, Entry, Index
<1>16. Index[REGISTRY[16].name] = 16 BY DEF REGISTRY, Entry, Index
<1>17. Index[REGISTRY[17].name] = 17 BY DEF REGISTRY, Entry, Index
<1>18. Len(REGISTRY) = 17 /\ DOMAIN REGISTRY = 1 .. 17 BY DEF REGISTRY
<1>19. REGISTRY = [i \in 1 .. 17 |-> REGISTRY[i]] BY DEF REGISTRY
<1>20. Listing(REGISTRY) BY <1>18, <1>19, ListingMade
<1>21. \A i \in 1 .. 17 : i = 1 \/ i = 2 \/ i = 3 \/ i = 4 \/ i = 5 \/ i = 6 \/ i = 7 \/ i = 8 \/ i = 9
         \/ i = 10 \/ i = 11 \/ i = 12 \/ i = 13 \/ i = 14 \/ i = 15 \/ i = 16 \/ i = 17
  OBVIOUS
<1> HIDE DEF Index
<1>22. \A i \in 1 .. 17 : Index[REGISTRY[i].name] = i
  BY <1>1, <1>2, <1>3, <1>4, <1>5, <1>6, <1>7, <1>8, <1>9, <1>10, <1>11, <1>12, <1>13, <1>14, <1>15, <1>16,
     <1>17, <1>21
<1> QED BY <1>18, <1>20, <1>22

\* A tool's entry is found by its name.
LEMMA SpecIsItsName ==
  ASSUME NEW s \in Range(REGISTRY)
  PROVE  ToolSpec(s.name) = s /\ s.name \in Tools /\ s.name # NoMetric
<1>1. ASSUME NEW r \in Range(REGISTRY), r.name = s.name PROVE r = s
  <2>1. PICK i \in 1 .. 17 : REGISTRY[i] = r BY RegistryIndex DEF Range
  <2>2. PICK j \in 1 .. 17 : REGISTRY[j] = s BY RegistryIndex DEF Range
  <2>3. i = j BY <1>1, <2>1, <2>2, RegistryIndex
  <2> QED BY <2>1, <2>2, <2>3
<1>2. s.name \in Tools BY DEF Tools
<1> QED BY <1>1, <1>2, AgentAssumption DEF ToolSpec

\* The catalogue of the persona is of the registry.
LEMMA CatalogueIs ==
  Listing(catalogue) /\ Range(catalogue) = {s \in Range(REGISTRY) : s.intent \in me.intents}
<1> DEFINE T == {REGISTRY[i] : i \in {i \in DOMAIN REGISTRY : REGISTRY[i].intent \in me.intents}}
<1>1. catalogue = Among(REGISTRY, T) BY DEF catalogue, Those
<1>2. Range(REGISTRY) \cap T = {s \in Range(REGISTRY) : s.intent \in me.intents}
  BY RegistryIndex DEF Range
<1> HIDE DEF T
<1> QED BY <1>1, <1>2, AmongFacts, RegistryIndex

\* The capability for an intent that some of the specs have is the first of them that has it.
LEMMA CapabilityIs ==
  ASSUME NEW specs, Listing(specs), Range(specs) \subseteq Range(REGISTRY), NEW intent,
         \E s \in Range(specs) : s.intent = intent
  PROVE  LET t == Capability(specs, intent).name
         IN  t # NoMetric /\ t \in Tools /\ ToolSpec(t).intent = intent /\ ToolSpec(t) \in Range(specs)
<1> DEFINE T == {specs[i] : i \in {i \in DOMAIN specs : specs[i].intent = intent}}
           those == Among(specs, T)
<1>1. Those(specs, LAMBDA s : s.intent = intent) = those BY DEF Those
<1>2. Range(specs) \cap T = {s \in Range(specs) : s.intent = intent} BY DEF Range
<1> HIDE DEF T
<1>3. Listing(those) /\ Range(those) = {s \in Range(specs) : s.intent = intent} BY <1>2, AmongFacts
<1>4. those # <<>> BY <1>3, NoneListed
<1> HIDE DEF those
<1>5. Head(those) \in Range(those)
  <2>1. 1 \in DOMAIN those BY <1>3, <1>4, ListingFacts, EmptySeq DEF Listing
  <2>2. Head(those) = those[1] BY <1>3, <1>4 DEF Listing
  <2> QED BY <2>1, <2>2 DEF Range
<1>6. Capability(specs, intent) = Head(those) BY <1>1, <1>4 DEF Capability, HeadOr
<1>7. Head(those) \in Range(REGISTRY) BY <1>3, <1>5
<1> QED BY <1>3, <1>5, <1>6, <1>7, SpecIsItsName

-----------------------------------------------------------------------------
\* A start of a sequence.
LEMMA StartOf ==
  ASSUME NEW s, Listing(s), NEW n \in Nat
  PROVE  LET t == SubSeq(s, 1, IF Len(s) < n THEN Len(s) ELSE n)
         IN  Listing(t) /\ Range(t) \subseteq Range(s)
<1> DEFINE m == IF Len(s) < n THEN Len(s) ELSE n
           t == SubSeq(s, 1, m)
<1>1. Len(s) \in Nat /\ DOMAIN s = 1 .. Len(s) BY ListingFacts
<1>2. m \in Nat /\ m <= Len(s) BY <1>1
<1> HIDE DEF m
<1>3. t \in Seq(Range(s)) /\ Len(t) = m /\ \A i \in 1 .. m : t[i] = s[i]
  <2>1. \A i \in 1 .. m : s[i] \in Range(s) BY <1>1, <1>2 DEF Range
  <2>2. Len(t) = IF 1 <= m THEN m - 1 + 1 ELSE 0 BY <1>2, <2>1, SubSeqProperties
  <2>3. Len(t) = m BY <1>2, <2>2
  <2>4. \A i \in 1 .. m - 1 + 1 : t[i] = s[1 + i - 1] BY <1>2, <2>1, SubSeqProperties
  <2>5. \A i \in 1 .. m : i \in 1 .. m - 1 + 1 /\ 1 + i - 1 = i BY <1>2
  <2>6. \A i \in 1 .. m : t[i] = s[i]
    <3> HIDE DEF t
    <3> QED BY <2>4, <2>5
  <2> QED BY <1>2, <2>1, <2>3, <2>6, SubSeqProperties
<1> HIDE DEF t
<1>5. Listing(t) BY <1>3, ListingOf
<1>4. DOMAIN t = 1 .. m BY <1>3, <1>5, ListingFacts
<1>6. Range(t) \subseteq Range(s)
  <2>1. \A i \in 1 .. m : i \in DOMAIN s BY <1>1, <1>2
  <2> QED BY <2>1, <1>3, <1>4 DEF Range
<1> QED BY <1>5, <1>6 DEF t, m

Ranked(f, cs, m) ==
  f = [n \in 0 .. m |->
        IF n = 0 THEN <<>>
        ELSE f[n - 1] \o Among(cs, {cs[i] : i \in {i \in DOMAIN cs : Priority(cs[i]) = n - 1}})]

\* The calls by priority exist up to each of them, by induction.
LEMMA RankedExists ==
  ASSUME NEW cs
  PROVE  \A m \in Nat : \E f : Ranked(f, cs, m)
<1> DEFINE At(n) == Among(cs, {cs[i] : i \in {i \in DOMAIN cs : Priority(cs[i]) = n - 1}})
           S == {m \in Nat : \E f : Ranked(f, cs, m)}
<1>1. 0 \in S
  <2>1. Ranked([k \in 0 .. 0 |-> <<>>], cs, 0) BY DEF Ranked
  <2> QED BY <2>1
<1>2. ASSUME NEW m \in Nat, m \in S PROVE m + 1 \in S
  <2>1. PICK f : Ranked(f, cs, m) BY <1>2
  <2> DEFINE New == f[m] \o At(m + 1)
             h == [k \in 0 .. m + 1 |-> IF k = m + 1 THEN New ELSE f[k]]
             h2 == [k \in 0 .. m + 1 |-> IF k = 0 THEN <<>> ELSE h[k - 1] \o At(k)]
  <2>2. ASSUME NEW k \in 0 .. m + 1 PROVE h[k] = h2[k]
    <3> HIDE DEF At
    <3>1. CASE k = m + 1
      <4>1. h[k] = New /\ k - 1 = m /\ k # 0 /\ h[k - 1] = f[m] BY <3>1
      <4>2. h2[k] = h[k - 1] \o At(k) BY <4>1
      <4> QED BY <4>1, <4>2, <3>1
    <3>2. CASE k # m + 1
      <4>1. k \in 0 .. m /\ h[k] = f[k] BY <3>2
      <4>2. CASE k = 0
        <5>1. f[k] = <<>> BY <2>1, <4>1, <4>2 DEF Ranked
        <5> QED BY <4>1, <4>2, <5>1
      <4>3. CASE k # 0
        <5>1. k - 1 \in 0 .. m + 1 /\ k - 1 # m + 1 BY <4>1, <4>3
        <5>2. h[k - 1] = f[k - 1] BY <5>1
        <5>3. f[k] = f[k - 1] \o At(k) BY <2>1, <4>1, <4>3 DEF Ranked, At
        <5> QED BY <4>1, <4>3, <5>2, <5>3
      <4> QED BY <4>2, <4>3
    <3> QED BY <3>1, <3>2
  <2>3. h = h2
    <3> HIDE DEF New, At
    <3> QED BY <2>2
  <2>4. Ranked(h, cs, m + 1)
    <3> HIDE DEF h
    <3> QED BY <2>3 DEF Ranked
  <2> QED BY <2>4
<1> QED BY <1>1, <1>2, Induct

\* The calls by priority are those that were to be ordered.
LEMMA ByPriorityIs ==
  ASSUME NEW cs, Listing(cs)
  PROVE  Listing(ByPriority(cs)) /\ Range(ByPriority(cs)) \subseteq Range(cs)
<1> DEFINE upTo[n \in 0 .. 11] ==
             IF n = 0 THEN <<>>
             ELSE upTo[n - 1] \o Among(cs, {cs[i] : i \in {i \in DOMAIN cs : Priority(cs[i]) = n - 1}})
<1>1. upTo = CHOOSE f : f = [n \in 0 .. 11 |->
             IF n = 0 THEN <<>>
             ELSE f[n - 1] \o Among(cs, {cs[i] : i \in {i \in DOMAIN cs : Priority(cs[i]) = n - 1}})]
  OBVIOUS
<1>2. upTo = CHOOSE f : Ranked(f, cs, 11) BY <1>1 DEF Ranked
<1>3. ByPriority(cs) = upTo[11] BY DEF ByPriority, Those
<1> HIDE DEF upTo
<1>4. PICK f : Ranked(f, cs, 11) /\ ByPriority(cs) = f[11] BY <1>2, <1>3, RankedExists
<1> DEFINE S == {n \in Nat : n <= 11 => Listing(f[n]) /\ Range(f[n]) \subseteq Range(cs)}
<1>5. 0 \in S
  <2>1. f[0] = <<>> BY <1>4 DEF Ranked
  <2> QED BY <2>1, NoneListed
<1>6. ASSUME NEW n \in Nat, n \in S PROVE n + 1 \in S
  <2> SUFFICES ASSUME n + 1 <= 11
               PROVE  Listing(f[n + 1]) /\ Range(f[n + 1]) \subseteq Range(cs)
    OBVIOUS
  <2>1. Listing(f[n]) /\ Range(f[n]) \subseteq Range(cs) BY <1>6
  <2> HIDE DEF S
  <2>2. PICK T : f[n + 1] = f[n] \o Among(cs, T)
    <3>1. ASSUME NEW k \in 0 .. 11, k # 0 PROVE \E T : f[k] = f[k - 1] \o Among(cs, T)
      BY <1>4, <3>1 DEF Ranked
    <3>2. n + 1 \in 0 .. 11 /\ n + 1 # 0 /\ (n + 1) - 1 = n OBVIOUS
    <3> QED BY <3>1, <3>2
  <2>3. Listing(Among(cs, T)) /\ Range(Among(cs, T)) \subseteq Range(cs) BY AmongFacts
  <2> QED BY <2>1, <2>2, <2>3, Joined
<1>7. 11 \in S
  <2> HIDE DEF S
  <2> QED BY <1>5, <1>6, Induct
<1> QED BY <1>4, <1>7

\* The order of telling is a sequence of names.
LEMMA TellIs ==
  ASSUME NEW ts
  PROVE  Listing(Tell(ts)) /\ Range(Tell(ts)) \subseteq Range(ts)
<1>1. Listing(Telling)
  <2>1. DOMAIN Telling = 1 .. 17 BY DEF Telling
  <2>2. Telling = [i \in 1 .. 17 |-> Telling[i]] BY DEF Telling
  <2> QED BY <2>1, <2>2, ListingMade
<1> QED BY <1>1, AmongFacts DEF Tell

-----------------------------------------------------------------------------
\* The head of a sequence is of it.
LEMMA HeadIsThere ==
  ASSUME NEW s, Listing(s), s # <<>>
  PROVE  Head(s) \in Range(s)
<1>1. 1 \in DOMAIN s BY ListingFacts, EmptySeq DEF Listing
<1>2. Head(s) = s[1] BY DEF Listing
<1> QED BY <1>1, <1>2 DEF Range

\* What a persona always wants is a sequence, and the width and number of its plans are.
LEMMA ProfileFacts ==
  ASSUME NEW p \in DOMAIN Profile
  PROVE  /\ Listing(Profile[p].bias) /\ Listing(Profile[p].prefers)
         /\ Profile[p].width \in Nat /\ Profile[p].rounds \in Nat \ {0}
<1>1. \A a, b : Listing(<<a, b>>)
  <2> TAKE a, b
  <2>1. Range(<<a, b>>) = {a, b} /\ <<a, b>> \in Seq({a, b}) BY DEF Range
  <2> QED BY <2>1 DEF Listing
<1>2. \A a, b, c : Listing(<<a, b, c>>)
  <2> TAKE a, b, c
  <2>1. Range(<<a, b, c>>) = {a, b, c} /\ <<a, b, c>> \in Seq({a, b, c}) BY DEF Range
  <2> QED BY <2>1 DEF Listing
<1>3. \A a, b, c, d : Listing(<<a, b, c, d>>)
  <2> TAKE a, b, c, d
  <2>1. Range(<<a, b, c, d>>) = {a, b, c, d} /\ <<a, b, c, d>> \in Seq({a, b, c, d}) BY DEF Range
  <2> QED BY <2>1 DEF Listing
<1>4. CASE p = "cfo"
  <2>1. Profile[p].bias = <<"factor", "forecast", "action">> /\ Profile[p].width \in Nat
       /\ Profile[p].rounds \in Nat \ {0}
    BY <1>4 DEF Profile, Persona
  <2>2. Profile[p].prefers = <<"revenue", "loan_approval_volume">>
    BY <1>4 DEF Profile, Persona
  <2> QED BY <2>1, <1>2, <2>2, <1>1
<1>5. CASE p = "ops_manager"
  <2>1. Profile[p].bias = <<"cause", "action">> /\ Profile[p].width \in Nat
       /\ Profile[p].rounds \in Nat \ {0}
    BY <1>5 DEF Profile, Persona
  <2>2. Profile[p].prefers = <<"kyc_completion_rate", "signups", "loan_approval_volume", "transaction_failure_rate">>
    BY <1>5 DEF Profile, Persona
  <2> QED BY <2>1, <1>1, <2>2, <1>3
<1>6. CASE p = "analyst"
  <2>1. Profile[p].bias = <<"trend", "cause", "factor", "trust">> /\ Profile[p].width \in Nat
       /\ Profile[p].rounds \in Nat \ {0}
    BY <1>6 DEF Profile, Persona
  <2>2. Profile[p].prefers = <<>>
    BY <1>6 DEF Profile, Persona
  <2> QED BY <2>1, <1>3, <2>2, NoneListed
<1>7. CASE p = "risk_officer"
  <2>1. Profile[p].bias = <<"cause", "trust", "action">> /\ Profile[p].width \in Nat
       /\ Profile[p].rounds \in Nat \ {0}
    BY <1>7 DEF Profile, Persona
  <2>2. Profile[p].prefers = <<"transaction_failure_rate", "kyc_completion_rate", "loan_approval_volume">>
    BY <1>7 DEF Profile, Persona
  <2> QED BY <2>1, <1>2, <2>2
<1> QED BY <1>4, <1>5, <1>6, <1>7 DEF Profile

-----------------------------------------------------------------------------
(* What is planned.  A call that leaves the metric open is about the run's  *)
(* subject, or about nothing yet, and none repeats what already returned.   *)
OpenCall(c) == ~c.named /\ ToolSpec(c.tool).takes = "metric" => c.about \in {{}, Focus}
Sound(cs) ==
  Listing(cs) /\ \A c \in Range(cs) : c.tool \notin useful /\ OpenCall(c) /\ c.about \subseteq Metrics

\* What a run knows while it plans.
Planning ==
  /\ asked.persona \in Personas /\ asked.question \in Questions
  /\ Listing(reading.chain) /\ Listing(seen) /\ focus \in Metrics \cup {NoMetric}
  /\ round = 0 => seen = <<>>

\* A tool that gave something was tried.
LEMMA UsefulIsTried == useful \subseteq tried
BY DEF useful, tried

\* What a question names or refers to are metrics.
LEMMA NamesAre == Planning => Range(q.names) \subseteq Metrics /\ matched \subseteq Metrics
<1> SUFFICES ASSUME Planning PROVE Range(q.names) \subseteq Metrics /\ matched \subseteq Metrics OBVIOUS
<1>1. q.names \in Seq(Metrics) /\ q.refers \in Seq(Metrics) BY AgentAssumption DEF Planning, q
<1>2. \A s \in Seq(Metrics) : Range(s) \subseteq Metrics
  <2> TAKE s \in Seq(Metrics)
  <2>1. DOMAIN s = 1 .. Len(s) /\ s \in [1 .. Len(s) -> Metrics] BY LenProperties
  <2> QED BY <2>1 DEF Range
<1> QED BY <1>1, <1>2 DEF matched

\* What a call is about are metrics.
LEMMA ArgsAre == Planning => Focus \subseteq Metrics /\ \A t : Args(t) \subseteq Metrics
BY NamesAre DEF Planning, Focus, Args

\* The calls of a list of tools are one open call for each of them.
LEMMA CallsAre ==
  ASSUME NEW ts, Listing(ts)
  PROVE  /\ Listing(Calls(ts)) /\ Range(ts) = {c.tool : c \in Range(Calls(ts))}
         /\ \A c \in Range(Calls(ts)) : OpenCall(c) /\ \E t : c.about = Args(t)
<1>1. Len(ts) \in Nat /\ DOMAIN ts = 1 .. Len(ts) BY ListingFacts
<1> DEFINE cs == Calls(ts)
<1>2. cs = [i \in 1 .. Len(ts) |-> Call(ts[i], Args(ts[i]))] BY <1>1 DEF Calls
<1> HIDE DEF cs
<1>3. DOMAIN cs = 1 .. Len(ts) /\ \A i \in 1 .. Len(ts) : cs[i] = Call(ts[i], Args(ts[i])) BY <1>2
<1>4. Listing(cs) BY <1>1, <1>2, <1>3, ListingMade
<1>5. ASSUME NEW i \in 1 .. Len(ts) PROVE cs[i].tool = ts[i] /\ OpenCall(cs[i]) /\ cs[i].about = Args(ts[i])
  <2>1. cs[i].tool = ts[i] /\ cs[i].about = Args(ts[i]) BY <1>3 DEF Call
  <2>2. ToolSpec(ts[i]).takes = "metric" => Args(ts[i]) = Focus BY DEF Args
  <2> QED BY <2>1, <2>2 DEF OpenCall
<1>6. \A c \in Range(cs) : OpenCall(c) /\ \E t : c.about = Args(t) BY <1>3, <1>5 DEF Range
<1>7. Range(ts) = {c.tool : c \in Range(cs)} BY <1>1, <1>3, <1>5 DEF Range
<1> QED BY <1>4, <1>6, <1>7 DEF cs

\* Calls of tools that have not returned are sound.
LEMMA CallsAreSound ==
  ASSUME Planning, NEW ts, Listing(ts), Range(ts) \cap useful = {}
  PROVE  Sound(Calls(ts))
<1>1. \A c \in Range(Calls(ts)) : c.about \subseteq Metrics BY CallsAre, ArgsAre
<1> QED BY <1>1, CallsAre DEF Sound

\* The candidates of the rule planner are a listing.
LEMMA CandidatesListed == Planning => Listing(Candidates)
<1> SUFFICES ASSUME Planning PROVE Listing(Candidates) OBVIOUS
<1>1. Listing(q.cues) BY AgentAssumption, ListingOf DEF Planning, q
<1> DEFINE usable  == Those(catalogue, LAMBDA s : q.names # <<>> \/ ~s.named)
           scored  == Those(Cued, LAMBDA t : q.names # <<>> \/ ~ToolSpec(t).named)
           keyword == Those(scored, LAMBDA t : ToolSpec(t).intent \notin Conversational)
           stages  == Those(reading.chain, LAMBDA i : Wanted(i) /\ Capability(usable, i).name # NoMetric)
           staged  == [i \in DOMAIN stages |-> Capability(usable, stages[i]).name]
           added   == Those(keyword, LAMBDA t : /\ t \notin Range(staged)
                                                /\ ToolSpec(t).intent \notin META)
<1>2. Listing(Cued)
  <2>1. PICK T : Cued = Among(q.cues, T) BY DEF Cued, Those
  <2> QED BY <1>1, <2>1, AmongFacts
<1>3. Listing(scored)
  <2>1. PICK T : scored = Among(Cued, T) BY DEF Those
  <2> HIDE DEF scored
  <2> QED BY <1>2, <2>1, AmongFacts
<1>4. Listing(keyword)
  <2> HIDE DEF scored
  <2>1. PICK T : keyword = Among(scored, T) BY DEF Those
  <2> HIDE DEF keyword
  <2> QED BY <1>3, <2>1, AmongFacts
<1>5. Listing(added)
  <2> HIDE DEF keyword, staged
  <2>1. PICK T : added = Among(keyword, T) BY DEF Those
  <2> HIDE DEF added
  <2> QED BY <1>4, <2>1, AmongFacts
<1>6. Listing(stages)
  <2> HIDE DEF usable
  <2>1. PICK T : stages = Among(reading.chain, T) BY DEF Those
  <2> HIDE DEF stages
  <2> QED BY <2>1, AmongFacts DEF Planning
<1>7. Listing(staged)
  <2> HIDE DEF stages, usable
  <2>1. Len(stages) \in Nat /\ DOMAIN stages = 1 .. Len(stages) BY <1>6, ListingFacts
  <2>2. staged = [i \in 1 .. Len(stages) |-> staged[i]] /\ DOMAIN staged = 1 .. Len(stages) BY <2>1
  <2> HIDE DEF staged
  <2> QED BY <2>1, <2>2, ListingMade
<1>8. Candidates = IF q.turn # "analysis" /\ scored # <<>> /\ ToolSpec(Head(scored)).intent \in Conversational
                   THEN <<Head(scored)>>
                   ELSE IF ~Investigation THEN keyword ELSE staged \o added
  BY DEF Candidates
<1> HIDE DEF usable, scored, keyword, stages, staged, added
<1> QED BY <1>4, <1>5, <1>7, <1>8, NoneListed, Joined

\* A plan is calls and whether the planner is done.
Proposal(p) == p = Plan(p.calls, p.done) /\ Sound(p.calls)

\* Stopping is a sound proposal.
LEMMA StopIsSound == Proposal(Stop)
BY NoneListed DEF Proposal, Stop, Plan, Sound

\* Narrowing a list of tools adds none.
LEMMA NarrowIs ==
  ASSUME Planning, NEW ts, Listing(ts)
  PROVE  Listing(Narrow(ts)) /\ Range(Narrow(ts)) \subseteq Range(ts)
<1> DEFINE t == SubSeq(ts, 1, IF Len(ts) < Width THEN Len(ts) ELSE Width)
<1>1. Width \in Nat
  <2>1. asked.persona \in DOMAIN Profile BY AgentAssumption DEF Planning
  <2>2. me.width \in Nat BY <2>1, ProfileFacts DEF me
  <2> QED BY <2>2 DEF Width
<1>2. Range(t) \subseteq Range(ts) BY <1>1, StartOf
<1> HIDE DEF t
<1>3. Listing(Tell(t)) /\ Range(Tell(t)) \subseteq Range(t) BY TellIs
<1>4. Narrow(ts) = Tell(t) BY DEF Narrow, t
<1> QED BY <1>2, <1>3, <1>4

\* What the rules propose.
LEMMA RulePlanIsSound == Planning => Proposal(RulePlan)
<1> SUFFICES ASSUME Planning PROVE Proposal(RulePlan) OBVIOUS
<1>0. ASSUME NEW ts, Listing(ts), Range(ts) \cap useful = {} PROVE Proposal(Plan(Calls(ts), FALSE))
  BY <1>0, CallsAreSound DEF Proposal, Plan
<1>1. CASE round = 0
  <2>1. useful = {} BY <1>1, NoneListed DEF Planning, useful
  <2>2. Listing(Narrow(Candidates)) BY CandidatesListed, NarrowIs
  <2>3. Listing(<<"get_insight">>) BY NoneListed
  <2>4. Proposal(RuleFirst)
    BY <1>0, <2>1, <2>2, <2>3, StopIsSound DEF RuleFirst
  <2> QED BY <1>1, <2>4 DEF RulePlan
<1>2. CASE round # 0
  <2> DEFINE gap   == Those(Candidates, LAMBDA t : t \notin tried)
             base  == <<"get_insight", "rank_movements", "list_metrics">>
             widen == Those(base, LAMBDA t : Entitled(t) /\ t \notin tried)
  <2>1. Listing(base)
    <3>1. \A a, b, c : Listing(<<a, b, c>>)
      <4> TAKE a, b, c
      <4>1. Range(<<a, b, c>>) = {a, b, c} /\ <<a, b, c>> \in Seq({a, b, c}) BY DEF Range
      <4> QED BY <4>1 DEF Listing
    <3> QED BY <3>1
  <2> HIDE DEF base
  <2>2. Listing(gap) /\ Range(gap) \cap tried = {}
    <3> DEFINE T == {Candidates[i] : i \in {i \in DOMAIN Candidates : Candidates[i] \notin tried}}
    <3>1. gap = Among(Candidates, T) BY DEF Those
    <3>2. T \cap tried = {} OBVIOUS
    <3> HIDE DEF T, gap
    <3> QED BY <3>1, <3>2, CandidatesListed, AmongFacts
  <2>3. Listing(widen) /\ Range(widen) \cap tried = {}
    <3> DEFINE T == {base[i] : i \in {i \in DOMAIN base : Entitled(base[i]) /\ base[i] \notin tried}}
    <3>1. widen = Among(base, T) BY DEF Those
    <3>2. T \cap tried = {} OBVIOUS
    <3> HIDE DEF T, widen
    <3> QED BY <2>1, <3>1, <3>2, AmongFacts
  <2>4. RuleReplan = IF useful # {}
                     THEN IF gap = <<>> THEN Stop ELSE Plan(Calls(Narrow(gap)), FALSE)
                     ELSE IF (focus # NoMetric \/ q.names # <<>>) /\ widen # <<>>
                          THEN Plan(Calls(<<Head(widen)>>), FALSE) ELSE Stop
    BY DEF RuleReplan, base
  <2> HIDE DEF gap, widen
  <2>5. Proposal(Plan(Calls(Narrow(gap)), FALSE))
    <3>1. Listing(Narrow(gap)) /\ Range(Narrow(gap)) \subseteq Range(gap) BY <2>2, NarrowIs
    <3> QED BY <1>0, <2>2, <3>1, UsefulIsTried
  <2>6. CASE widen # <<>>
    <3>1. Listing(<<Head(widen)>>) /\ Range(<<Head(widen)>>) = {Head(widen)} BY NoneListed
    <3>2. Head(widen) \notin useful BY <2>3, <2>6, HeadIsThere, UsefulIsTried
    <3>3. Proposal(Plan(Calls(<<Head(widen)>>), FALSE)) BY <1>0, <3>1, <3>2
    <3> QED BY <1>2, <2>4, <2>5, <3>3, StopIsSound DEF RulePlan
  <2>7. CASE widen = <<>>
    BY <1>2, <2>4, <2>5, <2>7, StopIsSound DEF RulePlan
  <2> QED BY <2>6, <2>7
<1> QED BY <1>1, <1>2

\* What is left of the calls of a model, the movement established first.
LEMMA StatusFirstIsSound ==
  ASSUME Planning, NEW cs, Sound(cs)
  PROVE  Sound(StatusFirst(cs))
<1>1. Sound(ByPriority(cs)) BY ByPriorityIs DEF Sound
<1>2. CASE round = 0
  <2>1. useful = {} BY <1>2, NoneListed DEF Planning, useful
  <2>2. Listing(<<"get_insight">>) BY NoneListed
  <2>3. Sound(Calls(<<"get_insight">>)) BY <2>1, <2>2, CallsAreSound
  <2>4. Sound(Calls(<<"get_insight">>) \o cs) BY <2>3, Joined DEF Sound
  <2> QED BY <1>1, <2>4 DEF StatusFirst
<1>3. CASE round # 0 BY <1>3 DEF StatusFirst
<1> QED BY <1>2, <1>3

\* Whatever the model replies, what is made of it is a sound proposal.
LEMMA ModelPlanIsSound ==
  ASSUME Planning, NEW reply \in Replies
  PROVE  Proposal(ModelPlan(reply))
<1>1. Listing(reply.calls) /\ \A c \in Range(reply.calls) : c \in ModelCalls
  <2>1. reply.calls \in SeqOf(ModelCalls, ModelWidth) BY DEF Replies
  <2>2. PICK m \in Nat : reply.calls \in [1 .. m -> ModelCalls]
    BY <2>1, AgentAssumption DEF SeqOf
  <2>3. DOMAIN reply.calls = 1 .. m /\ reply.calls = [i \in 1 .. m |-> reply.calls[i]] BY <2>2
  <2>4. \A i \in 1 .. m : reply.calls[i] \in ModelCalls BY <2>2
  <2> QED BY <2>3, <2>4, ListingMade DEF Range
<1> DEFINE cs == reply.calls
           T  == {cs[i] : i \in {i \in DOMAIN cs : cs[i].tool \notin useful}}
           left == Among(cs, T)
<1>2. Fresh(reply.calls) = left BY DEF Fresh, Those
<1>3. \A c \in T : c.tool \notin useful OBVIOUS
<1> HIDE DEF T
<1>4. Listing(left) /\ Range(left) = Range(cs) \cap T BY <1>1, AmongFacts
<1> HIDE DEF left
<1>5. \A c \in ModelCalls : OpenCall(c) /\ c.about \subseteq Metrics BY AgentAssumption DEF OpenCall
<1>6. Sound(left) BY <1>1, <1>3, <1>4, <1>5 DEF Sound
<1>7. Sound(StatusFirst(left)) BY <1>6, StatusFirstIsSound
<1> DEFINE fresh == StatusFirst(left)
<1>8. ModelPlan(reply) = IF fresh = <<>> /\ (reply.calls # <<>> \/ seen = <<>>) THEN RulePlan
                         ELSE Plan(fresh, reply.done \/ fresh = <<>>)
  BY <1>2 DEF ModelPlan
<1>9. Sound(fresh) BY <1>7
<1> HIDE DEF fresh, cs
<1>10. Proposal(Plan(fresh, reply.done \/ fresh = <<>>)) BY <1>9 DEF Proposal, Plan
<1> QED BY <1>8, <1>10, RulePlanIsSound

\* Every planner makes sound proposals.
LEMMA PlansAreSound == Planning => \A p \in Plans : Proposal(p)
BY RulePlanIsSound, ModelPlanIsSound, StopIsSound DEF Plans

\* The meta filter leaves a proposal sound and does not end or go on with a run.
LEMMA DropMetaIsSound ==
  ASSUME Planning, NEW p, Proposal(p)
  PROVE  Proposal(DropMeta(p)) /\ DropMeta(p).done = p.done
<1>1. CASE Investigation
  <2> DEFINE Stays(c) == c.tool \in Tools /\ ToolSpec(c.tool).intent \in META
           => ToolSpec(c.tool).intent \in Range(reading.chain) \cup Range(me.bias)
             T  == {p.calls[i] : i \in {i \in DOMAIN p.calls : Stays(p.calls[i])}}
             left == Among(p.calls, T)
  <2>1. DropMeta(p) = [p EXCEPT !.calls = left] BY <1>1 DEF DropMeta, Those
  <2> HIDE DEF T
  <2>2. Listing(left) /\ Range(left) \subseteq Range(p.calls) BY AmongFacts DEF Proposal, Sound
  <2> HIDE DEF left
  <2>3. DropMeta(p) = Plan(left, p.done) BY <2>1 DEF Proposal, Plan
  <2>4. Sound(left) BY <2>2 DEF Proposal, Sound
  <2> QED BY <2>3, <2>4 DEF Proposal, Plan
<1>2. CASE ~Investigation BY <1>2 DEF DropMeta
<1> QED BY <1>1, <1>2

\* Every part of the answer that the question wants and the persona may use is consulted.
Consulted(tools) ==
  \A s \in Range(catalogue) : s.intent \in Range(reading.chain) /\ Wanted(s.intent)
    => \E t \in tools : ToolSpec(t).intent = s.intent

\* The chain is added to a sound proposal, and an investigation that goes on consults all of it.
LEMMA EnsureChainIsSound ==
  ASSUME Planning, NEW p, Proposal(p)
  PROVE  LET r == EnsureChain(p)
         IN  /\ Proposal(r) /\ r.done = p.done
             /\ Investigation /\ ~p.done => Consulted(tried \cup {c.tool : c \in Range(r.calls)})
<1>1. CASE ~Investigation \/ p.done BY <1>1 DEF EnsureChain
<1>2. CASE ~(~Investigation \/ p.done)
  <2> DEFINE chain == reading.chain
             bias == Those(me.bias, LAMBDA i : i \notin Range(reading.chain))
             sought == reading.chain \o Those(me.bias, LAMBDA i : i \notin Range(reading.chain))
             ran  == tried \cup {c.tool : c \in Range(p.calls)}
             Lacks(i) == /\ i \in Range(reading.chain) => Wanted(i)
                         /\ Capability(catalogue, i).name \notin ran \cup {NoMetric}
             left == Those(sought, LAMBDA i : 
                /\ i \in Range(reading.chain) => Wanted(i)
                /\ Capability(catalogue, i).name \notin ran \cup {NoMetric})
             names == [k \in DOMAIN left |-> Capability(catalogue, left[k]).name]
             Bare(t) == Call(t, IF ToolSpec(t).takes = "metric" THEN Focus ELSE {})
             added == [k \in DOMAIN names |-> Bare(names[k])]
  <2>1. EnsureChain(p) = [p EXCEPT !.calls = @ \o added] BY <1>2 DEF EnsureChain
  <2>2. Listing(bias)
    <3>1. PICK T : bias = Among(me.bias, T) BY DEF Those
    <3>2. Listing(me.bias)
      <4>1. asked.persona \in DOMAIN Profile BY AgentAssumption DEF Planning
      <4> QED BY <4>1, ProfileFacts DEF me
    <3> HIDE DEF bias
    <3> QED BY <3>1, <3>2, AmongFacts
  <2>3. sought = chain \o bias OBVIOUS
  <2>4. Listing(sought) /\ Range(chain) \subseteq Range(sought)
    <3> HIDE DEF sought, bias
    <3> QED BY <2>2, <2>3, Joined DEF Planning
  <2>5. Listing(left) /\ Range(left) = {i \in Range(sought) : Lacks(i)}
    <3> DEFINE T == {sought[k] : k \in {k \in DOMAIN sought : Lacks(sought[k])}}
    <3>1. left = Among(sought, T) BY DEF Those
    <3>2. Range(sought) \cap T = {i \in Range(sought) : Lacks(i)}
      <4> HIDE DEF sought, Lacks
      <4> QED BY DEF Range
    <3> HIDE DEF T, left, sought, Lacks
    <3> QED BY <2>4, <3>1, <3>2, AmongFacts
  <2> HIDE DEF sought, bias, left
  <2>6. Len(left) \in Nat /\ DOMAIN left = 1 .. Len(left) BY <2>5, ListingFacts
  <2>7. DOMAIN names = 1 .. Len(left) /\ names = [k \in 1 .. Len(left) |-> names[k]] BY <2>6
  <2>8. \A k \in 1 .. Len(left) : names[k] = Capability(catalogue, left[k]).name BY <2>6
  <2> HIDE DEF names
  <2>9. /\ DOMAIN added = 1 .. Len(left) /\ added = [k \in 1 .. Len(left) |-> added[k]]
        /\ \A k \in 1 .. Len(left) : added[k] = Bare(names[k])
    BY <2>7
  <2> HIDE DEF added
  <2>10. Listing(added) BY <2>6, <2>9, ListingMade
  <2>11. ASSUME NEW k \in 1 .. Len(left)
         PROVE  /\ added[k].tool = names[k] /\ names[k] \notin ran /\ OpenCall(added[k])
                /\ added[k].about \subseteq Metrics
    <3>1. left[k] \in Range(left) BY <2>6 DEF Range
    <3>2. names[k] \notin ran
      <4> HIDE DEF ran
      <4> QED BY <2>5, <2>8, <3>1
    <3>3. added[k].tool = names[k] BY <2>9 DEF Call
    <3>4. ToolSpec(names[k]).takes = "metric" => added[k].about = Focus BY <2>9 DEF Call
    <3>5. added[k].about = IF ToolSpec(names[k]).takes = "metric" THEN Focus ELSE {}
      BY <2>9 DEF Call
    <3> QED BY <3>2, <3>3, <3>4, <3>5, ArgsAre DEF OpenCall
  <2>12. Sound(added)
    <3>1. ASSUME NEW c \in Range(added)
          PROVE  c.tool \notin useful /\ OpenCall(c) /\ c.about \subseteq Metrics
      <4>1. PICK k \in 1 .. Len(left) : added[k] = c BY <2>9 DEF Range
      <4> QED BY <2>11, <4>1, UsefulIsTried
    <3> QED BY <2>10, <3>1 DEF Sound
  <2> DEFINE calls == p.calls \o added
  <2>13. Listing(calls) /\ Range(calls) = Range(p.calls) \cup Range(added)
    BY <2>10, Joined DEF Proposal, Sound
  <2>14. EnsureChain(p) = Plan(calls, p.done) BY <2>1 DEF Proposal, Plan
  <2> HIDE DEF calls
  <2>15. Sound(calls) BY <2>12, <2>13 DEF Proposal, Sound
  <2>16. ASSUME NEW s \in Range(catalogue), s.intent \in Range(reading.chain), Wanted(s.intent)
         PROVE  \E t \in tried \cup {c.tool : c \in Range(calls)} : ToolSpec(t).intent = s.intent
    <3> DEFINE i == s.intent
               t == Capability(catalogue, i).name
    <3>1. t # NoMetric /\ t \in Tools /\ ToolSpec(t).intent = i
      <4>1. Range(catalogue) \subseteq Range(REGISTRY) /\ Listing(catalogue) BY CatalogueIs
      <4> QED BY <4>1, CapabilityIs
    <3>2. CASE t \in ran BY <2>13, <3>1, <3>2
    <3>3. CASE t \notin ran
      <4>1. Lacks(i) /\ i \in Range(sought) BY <2>4, <2>16, <3>1, <3>3
      <4>2. i \in Range(left) BY <2>5, <4>1
      <4> HIDE DEF i
      <4>3. PICK k \in 1 .. Len(left) : left[k] = i BY <2>6, <4>2 DEF Range
      <4>4. added[k] \in Range(calls) BY <2>9, <2>13 DEF Range
      <4>5. added[k].tool = t BY <2>8, <2>11, <4>3
      <4> QED BY <3>1, <4>4, <4>5 DEF i
    <3> QED BY <3>2, <3>3
  <2> QED BY <2>14, <2>15, <2>16 DEF Proposal, Plan, Consulted
<1> QED BY <1>1, <1>2

-----------------------------------------------------------------------------
(* What is recorded.  The figures of every capability but the ranking stand *)
(* under the claim id of their kind.                                        *)
IdOf(kind) == IF kind \in {"share", "searched"} THEN <<"cell", 0>> ELSE <<kind, 0>>
Fits(held) == \A id \in DOMAIN held : id = IdOf(held[id].kind)

\* No claims at all stand under their own ids.
LEMMA NothingFits == Fits(<<>>)
BY DEF Fits

\* Recorded figures stand under their own ids.
LEMMA RecordedFits ==
  ASSUME NEW kinds, kinds \cap {"share", "searched"} = {}, NEW k, NEW w
  PROVE  Fits(Recorded(kinds, k, w))
<1> DEFINE r == Recorded(kinds, k, w)
<1>1. DOMAIN r = kinds \X {0} /\ \A id \in kinds \X {0} : r[id] = Figure(id[1], k, w) BY DEF Recorded
<1> HIDE DEF r
<1>2. ASSUME NEW id \in kinds \X {0} PROVE id = IdOf(r[id].kind)
  <2>1. id[1] \in kinds /\ id = <<id[1], 0>> OBVIOUS
  <2>2. r[id].kind = id[1] BY <1>1 DEF Figure
  <2> QED BY <2>1, <2>2 DEF IdOf
<1> QED BY <1>1, <1>2 DEF Fits, r

\* So does a cell of a comparison.
LEMMA CellFits ==
  ASSUME NEW kind \in {"share", "searched"}, NEW k, NEW w
  PROVE  Fits(Cell(kind, k, w))
BY DEF Fits, Cell, Figure, IdOf

\* Counts are neither shares nor searched metrics.
LEMMA CountsFit ==
  ASSUME NEW t \in DOMAIN Counts
  PROVE  Counts[t] \cap {"share", "searched"} = {}
BY DEF Counts

\* What is read of a metric stands under its own ids.
LEMMA ReadMetricFits ==
  ASSUME NEW t, NEW about, NEW w
  PROVE  Fits(ReadMetric(t, about, w).claims)
<1> DEFINE k == Row(about, w)
           asIs == IF about = {} THEN k ELSE CHOOSE m \in about : TRUE
<1>0. ASSUME NEW m
      PROVE  /\ Fits(GetInsight(m, w).claims) /\ Fits(GetCauses(m, w).claims)
             /\ Fits(GetFactors(m, w).claims) /\ Fits(GetForecast(m, w).claims)
             /\ Fits(GetRecommendations(m, w).claims) /\ Fits(GetTrust(m, w).claims)
             /\ Fits(GetTrend(m, w).claims) /\ Fits(GetContract(m).claims)
             /\ Fits(LocalizedSearch(m, w).claims) /\ Fits(Nothing.claims)
  <2>1. Fits(GetInsight(m, w).claims)
    <3>1. /\ Fits(Recorded({"observed", "baseline", "change"}, m, w))
          /\ Fits(Recorded({"observed", "forecast"}, m, w))
      BY RecordedFits
    <3> QED BY <3>1 DEF GetInsight, Found
  <2>2. Fits(Nothing.claims) BY NothingFits DEF Nothing
  <2>3. Fits(GetCauses(m, w).claims)
    <3>1. Fits(Cell("share", m, w)) BY CellFits
    <3> QED BY <2>2, <3>1 DEF GetCauses, Found
  <2>4. Fits(GetFactors(m, w).claims)
    <3>1. Fits(Recorded({"factor"}, m, w)) BY RecordedFits
    <3> QED BY <2>2, <3>1 DEF GetFactors, Found
  <2>5. Fits(GetForecast(m, w).claims)
    <3>1. Fits(Recorded({"forecast"}, m, w)) BY RecordedFits
    <3> QED BY <3>1 DEF GetForecast, Found
  <2>6. Fits(GetRecommendations(m, w).claims)
    <3>1. Fits(Recorded({"impact"}, m, w)) BY RecordedFits
    <3> QED BY <2>2, <3>1 DEF GetRecommendations, Found
  <2>7. Fits(GetTrust(m, w).claims)
    <3>1. Fits(Recorded({"checks"}, m, w)) BY RecordedFits
    <3> QED BY <3>1 DEF GetTrust, Found
  <2>8. Fits(GetTrend(m, w).claims) BY NothingFits DEF GetTrend, Printing, Found
  <2>9. Fits(GetContract(m).claims) BY NothingFits DEF GetContract, Found
  <2>10. Fits(LocalizedSearch(m, w).claims)
    <3>1. Fits(Cell("searched", m, w)) BY CellFits
    <3> QED BY <2>2, <3>1 DEF LocalizedSearch, Found
  <2> QED BY <2>1, <2>2, <2>3, <2>4, <2>5, <2>6, <2>7, <2>8, <2>9, <2>10
<1> HIDE DEF k, asIs
<1>1. ReadMetric(t, about, w) =
        CASE t = "get_insight" /\ k # NoMetric -> GetInsight(k, w)
          [] t = "get_causes" -> GetCauses(k, w)
          [] t = "get_factors" -> GetFactors(k, w)
          [] t = "get_forecast" /\ k # NoMetric -> GetForecast(k, w)
          [] t = "get_recommendations" -> GetRecommendations(k, w)
          [] t = "get_trust" /\ k # NoMetric -> GetTrust(k, w)
          [] t = "get_trend" /\ asIs # NoMetric -> GetTrend(asIs, w)
          [] t = "get_metric_contract" /\ about # {} -> GetContract(asIs)
          [] t = "run_localized_search" /\ about # {} -> LocalizedSearch(asIs, w)
          [] OTHER -> Nothing
  BY DEF ReadMetric, k, asIs
<1>2. ReadMetric(t, about, w) \in
        {GetInsight(k, w), GetCauses(k, w), GetFactors(k, w), GetForecast(k, w), GetRecommendations(k, w),
         GetTrust(k, w), GetTrend(asIs, w), GetContract(asIs), LocalizedSearch(asIs, w), Nothing}
  BY <1>1
<1> QED BY <1>0, <1>2

\* What any capability reads does, but for the ranking.
LEMMA ReadingFits ==
  ASSUME NEW t, t # "rank_movements", NEW about, NEW w
  PROVE  Fits(Reading(t, about, w).claims)
<1>1. Fits(CompareMetrics.claims) BY NothingFits DEF CompareMetrics, Nothing
<1>2. ASSUME t \in DOMAIN Counts PROVE Fits(Found(NoMetric, Recorded(Counts[t], NoMetric, w)).claims)
  <2>1. Fits(Recorded(Counts[t], NoMetric, w)) BY <1>2, CountsFit, RecordedFits
  <2> QED BY <2>1 DEF Found
<1>3. Fits(ReadMetric(t, about, w).claims) BY ReadMetricFits
<1> QED BY <1>1, <1>2, <1>3 DEF Reading

\* A finding on record orders metrics.
Orders(w) == Listing(w.order) /\ Range(w.order) \subseteq Metrics

\* The findings of another sweep are ordered alike.
LEMMA FindingOrders ==
  ASSUME NEW f \in Findings, NEW n
  PROVE  Orders([f EXCEPT !.sweep = n])
<1>1. f.order \in Seq(Metrics) /\ [f EXCEPT !.sweep = n].order = f.order BY AgentAssumption
<1>2. DOMAIN f.order = 1 .. Len(f.order) /\ f.order \in [1 .. Len(f.order) -> Metrics]
  BY <1>1, LenProperties
<1>3. Listing(f.order) BY <1>1, ListingOf
<1> QED BY <1>1, <1>2, <1>3 DEF Orders, Range

\* The row a capability reads is that of a metric, or none.
LEMMA RowIs ==
  ASSUME NEW about, NEW w, Orders(w)
  PROVE  Row(about, w) \in Metrics \cup {NoMetric}
<1> DEFINE rows == Those(w.order, LAMBDA k : k \notin me.hides /\ (about = {} \/ k \in about))
<1>1. PICK T : rows = Among(w.order, T) BY DEF Those
<1>2. Row(about, w) = HeadOr(rows, NoMetric) BY DEF Row
<1> HIDE DEF rows
<1>3. Listing(rows) /\ Range(rows) \subseteq Metrics BY <1>1, AmongFacts DEF Orders
<1> QED BY <1>2, <1>3, HeadIsThere DEF HeadOr

\* What a result is about is a metric, or left open.
LEMMA ReadingSubject ==
  ASSUME NEW t, NEW about, about \subseteq Metrics, NEW w, Orders(w)
  PROVE  Reading(t, about, w).subject \in Metrics \cup {NoMetric}
<1> DEFINE k == Row(about, w)
           asIs == IF about = {} THEN k ELSE CHOOSE m \in about : TRUE
           M == Metrics \cup {NoMetric}
<1>1. k \in M BY RowIs
<1>2. asIs \in M BY <1>1
<1>3. Nothing.subject \in M BY DEF Nothing
<1>4. ASSUME NEW m \in M
      PROVE  /\ GetInsight(m, w).subject \in M /\ GetCauses(m, w).subject \in M
             /\ GetFactors(m, w).subject \in M /\ GetForecast(m, w).subject \in M
             /\ GetRecommendations(m, w).subject \in M /\ GetTrust(m, w).subject \in M
             /\ GetTrend(m, w).subject \in M /\ GetContract(m).subject \in M
             /\ LocalizedSearch(m, w).subject \in M
  <2>1. \A held : Found(m, held).subject \in M /\ Found(NoMetric, held).subject \in M BY DEF Found
  <2>2. \A held, shown, printed : Printing(Found(m, held), shown, printed, w).subject \in M
    BY DEF Found, Printing
  <2> QED BY <1>3, <2>1, <2>2 DEF GetInsight, GetCauses, GetFactors, GetForecast, GetRecommendations,
                                  GetTrust, GetTrend, GetContract, LocalizedSearch
<1>5. \A x, y, scope : Printing(Found(NoMetric, x), y, scope, w).subject \in M BY DEF Printing, Found
<1>6. Ranking(about, w).subject \in M BY <1>3, <1>5 DEF Ranking
<1>7. \A held : Found(NoMetric, held).subject \in M BY DEF Found
<1> HIDE DEF k, asIs
<1>8. ReadMetric(t, about, w) \in
        {GetInsight(k, w), GetCauses(k, w), GetFactors(k, w), GetForecast(k, w), GetRecommendations(k, w),
         GetTrust(k, w), GetTrend(asIs, w), GetContract(asIs), LocalizedSearch(asIs, w), Nothing}
  BY DEF ReadMetric, k, asIs
<1>9. ReadMetric(t, about, w).subject \in M BY <1>1, <1>2, <1>3, <1>4, <1>8
<1> QED BY <1>3, <1>6, <1>7, <1>9 DEF Reading, CompareMetrics

\* What a call of a round records.
Ranks(o) == o.tool = "rank_movements"
Stands(o) ==
  /\ o.says => o.ok
  /\ o.ok /\ ~Ranks(o) => Fits(o.claims)
  /\ o.subject \in Metrics \cup {NoMetric}

\* An observation is of its call and its round, and what it claims stands.
LEMMA ObservedIs ==
  ASSUME Planning, NEW c, OpenCall(c), c.about \subseteq Metrics, NEW w, Orders(w),
         NEW fails, NEW mute \in BOOLEAN
  PROVE  LET o == Observed(c, w, fails, mute)
         IN  /\ o.tool = c.tool /\ o.round = round + 1 /\ Stands(o)
             /\ o.ok /\ ~o.named /\ ToolSpec(o.tool).takes = "metric" => o.about = Focus
<1> DEFINE result == IF Refused(c) \/ fails THEN Nothing ELSE Reading(c.tool, Filled(c), w)
           o == Observed(c, w, fails, mute)
<1>1. o = [tool |-> c.tool, about |-> IF Refused(c) THEN {} ELSE Filled(c), named |-> c.named,
       round |-> round + 1, says |-> result.ok /\ ~mute, ok |-> result.ok,
       subject |-> result.subject, claims |-> result.claims, loose |-> result.loose]
  BY DEF Observed
<1>2. c.tool # "rank_movements" => Fits(result.claims)
  <2>1. Fits(Nothing.claims) BY NothingFits DEF Nothing
  <2> QED BY <2>1, ReadingFits
<1>3. result.ok => ~Refused(c) BY DEF Nothing
<1>a. result.subject \in Metrics \cup {NoMetric}
  <2>1. Filled(c) \subseteq Metrics BY ArgsAre DEF Filled
  <2>2. Reading(c.tool, Filled(c), w).subject \in Metrics \cup {NoMetric} BY <2>1, ReadingSubject
  <2> QED BY <2>2 DEF Nothing
<1> HIDE DEF result, o
<1>4. /\ o.tool = c.tool /\ o.round = round + 1 /\ o.named = c.named
      /\ o.about = IF Refused(c) THEN {} ELSE Filled(c)
      /\ o.says = (result.ok /\ ~mute) /\ o.ok = result.ok /\ o.claims = result.claims
      /\ o.subject = result.subject
  BY <1>1
<1>5. Stands(o) BY <1>2, <1>a, <1>4 DEF Stands, Ranks
<1>6. ASSUME o.ok, ~o.named, ToolSpec(o.tool).takes = "metric" PROVE o.about = Focus
  <2>1. c.about \in {{}, Focus} /\ o.about = Filled(c) BY <1>3, <1>4, <1>6 DEF OpenCall
  <2> QED BY <1>4, <1>6, <2>1 DEF Filled
<1> QED BY <1>4, <1>5, <1>6 DEF o

-----------------------------------------------------------------------------
(* The subject before a round, of any record of results.                    *)
Told(os, n) == {i \in Subjects(os) : os[i].round < n}
SubjectIn(start, os, n) ==
  IF start # NoMetric THEN start
  ELSE IF Told(os, n) = {} THEN NoMetric ELSE os[Earliest(Told(os, n))].subject

\* The subject before a turn is computed from the observations up to it.
LEMMA SubjectIs == \A n : SubjectBefore(n) = SubjectIn(asked.focus, seen, n)
BY DEF SubjectBefore, SubjectIn, Told

\* Earliest is the least member of a set of positions.
LEMMA EarliestIs ==
  ASSUME NEW S, S \subseteq Nat, S # {}
  PROVE  Earliest(S) \in S /\ \A x \in S : (\A y \in S : x <= y) => Earliest(S) = x
<1>1. PICK x \in S : \A y \in S : x <= y BY Least
<1>2. Earliest(S) \in S /\ \A y \in S : Earliest(S) <= y BY <1>1 DEF Earliest
<1>3. ASSUME NEW z \in S, \A y \in S : z <= y PROVE Earliest(S) = z
  <2>1. z <= Earliest(S) /\ Earliest(S) <= z /\ z \in Nat /\ Earliest(S) \in Nat BY <1>2, <1>3
  <2> QED BY <2>1
<1> QED BY <1>2, <1>3

\* What comes after the record of a round does not change the subject before it.
LEMMA SubjectKept ==
  ASSUME NEW s, NEW t, Listing(s), Listing(t), NEW n, \A o \in Range(t) : ~(o.round < n), NEW start
  PROVE  SubjectIn(start, s \o t, n) = SubjectIn(start, s, n)
<1> DEFINE u == s \o t
<1>1. Len(s) \in Nat /\ DOMAIN s = 1 .. Len(s) /\ Len(t) \in Nat /\ DOMAIN t = 1 .. Len(t)
  BY ListingFacts
<1>2. DOMAIN u = 1 .. Len(s) + Len(t) BY Joined, ListingFacts
<1>3. \A i \in DOMAIN u : u[i] = IF i \in DOMAIN s THEN s[i] ELSE t[i - Len(s)]
  BY <1>1 DEF Listing
<1> HIDE DEF u
<1>4. Told(u, n) = Told(s, n)
  <2>1. ASSUME NEW i \in Told(s, n) PROVE i \in Told(u, n)
    <3>1. i \in DOMAIN s /\ i \in DOMAIN u BY <1>1, <1>2 DEF Told, Subjects
    <3> QED BY <1>3, <3>1 DEF Told, Subjects
  <2>2. ASSUME NEW i \in Told(u, n) PROVE i \in Told(s, n)
    <3>1. i \in DOMAIN u /\ u[i].round < n BY DEF Told, Subjects
    <3>2. i \in DOMAIN s
      <4> SUFFICES ASSUME i \notin DOMAIN s PROVE FALSE OBVIOUS
      <4>1. u[i] = t[i - Len(s)] BY <1>3, <3>1
      <4>2. i - Len(s) \in DOMAIN t BY <1>1, <1>2, <3>1
      <4> QED BY <3>1, <4>1, <4>2 DEF Range
    <3> QED BY <1>3, <3>1, <3>2 DEF Told, Subjects
  <2> QED BY <2>1, <2>2
<1>5. CASE Told(s, n) = {} BY <1>4, <1>5 DEF SubjectIn, u
<1>6. CASE Told(s, n) # {}
  <2>1. Told(s, n) \subseteq Nat BY <1>1 DEF Told, Subjects
  <2>2. Earliest(Told(s, n)) \in DOMAIN s BY <1>6, <2>1, EarliestIs DEF Told, Subjects
  <2>3. u[Earliest(Told(s, n))] = s[Earliest(Told(s, n))] BY <1>1, <1>2, <1>3, <2>2
  <2> QED BY <1>4, <1>6, <2>3 DEF SubjectIn, u
<1> QED BY <1>5, <1>6

\* After a round the subject is what it was, or that of the first result of the round.
LEMMA SubjectSettled ==
  ASSUME NEW s, NEW t, Listing(s), Listing(t), NEW n \in Nat, NEW start,
         \A o \in Range(s) : o.round \in Nat /\ o.round <= n,
         \A o \in Range(t) : o.round = n + 1,
         NEW held, held = SubjectIn(start, s, n + 1)
  PROVE  SubjectIn(start, s \o t, n + 2) =
           IF held # NoMetric \/ Subjects(t) = {} THEN held ELSE t[Earliest(Subjects(t))].subject
<1> DEFINE u == s \o t
           A == Told(s, n + 1)
           B == Subjects(t)
           C == Told(u, n + 2)
<1>1. Len(s) \in Nat /\ DOMAIN s = 1 .. Len(s) /\ Len(t) \in Nat /\ DOMAIN t = 1 .. Len(t)
  BY ListingFacts
<1>2. DOMAIN u = 1 .. Len(s) + Len(t) BY Joined, ListingFacts
<1>3. \A i \in DOMAIN u : u[i] = IF i \in DOMAIN s THEN s[i] ELSE t[i - Len(s)]
  BY <1>1 DEF Listing
<1> HIDE DEF u
<1>4. A \subseteq Nat /\ B \subseteq Nat /\ A \subseteq DOMAIN s /\ B \subseteq DOMAIN t
  BY <1>1 DEF Told, Subjects
<1>5. C = A \cup {Len(s) + i : i \in B}
  <2>1. ASSUME NEW i \in A PROVE i \in C
    <3>1. i \in DOMAIN s /\ i \in DOMAIN u /\ s[i] \in Range(s) BY <1>1, <1>2 DEF Told, Subjects, Range
    <3>2. s[i].round < n + 2 BY <3>1
    <3> QED BY <1>3, <3>1, <3>2 DEF Told, Subjects
  <2>2. ASSUME NEW i \in B PROVE Len(s) + i \in C
    <3>1. i \in DOMAIN t /\ t[i] \in Range(t) /\ t[i].round = n + 1 BY DEF Subjects, Range
    <3>2. Len(s) + i \in DOMAIN u /\ Len(s) + i \notin DOMAIN s /\ (Len(s) + i) - Len(s) = i
      BY <1>1, <1>2, <3>1
    <3>3. u[Len(s) + i] = t[i] BY <1>3, <3>2
    <3>4. n + 1 < n + 2 OBVIOUS
    <3> QED BY <3>1, <3>2, <3>3, <3>4 DEF Told, Subjects
  <2>3. ASSUME NEW j \in C, j \notin A PROVE \E i \in B : j = Len(s) + i
    <3>1. j \in DOMAIN u /\ u[j].ok /\ u[j].subject # NoMetric BY DEF Told, Subjects
    <3>2. j \notin DOMAIN s
      <4> SUFFICES ASSUME j \in DOMAIN s PROVE FALSE OBVIOUS
      <4>1. u[j] = s[j] /\ s[j] \in Range(s) BY <1>3, <3>1 DEF Range
      <4>2. s[j].round < n + 1 BY <4>1
      <4> QED BY <2>3, <3>1, <4>1, <4>2 DEF Told, Subjects
    <3>3. j - Len(s) \in DOMAIN t /\ j = Len(s) + (j - Len(s)) /\ u[j] = t[j - Len(s)]
      BY <1>1, <1>2, <1>3, <3>1, <3>2
    <3>4. j - Len(s) \in B BY <3>1, <3>3 DEF Subjects
    <3> QED BY <3>3, <3>4
  <2> HIDE DEF A, B, C
  <2>4. ASSUME NEW j \in C PROVE j \in A \cup {Len(s) + i : i \in B}
    <3>1. CASE j \in A BY <3>1
    <3>2. CASE j \notin A BY <3>2, <2>3
    <3> QED BY <3>1, <3>2
  <2> QED BY <2>1, <2>2, <2>4
<1>6. SubjectIn(start, u, n + 2) = IF start # NoMetric THEN start ELSE IF C = {} THEN NoMetric
                                   ELSE u[Earliest(C)].subject
  BY DEF SubjectIn
<1>7. held = IF start # NoMetric THEN start ELSE IF A = {} THEN NoMetric ELSE s[Earliest(A)].subject
  BY DEF SubjectIn
<1>8. ASSUME A # {}
      PROVE  C # {} /\ u[Earliest(C)] = s[Earliest(A)] /\ s[Earliest(A)].subject # NoMetric
  <2> DEFINE e == Earliest(A)
  <2>1. e \in A BY <1>4, <1>8, EarliestIs
  <2>a. s[e].subject # NoMetric BY <2>1 DEF Told, Subjects
  <2> HIDE DEF A, B, C
  <2>2. \A y \in A : e <= y
    <3>1. PICK x \in A : \A y \in A : x <= y BY <1>4, <1>8, Least
    <3>2. e = x BY <1>4, <1>8, <3>1, EarliestIs
    <3> QED BY <3>1, <3>2
  <2>3. \A y \in C : y \in Nat /\ e <= y
    <3>1. \A i \in B : Len(s) + i \in Nat /\ e <= Len(s) + i
      <4> TAKE i \in B
      <4>1. i \in Nat /\ e \in 1 .. Len(s) BY <1>1, <1>4, <2>1
      <4> HIDE DEF e
      <4> QED BY <4>1, <1>1
    <3>2. \A y \in A : y \in Nat /\ e <= y BY <1>4, <2>2
    <3> HIDE DEF e
    <3> QED BY <3>1, <3>2, <1>5
  <2>4. e \in C /\ C \subseteq Nat BY <1>5, <2>1, <2>3
  <2>5. Earliest(C) = e BY <2>3, <2>4, EarliestIs
  <2>6. e \in DOMAIN s /\ e \in DOMAIN u
    <3>1. e \in DOMAIN s BY <1>4, <2>1
    <3> HIDE DEF e
    <3> QED BY <1>1, <1>2, <3>1
  <2> QED BY <1>3, <2>4, <2>5, <2>6, <2>a
<1>9. ASSUME A = {}, B # {}
      PROVE  C # {} /\ u[Earliest(C)] = t[Earliest(B)]
  <2> DEFINE e == Earliest(B)
  <2>1. e \in B BY <1>4, <1>9, EarliestIs
  <2> HIDE DEF A, B, C
  <2>2. \A y \in B : e <= y
    <3>1. PICK x \in B : \A y \in B : x <= y BY <1>4, <1>9, Least
    <3>2. e = x BY <1>4, <1>9, <3>1, EarliestIs
    <3> QED BY <3>1, <3>2
  <2>b. e \in Nat /\ e \in DOMAIN t BY <1>4, <2>1
  <2> HIDE DEF e
  <2>3. \A y \in C : y \in Nat /\ Len(s) + e <= y
    <3>1. \A i \in B : Len(s) + i \in Nat /\ Len(s) + e <= Len(s) + i
      <4> TAKE i \in B
      <4>1. i \in Nat /\ e <= i BY <1>4, <2>2
      <4> QED BY <4>1, <1>1, <2>b
    <3> QED BY <3>1, <1>5, <1>9
  <2>4. Len(s) + e \in C /\ C \subseteq Nat BY <1>5, <2>1, <2>3
  <2>5. Earliest(C) = Len(s) + e BY <2>3, <2>4, EarliestIs
  <2>6. Len(s) + e \in DOMAIN u /\ Len(s) + e \notin DOMAIN s /\ (Len(s) + e) - Len(s) = e
    BY <1>1, <1>2, <2>b
  <2>7. u[Len(s) + e] = t[e] BY <1>3, <2>6
  <2> QED BY <2>4, <2>5, <2>7 DEF e
<1>10. A = {} /\ B = {} => C = {}
  <2> HIDE DEF A, B, C
  <2> QED BY <1>5
<1> HIDE DEF A, B, C
<1>11. SubjectIn(start, u, n + 2) = IF held # NoMetric \/ B = {} THEN held ELSE t[Earliest(B)].subject
  BY <1>6, <1>7, <1>8, <1>9, <1>10
<1> QED BY <1>11 DEF u, B

-----------------------------------------------------------------------------
(* What a run keeps.                                                        *)
NoneRepeats == \A a, b \in Range(seen) : a.ok /\ a.tool = b.tool => a.round >= b.round
Called == tried \cup {c.tool : c \in Range(plan)}
AgentInv ==
  /\ AgentTypes /\ Planning /\ Orders(store) /\ Sound(plan)
  /\ pc \in {"read", "plan", "execute"} => round < Rounds
  /\ \A o \in Range(seen) : o.round \in Nat /\ o.round <= round /\ Stands(o)
  /\ focus = SubjectBefore(round + 1)
  /\ pc = "read" => seen = <<>>
  /\ pc # "execute" <=> plan = <<>>
  /\ pc # "done" => answer = Silence
  /\ answer.kind = "answered" => seen # <<>> /\ pc = "done"
  /\ Investigation /\ (seen # <<>> \/ plan # <<>>) => Consulted(Called)
  /\ FollowUpsKeepTheSubject /\ NoneRepeats /\ AnswersFollowTheRecord

\* A persona has at least one round and no more than the most.
LEMMA RoundsAre == Planning => Rounds \in 1 .. MaxRounds
<1> SUFFICES ASSUME Planning PROVE Rounds \in 1 .. MaxRounds OBVIOUS
<1>1. asked.persona \in DOMAIN Profile BY AgentAssumption DEF Planning
<1>2. me.rounds \in Nat \ {0} BY <1>1, ProfileFacts DEF me
<1> QED BY <1>2, AgentAssumption DEF Rounds

\* The round is a number.
LEMMA RoundIsNatural == AgentInv => round \in Nat
BY AgentAssumption DEF AgentInv, AgentTypes

\* The subject a run starts from.
LEMMA StartIs ==
  ASSUME NEW p \in DOMAIN Profile, NEW qn \in Questions, NEW w
  PROVE  Start(p, qn, w) \in Metrics \cup {NoMetric}
<1> DEFINE prefers == Profile[p].prefers
           moved == Those(prefers, LAMBDA k : k \in OutOfBand(w))
           usual == Those(prefers, LAMBDA k : k \in Metrics)
<1>0. ASSUME NEW s, Listing(s), Range(s) \subseteq Metrics
      PROVE  HeadOr(s, NoMetric) \in Metrics \cup {NoMetric}
  BY <1>0, HeadIsThere DEF HeadOr
<1>1. ASSUME NEW s \in Seq(Metrics), s # <<>> PROVE Head(s) \in Metrics
  BY <1>1
<1>2. qn.names \in Seq(Metrics) /\ qn.refers \in Seq(Metrics) BY AgentAssumption
<1>3. Listing(prefers) => /\ HeadOr(moved, NoMetric) \in Metrics \cup {NoMetric}
                          /\ HeadOr(usual, NoMetric) \in Metrics \cup {NoMetric}
  <2> SUFFICES ASSUME Listing(prefers)
               PROVE  /\ HeadOr(moved, NoMetric) \in Metrics \cup {NoMetric}
                      /\ HeadOr(usual, NoMetric) \in Metrics \cup {NoMetric}
    OBVIOUS
  <2> DEFINE T == {prefers[i] : i \in {i \in DOMAIN prefers : prefers[i] \in OutOfBand(w)}}
             U == {prefers[i] : i \in {i \in DOMAIN prefers : prefers[i] \in Metrics}}
  <2>1. moved = Among(prefers, T) /\ usual = Among(prefers, U) BY DEF Those
  <2>2. T \subseteq Metrics /\ U \subseteq Metrics BY DEF OutOfBand
  <2> HIDE DEF T, U, moved, usual, prefers
  <2> QED BY <1>0, <2>1, <2>2, AmongFacts
<1> QED BY <1>1, <1>2, <1>3, ProfileFacts DEF Start

\* A run that has not answered yet breaks no promise about answers.
LEMMA SilenceSaysNothing ==
  ASSUME answer = Silence
  PROVE  AnswersFollowTheRecord /\ answer.kind # "answered"
BY DEF Silence, AnswersFollowTheRecord

\* The invariant holds at the start.
LEMMA AgentInitInv == AgentInit => AgentInv
<1> SUFFICES ASSUME AgentInit PROVE AgentInv OBVIOUS
<1>1. /\ asked.persona \in Personas /\ asked.question \in Questions /\ asked.focus = focus
      /\ reading = Unread /\ round = 0 /\ plan = <<>> /\ seen = <<>> /\ pc = "read" /\ answer = Silence
  BY DEF AgentInit
<1>2. Listing(<<>>) /\ Range(<<>>) = {} BY NoneListed
<1>a. focus \in Metrics \cup {NoMetric} /\ Orders(store)
  <2>1. PICK p \in Personas, qn \in Questions : focus = Start(p, qn, store) BY DEF AgentInit
  <2>2. focus \in Metrics \cup {NoMetric} BY <2>1, StartIs, AgentAssumption
  <2>3. PICK f \in Findings : store = [f EXCEPT !.sweep = 0] BY DEF AgentInit
  <2> QED BY <2>2, <2>3, FindingOrders
<1>3. Planning BY <1>1, <1>2, <1>a DEF Planning, Unread
<1>b. AgentTypes /\ round < Rounds
  <2>1. upsets = 0 /\ answer.kind = "none" BY <1>1 DEF AgentInit, Silence
  <2>2. Rounds \in 1 .. MaxRounds BY <1>3, RoundsAre
  <2> QED BY <1>1, <1>2, <1>a, <2>1, <2>2, AgentAssumption DEF AgentTypes
<1>4. Sound(plan) BY <1>1, <1>2 DEF Sound
<1>5. focus = SubjectBefore(round + 1)
  <2>1. DOMAIN seen = {} BY <1>1
  <2>2. Subjects(seen) = {} BY <2>1 DEF Subjects
  <2> QED BY <1>1, <2>2 DEF SubjectBefore
<1>6. AnswersFollowTheRecord /\ answer.kind # "answered" BY <1>1, SilenceSaysNothing
<1>7. FollowUpsKeepTheSubject BY <1>1, <1>2 DEF FollowUpsKeepTheSubject
<1>8. NoneRepeats BY <1>1, <1>2 DEF NoneRepeats
<1> QED BY <1>1, <1>2, <1>3, <1>a, <1>b, <1>4, <1>5, <1>6, <1>7, <1>8 DEF AgentInv

\* What stays when the run itself does.
LEMMA RunStays ==
  ASSUME AgentInv, UNCHANGED <<asked, reading, focus, round, plan, seen>>
  PROVE  /\ Planning' /\ Rounds' = Rounds /\ Sound(plan)'
         /\ (\A o \in Range(seen) : o.round \in Nat /\ o.round <= round /\ Stands(o))'
         /\ (focus = SubjectBefore(round + 1))'
         /\ (Investigation /\ (seen # <<>> \/ plan # <<>>) => Consulted(Called))'
         /\ FollowUpsKeepTheSubject' /\ NoneRepeats'
<1>1. Planning' BY DEF AgentInv, Planning
<1>2. Sound(plan)' BY DEF AgentInv, Sound, OpenCall, Focus, useful
<1>3. \A n : SubjectBefore(n)' = SubjectBefore(n) BY DEF SubjectBefore
<1>4. (focus = SubjectBefore(round + 1))' BY <1>3 DEF AgentInv, SubjectBefore
<1>5. FollowUpsKeepTheSubject' BY <1>3 DEF AgentInv, FollowUpsKeepTheSubject
<1>6. NoneRepeats' BY DEF AgentInv, NoneRepeats
<1>7. catalogue' = catalogue /\ me' = me BY DEF catalogue, me, Those
<1>8. \A i : Wanted(i)' = Wanted(i) BY DEF Wanted
<1>9. (Investigation /\ (seen # <<>> \/ plan # <<>>) => Consulted(Called))'
  BY <1>7, <1>8 DEF AgentInv, Investigation, Consulted, Called, tried
<1>10. (\A o \in Range(seen) : o.round \in Nat /\ o.round <= round /\ Stands(o))'
  BY DEF AgentInv, Stands, Ranks
<1>11. Rounds' = Rounds BY DEF Rounds, me
<1> QED BY <1>1, <1>2, <1>4, <1>5, <1>6, <1>9, <1>10, <1>11 DEF AgentInv

\* An answer ends the run.
LEMMA FinishInv ==
  ASSUME AgentInv, NEW kind \in {"social", "entitlement", "abstained", "withheld", "answered"},
         NEW figures, Finish(kind, figures), plan = <<>>,
         AnswersFollowTheRecord', kind = "answered" => seen # <<>>
  PROVE  AgentInv'
<1>1. /\ UNCHANGED <<asked, reading, focus, round, plan, seen, store, upsets>>
      /\ pc' = "done" /\ answer' = [kind |-> kind, figures |-> figures]
  BY DEF Finish
<1>2. answer'.kind = kind BY <1>1
<1>3. AgentTypes' /\ Orders(store)' BY <1>1, <1>2 DEF AgentInv, AgentTypes, Orders
<1> QED BY <1>1, <1>2, <1>3, RunStays DEF AgentInv

\* Reading the question keeps it.
LEMMA ComprehendInv ==
  ASSUME AgentInv, Comprehend
  PROVE  AgentInv'
<1>1. /\ pc = "read" /\ pc' = "plan" /\ reading' = Understood
      /\ UNCHANGED <<asked, focus, round, plan, seen, answer, store, upsets>>
  BY DEF Comprehend
<1>2. seen = <<>> /\ plan = <<>> /\ answer = Silence BY <1>1 DEF AgentInv
<1>3. Listing(Chain)
  <2>1. \A a, b, c, d : Listing(<<a, b, c, d>>)
    <3> TAKE a, b, c, d
    <3>1. Range(<<a, b, c, d>>) = {a, b, c, d} /\ <<a, b, c, d>> \in Seq({a, b, c, d}) BY DEF Range
    <3> QED BY <3>1 DEF Listing
  <2>2. Listing(DIAGNOSTIC_CHAIN) /\ Listing(BRIEFING_CHAIN)
    BY <2>1 DEF DIAGNOSTIC_CHAIN, BRIEFING_CHAIN
  <2> QED BY <2>2, NoneListed DEF Chain
<1>4. Planning' BY <1>1, <1>3 DEF AgentInv, Planning, Understood
<1>5. Sound(plan)' BY <1>1 DEF AgentInv, Sound, OpenCall, Focus, useful
<1>6. \A n : SubjectBefore(n)' = SubjectBefore(n) BY <1>1 DEF SubjectBefore
<1>7. (focus = SubjectBefore(round + 1))' BY <1>1 DEF AgentInv, SubjectBefore
<1>8. (AnswersFollowTheRecord /\ answer.kind # "answered")'
  BY <1>1, <1>2 DEF Silence, AnswersFollowTheRecord
<1>9. FollowUpsKeepTheSubject' BY <1>1, <1>6 DEF AgentInv, FollowUpsKeepTheSubject
<1>10. NoneRepeats' BY <1>1 DEF AgentInv, NoneRepeats
<1>11. (\A o \in Range(seen) : o.round \in Nat /\ o.round <= round /\ Stands(o))'
  BY <1>1 DEF AgentInv, Stands, Ranks
<1>12. AgentTypes' /\ Orders(store)' BY <1>1 DEF AgentInv, AgentTypes, Orders
<1>13. (round < Rounds)' BY <1>1 DEF AgentInv, Rounds, me
<1> QED BY <1>1, <1>2, <1>4, <1>5, <1>7, <1>8, <1>9, <1>10, <1>11, <1>12, <1>13 DEF AgentInv

\* A plan that is settled on consults what the question wants.
LEMMA ProposeInv ==
  ASSUME AgentInv, Propose
  PROVE  AgentInv'
<1>1. PICK proposed \in Plans : pc = "plan" /\ Settle(EnsureChain(DropMeta(proposed)))
  BY DEF Propose
<1> DEFINE r == DropMeta(proposed)
           p == EnsureChain(r)
<1>2. plan = <<>> /\ answer = Silence BY <1>1 DEF AgentInv
<1>3. Proposal(r)
  <2>1. Proposal(proposed) BY PlansAreSound DEF AgentInv
  <2> QED BY <2>1, DropMetaIsSound DEF AgentInv
<1>4. /\ Proposal(p) /\ p.done = r.done
      /\ Investigation /\ ~r.done => Consulted(tried \cup {c.tool : c \in Range(p.calls)})
  <2> HIDE DEF r
  <2> QED BY <1>3, EnsureChainIsSound DEF AgentInv
<1> HIDE DEF r, p
<1>5. LET ends == p.done \/ p.calls = <<>>
      IN  /\ plan' = IF ends THEN <<>> ELSE p.calls
          /\ pc' = IF ends THEN "compose" ELSE "execute"
          /\ UNCHANGED <<asked, reading, focus, round, seen, answer, store, upsets>>
  BY <1>1 DEF Settle, p, r
<1>6. UNCHANGED <<asked, reading, focus, round, seen, answer, store, upsets>> BY <1>5
<1>7. catalogue' = catalogue BY <1>6 DEF catalogue, me, Those
<1>8. \A i : Wanted(i)' = Wanted(i) BY <1>6 DEF Wanted
<1>9. tried' = tried /\ useful' = useful /\ Focus' = Focus BY <1>6 DEF tried, useful, Focus
<1>10. \A tools : Consulted(tools)' = Consulted(tools) BY <1>6, <1>7, <1>8 DEF Consulted
<1>11. Planning' BY <1>6 DEF AgentInv, Planning
<1>12. (focus = SubjectBefore(round + 1))' BY <1>6 DEF AgentInv, SubjectBefore
<1>13. \A n : SubjectBefore(n)' = SubjectBefore(n) BY <1>6 DEF SubjectBefore
<1>14. FollowUpsKeepTheSubject' BY <1>6, <1>13 DEF AgentInv, FollowUpsKeepTheSubject
<1>15. NoneRepeats' BY <1>6 DEF AgentInv, NoneRepeats
<1>16. (AnswersFollowTheRecord /\ answer.kind # "answered")'
  BY <1>2, <1>6 DEF Silence, AnswersFollowTheRecord
<1>17. (\A o \in Range(seen) : o.round \in Nat /\ o.round <= round /\ Stands(o))'
  BY <1>6 DEF AgentInv, Stands, Ranks
<1>a. AgentTypes' /\ Orders(store)' BY <1>5, <1>6 DEF AgentInv, AgentTypes, Orders
<1>b. (round < Rounds)' BY <1>1, <1>6 DEF AgentInv, Rounds, me
<1>18. CASE p.done \/ p.calls = <<>>
  <2>1. plan' = <<>> /\ pc' = "compose" BY <1>5, <1>18
  <2>2. Sound(plan)' BY <2>1, NoneListed DEF Sound
  <2>3. (Investigation /\ (seen # <<>> \/ plan # <<>>) => Consulted(Called))'
    <3>1. Called' = Called BY <1>2, <1>9, <2>1 DEF Called
    <3>2. Investigation' = Investigation BY <1>6 DEF Investigation
    <3>3. Investigation /\ seen # <<>> => Consulted(Called) BY DEF AgentInv
    <3>4. Investigation' /\ seen' # <<>> => Consulted(Called)' 
      <4> SUFFICES ASSUME Investigation, seen # <<>> PROVE Consulted(Called)' BY <1>6, <3>2
      <4>1. Consulted(Called) BY <3>3
      <4> QED BY <4>1, <1>6, <1>7, <1>8, <3>1 DEF Consulted
    <3> QED BY <2>1, <3>4
  <2> QED BY <1>2, <1>6, <1>a, <1>b, <1>11, <1>12, <1>14, <1>15, <1>16, <1>17, <2>1, <2>2, <2>3 DEF AgentInv
<1>19. CASE ~(p.done \/ p.calls = <<>>)
  <2>1. plan' = p.calls /\ plan' # <<>> /\ pc' = "execute" BY <1>5, <1>19
  <2>2. Sound(plan)'
    <3>1. /\ Listing(p.calls)
          /\ \A c \in Range(p.calls) : c.tool \notin useful /\ OpenCall(c) /\ c.about \subseteq Metrics
      BY <1>4 DEF Proposal, Sound
    <3>2. \A c : OpenCall(c)' = OpenCall(c) BY <1>9 DEF OpenCall
    <3> QED BY <1>9, <2>1, <3>1, <3>2 DEF Sound, OpenCall
  <2>3. (Investigation => Consulted(Called))'
    <3>1. Called' = tried \cup {c.tool : c \in Range(p.calls)} BY <1>9, <2>1 DEF Called
    <3>2. Investigation' = Investigation BY <1>6 DEF Investigation
    <3> SUFFICES ASSUME Investigation PROVE Consulted(Called)' BY <3>2
    <3>3. Consulted(tried \cup {c.tool : c \in Range(p.calls)}) BY <1>4, <1>19
    <3> QED BY <1>6, <1>7, <1>8, <3>1, <3>3 DEF Consulted
  <2> QED BY <1>2, <1>6, <1>a, <1>b, <1>11, <1>12, <1>14, <1>15, <1>16, <1>17, <2>1, <2>2, <2>3 DEF AgentInv
<1> QED BY <1>18, <1>19

\* The results of a round are about the run's subject, and settle it when it was open.
LEMMA ExecuteInv ==
  ASSUME AgentInv, NEW late, NEW w, NEW fails, NEW mute, Execute(late, w, fails, mute), Orders(w),
         upsets' \in 0 .. MaxUpsets
  PROVE  AgentInv'
<1> DEFINE found == [i \in DOMAIN plan |->
                      Observed(plan[i], IF i \in late THEN w ELSE store, i \in fails, i \in mute)]
           known == seen \o found
<1>1. /\ pc = "execute" /\ seen' = known /\ focus' = SettledOn(found) /\ round' = round + 1
      /\ plan' = <<>> /\ (pc' = "compose" \/ pc' = "plan") /\ UNCHANGED <<asked, reading, answer>>
      /\ store' = w /\ (pc' = "plan" => round + 1 # Rounds)
  BY DEF Execute
<1>2. plan # <<>> /\ answer = Silence BY <1>1 DEF AgentInv
<1>3. /\ Listing(plan)
      /\ \A c \in Range(plan) : c.tool \notin useful /\ OpenCall(c) /\ c.about \subseteq Metrics
  BY DEF AgentInv, Sound
<1>4. Len(plan) \in Nat /\ DOMAIN plan = 1 .. Len(plan) BY <1>3, ListingFacts
<1>5. /\ Len(plan) # 0
      /\ Listing(seen) /\ round \in Nat
  <2>1. Listing(seen) /\ round \in Nat BY RoundIsNatural DEF AgentInv, Planning
  <2> QED BY <1>2, <1>3, <2>1, EmptySeq DEF Listing
<1>6. ASSUME NEW i \in 1 .. Len(plan)
      PROVE  /\ found[i].tool = plan[i].tool /\ found[i].round = round + 1 /\ Stands(found[i])
             /\ found[i].ok /\ ~found[i].named /\ ToolSpec(found[i].tool).takes = "metric"
                  => found[i].about = Focus
             /\ found[i].tool \notin useful
  <2>1. plan[i] \in Range(plan) BY <1>4 DEF Range
  <2> DEFINE at == IF i \in late THEN w ELSE store
             fail == i \in fails
             quiet == i \in mute
  <2>2. found[i] = Observed(plan[i], at, fail, quiet) BY <1>4
  <2>3. /\ quiet \in BOOLEAN /\ OpenCall(plan[i]) /\ plan[i].tool \notin useful
        /\ plan[i].about \subseteq Metrics /\ Planning
    BY <1>3, <2>1 DEF AgentInv
  <2>a. Orders(at) BY DEF AgentInv
  <2> HIDE DEF at, found, fail, quiet
  <2> DEFINE o == Observed(plan[i], at, fail, quiet)
  <2>4. /\ o.tool = plan[i].tool /\ o.round = round + 1 /\ Stands(o)
        /\ o.ok /\ ~o.named /\ ToolSpec(o.tool).takes = "metric" => o.about = Focus
    BY <2>3, <2>a, ObservedIs
  <2> HIDE DEF o
  <2>5. found[i] = o BY <2>2 DEF o
  <2> QED BY <2>3, <2>4, <2>5
<1>7. DOMAIN found = 1 .. Len(plan) /\ found = [i \in 1 .. Len(plan) |-> found[i]] BY <1>4
<1> HIDE DEF found
<1>8. Listing(found) /\ Len(found) = Len(plan) BY <1>4, <1>7, ListingMade
<1>9. Listing(known) /\ Range(known) = Range(seen) \cup Range(found) /\ Len(known) = Len(seen) + Len(found)
  BY <1>5, <1>8, Joined
<1>10. known # <<>>
  <2>1. Len(seen) \in Nat /\ Len(<<>>) = 0 BY <1>5, ListingFacts
  <2> HIDE DEF known
  <2> QED BY <1>4, <1>5, <1>8, <1>9, <2>1
<1>11. ASSUME NEW o \in Range(found)
       PROVE  /\ o.round = round + 1 /\ Stands(o) /\ o.tool \notin useful
              /\ o.ok /\ ~o.named /\ ToolSpec(o.tool).takes = "metric" => o.about = Focus
  <2>1. PICK i \in 1 .. Len(plan) : found[i] = o BY <1>7 DEF Range
  <2> QED BY <1>6, <2>1
<1>12. {o.tool : o \in Range(found)} = {c.tool : c \in Range(plan)}
  <2>1. Range(found) = {found[i] : i \in 1 .. Len(plan)} /\ Range(plan) = {plan[i] : i \in 1 .. Len(plan)}
    BY <1>4, <1>7 DEF Range
  <2> QED BY <1>6, <2>1
<1>13. \A o \in Range(seen) : o.round \in Nat /\ o.round <= round /\ Stands(o) BY DEF AgentInv
<1>14. \A n : SubjectBefore(n)' = SubjectIn(asked.focus, known, n)
  BY <1>1 DEF SubjectBefore, SubjectIn, Told
<1>15. focus = SubjectIn(asked.focus, seen, round + 1) BY SubjectIs DEF AgentInv
<1> HIDE DEF known
<1>16. Planning'
  <2>1. round + 1 # 0 BY <1>5
  <2>2. focus' \in Metrics \cup {NoMetric}
    <3>1. CASE focus # NoMetric \/ Subjects(found) = {}
      BY <1>1, <3>1 DEF SettledOn, AgentInv, Planning
    <3>2. CASE ~(focus # NoMetric \/ Subjects(found) = {})
      <4>1. Earliest(Subjects(found)) \in Subjects(found)
        <5>1. Subjects(found) \subseteq Nat BY <1>7 DEF Subjects
        <5> QED BY <3>2, <5>1, EarliestIs
      <4> DEFINE e == Earliest(Subjects(found))
      <4>2. found[e] \in Range(found) BY <4>1 DEF Subjects, Range
      <4>3. focus' = found[e].subject BY <1>1, <3>2 DEF SettledOn
      <4> HIDE DEF e
      <4> QED BY <1>11, <4>2, <4>3 DEF Stands
    <3> QED BY <3>1, <3>2
  <2> QED BY <1>1, <1>9, <2>1, <2>2 DEF AgentInv, Planning
<1>17. Sound(plan)' BY <1>1, NoneListed DEF Sound
<1>18. (\A o \in Range(seen) : o.round \in Nat /\ o.round <= round /\ Stands(o))'
  <2>1. \A o \in Range(known) : o.round \in Nat /\ o.round <= round + 1 /\ Stands(o)
    BY <1>5, <1>9, <1>11, <1>13
  <2> QED BY <1>1, <2>1 DEF Stands, Ranks
<1>19. (focus = SubjectBefore(round + 1))'
  <2>1. SubjectIn(asked.focus, known, round + 2) =
          IF focus # NoMetric \/ Subjects(found) = {} THEN focus ELSE found[Earliest(Subjects(found))].subject
    <3>1. \A o \in Range(found) : o.round = round + 1 BY <1>11
    <3>2. \A o \in Range(seen) : o.round \in Nat /\ o.round <= round BY <1>13
    <3> QED BY <1>5, <1>8, <1>15, <3>1, <3>2, SubjectSettled DEF known
  <2>2. focus' = SubjectIn(asked.focus, known, round + 2) BY <1>1, <2>1 DEF SettledOn
  <2>3. round' + 1 = round + 2 BY <1>1, <1>5
  <2>4. SubjectBefore(round + 2)' = SubjectIn(asked.focus, known, round' + 2) BY <1>14
  <2>5. (SubjectBefore(round + 1))' = SubjectIn(asked.focus, known, round' + 1)
    BY <1>1 DEF SubjectBefore, SubjectIn, Told
  <2> QED BY <2>2, <2>3, <2>5
<1>20. FollowUpsKeepTheSubject'
  <2> DEFINE sub(n) == SubjectIn(asked.focus, known, n)
  <2>1. ASSUME NEW o \in Range(known), o.ok, ~o.named, ToolSpec(o.tool).takes = "metric",
               sub(o.round) # NoMetric
        PROVE  o.about = {sub(o.round)}
    <3>1. CASE o \in Range(seen)
      <4>1. o.round \in Nat /\ o.round <= round BY <1>13, <3>1
      <4>2. \A r \in Range(found) : ~(r.round < o.round) BY <1>5, <1>11, <4>1
      <4>3. sub(o.round) = SubjectIn(asked.focus, seen, o.round)
        BY <1>5, <1>8, <4>2, SubjectKept DEF known
      <4>4. sub(o.round) = SubjectBefore(o.round) BY <4>3, SubjectIs
      <4> HIDE DEF sub
      <4> QED BY <2>1, <3>1, <4>4 DEF AgentInv, FollowUpsKeepTheSubject
    <3>2. CASE o \in Range(found)
      <4>1. o.round = round + 1 /\ o.about = Focus BY <1>11, <2>1, <3>2
      <4>2. \A r \in Range(found) : ~(r.round < o.round) BY <1>5, <1>11, <4>1
      <4>3. sub(o.round) = SubjectIn(asked.focus, seen, o.round)
        BY <1>5, <1>8, <4>2, SubjectKept DEF known
      <4>4. sub(o.round) = focus BY <1>15, <4>1, <4>3
      <4> HIDE DEF sub
      <4> QED BY <2>1, <4>1, <4>4 DEF Focus
    <3> QED BY <1>9, <3>1, <3>2
  <2>2. \A o \in Range(seen)' : SubjectBefore(o.round)' = sub(o.round) BY <1>14
  <2> HIDE DEF sub
  <2> QED BY <1>1, <2>1, <2>2 DEF FollowUpsKeepTheSubject
<1>21. NoneRepeats'
  <2>1. ASSUME NEW a \in Range(known), NEW b \in Range(known), a.ok, a.tool = b.tool
        PROVE  a.round >= b.round
    <3>1. CASE b \in Range(seen)
      <4>1. CASE a \in Range(seen) BY <2>1, <3>1, <4>1 DEF AgentInv, NoneRepeats
      <4>2. CASE a \in Range(found)
        <5>1. a.round = round + 1 /\ b.round \in Nat /\ b.round <= round BY <1>11, <1>13, <3>1, <4>2
        <5> QED BY <1>5, <5>1
      <4> QED BY <1>9, <4>1, <4>2
    <3>2. CASE b \in Range(found)
      <4>1. a \notin Range(seen) BY <1>11, <2>1, <3>2 DEF useful
      <4>2. a.round = round + 1 /\ b.round = round + 1 BY <1>9, <1>11, <3>2, <4>1
      <4> QED BY <1>5, <4>2
    <3> QED BY <1>9, <3>1, <3>2
  <2> QED BY <1>1, <2>1 DEF NoneRepeats
<1>22. (AnswersFollowTheRecord /\ answer.kind # "answered")'
  BY <1>1, <1>2 DEF Silence, AnswersFollowTheRecord
<1>23. (Investigation => Consulted(Called))'
  <2>1. Called' = Called
    <3>1. tried' = {o.tool : o \in Range(known)} BY <1>1 DEF tried
    <3>2. tried' = tried \cup {c.tool : c \in Range(plan)} BY <1>9, <1>12, <3>1 DEF tried
    <3> QED BY <1>1, <3>2, NoneListed DEF Called
  <2>2. Investigation' = Investigation /\ catalogue' = catalogue
    BY <1>1 DEF Investigation, catalogue, me, Those
  <2>3. \A i : Wanted(i)' = Wanted(i) BY <1>1 DEF Wanted
  <2> SUFFICES ASSUME Investigation PROVE Consulted(Called)' BY <2>2
  <2>4. Consulted(Called) BY <1>2 DEF AgentInv
  <2> QED BY <1>1, <2>1, <2>2, <2>3, <2>4 DEF Consulted
<1>24. Orders(store)' BY <1>1 DEF Orders
<1>25. round' \in 0 .. MaxRounds /\ (pc' = "plan" => round' < Rounds) /\ Rounds' = Rounds
  <2>1. Rounds \in 1 .. MaxRounds /\ round < Rounds BY <1>1, RoundsAre DEF AgentInv
  <2>2. Rounds' = Rounds BY <1>1 DEF Rounds, me
  <2> QED BY <1>1, <1>5, <2>1, <2>2, AgentAssumption
<1>26. AgentTypes'
  <2>1. answer'.kind = "none" BY <1>1, <1>2 DEF Silence
  <2> QED BY <1>1, <1>16, <1>18, <1>25, <2>1 DEF AgentTypes, Planning, Stands
<1> QED BY <1>1, <1>2, <1>5, <1>10, <1>16, <1>17, <1>18, <1>19, <1>20, <1>21, <1>22, <1>23, <1>24, <1>25, <1>26
    DEF AgentInv

-----------------------------------------------------------------------------
(* The claims of a run are those its results recorded.                      *)
LEMMA LatestIs ==
  ASSUME NEW n \in Nat, NEW S, S \subseteq 1 .. n, S # {}
  PROVE  Latest(S) \in S
BY Greatest DEF Latest

\* A claim set has exactly the ids observed, each with a figure some observation claims.
LEMMA ClaimsAre ==
  ASSUME AgentInv
  PROVE  /\ DOMAIN claims = ClaimIds
         /\ \A o \in Range(seen) : o.ok => DOMAIN o.claims \subseteq ClaimIds
         /\ \A id \in ClaimIds : \E o \in Range(seen) :
              o.ok /\ id \in DOMAIN o.claims /\ claims[id] = o.claims[id]
<1>1. Len(seen) \in Nat /\ DOMAIN seen = 1 .. Len(seen) BY ListingFacts DEF AgentInv, Planning
<1>2. DOMAIN claims = ClaimIds /\ \A id \in ClaimIds : claims[id] = seen[Latest(Records(id))].claims[id]
  BY DEF claims
<1>3. ASSUME NEW id \in ClaimIds
      PROVE  \E o \in Range(seen) : o.ok /\ id \in DOMAIN o.claims /\ claims[id] = o.claims[id]
  <2>1. PICK o \in Range(seen) : o.ok /\ id \in DOMAIN o.claims BY DEF ClaimIds
  <2>2. PICK i \in DOMAIN seen : seen[i] = o BY DEF Range
  <2>3. i \in Records(id) /\ Records(id) \subseteq 1 .. Len(seen) BY <1>1, <2>1, <2>2 DEF Records
  <2>4. Latest(Records(id)) \in Records(id) BY <1>1, <2>3, LatestIs
  <2> DEFINE k == Latest(Records(id))
  <2>5. k \in DOMAIN seen /\ seen[k].ok /\ id \in DOMAIN seen[k].claims BY <2>4 DEF Records
  <2>6. claims[id] = seen[k].claims[id] BY <1>2
  <2> HIDE DEF k
  <2> QED BY <2>5, <2>6 DEF Range
<1>4. \A o \in Range(seen) : o.ok => DOMAIN o.claims \subseteq ClaimIds BY DEF ClaimIds
<1> QED BY <1>2, <1>3, <1>4

\* Where no ranking was told, results whose figures all stand do not disagree.
LEMMA StandingAgree ==
  ASSUME AgentInv, Verified(Stated(Says)), NEW a \in Says, NEW b \in Says, Disagree(a, b)
  PROVE  \E o \in {o \in Range(seen) : o.ok} : o.tool = "rank_movements"
<1> SUFFICES ASSUME \A o \in Range(seen) : o.ok => ~Ranks(o) PROVE FALSE BY DEF Ranks
<1>1. PICK id \in DOMAIN a.claims \cap DOMAIN b.claims : a.claims[id] # b.claims[id] BY DEF Disagree
<1>2. \A o \in Range(seen) : Stands(o) BY DEF AgentInv
<1>3. \A o \in Says : o \in Range(seen) /\ o.ok BY <1>2 DEF Says, Stands
<1>4. \A o \in Range(seen) : o.ok => \A i \in DOMAIN o.claims : i = IdOf(o.claims[i].kind)
  BY <1>2 DEF Stands, Fits
<1>5. ASSUME NEW o \in Says, id \in DOMAIN o.claims PROVE o.claims[id] = claims[id]
  <2>1. o.claims[id] \in Range(claims)
    <3>1. o.claims[id] \in Stated(Says) BY <1>5 DEF Stated, Range
    <3> QED BY <3>1 DEF Verified
  <2>2. PICK i \in ClaimIds : claims[i] = o.claims[id] BY <2>1, ClaimsAre DEF Range
  <2>3. PICK r \in Range(seen) : r.ok /\ i \in DOMAIN r.claims /\ claims[i] = r.claims[i] BY ClaimsAre
  <2>4. i = IdOf(r.claims[i].kind) BY <1>4, <2>3
  <2>5. id = IdOf(o.claims[id].kind) BY <1>3, <1>4, <1>5
  <2> QED BY <2>2, <2>3, <2>4, <2>5
<1> QED BY <1>1, <1>5

\* Wording the answer keeps the invariant.
LEMMA WriteInv ==
  ASSUME AgentInv, Write
  PROVE  AgentInv'
<1>1. pc = "compose" /\ Says # {} /\ Verified(Stated(Says)) BY DEF Write
<1>2. PICK part \in Parts :
        \E told \in {KeptWording(Stated(part), wording) : wording \in Wordings(Stated(part))} :
          Finish("answered", Stated(Says \ part) \cup told)
  BY DEF Write
<1>3. PICK told \in {KeptWording(Stated(part), wording) : wording \in Wordings(Stated(part))} :
        Finish("answered", Stated(Says \ part) \cup told)
  BY <1>2
<1> DEFINE figures == Stated(Says \ part) \cup told
<1>4. told = Stated(part) BY DEF KeptWording
<1>5. part \subseteq Says BY DEF Parts
<1>6. figures \subseteq Stated(Says) BY <1>4, <1>5 DEF Stated
<1>7. figures \subseteq UNION {Range(o.claims) : o \in {o \in Range(seen) : o.ok}}
  <2>1. figures \subseteq Range(claims) BY <1>1, <1>6 DEF Verified
  <2> HIDE DEF figures
  <2>2. ASSUME NEW f \in Range(claims)
        PROVE  f \in UNION {Range(o.claims) : o \in {o \in Range(seen) : o.ok}}
    <3>1. PICK id \in ClaimIds : claims[id] = f BY ClaimsAre DEF Range
    <3>2. PICK o \in Range(seen) : o.ok /\ id \in DOMAIN o.claims /\ claims[id] = o.claims[id]
      BY ClaimsAre
    <3>3. f \in Range(o.claims) BY <3>1, <3>2 DEF Range
    <3> QED BY <3>2, <3>3
  <2> QED BY <2>1, <2>2
<1>8. \A a, b \in Says : Disagree(a, b) =>
        \E o \in {o \in Range(seen) : o.ok} : o.tool = "rank_movements"
  BY <1>1, StandingAgree
<1> HIDE DEF figures
<1>9. Finish("answered", figures) BY <1>3 DEF figures
<1>10. seen' = seen /\ answer'.kind = "answered" /\ answer'.figures = figures
  BY <1>9 DEF Finish
<1>11. Says' = Says BY <1>10 DEF Says
<1>12. AnswersFollowTheRecord' BY <1>7, <1>8, <1>10, <1>11 DEF AnswersFollowTheRecord, Disagree
<1>13. seen # <<>> BY <1>1, NoneListed DEF Says
<1>14. plan = <<>> BY <1>1 DEF AgentInv
<1> QED BY <1>9, <1>12, <1>13, <1>14, FinishInv

\* Withholding the answer keeps it.
LEMMA WithholdInv ==
  ASSUME AgentInv, Withhold
  PROVE  AgentInv'
<1>1. /\ pc = "compose" /\ Finish("withheld", {})
      /\ Says = {} \/ ~Verified(Stated(Says))
  BY DEF Withhold
<1> DEFINE ok == {o \in Range(seen) : o.ok}
<1>2. (\E a, b \in ok : Disagree(a, b)) \/ (\E o \in ok : o.loose # {}) \/ Says = {}
  <2> SUFFICES ASSUME ~Verified(Stated(Says)), \A o \in ok : o.loose = {}
               PROVE  \E a, b \in ok : Disagree(a, b)
    BY <1>1
  <2>1. PICK f \in Stated(Says) : f \notin Range(claims) BY DEF Verified
  <2>2. \A o \in Says : o \in ok BY DEF AgentInv, Says, Stands
  <2>3. PICK a \in Says : f \in Range(a.claims) BY <2>1, <2>2 DEF Stated
  <2>4. PICK id \in DOMAIN a.claims : a.claims[id] = f BY <2>3 DEF Range
  <2>5. id \in ClaimIds BY <2>2, <2>4, ClaimsAre
  <2>6. PICK b \in Range(seen) : b.ok /\ id \in DOMAIN b.claims /\ claims[id] = b.claims[id]
    BY <2>5, ClaimsAre
  <2>7. claims[id] \in Range(claims) BY <2>5, ClaimsAre DEF Range
  <2>8. a.claims[id] # b.claims[id] BY <2>1, <2>4, <2>6, <2>7
  <2>9. Disagree(a, b) BY <2>4, <2>6, <2>8 DEF Disagree
  <2> QED BY <2>2, <2>6, <2>9
<1>3. seen' = seen /\ answer'.kind = "withheld" BY <1>1 DEF Finish
<1>4. Says' = Says BY <1>3 DEF Says
<1>5. AnswersFollowTheRecord' BY <1>2, <1>3, <1>4 DEF AnswersFollowTheRecord, Disagree
<1>6. plan = <<>> BY <1>1 DEF AgentInv
<1> QED BY <1>1, <1>5, <1>6, FinishInv

\* Abstaining keeps it.
LEMMA AbstainInv ==
  ASSUME AgentInv, Abstain
  PROVE  AgentInv'
<1>1. pc = "compose" /\ ~(\E o \in Range(seen) : o.ok) /\ Finish("abstained", {}) BY DEF Abstain
<1>2. seen' = seen /\ answer'.kind = "abstained" BY <1>1 DEF Finish
<1>3. AnswersFollowTheRecord' BY <1>1, <1>2 DEF AnswersFollowTheRecord
<1>4. plan = <<>> BY <1>1 DEF AgentInv
<1> QED BY <1>1, <1>3, <1>4, FinishInv

\* A greeting or a refusal keeps it.
LEMMA CourtesyInv ==
  ASSUME AgentInv, Converse \/ Refuse
  PROVE  AgentInv'
<1>1. PICK kind \in {"social", "entitlement"} : pc = "read" /\ Finish(kind, {}) BY DEF Converse, Refuse
<1>2. answer'.kind = kind BY <1>1 DEF Finish
<1>3. AnswersFollowTheRecord' BY <1>2 DEF AnswersFollowTheRecord
<1>4. plan = <<>> /\ kind # "answered" BY <1>1 DEF AgentInv
<1> QED BY <1>1, <1>3, <1>4, FinishInv

\* Every step keeps the invariant.
LEMMA AgentStepInv == AgentInv /\ [AgentNext]_agentVars => AgentInv'
<1> SUFFICES ASSUME AgentInv, [AgentNext]_agentVars PROVE AgentInv' OBVIOUS
<1>1. CASE Converse \/ Refuse BY <1>1, CourtesyInv
<1>2. CASE Comprehend BY <1>2, ComprehendInv
<1>3. CASE Propose BY <1>3, ProposeInv
<1>4. CASE Calm \/ Fails \/ GoesMute \/ SweptUnder
  <2>1. Orders(store) /\ upsets \in 0 .. MaxUpsets BY DEF AgentInv, AgentTypes
  <2>2. \A w \in Swept : Orders(w) BY FindingOrders DEF Swept
  <2>3. Upset => upsets' \in 0 .. MaxUpsets BY <2>1, AgentAssumption DEF Upset
  <2>4. CASE Calm BY <2>1, <2>4, ExecuteInv DEF Calm
  <2>5. CASE Fails BY <2>1, <2>3, <2>5, ExecuteInv DEF Fails
  <2>6. CASE GoesMute BY <2>1, <2>3, <2>6, ExecuteInv DEF GoesMute
  <2>7. CASE SweptUnder BY <2>2, <2>3, <2>7, ExecuteInv DEF SweptUnder
  <2> QED BY <1>4, <2>4, <2>5, <2>6, <2>7
<1>5. CASE Abstain BY <1>5, AbstainInv
<1>6. CASE Withhold BY <1>6, WithholdInv
<1>7. CASE Write BY <1>7, WriteInv
<1>8. CASE UNCHANGED agentVars
  <2>1. UNCHANGED <<asked, reading, focus, round, plan, seen, pc, answer, store, upsets>>
    BY <1>8 DEF agentVars, run
  <2>2. Says' = Says BY <2>1 DEF Says
  <2>3. AnswersFollowTheRecord' BY <2>1, <2>2 DEF AgentInv, AnswersFollowTheRecord, Disagree
  <2>4. AgentTypes' /\ Orders(store)' BY <2>1 DEF AgentInv, AgentTypes, Orders
  <2> QED BY <2>1, <2>3, <2>4, RunStays DEF AgentInv
<1> QED BY <1>1, <1>2, <1>3, <1>4, <1>5, <1>6, <1>7, <1>8 DEF AgentNext

\* A run of the agent keeps what it knows of its plan, its record and its answer, for any
\* metrics, questions and findings, whatever a model proposes and however many calls fail.
THEOREM AgentInvariant == AgentSpec => []AgentInv
<1>1. AgentInv /\ [AgentNext]_agentVars => AgentInv' BY AgentStepInv
<1> QED BY AgentInitInv, <1>1, PTL DEF AgentSpec

\* A run's subject is a metric or none, it takes no more rounds than it may and its answer is of
\* one of the kinds loop.run ends with.
THEOREM AgentTypeCorrect == AgentSpec => []AgentTypes
<1>1. AgentInv => AgentTypes BY DEF AgentInv
<1> QED BY AgentInvariant, <1>1, PTL

\* A call that leaves the metric open is about the subject the run had settled on before it,
\* in every round and whatever the findings are replaced with (`ctx.focus_metric` in loop.py).
THEOREM SubjectsKept == AgentSpec => []FollowUpsKeepTheSubject
<1>1. AgentInv => FollowUpsKeepTheSubject BY DEF AgentInv
<1> QED BY AgentInvariant, <1>1, PTL

\* An investigation that is answered has consulted every part of the answer that is wanted, and
\* nothing that had returned was called again (planner.ensure_chain, LLMPlanner.plan).
THEOREM GapsFilled == AgentSpec => []RoundsFillTheGap
<1>1. AgentInv => RoundsFillTheGap
  <2> SUFFICES ASSUME AgentInv PROVE RoundsFillTheGap OBVIOUS
  <2>1. \A a, b \in Range(seen) : a.ok /\ a.tool = b.tool => a.round >= b.round
    BY DEF AgentInv, NoneRepeats
  <2>2. ASSUME answer.kind = "answered", Investigation, NEW s \in Range(catalogue),
               s.intent \in Range(reading.chain), Wanted(s.intent)
        PROVE  \E o \in Range(seen) : ToolSpec(o.tool).intent = s.intent
    <3>1. seen # <<>> /\ plan = <<>> BY <2>2 DEF AgentInv
    <3>2. Consulted(Called) BY <2>2, <3>1 DEF AgentInv
    <3>3. Called = tried BY <3>1, NoneListed DEF Called
    <3>4. PICK t \in tried : ToolSpec(t).intent = s.intent BY <2>2, <3>2, <3>3 DEF Consulted
    <3> QED BY <3>4 DEF tried
  <2> QED BY <2>1, <2>2 DEF RoundsFillTheGap
<1> QED BY AgentInvariant, <1>1, PTL

\* The figures of an answer are those its results recorded, whatever a model words; two of them
\* stand under one claim id only beside a ranking, and a run with results is withheld only for
\* what verify and validate name (narrate.verify, llm_narrator.narrate_sections).
THEOREM AnswersFollow == AgentSpec => []AnswersFollowTheRecord
<1>1. AgentInv => AnswersFollowTheRecord BY DEF AgentInv
<1> QED BY AgentInvariant, <1>1, PTL
=============================================================================
