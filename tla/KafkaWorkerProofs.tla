-------------------------- MODULE KafkaWorkerProofs --------------------------
(***************************************************************************)
(* Theorems about KafkaWorker, for any number of workers, partitions and   *)
(* messages, any batch size and any number of faults.                      *)
(***************************************************************************)
EXTENDS KafkaWorker, FiniteSetTheorems, TLAPS
\* What every step of the system does to the log and to the two tables.
Grows ==
  /\ \A p \in Partitions :
       /\ Len(log'[p]) \in Nat /\ Len(log[p]) <= Len(log'[p])
       /\ \A o \in 1..Len(log[p]) : log'[p][o] = log[p][o]
  /\ bronze \subseteq bronze' /\ dlq \subseteq dlq'

\* Appending to a partition keeps every message it held.
LEMMA PublishGrows ==
  ASSUME TypeOK, Publish
  PROVE  Grows /\ log' \in [Partitions -> Seq(Kinds)]
<1>1. PICK q \in Partitions, k \in Kinds : log' = [log EXCEPT ![q] = Append(@, k)]
  BY DEF Publish
<1>2. log \in [Partitions -> Seq(Kinds)]
  BY DEF TypeOK
<1>3. log' \in [Partitions -> Seq(Kinds)]
  BY <1>1, <1>2
<1>4. ASSUME NEW p \in Partitions
      PROVE  /\ Len(log'[p]) \in Nat /\ Len(log[p]) <= Len(log'[p])
             /\ \A o \in 1..Len(log[p]) : log'[p][o] = log[p][o]
  <2>1. log[p] \in Seq(Kinds) /\ log'[p] = IF p = q THEN Append(log[p], k) ELSE log[p]
    BY <1>1, <1>2, <1>4
  <2> QED BY <2>1
<1>5. bronze' = bronze /\ dlq' = dlq
  BY DEF Publish, sinkVars
<1> QED BY <1>3, <1>4, <1>5 DEF Grows

\* A step that keeps the log and only adds rows grows it.
LEMMA StillGrows ==
  ASSUME TypeOK, log' = log, bronze \subseteq bronze', dlq \subseteq dlq'
  PROVE  Grows
<1>1. \A p \in Partitions : Len(log[p]) \in Nat
  BY DEF TypeOK
<1> QED BY <1>1 DEF Grows

\* A message of the log is a message of any log grown from it.
LEMMA PublishedGrows ==
  ASSUME TypeOK, Grows
  PROVE  Published \subseteq Published'
<1>1. \A p \in Partitions : Len(log[p]) \in Nat
  BY DEF TypeOK
<1> QED BY <1>1 DEF Grows, Published

\* The types of what the helpers assign.
LEMMA ToggleType ==
  ASSUME TypeOK, NEW w \in Workers, TogglePolling(w)
  PROVE  polling_active' \in [Workers -> BOOLEAN]
<1>1. PICK active \in {ShouldPoll(w)} \cup (IF PauseMayFail THEN {polling_active[w]} ELSE {}) :
        polling_active' = [polling_active EXCEPT ![w] = active]
  BY DEF TogglePolling
<1>2. active \in BOOLEAN
  BY <1>1 DEF ShouldPoll, TypeOK
<1> QED BY <1>1, <1>2 DEF TypeOK

\* Ownership taken from w leaves a total map of owners.
LEMMA DisownType ==
  ASSUME TypeOK, NEW w \in Workers, Disown(w)
  PROVE  owner' \in [Partitions -> Workers \cup {NoWorker}]
BY DEF Disown, TypeOK

\* A worker that gives its assignment up has none, and starts over at no position.
LEMMA ReleaseType ==
  ASSUME TypeOK, NEW w \in Workers, Release(w)
  PROVE  /\ assigned' \in [Workers -> SUBSET Partitions]
         /\ position' \in [Workers -> Offsets]
         /\ owner' \in [Partitions -> Workers \cup {NoWorker}]
<1>1. NoOffsets \in Offsets
  BY DEF NoOffsets, Offsets
<1> QED BY <1>1, DisownType DEF Release, TypeOK

\* A process that ends leaves well-typed fresh variables for the next one.
LEMMA ExitType ==
  ASSUME TypeOK, NEW w \in Workers, Exit(w), log' = log
  PROVE  /\ pc' \in [Workers -> PCs]
         /\ assigned' \in [Workers -> SUBSET Partitions]
         /\ position' \in [Workers -> Offsets]
         /\ batch' \in [Workers -> SUBSET Published']
         /\ dirty' \in [Workers -> BOOLEAN]
         /\ polling_active' \in [Workers -> BOOLEAN]
         /\ batch_stuck' \in [Workers -> BOOLEAN]
         /\ commit_retry_needed' \in [Workers -> BOOLEAN]
         /\ cause' \in [Workers -> {"loop", "revoke", "close"}]
         /\ attempt' \in [Workers -> Nat]
         /\ todo' \in [Workers -> SUBSET Published']
         /\ poison' \in [Workers -> SUBSET Published']
<1>1. NoOffsets \in Offsets /\ Published' = Published
  BY DEF NoOffsets, Offsets, Published
<1> QED BY <1>1 DEF Exit, TypeOK, PCs

\* A synchronous commit writes offsets, or nothing.
LEMMA SyncCommitType ==
  ASSUME TypeOK, NEW w \in Workers, NEW ok \in BOOLEAN, SyncCommit(w, ok)
  PROVE  committed' \in Offsets /\ faults' \in Nat
<1>1. position[w] \in Offsets /\ committed \in Offsets /\ faults \in Nat
  BY DEF TypeOK
<1>2. Accept(w, position[w]) => committed' \in Offsets
  BY <1>1 DEF Accept, Offsets
<1> QED BY <1>1, <1>2 DEF SyncCommit, Fault

\* A write to ClickHouse may use up one fault.
LEMMA WriteType ==
  ASSUME TypeOK, NEW a, NEW stored, NEW acked, Write(a, stored, acked)
  PROVE  faults' \in Nat
BY DEF Write, Fault, TypeOK

\* Type correctness, one step per action.
LEMMA TypeStep ==
  ASSUME TypeOK, [Next]_vars
  PROVE  TypeOK'
<1> USE DEF vars, brokerVars, sinkVars, flushVars, loopVars
<1>0. log' = log => Published' = Published
  BY DEF Published
<1>1. ASSUME NEW w \in Workers, NEW p \in Partitions, Polled(w, p), log' = log
      PROVE  /\ NextOf(w, p) \in Published
             /\ position' \in [Workers -> Offsets]
             /\ pc' \in [Workers -> PCs]
             /\ polling_active' \in [Workers -> BOOLEAN]
  <2>1. position[w] \in Offsets /\ position[w][p] \in Nat
    BY <1>1 DEF TypeOK, Offsets
  <2>2. log[p] \in Seq(Kinds) /\ position[w][p] + 1 \in 1..Len(log[p])
    BY <1>1, <2>1 DEF Polled, TypeOK
  <2>3. [position[w] EXCEPT ![p] = @ + 1] \in Offsets
    BY <2>1 DEF Offsets
  <2>4. position' = [position EXCEPT ![w] = [position[w] EXCEPT ![p] = @ + 1]]
    BY <1>1 DEF Polled, TypeOK
  <2>5. position' \in [Workers -> Offsets]
    BY <2>3, <2>4 DEF TypeOK
  <2>6. pc' \in [Workers -> PCs]
    BY <1>1 DEF Polled, TypeOK, PCs
  <2> QED BY <1>1, <2>2, <2>5, <2>6, ToggleType DEF NextOf, Published, Polled
<1>2. ASSUME NEW w \in Workers, NEW p \in Partitions, PollDecodable(w, p)
      PROVE  TypeOK'
  BY <1>0, <1>1, <1>2 DEF PollDecodable, TypeOK
<1>3. ASSUME NEW w \in Workers, NEW p \in Partitions, PollUndecodable(w, p)
      PROVE  TypeOK'
  <2>1. PICK ok \in BOOLEAN : /\ DeadLetter(NextOf(w, p), ok)
                              /\ dirty' = [dirty EXCEPT ![w] = @ \/ ok]
    BY <1>3 DEF PollUndecodable
  <2>2. /\ faults' \in Nat /\ sinkUp' = sinkUp /\ bronze' = bronze
        /\ dlq' \in {dlq, dlq \cup {NextOf(w, p)}}
    BY <2>1, WriteType DEF DeadLetter
  <2>3. dirty' \in [Workers -> BOOLEAN]
    BY <2>1 DEF TypeOK
  <2> QED BY <1>0, <1>1, <1>3, <2>2, <2>3 DEF PollUndecodable, TypeOK
<1>4. ASSUME NEW w \in Workers, PollNothing(w)
      PROVE  TypeOK'
  BY <1>4, <1>0, ToggleType DEF PollNothing, TypeOK, PCs
<1>5. ASSUME NEW w \in Workers, PollRevoked(w)
      PROVE  TypeOK'
  <2>1. polling_active' \in [Workers -> BOOLEAN] /\ faults' \in Nat
    BY <1>5, ToggleType DEF PollRevoked, Fault, TypeOK
  <2>2. CASE Release(w) /\ UNCHANGED <<pc, flushVars>>
    BY <2>1, <2>2, <1>5, <1>0, ReleaseType DEF PollRevoked, TypeOK
  <2>3. CASE BeginFlush(w, "revoke") /\ UNCHANGED <<owner, assigned, position>>
    BY <2>1, <2>3, <1>5, <1>0 DEF PollRevoked, BeginFlush, TypeOK, PCs
  <2> QED BY <1>5, <2>2, <2>3 DEF PollRevoked
<1>6. ASSUME NEW w \in Workers, PollError(w)
      PROVE  TypeOK'
  <2>1. CASE batch[w] = {} /\ Exit(w) /\ Disown(w)
    BY <2>1, <1>6, <1>0, ExitType, DisownType DEF PollError, Fault, TypeOK
  <2>2. CASE batch[w] # {} /\ TogglePolling(w) /\ BeginFlush(w, "close")
    BY <2>2, <1>6, <1>0, ToggleType DEF PollError, BeginFlush, Fault, TypeOK, PCs
  <2> QED BY <1>6, <2>1, <2>2 DEF PollError
<1>7. ASSUME NEW w \in Workers, CommitDirty(w)
      PROVE  TypeOK'
  <2>1. committed' \in Offsets /\ faults' \in Nat
    BY <1>7, SyncCommitType DEF CommitDirty
  <2> QED BY <1>7, <1>0, <2>1 DEF CommitDirty, SyncCommit, TypeOK, PCs
<1>8. ASSUME NEW w \in Workers, FlushBatch(w) \/ NoFlush(w) \/ HoldBatch(w) \/ Restart(w)
      PROVE  TypeOK'
  BY <1>8, <1>0 DEF FlushBatch, NoFlush, HoldBatch, Restart, BeginFlush, TypeOK, PCs
<1>9. ASSUME NEW w \in Workers, CommitFlushed(w)
      PROVE  TypeOK'
  <2> DEFINE Typed == /\ committed' \in Offsets /\ faults' \in Nat
                      /\ inflight' \in [Workers -> Seq(Offsets)]
                      /\ commit_retry_needed' \in [Workers -> BOOLEAN]
                      /\ log' = log /\ owner' = owner
  <2>1. Typed
    <3>1. ASSUME NEW ok \in BOOLEAN, SyncCommit(w, ok),
                 commit_retry_needed' = [commit_retry_needed EXCEPT ![w] = ~ok]
          PROVE  Typed
      BY <3>1, SyncCommitType DEF SyncCommit, TypeOK
    <3>2. ASSUME AsyncCommit(w), UNCHANGED commit_retry_needed
          PROVE  Typed
      <4>1. position[w] \in Offsets /\ inflight[w] \in Seq(Offsets)
        BY DEF TypeOK
      <4>2. Append(inflight[w], position[w]) \in Seq(Offsets)
        BY <4>1
      <4> QED BY <3>2, <4>2 DEF AsyncCommit, TypeOK
    <3> QED BY <1>9, <3>1, <3>2 DEF CommitFlushed
  <2> QED BY <1>9, <1>0, <2>1 DEF CommitFlushed, TypeOK, PCs
<1>10. ASSUME NEW w \in Workers, RevokeCommit(w)
       PROVE  TypeOK'
  <2>1. committed' \in Offsets /\ faults' \in Nat
    BY <1>10, SyncCommitType DEF RevokeCommit
  <2> QED BY <1>10, <1>0, <2>1 DEF RevokeCommit, SyncCommit, TypeOK, PCs
<1>11. ASSUME NEW w \in Workers, FinishRevoke(w)
       PROVE  TypeOK'
  <2>1. CASE cause[w] = "close" /\ Exit(w) /\ Disown(w)
    BY <2>1, <1>11, <1>0, ExitType, DisownType DEF FinishRevoke, TypeOK
  <2>2. CASE cause[w] = "revoke" /\ Release(w)
    BY <2>2, <1>11, <1>0, ReleaseType DEF FinishRevoke, TypeOK, PCs
  <2> QED BY <1>11, <2>1, <2>2 DEF FinishRevoke
<1>12. ASSUME NEW w \in Workers, NEW rows \in SUBSET Published, NEW acked \in BOOLEAN,
              InsertEvents(rows, acked)
       PROVE  /\ bronze' \subseteq Published /\ sinkUp' = sinkUp /\ dlq' = dlq
              /\ faults' \in Nat
  BY <1>12, WriteType DEF InsertEvents, TypeOK
<1>13. ASSUME NEW w \in Workers, InsertBatch(w)
       PROVE  TypeOK'
  <2>1. /\ bronze' \subseteq Published /\ sinkUp' = sinkUp /\ dlq' = dlq /\ faults' \in Nat
    <3>1. batch[w] \in SUBSET Published
      BY DEF TypeOK
    <3>2. PICK acked \in BOOLEAN : InsertEvents(batch[w], acked)
      BY <1>13 DEF InsertBatch, InsertEvents
    <3> QED BY <3>1, <3>2, WriteType DEF InsertEvents, TypeOK
  <2>2. pc' \in [Workers -> PCs]
    BY <1>13 DEF InsertBatch, TypeOK, PCs
  <2>3. attempt' \in [Workers -> Nat]
    <3>1. attempt \in [Workers -> Nat] /\ 0 \in Nat /\ attempt[w] + 1 \in Nat
      BY DEF TypeOK
    <3>2. \/ attempt' = [attempt EXCEPT ![w] = 0]
          \/ attempt' = [attempt EXCEPT ![w] = attempt[w] + 1]
      BY <1>13, Zenon DEF InsertBatch
    <3> QED BY <3>1, <3>2
  <2>4. todo' \in [Workers -> SUBSET Published]
    BY <1>13 DEF InsertBatch, TypeOK
  <2> QED BY <1>13, <1>0, <2>1, <2>2, <2>3, <2>4 DEF InsertBatch, TypeOK
<1>14. ASSUME NEW w \in Workers, InsertRow(w)
       PROVE  TypeOK'
  <2>1. PICK m \in todo[w], acked \in BOOLEAN :
          /\ InsertEvents({m}, acked)
          /\ todo' = [todo EXCEPT ![w] = @ \ {m}]
          /\ poison' = [poison EXCEPT ![w] = IF acked THEN @ ELSE @ \cup {m}]
    BY <1>14 DEF InsertRow
  <2>2. m \in Published
    BY <2>1 DEF TypeOK
  <2>3. /\ bronze' \subseteq Published /\ sinkUp' = sinkUp /\ dlq' = dlq /\ faults' \in Nat
    BY <2>1, <2>2, <1>12
  <2> QED BY <1>14, <1>0, <2>1, <2>2, <2>3 DEF InsertRow, TypeOK
<1>15. ASSUME NEW w \in Workers, JudgeRows(w) \/ ProbeSink(w)
       PROVE  TypeOK'
  BY <1>15, <1>0 DEF JudgeRows, ProbeSink, ParkOrSettle, TypeOK, PCs
<1>16. ASSUME NEW w \in Workers, ParkRow(w)
       PROVE  TypeOK'
  <2>1. PICK m \in poison[w], ok \in BOOLEAN :
          /\ DeadLetter(m, ok)
          /\ poison' = [poison EXCEPT ![w] = IF ok THEN @ \ {m} ELSE {}]
          /\ pc' = [pc EXCEPT ![w] = IF ok THEN ParkOrSettle(poison[w] \ {m}) ELSE "held"]
    BY <1>16 DEF ParkRow
  <2>2. /\ faults' \in Nat /\ sinkUp' = sinkUp /\ bronze' = bronze
        /\ dlq' \in {dlq, dlq \cup {m}} /\ m \in Published
    BY <2>1, WriteType DEF DeadLetter, TypeOK
  <2>3. pc' \in [Workers -> PCs] /\ poison' \in [Workers -> SUBSET Published]
    BY <2>1 DEF TypeOK, PCs, ParkOrSettle
  <2> QED BY <1>16, <1>0, <2>2, <2>3 DEF ParkRow, TypeOK
<1>17. ASSUME NEW w \in Workers, CommitLands(w) \/ CommitRefused(w)
       PROVE  TypeOK'
  <2>1. inflight[w] \in Seq(Offsets) /\ inflight[w] # <<>>
    BY <1>17 DEF CommitLands, CommitRefused, TypeOK
  <2>2. Head(inflight[w]) \in Offsets /\ Tail(inflight[w]) \in Seq(Offsets)
    BY <2>1
  <2>3. inflight' \in [Workers -> Seq(Offsets)]
    BY <1>17, <2>2 DEF CommitLands, CommitRefused, TypeOK
  <2>4. CASE CommitLands(w)
    <3>1. committed' \in Offsets
      BY <2>4, <2>2 DEF CommitLands, Accept, Offsets, TypeOK
    <3> QED BY <2>4, <1>0, <2>3, <3>1 DEF CommitLands, TypeOK
  <2>5. CASE CommitRefused(w)
    BY <2>5, <1>0, <2>3 DEF CommitRefused, Fault, TypeOK
  <2> QED BY <1>17, <2>4, <2>5
<1>18. ASSUME NEW w \in Workers, Assign(w)
       PROVE  TypeOK'
  BY <1>18, <1>0 DEF Assign, TypeOK, Offsets
<1>19. ASSUME NEW w \in Workers, Evict(w)
       PROVE  TypeOK'
  BY <1>19, <1>0, DisownType DEF Evict, Fault, TypeOK
<1>20. ASSUME NEW w \in Workers, Crash(w)
       PROVE  TypeOK'
  BY <1>20, <1>0, ExitType DEF Crash, Fault, TypeOK
<1>21. ASSUME Publish
       PROVE  TypeOK'
  <2>1. Published \subseteq Published' /\ log' \in [Partitions -> Seq(Kinds)]
    BY <1>21, PublishGrows, PublishedGrows
  <2> QED BY <1>21, <2>1 DEF Publish, TypeOK
<1>22. ASSUME SinkFails \/ SinkRecovers
       PROVE  TypeOK'
  <2>1. sinkUp' \in BOOLEAN
    BY <1>22 DEF SinkFails, SinkRecovers
  <2>2. faults' \in Nat
    BY <1>22 DEF SinkFails, SinkRecovers, Fault, TypeOK
  <2> QED BY <1>22, <1>0, <2>1, <2>2 DEF SinkFails, SinkRecovers, TypeOK
<1>23. CASE UNCHANGED vars
  BY <1>23, <1>0 DEF TypeOK
<1> QED BY <1>2, <1>3, <1>4, <1>5, <1>6, <1>7, <1>8, <1>9, <1>10, <1>11, <1>13,
           <1>14, <1>15, <1>16, <1>17, <1>18, <1>19, <1>20, <1>21, <1>22, <1>23
        DEF Next, LoopStep, FlushStep, GroupStep

\* Every variable always has its type: the run KafkaWorkerSafety checks it.
THEOREM TypeCorrect == Spec => []TypeOK
<1>1. Init => TypeOK
  BY DEF Init, TypeOK, PCs, NoOffsets, Offsets, Published
<1>2. TypeOK /\ [Next]_vars => TypeOK'
  BY TypeStep
<1> QED BY <1>1, <1>2, PTL DEF Spec

-----------------------------------------------------------------------------
(* The inductive invariant.  A worker has only moved its position past      *)
(* decodable messages that are in a table or in its own batch; by the time  *)
(* a flush is settled its batch is in the tables; so whatever offsets a     *)
(* commit carries, now or in a request answered much later, are safe.       *)

SafeUpTo(p, n) ==
  /\ n <= Len(log[p])
  /\ \A o \in 1..n : log[p][o] # "undecodable" => <<p, o>> \in Accounted

CommitsSafe == \A p \in Partitions : SafeUpTo(p, committed[p])

RequestsSafe ==
  \A w \in Workers : \A i \in 1..Len(inflight[w]) : \A p \in Partitions :
    SafeUpTo(p, inflight[w][i][p])

PositionCovered(w) ==
  \A p \in Partitions :
    /\ position[w][p] <= Len(log[p])
    /\ \A o \in 1..position[w][p] :
         log[p][o] # "undecodable" => <<p, o>> \in Accounted \cup batch[w]

FlushCovered(w) ==
  /\ pc[w] \in {"settled", "revoked"} => batch[w] \subseteq Accounted
  /\ pc[w] = "isolate" => batch[w] \subseteq Accounted \cup todo[w] \cup poison[w]
  /\ pc[w] \in {"probe", "park"} => batch[w] \subseteq Accounted \cup poison[w]

WorkersCovered == \A w \in Workers : PositionCovered(w) /\ FlushCovered(w)

SafetyInv == CommitsSafe /\ RequestsSafe /\ WorkersCovered
-----------------------------------------------------------------------------
(* What is safe stays safe when the log and the tables grow.                *)

\* A prefix that was safe is safe in a longer log and in larger tables.
LEMMA SafeGrows ==
  ASSUME TypeOK, Grows, NEW p \in Partitions, NEW n \in Nat, SafeUpTo(p, n)
  PROVE  SafeUpTo(p, n)'
<1>1. Len(log[p]) \in Nat
  BY DEF TypeOK
<1> QED BY <1>1 DEF SafeUpTo, Grows, Accounted

\* So are the committed offsets, when a step commits nothing.
LEMMA CommitsKept ==
  ASSUME TypeOK, SafetyInv, Grows, committed' = committed
  PROVE  CommitsSafe'
<1>1. \A p \in Partitions : committed[p] \in Nat /\ Len(log[p]) \in Nat
  BY DEF TypeOK, Offsets
<1> QED BY <1>1 DEF SafetyInv, CommitsSafe, SafeUpTo, Grows, Accounted

\* And the commit requests the broker has not answered yet.
LEMMA RequestsKept ==
  ASSUME TypeOK, SafetyInv, Grows, inflight' = inflight
  PROVE  RequestsSafe'
<1>1. ASSUME NEW w \in Workers, NEW i \in 1..Len(inflight[w]), NEW p \in Partitions
      PROVE  inflight[w][i][p] \in Nat /\ Len(log[p]) \in Nat
  BY DEF TypeOK, Offsets
<1> QED BY <1>1 DEF SafetyInv, RequestsSafe, SafeUpTo, Grows, Accounted

\* Only w's part of what WorkersCovered reads may change.
Local(w) ==
  \A v \in Workers \ {w} :
    /\ pc'[v] = pc[v] /\ position'[v] = position[v] /\ batch'[v] = batch[v]
    /\ todo'[v] = todo[v] /\ poison'[v] = poison[v]

\* A step of w has to show WorkersCovered for w only.
LEMMA WorkersKept ==
  ASSUME TypeOK, SafetyInv, Grows, NEW w \in Workers, Local(w),
         PositionCovered(w)', FlushCovered(w)'
  PROVE  WorkersCovered'
<1>1. ASSUME NEW v \in Workers, v # w
      PROVE  PositionCovered(v)' /\ FlushCovered(v)'
  <2>1. PositionCovered(v) /\ FlushCovered(v)
    BY DEF SafetyInv, WorkersCovered
  <2>2. \A p \in Partitions : position[v][p] \in Nat /\ Len(log[p]) \in Nat
    BY DEF TypeOK, Offsets
  <2>3. PositionCovered(v)'
    BY <1>1, <2>1, <2>2 DEF PositionCovered, Local, Grows, Accounted
  <2>4. FlushCovered(v)'
    BY <1>1, <2>1 DEF FlushCovered, Local, Grows, Accounted
  <2> QED BY <2>3, <2>4
<1> QED BY <1>1 DEF WorkersCovered

\* A step of w that leaves its position and its batch alone.
LEMMA PositionKept ==
  ASSUME TypeOK, SafetyInv, Grows, NEW w \in Workers,
         position'[w] = position[w], batch[w] \subseteq batch'[w] \cup Accounted'
  PROVE  PositionCovered(w)'
<1>1. \A p \in Partitions : position[w][p] \in Nat /\ Len(log[p]) \in Nat
  BY DEF TypeOK, Offsets
<1>2. PositionCovered(w)
  BY DEF SafetyInv, WorkersCovered
<1> QED BY <1>1, <1>2 DEF PositionCovered, Grows, Accounted

\* A worker without position covers everything.
LEMMA PositionReset ==
  ASSUME TypeOK, NEW w \in Workers, position'[w] = NoOffsets, log' = log
  PROVE  PositionCovered(w)'
<1>1. \A p \in Partitions : Len(log[p]) \in Nat /\ Len(log[p]) >= 0
  BY DEF TypeOK
<1> QED BY <1>1 DEF PositionCovered, NoOffsets

\* The position of a worker whose batch is accounted for is a safe offset.
LEMMA PositionSafe ==
  ASSUME SafetyInv, NEW w \in Workers, batch[w] \subseteq Accounted, NEW p \in Partitions
  PROVE  SafeUpTo(p, position[w][p])
BY DEF SafetyInv, WorkersCovered, PositionCovered, SafeUpTo

\* A synchronous commit of a worker whose batch is accounted for is safe.
LEMMA SyncCommitSafe ==
  ASSUME TypeOK, SafetyInv, NEW w \in Workers, NEW ok \in BOOLEAN, SyncCommit(w, ok),
         batch[w] \subseteq Accounted, bronze' = bronze, dlq' = dlq
  PROVE  CommitsSafe' /\ RequestsSafe'
<1>1. log' = log /\ inflight' = inflight /\ Grows
  BY StillGrows DEF SyncCommit
<1>2. committed' = committed \/ Accept(w, position[w])
  BY DEF SyncCommit
<1>3. Accept(w, position[w]) => CommitsSafe'
  BY <1>1, PositionSafe DEF SafetyInv, CommitsSafe, Accept, SafeUpTo, Accounted
<1> QED BY <1>1, <1>2, <1>3, CommitsKept, RequestsKept

\* The position advances over a message that is not decodable or joins the batch.
LEMMA PolledCovers ==
  ASSUME TypeOK, SafetyInv, NEW w \in Workers, NEW p \in Partitions, Polled(w, p), Grows,
         log' = log, batch[w] \subseteq batch'[w],
         Decodable(NextOf(w, p)) => NextOf(w, p) \in batch'[w]
  PROVE  PositionCovered(w)'
<1>1. position[w] \in Offsets /\ PositionCovered(w)
  BY DEF TypeOK, SafetyInv, WorkersCovered
<1>2. position'[w] = [position[w] EXCEPT ![p] = @ + 1]
  BY DEF Polled, TypeOK
<1>3. position[w][p] < Len(log[p])
  BY DEF Polled
<1>4. ASSUME NEW q \in Partitions
      PROVE  /\ position'[w][q] <= Len(log'[q])
             /\ \A o \in 1..position'[w][q] :
                  log'[q][o] # "undecodable" => <<q, o>> \in Accounted' \cup batch'[w]
  <2>1. position[w][q] \in Nat /\ Len(log[q]) \in Nat /\ Accounted \subseteq Accounted'
    BY <1>1 DEF Offsets, TypeOK, Grows, Accounted
  <2>2. CASE q # p
    <3>1. position'[w][q] = position[w][q]
      BY <1>1, <1>2, <2>2 DEF Offsets
    <3> QED BY <3>1, <1>1, <2>1 DEF PositionCovered
  <2>3. CASE q = p
    <3>1. position'[w][q] = position[w][q] + 1
      BY <1>1, <1>2, <2>3 DEF Offsets
    <3>2. position[w][q] + 1 <= Len(log[q])
      BY <1>3, <2>1, <2>3
    <3>3. ASSUME NEW o \in 1..(position[w][q] + 1), log[q][o] # "undecodable"
          PROVE  <<q, o>> \in Accounted' \cup batch'[w]
      <4>1. CASE o = position[w][q] + 1
        BY <4>1, <3>3, <2>3 DEF NextOf, Decodable, Kind
      <4>2. CASE o \in 1..position[w][q]
        BY <4>2, <3>3, <1>1, <2>1 DEF PositionCovered
      <4> QED BY <4>1, <4>2, <2>1
    <3> QED BY <3>1, <3>2, <3>3
  <2> QED BY <2>2, <2>3
<1> QED BY <1>4 DEF PositionCovered

\* The invariant is inductive, one step per action.
LEMMA SafetyStep ==
  ASSUME TypeOK, SafetyInv, [Next]_vars
  PROVE  SafetyInv'
<1> USE DEF vars, brokerVars, sinkVars, flushVars, loopVars
<1>1. ASSUME NEW w \in Workers, NEW p \in Partitions, PollDecodable(w, p)
      PROVE  SafetyInv'
  <2>1. Grows /\ log' = log
    BY <1>1, StillGrows DEF PollDecodable
  <2>2. Local(w) /\ pc'[w] = "check" /\ batch'[w] = batch[w] \cup {NextOf(w, p)}
    BY <1>1 DEF PollDecodable, Polled, Local, TypeOK
  <2>3. PositionCovered(w)'
    BY <1>1, <2>1, <2>2, PolledCovers DEF PollDecodable
  <2>4. FlushCovered(w)'
    BY <2>2 DEF FlushCovered
  <2> QED BY <1>1, <2>1, <2>2, <2>3, <2>4, WorkersKept, CommitsKept, RequestsKept
          DEF PollDecodable, SafetyInv
<1>2. ASSUME NEW w \in Workers, NEW p \in Partitions, PollUndecodable(w, p)
      PROVE  SafetyInv'
  <2>1. Grows /\ log' = log
    BY <1>2, StillGrows DEF PollUndecodable, DeadLetter
  <2>2. Local(w) /\ pc'[w] = "check" /\ batch' = batch
    BY <1>2 DEF PollUndecodable, Polled, Local, TypeOK
  <2>3. PositionCovered(w)'
    BY <1>2, <2>1, <2>2, PolledCovers DEF PollUndecodable
  <2>4. FlushCovered(w)'
    BY <2>2 DEF FlushCovered
  <2> QED BY <1>2, <2>1, <2>2, <2>3, <2>4, WorkersKept, CommitsKept, RequestsKept
          DEF PollUndecodable, SafetyInv
<1>3. ASSUME NEW w \in Workers, PollNothing(w) \/ FlushBatch(w) \/ NoFlush(w) \/ HoldBatch(w)
      PROVE  SafetyInv'
  <2>1. Grows /\ UNCHANGED <<committed, inflight, position, batch>>
    BY <1>3, StillGrows DEF PollNothing, FlushBatch, NoFlush, HoldBatch
  <2>2. Local(w) /\ pc'[w] \in {"check", "insert", "poll"}
    BY <1>3 DEF PollNothing, FlushBatch, NoFlush, HoldBatch, BeginFlush, Local, TypeOK
  <2>3. PositionCovered(w)' /\ FlushCovered(w)'
    BY <2>1, <2>2, PositionKept DEF FlushCovered
  <2> QED BY <2>1, <2>2, <2>3, WorkersKept, CommitsKept, RequestsKept DEF SafetyInv
<1>4. ASSUME NEW w \in Workers, PollRevoked(w)
      PROVE  SafetyInv'
  <2>1. Grows /\ UNCHANGED <<log, committed, inflight, batch>>
    BY <1>4, StillGrows DEF PollRevoked
  <2>2. Local(w) /\ pc'[w] \in {"poll", "insert"} /\ position'[w] \in {position[w], NoOffsets}
    BY <1>4 DEF PollRevoked, BeginFlush, Release, Local, TypeOK
  <2>3. PositionCovered(w)' /\ FlushCovered(w)'
    BY <2>1, <2>2, PositionKept, PositionReset DEF FlushCovered
  <2> QED BY <2>1, <2>2, <2>3, WorkersKept, CommitsKept, RequestsKept DEF SafetyInv
<1>5. ASSUME NEW w \in Workers, PollError(w) \/ Crash(w)
      PROVE  SafetyInv'
  <2>1. Grows /\ UNCHANGED <<log, committed, inflight>>
    BY <1>5, StillGrows DEF PollError, Crash
  <2>2. /\ Local(w) /\ pc'[w] \in {"insert", "down"}
        /\ position'[w] = NoOffsets \/ (position'[w] = position[w] /\ batch'[w] = batch[w])
    BY <1>5 DEF PollError, Crash, BeginFlush, Exit, Local, TypeOK
  <2>3. PositionCovered(w)' /\ FlushCovered(w)'
    BY <2>1, <2>2, PositionKept, PositionReset DEF FlushCovered
  <2> QED BY <2>1, <2>2, <2>3, WorkersKept, CommitsKept, RequestsKept DEF SafetyInv
<1>6. ASSUME NEW w \in Workers, CommitDirty(w)
      PROVE  SafetyInv'
  <2>1. Grows /\ UNCHANGED <<log, bronze, dlq, position, batch>> /\ batch[w] = {}
    BY <1>6, StillGrows DEF CommitDirty, SyncCommit
  <2>2. Local(w) /\ pc'[w] = "poll"
    BY <1>6 DEF CommitDirty, Local, TypeOK
  <2>3. CommitsSafe' /\ RequestsSafe'
    BY <1>6, <2>1, SyncCommitSafe DEF CommitDirty
  <2>4. PositionCovered(w)' /\ FlushCovered(w)'
    BY <2>1, <2>2, PositionKept DEF FlushCovered
  <2> QED BY <2>1, <2>2, <2>3, <2>4, WorkersKept DEF SafetyInv
<1>7. ASSUME NEW w \in Workers, CommitFlushed(w)
      PROVE  SafetyInv'
  <2>1. Grows /\ UNCHANGED <<log, bronze, dlq, position>> /\ batch[w] \subseteq Accounted
    BY <1>7, StillGrows DEF CommitFlushed, SyncCommit, AsyncCommit, SafetyInv, WorkersCovered,
                            FlushCovered
  <2>2. Local(w) /\ pc'[w] = "poll" /\ batch'[w] = {}
    BY <1>7 DEF CommitFlushed, Local, TypeOK
  <2>3. CommitsSafe' /\ RequestsSafe'
    <3>1. CASE \E ok \in BOOLEAN : SyncCommit(w, ok)
      BY <2>1, <3>1, SyncCommitSafe
    <3>2. CASE AsyncCommit(w)
      <4>1. CommitsSafe'
        BY <2>1, <3>2, CommitsKept DEF AsyncCommit
      <4>2. ASSUME NEW v \in Workers, NEW i \in 1..Len(inflight'[v]), NEW p \in Partitions
            PROVE  SafeUpTo(p, inflight'[v][i][p])
        <5>1. inflight[v] \in Seq(Offsets) /\ position[w] \in Offsets
          BY DEF TypeOK
        <5>2. CASE v = w
          <6>1. inflight'[v] = Append(inflight[v], position[w])
            BY <3>2, <5>2 DEF AsyncCommit, TypeOK
          <6>2. \/ i \in 1..Len(inflight[v]) /\ inflight'[v][i] = inflight[v][i]
                \/ inflight'[v][i] = position[w]
            BY <5>1, <6>1, <4>2
          <6> QED BY <6>2, <2>1, PositionSafe DEF SafetyInv, RequestsSafe
        <5>3. CASE v # w
          <6>1. inflight'[v] = inflight[v]
            BY <3>2, <5>3 DEF AsyncCommit, TypeOK
          <6> QED BY <6>1, <4>2 DEF SafetyInv, RequestsSafe
        <5> QED BY <5>2, <5>3
      <4> QED BY <2>1, <4>1, <4>2 DEF RequestsSafe, SafeUpTo, Accounted
    <3> QED BY <1>7, <3>1, <3>2 DEF CommitFlushed
  <2>4. PositionCovered(w)' /\ FlushCovered(w)'
    BY <2>1, <2>2, PositionKept DEF FlushCovered, Accounted
  <2> QED BY <2>1, <2>2, <2>3, <2>4, WorkersKept DEF SafetyInv
<1>8. ASSUME NEW w \in Workers, RevokeCommit(w)
      PROVE  SafetyInv'
  <2>1. Grows /\ UNCHANGED <<log, bronze, dlq, position, batch>> /\ batch[w] \subseteq Accounted
    BY <1>8, StillGrows DEF RevokeCommit, SyncCommit, SafetyInv, WorkersCovered, FlushCovered
  <2>2. Local(w) /\ pc'[w] = "revoked"
    BY <1>8 DEF RevokeCommit, Local, TypeOK
  <2>3. CommitsSafe' /\ RequestsSafe'
    BY <1>8, <2>1, SyncCommitSafe DEF RevokeCommit
  <2>4. PositionCovered(w)' /\ FlushCovered(w)'
    BY <2>1, <2>2, PositionKept DEF FlushCovered, Accounted
  <2> QED BY <2>1, <2>2, <2>3, <2>4, WorkersKept DEF SafetyInv
<1>9. ASSUME NEW w \in Workers, FinishRevoke(w)
      PROVE  SafetyInv'
  <2>1. Grows /\ UNCHANGED <<log, committed, inflight>>
    BY <1>9, StillGrows DEF FinishRevoke
  <2>2. Local(w) /\ pc'[w] \in {"poll", "down"} /\ position'[w] = NoOffsets
    BY <1>9 DEF FinishRevoke, Exit, Release, Local, TypeOK
  <2>3. PositionCovered(w)' /\ FlushCovered(w)'
    BY <2>1, <2>2, PositionReset DEF FlushCovered
  <2> QED BY <2>1, <2>2, <2>3, WorkersKept, CommitsKept, RequestsKept DEF SafetyInv
<1>10. ASSUME NEW w \in Workers, InsertBatch(w)
       PROVE  SafetyInv'
  <2>1. Grows /\ UNCHANGED <<log, committed, inflight, position, batch>>
    BY <1>10, StillGrows DEF InsertBatch, InsertEvents
  <2>2. Local(w)
    BY <1>10 DEF InsertBatch, Local, TypeOK
  <2>3. PositionCovered(w)'
    BY <2>1, PositionKept
  <2>4. FlushCovered(w)'
    <3>1. PICK acked \in BOOLEAN :
            /\ InsertEvents(batch[w], acked)
            /\ \/ acked /\ pc' = [pc EXCEPT ![w] = "settled"]
               \/ UNCHANGED pc
               \/ /\ pc' = [pc EXCEPT ![w] = "isolate"]
                  /\ todo' = [todo EXCEPT ![w] = batch[w]]
      BY <1>10, Zenon DEF InsertBatch
    <3>2. CASE acked /\ pc' = [pc EXCEPT ![w] = "settled"]
      BY <2>1, <3>1, <3>2 DEF InsertEvents, Write, FlushCovered, Accounted, TypeOK
    <3>3. CASE UNCHANGED pc
      BY <1>10, <3>3 DEF InsertBatch, FlushCovered
    <3>4. CASE pc' = [pc EXCEPT ![w] = "isolate"] /\ todo' = [todo EXCEPT ![w] = batch[w]]
      BY <2>1, <3>4 DEF FlushCovered, TypeOK
    <3> QED BY <3>1, <3>2, <3>3, <3>4
  <2> QED BY <2>1, <2>2, <2>3, <2>4, WorkersKept, CommitsKept, RequestsKept DEF SafetyInv
<1>11. ASSUME NEW w \in Workers, InsertRow(w)
       PROVE  SafetyInv'
  <2>1. PICK m \in todo[w], acked \in BOOLEAN :
          /\ InsertEvents({m}, acked)
          /\ todo' = [todo EXCEPT ![w] = @ \ {m}]
          /\ poison' = [poison EXCEPT ![w] = IF acked THEN @ ELSE @ \cup {m}]
    BY <1>11 DEF InsertRow
  <2>2. Grows /\ UNCHANGED <<log, committed, inflight, position, batch, pc>>
    BY <1>11, <2>1, StillGrows DEF InsertRow, InsertEvents
  <2>3. Local(w)
    BY <1>11, <2>1 DEF InsertRow, Local, TypeOK
  <2>4. m \in Accounted' \cup poison'[w] /\ poison[w] \subseteq poison'[w]
    BY <2>1 DEF InsertEvents, Write, Accounted, TypeOK
  <2>5. batch[w] \subseteq Accounted \cup todo[w] \cup poison[w] /\ pc[w] = "isolate"
    BY <1>11 DEF InsertRow, SafetyInv, WorkersCovered, FlushCovered
  <2>6. PositionCovered(w)'
    BY <2>2, PositionKept
  <2>7. Accounted \subseteq Accounted' /\ todo'[w] = todo[w] \ {m}
    BY <2>1, <2>2 DEF Grows, Accounted, TypeOK
  <2>8. FlushCovered(w)'
    BY <2>2, <2>4, <2>5, <2>7 DEF FlushCovered
  <2> QED BY <2>2, <2>3, <2>6, <2>8, WorkersKept, CommitsKept, RequestsKept DEF SafetyInv
<1>12. ASSUME NEW w \in Workers, JudgeRows(w) \/ ProbeSink(w)
       PROVE  SafetyInv'
  <2>1. Grows /\ UNCHANGED <<log, committed, inflight, position, batch, bronze, dlq>>
    BY <1>12, StillGrows DEF JudgeRows, ProbeSink
  <2>2. Local(w)
    BY <1>12 DEF JudgeRows, ProbeSink, Local, TypeOK
  <2>3. FlushCovered(w)
    BY DEF SafetyInv, WorkersCovered
  <2>4. batch[w] \subseteq Accounted \cup poison[w]
    BY <1>12, <2>3 DEF JudgeRows, ProbeSink, FlushCovered
  <2>5. \/ pc'[w] \in {"probe", "park"} /\ poison'[w] = poison[w]
        \/ pc'[w] = "settled" /\ poison[w] = {}
        \/ pc'[w] = "held"
    BY <1>12 DEF JudgeRows, ProbeSink, ParkOrSettle, TypeOK
  <2>6. PositionCovered(w)' /\ FlushCovered(w)'
    BY <2>1, <2>4, <2>5, PositionKept DEF FlushCovered, Accounted
  <2> QED BY <2>1, <2>2, <2>6, WorkersKept, CommitsKept, RequestsKept DEF SafetyInv
<1>13. ASSUME NEW w \in Workers, ParkRow(w)
       PROVE  SafetyInv'
  <2>1. PICK m \in poison[w], ok \in BOOLEAN :
          /\ DeadLetter(m, ok)
          /\ poison' = [poison EXCEPT ![w] = IF ok THEN @ \ {m} ELSE {}]
          /\ pc' = [pc EXCEPT ![w] = IF ok THEN ParkOrSettle(poison[w] \ {m}) ELSE "held"]
    BY <1>13 DEF ParkRow
  <2>2. Grows /\ UNCHANGED <<log, committed, inflight, position, batch>>
    BY <1>13, <2>1, StillGrows DEF ParkRow, DeadLetter
  <2>3. Local(w)
    BY <1>13, <2>1 DEF ParkRow, Local, TypeOK
  <2>4. batch[w] \subseteq Accounted \cup poison[w]
    BY <1>13 DEF ParkRow, SafetyInv, WorkersCovered, FlushCovered
  <2>5. PositionCovered(w)'
    BY <2>2, PositionKept
  <2>6. FlushCovered(w)'
    <3>1. CASE ~ok
      BY <2>1, <3>1 DEF FlushCovered, TypeOK
    <3>2. CASE ok
      <4>1. m \in Accounted' /\ Accounted \subseteq Accounted'
        BY <2>1, <2>2, <3>2 DEF DeadLetter, Write, Accounted, Grows
      <4>2. poison'[w] = poison[w] \ {m} /\ batch'[w] = batch[w]
        BY <2>1, <2>2, <3>2 DEF TypeOK
      <4>3. pc'[w] = "park" \/ (pc'[w] = "settled" /\ poison'[w] = {})
        BY <2>1, <3>2, <4>2 DEF ParkOrSettle, TypeOK
      <4> QED BY <2>4, <4>1, <4>2, <4>3 DEF FlushCovered
    <3> QED BY <3>1, <3>2
  <2> QED BY <2>2, <2>3, <2>5, <2>6, WorkersKept, CommitsKept, RequestsKept DEF SafetyInv
<1>14. ASSUME NEW w \in Workers, CommitLands(w) \/ CommitRefused(w)
       PROVE  SafetyInv'
  <2>1. Grows /\ UNCHANGED <<log, bronze, dlq, pc, position, batch, todo, poison>>
    BY <1>14, StillGrows DEF CommitLands, CommitRefused
  <2>2. inflight[w] \in Seq(Offsets) /\ inflight[w] # <<>>
    BY <1>14 DEF CommitLands, CommitRefused, TypeOK
  <2>3. \A p \in Partitions : SafeUpTo(p, Head(inflight[w])[p])
    BY <2>2 DEF SafetyInv, RequestsSafe
  <2>4. CommitsSafe'
    <3>1. committed' = committed \/ Accept(w, Head(inflight[w]))
      BY <1>14 DEF CommitLands, CommitRefused
    <3>2. CASE Accept(w, Head(inflight[w]))
      BY <2>1, <2>3, <3>2 DEF SafetyInv, CommitsSafe, Accept, SafeUpTo, Accounted
    <3> QED BY <2>1, <3>1, <3>2, CommitsKept
  <2>5. RequestsSafe'
    <3>1. inflight' = [inflight EXCEPT ![w] = Tail(@)]
      BY <1>14 DEF CommitLands, CommitRefused
    <3>2. ASSUME NEW v \in Workers, NEW i \in 1..Len(inflight'[v]), NEW p \in Partitions
          PROVE  SafeUpTo(p, inflight'[v][i][p])
      <4>1. CASE v = w
        <5>1. inflight'[v] = Tail(inflight[v])
          BY <3>1, <4>1 DEF TypeOK
        <5>2. i + 1 \in 1..Len(inflight[v]) /\ inflight'[v][i] = inflight[v][i + 1]
          BY <2>2, <4>1, <5>1, <3>2
        <5> QED BY <5>2 DEF SafetyInv, RequestsSafe
      <4>2. CASE v # w
        <5>1. inflight'[v] = inflight[v]
          BY <3>1, <4>2 DEF TypeOK
        <5> QED BY <5>1, <3>2 DEF SafetyInv, RequestsSafe
      <4> QED BY <4>1, <4>2
    <3> QED BY <2>1, <3>2 DEF RequestsSafe, SafeUpTo, Accounted
  <2>6. WorkersCovered'
    BY <2>1 DEF SafetyInv, WorkersCovered, PositionCovered, FlushCovered, Accounted
  <2> QED BY <2>4, <2>5, <2>6 DEF SafetyInv
<1>15. ASSUME NEW w \in Workers, Assign(w)
       PROVE  SafetyInv'
  <2>1. Grows /\ UNCHANGED <<log, committed, inflight, batch, bronze, dlq>>
    BY <1>15, StillGrows DEF Assign
  <2>2. Local(w) /\ pc'[w] = "poll"
    BY <1>15 DEF Assign, Local, TypeOK
  <2>3. \A p \in Partitions : position'[w][p] \in {0, committed[p]}
    BY <1>15 DEF Assign, TypeOK
  <2>4. PositionCovered(w)'
    <3>1. \A p \in Partitions : Len(log[p]) \in Nat /\ SafeUpTo(p, committed[p])
      BY DEF TypeOK, SafetyInv, CommitsSafe
    <3> QED BY <2>1, <2>3, <3>1 DEF PositionCovered, SafeUpTo, Accounted
  <2>5. FlushCovered(w)'
    BY <2>2 DEF FlushCovered
  <2> QED BY <2>1, <2>2, <2>4, <2>5, WorkersKept, CommitsKept, RequestsKept DEF SafetyInv
<1>16. ASSUME NEW w \in Workers, Evict(w) \/ Restart(w)
       PROVE  SafetyInv'
  <2>1. Grows /\ UNCHANGED <<log, committed, inflight, position, batch, bronze, dlq, poison, todo>>
    BY <1>16, StillGrows DEF Evict, Restart
  <2>2. Local(w) /\ (pc'[w] = pc[w] \/ pc'[w] = "poll")
    BY <1>16 DEF Evict, Restart, Local, TypeOK
  <2>3. FlushCovered(w)
    BY DEF SafetyInv, WorkersCovered
  <2>4. PositionCovered(w)' /\ FlushCovered(w)'
    BY <2>1, <2>2, <2>3, PositionKept DEF FlushCovered, Accounted
  <2> QED BY <2>1, <2>2, <2>4, WorkersKept, CommitsKept, RequestsKept DEF SafetyInv
<1>17. ASSUME Publish \/ SinkFails \/ SinkRecovers \/ UNCHANGED vars
       PROVE  SafetyInv'
  <2>1. Grows /\ UNCHANGED <<committed, inflight, position, batch, pc, todo, poison>>
    BY <1>17, StillGrows, PublishGrows DEF Publish, SinkFails, SinkRecovers
  <2>2. WorkersCovered'
    <3>1. ASSUME NEW w \in Workers
          PROVE  PositionCovered(w)' /\ FlushCovered(w)'
      <4>1. FlushCovered(w)
        BY DEF SafetyInv, WorkersCovered
      <4>2. PositionCovered(w)'
        BY <2>1, PositionKept
      <4>3. FlushCovered(w)'
        BY <2>1, <4>1 DEF FlushCovered, Grows, Accounted
      <4> QED BY <4>2, <4>3
    <3> QED BY <3>1 DEF WorkersCovered
  <2> QED BY <2>1, <2>2, CommitsKept, RequestsKept DEF SafetyInv
<1> QED BY <1>1, <1>2, <1>3, <1>4, <1>5, <1>6, <1>7, <1>8, <1>9, <1>10, <1>11, <1>12, <1>13,
           <1>14, <1>15, <1>16, <1>17
        DEF Next, LoopStep, FlushStep, GroupStep

\* The inductive invariant holds throughout: positions are covered by the tables and
\* the batches, so no commit, present or still unanswered, can skip a message.
THEOREM SafetyInvariant == Spec => []SafetyInv
<1>1. Init => SafetyInv
  <2> SUFFICES ASSUME Init
               PROVE  SafetyInv
    OBVIOUS
  <2>1. CommitsSafe
    BY DEF Init, CommitsSafe, SafeUpTo, NoOffsets
  <2>2. RequestsSafe
    BY DEF Init, RequestsSafe
  <2>3. WorkersCovered
    BY DEF Init, WorkersCovered, PositionCovered, FlushCovered, NoOffsets
  <2> QED BY <2>1, <2>2, <2>3 DEF SafetyInv
<1>2. TypeOK /\ SafetyInv /\ [Next]_vars => SafetyInv'
  BY SafetyStep
<1> QED BY <1>1, <1>2, TypeCorrect, PTL DEF Spec

\* No committed offset ever passes a decodable message that is in neither table.
THEOREM CommittedAccounted == Spec => []CommittedIsAccounted
<1>1. SafetyInv => CommittedIsAccounted
  BY DEF SafetyInv, CommitsSafe, SafeUpTo, CommittedIsAccounted, Decodable, Kind
<1> QED BY <1>1, SafetyInvariant, PTL

(***************************************************************************)
(* The worker group implements DeliveryContract: committed offsets never   *)
(* move backwards.  And nobody buffers more than a batch, as long as       *)
(* pause() works.                                                          *)
(***************************************************************************)

\* For the owner of a partition: committed, then the unanswered requests from
\* the oldest to the newest, then the position, never decrease; and a process
\* that runs knows of the partitions it owns.
Ordered(w, p) ==
  /\ \A i \in 1..Len(inflight[w]) :
       /\ committed[p] <= inflight[w][i][p]
       /\ \A j \in i..Len(inflight[w]) : inflight[w][i][p] <= inflight[w][j][p]
       /\ pc[w] # "down" => inflight[w][i][p] <= position[w][p]
  /\ pc[w] # "down" => committed[p] <= position[w][p] /\ p \in assigned[w]

OffsetsOrdered == \A w \in Workers, p \in Partitions : owner[p] = w => Ordered(w, p)

\* The numbers that Ordered compares.
LEMMA OffsetTypes ==
  ASSUME TypeOK, NEW w \in Workers, NEW p \in Partitions
  PROVE  /\ committed[p] \in Nat /\ position[w][p] \in Nat
         /\ \A i \in 1..Len(inflight[w]) : inflight[w][i][p] \in Nat
<1>1. committed \in Offsets /\ position[w] \in Offsets /\ inflight[w] \in Seq(Offsets)
  BY DEF TypeOK
<1> QED BY <1>1 DEF Offsets

\* A step that commits nothing, gives nobody a partition and moves no owner's
\* position backwards keeps the offsets ordered.
LEMMA OrderedKept ==
  ASSUME TypeOK, OffsetsOrdered, UNCHANGED <<committed, inflight>>,
         \A w \in Workers, p \in Partitions : owner'[p] = w =>
           /\ owner[p] = w
           /\ pc'[w] # "down" => /\ pc[w] # "down" /\ assigned'[w] = assigned[w]
                                 /\ position[w][p] <= position'[w][p],
         position' \in [Workers -> Offsets]
  PROVE  OffsetsOrdered'
<1>1. ASSUME NEW w \in Workers, NEW p \in Partitions, owner'[p] = w
      PROVE  Ordered(w, p)'
  <2>1. Ordered(w, p)
    BY <1>1 DEF OffsetsOrdered
  <2>2. pc'[w] # "down" => /\ pc[w] # "down" /\ assigned'[w] = assigned[w]
                           /\ position[w][p] <= position'[w][p]
    BY <1>1
  <2>3. position'[w][p] \in Nat
    BY DEF Offsets
  <2> QED BY <2>1, <2>2, <2>3, OffsetTypes DEF Ordered
<1> QED BY <1>1 DEF OffsetsOrdered

\* A synchronous commit of a live worker makes committed equal to its position.
LEMMA SyncCommitOrdered ==
  ASSUME TypeOK, OffsetsOrdered, NEW w \in Workers, NEW ok \in BOOLEAN, SyncCommit(w, ok),
         pc[w] # "down", position' = position, assigned' = assigned,
         \A v \in Workers : pc'[v] # "down" => pc[v] # "down"
  PROVE  /\ OffsetsOrdered'
         /\ \A p \in Partitions : committed[p] <= committed'[p]
<1>1. inflight' = inflight /\ owner' = owner /\ inflight[w] = <<>>
  BY DEF SyncCommit
<1>2. CASE committed' = committed
  <2>1. OffsetsOrdered'
    <3>1. position' \in [Workers -> Offsets]
      BY DEF TypeOK
    <3>2. \A v \in Workers, p \in Partitions : position[v][p] <= position'[v][p]
      BY OffsetTypes
    <3> QED BY <1>1, <1>2, <3>1, <3>2, OrderedKept
  <2> QED BY <2>1, <1>2, OffsetTypes
<1>3. CASE Accept(w, position[w])
  <2>1. \A p \in Partitions :
          committed'[p] = IF owner[p] = w THEN position[w][p] ELSE committed[p]
    BY <1>3 DEF Accept
  <2>2. \A p \in Partitions : committed[p] <= committed'[p]
    BY <2>1, OffsetTypes DEF OffsetsOrdered, Ordered
  <2>3. ASSUME NEW v \in Workers, NEW p \in Partitions, owner'[p] = v
        PROVE  Ordered(v, p)'
    <3>1. Ordered(v, p)
      BY <1>1, <2>3 DEF OffsetsOrdered
    <3>2. CASE v = w
      BY <1>1, <2>1, <2>3, <3>1, <3>2, OffsetTypes DEF Ordered
    <3>3. CASE v # w
      BY <1>1, <2>1, <2>3, <3>1, <3>3 DEF Ordered
    <3> QED BY <3>2, <3>3
  <2> QED BY <2>2, <2>3 DEF OffsetsOrdered
<1> QED BY <1>2, <1>3 DEF SyncCommit

\* What taking the head off a sequence leaves.
LEMMA TailShifts ==
  ASSUME NEW S, NEW s \in Seq(S), s # <<>>
  PROVE  /\ 1 \in 1..Len(s) /\ Head(s) = s[1]
         /\ Len(Tail(s)) + 1 = Len(s) /\ Len(s) \in Nat
         /\ \A i \in 1..Len(Tail(s)) : i + 1 \in 1..Len(s) /\ Tail(s)[i] = s[i + 1]
<1>1. Len(s) \in Nat /\ Len(s) # 0
  OBVIOUS
<1>2. Len(Tail(s)) = Len(s) - 1
  BY <1>1
<1> QED BY <1>1, <1>2

\* The head of the queue of requests goes, accepted or not.
LEMMA AnswerOrdered ==
  ASSUME TypeOK, OffsetsOrdered, NEW w \in Workers, inflight[w] # <<>>,
         inflight' = [inflight EXCEPT ![w] = Tail(@)],
         committed' = committed \/ Accept(w, Head(inflight[w])),
         UNCHANGED <<owner, pc, position, assigned>>
  PROVE  /\ OffsetsOrdered'
         /\ \A p \in Partitions : committed[p] <= committed'[p]
<1>1. inflight[w] \in Seq(Offsets) /\ inflight'[w] = Tail(inflight[w])
  BY DEF TypeOK
<1>2. /\ 1 \in 1..Len(inflight[w]) /\ Head(inflight[w]) = inflight[w][1]
      /\ \A i \in 1..Len(inflight'[w]) :
           i + 1 \in 1..Len(inflight[w]) /\ inflight'[w][i] = inflight[w][i + 1]
      /\ Len(inflight'[w]) + 1 = Len(inflight[w]) /\ Len(inflight[w]) \in Nat
  BY <1>1, TailShifts
<1>3. \A p \in Partitions :
        committed'[p] \in {committed[p], inflight[w][1][p]}
        /\ (owner[p] # w => committed'[p] = committed[p])
  BY <1>2 DEF Accept
<1>4. \A p \in Partitions : committed[p] <= committed'[p]
  <2>1. ASSUME NEW p \in Partitions
        PROVE  committed[p] <= committed'[p]
    <3>1. committed[p] \in Nat
      BY OffsetTypes
    <3>2. CASE owner[p] # w
      BY <1>3, <3>1, <3>2
    <3>3. CASE owner[p] = w
      BY <1>2, <1>3, <3>1, <3>3 DEF OffsetsOrdered, Ordered
    <3> QED BY <3>2, <3>3
  <2> QED BY <2>1
<1>5. ASSUME NEW v \in Workers, NEW p \in Partitions, owner'[p] = v
      PROVE  Ordered(v, p)'
  <2>1. Ordered(v, p)
    BY <1>5 DEF OffsetsOrdered
  <2>2. CASE v # w
    <3>1. inflight'[v] = inflight[v] /\ committed'[p] = committed[p]
      BY <1>3, <1>5, <2>2 DEF TypeOK
    <3> QED BY <2>1, <3>1 DEF Ordered
  <2>3. CASE v = w
    <3>1. ASSUME NEW i \in 1..Len(inflight'[w])
          PROVE  /\ committed'[p] <= inflight'[w][i][p]
                 /\ \A j \in i..Len(inflight'[w]) : inflight'[w][i][p] <= inflight'[w][j][p]
                 /\ pc[w] # "down" => inflight'[w][i][p] <= position[w][p]
      <4>1. i + 1 \in 1..Len(inflight[w]) /\ i + 1 \in 1..Len(inflight[w])
        BY <1>2
      <4>2. committed'[p] <= inflight[w][i + 1][p]
        BY <1>2, <1>3, <2>1, <2>3, <4>1 DEF Ordered
      <4>3. ASSUME NEW j \in i..Len(inflight'[w])
            PROVE  inflight[w][i + 1][p] <= inflight[w][j + 1][p]
        BY <1>2, <2>1, <2>3, <4>1 DEF Ordered
      <4>4. \A j \in i..Len(inflight'[w]) : inflight'[w][j] = inflight[w][j + 1]
        BY <1>2
      <4> QED BY <1>2, <2>1, <2>3, <4>1, <4>2, <4>3, <4>4 DEF Ordered
    <3>2. pc[w] # "down" => committed'[p] <= position[w][p] /\ p \in assigned[w]
      BY <1>2, <1>3, <2>1, <2>3 DEF Ordered
    <3> QED BY <2>3, <3>1, <3>2 DEF Ordered
  <2> QED BY <2>2, <2>3
<1> QED BY <1>4, <1>5 DEF OffsetsOrdered
-----------------------------------------------------------------------------
\* One step of the group keeps the offsets ordered and the contract: messages
\* are published, or made durable, or the committed offsets advance.
LEMMA ContractStep ==
  ASSUME TypeOK, TypeOK', SafetyInv', OffsetsOrdered, [Next]_vars
  PROVE  OffsetsOrdered' /\ [Contract!Next]_(Contract!vars)
<1> USE DEF vars, brokerVars, sinkVars, flushVars, loopVars
<1> DEFINE Goal == OffsetsOrdered' /\ [Contract!Next]_(Contract!vars)
<1>1. position' \in [Workers -> Offsets] /\ \A p \in Partitions : Len(log[p]) \in Nat
  <2>1. position' \in [Workers -> Offsets]
    BY DEF TypeOK
  <2>2. log \in [Partitions -> Seq(Kinds)]
    BY DEF TypeOK
  <2> QED BY <2>1, <2>2
\* Steps that leave the log and the committed offsets alone persist something or
\* nothing.
<1>2. ASSUME log' = log, committed' = committed, bronze \subseteq bronze', dlq \subseteq dlq'
      PROVE  Contract!Persist
  <2>1. bronze' \cup dlq' \subseteq Published
    BY <1>2 DEF TypeOK, Published
  <2> QED BY <1>2, <2>1 DEF Contract!Persist, Accounted, Published
\* Steps that change nothing but committed offsets, forwards.
<1>3. ASSUME log' = log, bronze' = bronze, dlq' = dlq,
             \A p \in Partitions : committed[p] <= committed'[p]
      PROVE  Contract!Commit
  <2>1. committed' \in [Partitions -> Nat] /\ committed \in [Partitions -> Nat]
    BY DEF TypeOK, Offsets
  <2>2. \A p \in Partitions : SafeUpTo(p, committed[p])'
    BY DEF SafetyInv, CommitsSafe
  <2>3. ASSUME NEW p \in Partitions
        PROVE  /\ committed'[p] \in committed[p]..Len(log[p])
               /\ \A o \in 1..committed'[p] :
                    log[p][o] \in {"good", "poison"} => <<p, o>> \in Accounted
    BY <1>1, <1>3, <2>1, <2>2 DEF SafeUpTo, Accounted
  <2> QED BY <1>3, <2>1, <2>3 DEF Contract!Commit, Accounted
\* Steps of one worker that commit nothing and assign nothing.
<1>4. ASSUME NEW w \in Workers, UNCHANGED <<log, committed, inflight>>,
             bronze \subseteq bronze', dlq \subseteq dlq',
             \A v \in Workers, p \in Partitions : owner'[p] = v =>
               /\ owner[p] = v
               /\ pc'[v] # "down" => /\ pc[v] # "down" /\ assigned'[v] = assigned[v]
                                     /\ position[v][p] <= position'[v][p]
      PROVE  Goal
  BY <1>1, <1>2, <1>4, OrderedKept DEF Contract!Next
<1>5. \A v \in Workers, p \in Partitions : position[v][p] \in Nat /\ position[v][p] <= position[v][p]
  BY OffsetTypes
\* In particular those that touch neither ownership nor position.
<1>6. ASSUME NEW w \in Workers, UNCHANGED <<log, committed, owner, inflight, position, assigned>>,
             bronze \subseteq bronze', dlq \subseteq dlq',
             \A v \in Workers : pc'[v] # "down" => pc[v] # "down"
      PROVE  Goal
  BY <1>4, <1>5, <1>6
<1>7. ASSUME NEW w \in Workers, NEW p \in Partitions, PollDecodable(w, p) \/ PollUndecodable(w, p)
      PROVE  Goal
  <2>1. /\ UNCHANGED <<log, committed, owner, inflight, assigned>> /\ bronze \subseteq bronze' /\ dlq \subseteq dlq'
        /\ Polled(w, p)
    BY <1>7 DEF PollDecodable, PollUndecodable, DeadLetter
  <2>2. \A v \in Workers : pc'[v] # "down" => pc[v] # "down"
    BY <2>1 DEF Polled, TypeOK
  <2>3. \A v \in Workers, q \in Partitions : position[v][q] <= position'[v][q]
    <3>1. ASSUME NEW v \in Workers, NEW q \in Partitions
          PROVE  position[v][q] <= position'[v][q]
      <4>1. position[v] \in Offsets /\ position[v][q] \in Nat
        BY DEF TypeOK, Offsets
      <4>2. position'[v] = IF v = w THEN [position[w] EXCEPT ![p] = @ + 1] ELSE position[v]
        BY <2>1 DEF Polled, TypeOK
      <4>3. position'[v][q] \in {position[v][q], position[v][q] + 1}
        BY <4>1, <4>2 DEF Offsets
      <4> QED BY <4>1, <4>3
    <3> QED BY <3>1
  <2> QED BY <1>4, <2>1, <2>2, <2>3
<1>8. ASSUME NEW w \in Workers,
             PollNothing(w) \/ FlushBatch(w) \/ NoFlush(w) \/ HoldBatch(w) \/ JudgeRows(w) \/ ProbeSink(w)
      PROVE  Goal
  <2>1. UNCHANGED <<log, committed, owner, inflight, position, assigned, bronze, dlq>>
    BY <1>8 DEF PollNothing, FlushBatch, NoFlush, HoldBatch, JudgeRows, ProbeSink
  <2>2. \A v \in Workers : pc'[v] # "down" => pc[v] # "down"
    BY <1>8 DEF PollNothing, FlushBatch, NoFlush, HoldBatch, JudgeRows, ProbeSink, BeginFlush, TypeOK
  <2> QED BY <1>6, <2>1, <2>2
<1>9. ASSUME NEW w \in Workers, InsertBatch(w) \/ InsertRow(w) \/ ParkRow(w)
      PROVE  Goal
  <2>1. /\ UNCHANGED <<log, committed, owner, inflight, position, assigned>>
        /\ bronze \subseteq bronze' /\ dlq \subseteq dlq'
    BY <1>9 DEF InsertBatch, InsertRow, ParkRow, InsertEvents, DeadLetter
  <2>2. \A v \in Workers : pc'[v] # "down" => pc[v] # "down"
    BY <1>9 DEF InsertBatch, InsertRow, ParkRow, TypeOK
  <2> QED BY <1>6, <2>1, <2>2
<1>10. ASSUME NEW w \in Workers, PollRevoked(w)
       PROVE  Goal
  <2>1. UNCHANGED <<log, committed, inflight, bronze, dlq>>
    BY <1>10 DEF PollRevoked
  <2>2. CASE Release(w) /\ UNCHANGED pc
    <3>1. \A v \in Workers, p \in Partitions : owner'[p] = v => owner[p] = v /\ v # w
      BY <2>2, WorkerAssumption DEF Release, Disown, WorkerAssumption
    <3>2. \A v \in Workers : v # w => /\ position'[v] = position[v] /\ pc'[v] = pc[v]
                                    /\ assigned'[v] = assigned[v]
      BY <2>2 DEF Release, TypeOK
    <3> QED BY <1>4, <1>5, <2>1, <3>1, <3>2
  <2>3. CASE BeginFlush(w, "revoke") /\ UNCHANGED <<owner, position, assigned>>
    <3>1. \A v \in Workers : pc'[v] # "down" => pc[v] # "down"
      BY <1>10, <2>3 DEF PollRevoked, BeginFlush, TypeOK
    <3> QED BY <1>6, <2>1, <2>3, <3>1
  <2> QED BY <1>10, <2>2, <2>3 DEF PollRevoked
\* A process that ends is down, and its position no longer counts.
<1>11. ASSUME NEW w \in Workers, Exit(w), Disown(w) \/ owner' = owner,
              UNCHANGED <<log, committed, inflight, bronze, dlq>>
       PROVE  Goal
  <2>1. \A v \in Workers, p \in Partitions : owner'[p] = v => owner[p] = v
    BY <1>11, WorkerAssumption DEF Disown, WorkerAssumption
  <2>2. \A v \in Workers : pc'[v] # "down" => /\ pc[v] # "down" /\ assigned'[v] = assigned[v]
                                             /\ position'[v] = position[v]
    BY <1>11 DEF Exit, TypeOK
  <2> QED BY <1>4, <1>5, <1>11, <2>1, <2>2
<1>12. ASSUME NEW w \in Workers, PollError(w) \/ Crash(w)
       PROVE  Goal
  <2>1. UNCHANGED <<log, committed, inflight, bronze, dlq>>
    BY <1>12 DEF PollError, Crash
  <2>2. CASE Exit(w) /\ (Disown(w) \/ owner' = owner)
    BY <1>11, <2>1, <2>2
  <2>3. CASE pc[w] = "poll" /\ BeginFlush(w, "close") /\ UNCHANGED <<owner, position, assigned>>
    <3>1. \A v \in Workers : pc'[v] # "down" => pc[v] # "down"
      BY <2>3 DEF BeginFlush, TypeOK
    <3> QED BY <1>6, <2>1, <2>3, <3>1
  <2> QED BY <1>12, <2>2, <2>3 DEF PollError, Crash
<1>13. ASSUME NEW w \in Workers, NEW ok \in BOOLEAN, SyncCommit(w, ok),
              CommitDirty(w) \/ CommitFlushed(w) \/ RevokeCommit(w)
       PROVE  Goal
  <2>1. UNCHANGED <<log, bronze, dlq, position, assigned>>
    BY <1>13 DEF CommitDirty, CommitFlushed, RevokeCommit, SyncCommit
  <2>2. pc[w] # "down" /\ \A v \in Workers : pc'[v] # "down" => pc[v] # "down"
    BY <1>13 DEF CommitDirty, CommitFlushed, RevokeCommit, TypeOK
  <2>3. /\ OffsetsOrdered'
        /\ \A p \in Partitions : committed[p] <= committed'[p]
    BY <1>13, <2>1, <2>2, SyncCommitOrdered
  <2> QED BY <1>3, <2>1, <2>3 DEF Contract!Next
<1>14. ASSUME NEW w \in Workers, AsyncCommit(w), CommitFlushed(w)
       PROVE  Goal
  <2>1. UNCHANGED <<log, committed, owner, bronze, dlq, position, assigned>>
    BY <1>14 DEF CommitFlushed, AsyncCommit
  <2>2. pc[w] # "down" /\ \A v \in Workers : pc'[v] # "down" => pc[v] # "down"
    BY <1>14 DEF CommitFlushed, TypeOK
  <2>3. ASSUME NEW v \in Workers, NEW p \in Partitions, owner'[p] = v
        PROVE  Ordered(v, p)'
    <3>1. Ordered(v, p)
      BY <2>1, <2>3 DEF OffsetsOrdered
    <3>2. CASE v # w
      <4>1. inflight'[v] = inflight[v]
        BY <1>14, <3>2 DEF AsyncCommit, TypeOK
      <4> QED BY <2>1, <2>2, <3>1, <4>1 DEF Ordered
    <3>3. CASE v = w
      <4>1. inflight[w] \in Seq(Offsets) /\ inflight'[w] = Append(inflight[w], position[w])
        BY <1>14 DEF AsyncCommit, TypeOK
      <4>2. /\ Len(inflight'[w]) = Len(inflight[w]) + 1 /\ Len(inflight[w]) \in Nat
            /\ inflight'[w][Len(inflight[w]) + 1] = position[w]
            /\ \A i \in 1..Len(inflight[w]) : inflight'[w][i] = inflight[w][i]
        BY <4>1
      <4>3. \A i \in 1..Len(inflight[w]) : inflight[w][i][p] <= position[w][p]
        BY <2>2, <3>1, <3>3 DEF Ordered
      <4>4. position[w][p] \in Nat /\ committed[p] \in Nat /\ committed[p] <= position[w][p]
        BY <2>2, <3>1, <3>3, OffsetTypes DEF Ordered
      <4>5. ASSUME NEW i \in 1..Len(inflight'[w])
            PROVE  /\ committed[p] <= inflight'[w][i][p]
                   /\ \A j \in i..Len(inflight'[w]) : inflight'[w][i][p] <= inflight'[w][j][p]
                   /\ inflight'[w][i][p] <= position[w][p]
        <5>1. CASE i = Len(inflight[w]) + 1
          BY <4>2, <4>4, <5>1
        <5>2. CASE i \in 1..Len(inflight[w])
          <6>1. /\ inflight'[w][i] = inflight[w][i]
                /\ committed[p] <= inflight[w][i][p]
                /\ inflight[w][i][p] <= position[w][p]
            BY <3>1, <3>3, <4>2, <4>3, <5>2 DEF Ordered
          <6>2. \A j \in i..Len(inflight[w]) : inflight[w][i][p] <= inflight[w][j][p]
            BY <3>1, <3>3, <5>2 DEF Ordered
          <6>3. ASSUME NEW j \in i..Len(inflight'[w])
                PROVE  inflight'[w][i][p] <= inflight'[w][j][p]
            <7>1. CASE j = Len(inflight[w]) + 1
              BY <4>2, <6>1, <7>1
            <7>2. CASE j \in i..Len(inflight[w])
              <8>1. inflight'[w][j] = inflight[w][j]
                BY <4>2, <5>2, <7>2
              <8> QED BY <6>1, <6>2, <7>2, <8>1
            <7> QED BY <4>2, <5>2, <7>1, <7>2
          <6> QED BY <6>1, <6>3
        <5> QED BY <4>2, <5>1, <5>2
      <4> QED BY <2>1, <2>2, <3>1, <3>3, <4>4, <4>5 DEF Ordered
    <3> QED BY <3>2, <3>3
  <2>4. OffsetsOrdered'
    BY <2>3 DEF OffsetsOrdered
  <2> QED BY <1>2, <2>1, <2>4 DEF Contract!Next
<1>15. ASSUME NEW w \in Workers, CommitDirty(w) \/ CommitFlushed(w) \/ RevokeCommit(w)
       PROVE  Goal
  <2>1. (\E ok \in BOOLEAN : SyncCommit(w, ok)) \/ (AsyncCommit(w) /\ CommitFlushed(w))
    BY <1>15 DEF CommitDirty, CommitFlushed, RevokeCommit
  <2> QED BY <1>13, <1>14, <1>15, <2>1
<1>16. ASSUME NEW w \in Workers, FinishRevoke(w)
       PROVE  Goal
  <2>1. UNCHANGED <<log, committed, inflight, bronze, dlq>>
    BY <1>16 DEF FinishRevoke
  <2>2. CASE Exit(w) /\ Disown(w)
    BY <1>11, <2>1, <2>2
  <2>3. CASE Release(w) /\ pc' = [pc EXCEPT ![w] = "poll"]
    <3>1. \A v \in Workers, p \in Partitions : owner'[p] = v => owner[p] = v /\ v # w
      BY <2>3, WorkerAssumption DEF Release, Disown, WorkerAssumption
    <3>2. \A v \in Workers : v # w => /\ position'[v] = position[v] /\ pc'[v] = pc[v]
                                    /\ assigned'[v] = assigned[v]
      BY <2>3 DEF Release, TypeOK
    <3> QED BY <1>4, <1>5, <2>1, <3>1, <3>2
  <2> QED BY <1>16, <2>2, <2>3 DEF FinishRevoke
<1>17. ASSUME NEW w \in Workers, CommitLands(w) \/ CommitRefused(w)
       PROVE  Goal
  <2>1. /\ UNCHANGED <<log, bronze, dlq, owner, pc, position, assigned>>
        /\ inflight[w] # <<>> /\ inflight' = [inflight EXCEPT ![w] = Tail(@)]
        /\ committed' = committed \/ Accept(w, Head(inflight[w]))
    BY <1>17 DEF CommitLands, CommitRefused
  <2> QED BY <1>3, <2>1, AnswerOrdered DEF Contract!Next
<1>18. ASSUME NEW w \in Workers, Assign(w)
       PROVE  Goal
  <2>1. /\ UNCHANGED <<log, committed, inflight, bronze, dlq, pc>> /\ inflight[w] = <<>>
        /\ pc[w] = "poll" /\ assigned[w] = {}
    BY <1>18 DEF Assign
  <2>2. PICK ps \in SUBSET {p \in Partitions : owner[p] = NoWorker} :
          /\ position' = [position EXCEPT ![w] =
                            [p \in Partitions |-> IF p \in ps THEN committed[p] ELSE 0]]
          /\ owner' = [p \in Partitions |-> IF p \in ps THEN w ELSE owner[p]]
          /\ assigned' = [assigned EXCEPT ![w] = ps]
    BY <1>18 DEF Assign
  <2>3. ASSUME NEW v \in Workers, NEW p \in Partitions, owner'[p] = v
        PROVE  Ordered(v, p)'
    <3>1. CASE p \in ps
      <4>1. v = w /\ position'[v][p] = committed[p] /\ committed[p] \in Nat /\ p \in assigned'[v]
        BY <2>2, <2>3, <3>1, OffsetTypes DEF TypeOK
      <4> QED BY <2>1, <4>1 DEF Ordered
    <3>2. CASE p \notin ps
      <4>1. owner[p] = v /\ Ordered(v, p)
        BY <2>2, <2>3, <3>2 DEF OffsetsOrdered
      <4>2. v # w
        BY <2>1, <4>1 DEF Ordered
      <4>3. position'[v] = position[v] /\ assigned'[v] = assigned[v]
        BY <2>2, <4>2 DEF TypeOK
      <4> QED BY <2>1, <4>1, <4>3 DEF Ordered
    <3> QED BY <3>1, <3>2
  <2>4. OffsetsOrdered'
    BY <2>3 DEF OffsetsOrdered
  <2> QED BY <1>2, <2>1, <2>4 DEF Contract!Next
<1>19. ASSUME NEW w \in Workers, Evict(w) \/ Restart(w)
       PROVE  Goal
  <2>1. UNCHANGED <<log, committed, inflight, bronze, dlq, position, assigned>>
    BY <1>19 DEF Evict, Restart
  <2>2. \A v \in Workers, p \in Partitions : owner'[p] = v =>
          owner[p] = v /\ (pc'[v] # "down" => pc[v] # "down")
    BY <1>19, WorkerAssumption DEF Evict, Restart, Disown, IsMember, WorkerAssumption, TypeOK
  <2> QED BY <1>4, <1>5, <2>1, <2>2
<1>20. CASE Publish
  <2>1. UNCHANGED <<committed, owner, inflight, position, assigned, pc, bronze, dlq>>
    BY <1>20 DEF Publish
  <2>2. OffsetsOrdered'
    BY <2>1 DEF OffsetsOrdered, Ordered
  <2>3. Contract!Publish
    BY <1>20, <2>1 DEF Publish, Contract!Publish, Accounted
  <2> QED BY <2>2, <2>3 DEF Contract!Next
<1>21. CASE SinkFails \/ SinkRecovers \/ UNCHANGED vars
  <2>1. UNCHANGED <<log, committed, owner, inflight, position, assigned, pc, bronze, dlq>>
    BY <1>21 DEF SinkFails, SinkRecovers
  <2> QED BY <2>1 DEF OffsetsOrdered, Ordered, Contract!vars, Accounted
<1> QED BY <1>7, <1>8, <1>9, <1>10, <1>12, <1>15, <1>16, <1>17, <1>18, <1>19, <1>20, <1>21
        DEF Next, LoopStep, FlushStep, GroupStep

\* Committed offsets advance only, and past a message that decodes only once it is
\* in bronze.events or in the dead-letter table: every behaviour of the group is
\* one of DeliveryContract.
THEOREM WorkerImplementsContract == Spec => ImplementsContract
<1>1. Init => OffsetsOrdered /\ Contract!Init
  BY WorkerAssumption DEF Init, OffsetsOrdered, WorkerAssumption, Contract!Init, Accounted, NoOffsets
<1>2. TypeOK /\ TypeOK' /\ SafetyInv' /\ OffsetsOrdered /\ [Next]_vars
        => OffsetsOrdered' /\ [Contract!Next]_(Contract!vars)
  BY ContractStep
<1> QED BY <1>1, <1>2, TypeCorrect, SafetyInvariant, PTL
        DEF Spec, ImplementsContract, Contract!Spec
-----------------------------------------------------------------------------
\* Only PollDecodable adds to a batch, one message to one that ShouldPoll lets grow.
LEMMA BatchSteps ==
  ASSUME TypeOK, PauseMayFail = FALSE, [Next]_vars
  PROVE  \/ \A v \in Workers : batch'[v] \in {batch[v], {}}
         \/ \E w \in Workers, p \in Partitions :
              /\ ShouldPoll(w)
              /\ batch' = [batch EXCEPT ![w] = batch[w] \cup {NextOf(w, p)}]
<1> USE DEF vars, brokerVars, sinkVars, flushVars, loopVars
<1>1. ASSUME NEW w \in Workers, NEW p \in Partitions, PollDecodable(w, p)
      PROVE  ShouldPoll(w) /\ batch' = [batch EXCEPT ![w] = batch[w] \cup {NextOf(w, p)}]
  BY <1>1 DEF PollDecodable, Polled, TogglePolling, TypeOK
<1>2. ASSUME NEW w \in Workers,
             \/ \E p \in Partitions : PollUndecodable(w, p)
             \/ PollNothing(w) \/ PollRevoked(w) \/ PollError(w) \/ CommitDirty(w)
             \/ FlushBatch(w) \/ NoFlush(w) \/ CommitFlushed(w) \/ HoldBatch(w)
             \/ RevokeCommit(w) \/ FinishRevoke(w)
      PROVE  \A v \in Workers : batch'[v] \in {batch[v], {}}
  BY <1>2 DEF PollUndecodable, PollNothing, PollRevoked, PollError, CommitDirty, FlushBatch,
              NoFlush, CommitFlushed, HoldBatch, RevokeCommit, FinishRevoke, Exit, TypeOK
<1>3. ASSUME NEW w \in Workers, FlushStep(w) \/ GroupStep(w) \/ Crash(w) \/ Restart(w)
      PROVE  \A v \in Workers : batch'[v] \in {batch[v], {}}
  BY <1>3 DEF FlushStep, InsertBatch, InsertRow, JudgeRows, ProbeSink, ParkRow, GroupStep,
              CommitLands, CommitRefused, Assign, Evict, Crash, Restart, Exit, TypeOK
<1>4. ASSUME Publish \/ SinkFails \/ SinkRecovers \/ UNCHANGED vars
      PROVE  \A v \in Workers : batch'[v] \in {batch[v], {}}
  BY <1>4 DEF Publish, SinkFails, SinkRecovers
<1> QED BY <1>1, <1>2, <1>3, <1>4 DEF Next, LoopStep

BatchesFinite == \A w \in Workers : IsFiniteSet(batch[w])

\* A finite batch within its bound stays so.
LEMMA BoundedStep ==
  ASSUME TypeOK, PauseMayFail = FALSE, BatchesFinite, BatchIsBounded, [Next]_vars
  PROVE  BatchesFinite' /\ BatchIsBounded'
<1>1. BATCH_SIZE \in Nat
  BY WorkerAssumption DEF WorkerAssumption
<1>2. CASE \A v \in Workers : batch'[v] \in {batch[v], {}}
  <2>1. IsFiniteSet({}) /\ Cardinality({}) = 0
    BY FS_EmptySet
  <2>2. ASSUME NEW v \in Workers
        PROVE  IsFiniteSet(batch'[v]) /\ Cardinality(batch'[v]) <= BATCH_SIZE
    <3>1. IsFiniteSet(batch[v]) /\ Cardinality(batch[v]) <= BATCH_SIZE
      BY DEF BatchesFinite, BatchIsBounded
    <3>2. CASE batch'[v] = batch[v]
      BY <3>1, <3>2
    <3>3. CASE batch'[v] = {}
      BY <1>1, <2>1, <3>3
    <3> QED BY <1>2, <3>2, <3>3
  <2> QED BY <2>2 DEF BatchesFinite, BatchIsBounded
<1>3. ASSUME NEW w \in Workers, NEW m, ShouldPoll(w),
             batch' = [batch EXCEPT ![w] = batch[w] \cup {m}]
      PROVE  BatchesFinite' /\ BatchIsBounded'
  <2>1. Cardinality(batch[w]) < BATCH_SIZE /\ IsFiniteSet(batch[w])
    BY <1>3 DEF ShouldPoll, BatchesFinite
  <2>2. /\ IsFiniteSet(batch[w] \cup {m})
        /\ Cardinality(batch[w] \cup {m}) \in {Cardinality(batch[w]), Cardinality(batch[w]) + 1}
    BY <2>1, FS_AddElement
  <2>3. Cardinality(batch[w] \cup {m}) <= BATCH_SIZE
    BY <1>1, <2>1, <2>2, FS_CardinalityType
  <2>4. \A v \in Workers : batch'[v] = IF v = w THEN batch[w] \cup {m} ELSE batch[v]
    BY <1>3 DEF TypeOK
  <2> QED BY <2>2, <2>3, <2>4 DEF BatchesFinite, BatchIsBounded
<1>4. CASE \E w \in Workers, p \in Partitions :
             ShouldPoll(w) /\ batch' = [batch EXCEPT ![w] = batch[w] \cup {NextOf(w, p)}]
  <2>1. PICK w \in Workers, p \in Partitions :
          ShouldPoll(w) /\ batch' = [batch EXCEPT ![w] = batch[w] \cup {NextOf(w, p)}]
    BY <1>4
  <2> QED BY <1>3, <2>1
<1> QED BY <1>2, <1>4, BatchSteps

\* As long as pause() and resume() do not raise, no worker ever holds more than
\* BATCH_SIZE messages, however long ClickHouse is down.
THEOREM BatchBounded == PauseMayFail = FALSE /\ Spec => []BatchIsBounded
<1> SUFFICES ASSUME PauseMayFail = FALSE
             PROVE  Spec => []BatchIsBounded
  OBVIOUS
<1>1. Init => BatchesFinite /\ BatchIsBounded
  <2>1. IsFiniteSet({}) /\ Cardinality({}) = 0
    BY FS_EmptySet
  <2> QED BY <2>1, WorkerAssumption
          DEF Init, BatchesFinite, BatchIsBounded, WorkerAssumption
<1>2. TypeOK /\ BatchesFinite /\ BatchIsBounded /\ [Next]_vars
        => BatchesFinite' /\ BatchIsBounded'
  BY BoundedStep
<1> QED BY <1>1, <1>2, TypeCorrect, PTL DEF Spec

\* As long as pause() and resume() do not raise, a batch that failed to flush is
\* retried as exactly the messages it failed with, until it is resolved or dropped.
THEOREM StuckBatchFrozen == PauseMayFail = FALSE /\ Spec => StuckBatchIsFrozen
<1> SUFFICES ASSUME PauseMayFail = FALSE
             PROVE  Spec => StuckBatchIsFrozen
  OBVIOUS
<1>1. TypeOK /\ [Next]_vars
        => [\A w \in Workers : batch_stuck[w] => batch'[w] \in {batch[w], {}}]_vars
  <2> SUFFICES ASSUME TypeOK, [Next]_vars, NEW v \in Workers, batch_stuck[v]
               PROVE  batch'[v] \in {batch[v], {}}
    OBVIOUS
  <2>1. ASSUME NEW w \in Workers, NEW p \in Partitions, ShouldPoll(w),
               batch' = [batch EXCEPT ![w] = batch[w] \cup {NextOf(w, p)}]
        PROVE  batch'[v] = batch[v]
    BY <2>1 DEF ShouldPoll, TypeOK
  <2> QED BY <2>1, BatchSteps
<1> QED BY <1>1, TypeCorrect, PTL DEF Spec, StuckBatchIsFrozen
=============================================================================
