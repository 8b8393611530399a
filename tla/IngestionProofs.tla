-------------------------- MODULE IngestionProofs --------------------------
(***************************************************************************)
(* Theorems about the two ways data comes in: Ingestion, for any number of *)
(* concurrent requests, any number of producer objects, any retry limit    *)
(* and any number of faults, and Extract, for any number of records, any   *)
(* size and number of pages and any unit of the stored watermark.          *)
(***************************************************************************)
EXTENDS Ingestion, Extract, WellFoundedInduction, FiniteSetTheorems, TLAPS

\* Where a request, and the lifespan handler, can be.
SlotPoints == {"idle", "get", "await_lock", "starting", "send", "sending", "drop",
               "stopping", "fallback", "refuse"}
LifespanPoints == {"get", "await_lock", "starting", "serving", "drop", "stopping", "down"}

\* Only the lock's holder builds or stops a producer; it builds one only where there
\* is none, and a producer that is being stopped has somebody stopping it.
Pool ==
  /\ \A t \in Tasks : pc[t] \in {"starting", "stopping"} => lock = t
  /\ \A t \in Tasks : pc[t] = "starting" => producer = None
  /\ \A p \in Producers : conn[p] = "closing" => \E t \in Tasks : pc[t] = "stopping"
  /\ NoProducerIsLeaked

\* What a request that is not yet answered knows, and what it has left behind.
Requests ==
  /\ \A r \in Slots : pc[r] \in SlotPoints
  /\ pc[Lifespan] \in LifespanPoints
  /\ \A r \in Slots :
       /\ pc[r] # "idle" => status[r] = 0
       /\ pc[r] \notin {"idle", "fallback"} => attempt[r] = 0
       /\ pc[r] = "fallback" => attempt[r] < FALLBACK_MAX_RETRIES
       /\ pc[r] = "refuse" => places[r] = {} /\ ~buffered[r]
       /\ status[r] \in {413, 422} => ~buffered[r]
       /\ pc[r] \in {"send", "sending"} => active[r] \in Producers
  /\ AnswersAreTrue

IInv == TypeOK /\ Pool /\ Requests

\* Whoever builds a producer finds an object for it: the closed ones that are still
\* known are known to requests, and there are more objects than requests.
LEMMA FreshExists ==
  ASSUME IInv, NEW t \in Tasks, pc[t] = "starting"
  PROVE  Fresh \in Producers /\ Unused(Fresh)
<1>1. \A p \in Producers : conn[p] = "closed"
  <2>1. \A p \in Producers : conn[p] \in {"open", "closing", "closed"}
    BY DEF IInv, TypeOK
  <2>2. producer = None /\ lock = t
    BY DEF IInv, Pool
  <2>3. \A p \in Producers : conn[p] # "open"
    BY <2>2, IngestionAssumption DEF IInv, Pool, NoProducerIsLeaked
  <2>4. \A s \in Tasks : pc[s] # "stopping"
    BY <2>2 DEF IInv, Pool
  <2> QED BY <2>1, <2>3, <2>4 DEF IInv, Pool
<1> DEFINE Known == {active[r] : r \in Slots}
<1>2. IsFiniteSet(Known) /\ Cardinality(Known) <= Cardinality(Slots)
  <2>1. active \in Surjection(Slots, Known)
    BY DEF IInv, TypeOK, Surjection
  <2> QED BY <2>1, FS_Surjection, IngestionAssumption
<1>3. \E p \in Producers : p \notin Known
  <2> SUFFICES ASSUME Producers \subseteq Known PROVE FALSE
    OBVIOUS
  <2>1. Cardinality(Producers) <= Cardinality(Known)
    BY <1>2, FS_Subset
  <2>2. Cardinality(Producers) \in Nat /\ Cardinality(Known) \in Nat /\ Cardinality(Slots)
     \in Nat
    BY <1>2, FS_CardinalityType, IngestionAssumption
  <2> QED BY <1>2, <2>1, <2>2, IngestionAssumption
<1>4. \E p \in Producers : Unused(p)
  BY <1>1, <1>3 DEF Unused
<1> QED BY <1>4 DEF Fresh

\* Every step keeps the types.
LEMMA TypeStep ==
  ASSUME IInv, [Next]_vars
  PROVE  TypeOK'
<1> USE IngestionAssumption DEF IInv, TypeOK, Points, sinkVars, poolVars, slotVars,
         Tasks
<1>1. ASSUME NEW t \in Tasks, GetProducer(t) PROVE TypeOK'
  BY <1>1 DEF GetProducer, Return
<1>2. ASSUME NEW t \in Tasks, Locked(t) PROVE TypeOK'
  <2>1. pc' \in [Tasks -> Points]
    BY <1>2 DEF Locked, Return, TypeOK, Tasks
  <2>2. /\ lock' \in Tasks \cup {None} /\ cooling' \in BOOLEAN
        /\ active' \in [Slots -> Producers \cup {None}]
    <3>1. lock' \in Tasks \cup {None}
      BY <1>2 DEF Locked, TypeOK
    <3>2. cooling' \in BOOLEAN
      BY <1>2, Zenon DEF Locked, TypeOK
    <3>3. active' \in [Slots -> Producers \cup {None}]
      BY <1>2 DEF Locked, Return, TypeOK, slotVars
    <3> QED BY <3>1, <3>2, <3>3
  <2>3. UNCHANGED <<producer, conn, buffered, places, attempt, status, sinkVars, faults>>
    BY <1>2 DEF Locked, Return, slotVars
  <2> QED BY <2>1, <2>2, <2>3 DEF TypeOK, sinkVars
<1>3. ASSUME NEW t \in Tasks, Started(t) PROVE TypeOK'
  <2>1. Fresh \in Producers
    BY <1>3, FreshExists DEF Started
  <2>2. conn' \in [Producers -> {"open", "closing", "closed"}]
    BY <1>3 DEF Started, TypeOK
  <2>3. producer' \in Producers \cup {None}
    BY <1>3, <2>1 DEF Started
  <2> QED BY <1>3, <2>1, <2>2, <2>3 DEF Started, Return, FaultUnless, Fault, TypeOK
<1>4. ASSUME NEW t \in Tasks, Drop(t) PROVE TypeOK'
  BY <1>4 DEF Drop, Dropped
<1>5. ASSUME NEW t \in Tasks, Stopped(t) PROVE TypeOK'
  BY <1>5 DEF Stopped, Dropped
<1>6. ASSUME NEW r \in Slots, Accept(r) PROVE TypeOK'
  BY <1>6 DEF Accept, Forget
<1>7. ASSUME NEW r \in Slots, Refuse(r) PROVE TypeOK'
  BY <1>7 DEF Refuse, Forget
<1>8. ASSUME NEW r \in Slots, RefuseOversized(r) PROVE TypeOK'
  BY <1>8 DEF RefuseOversized, Forget, Answer
<1>9. ASSUME NEW r \in Slots, DeadLetter(r) PROVE TypeOK'
  BY <1>9 DEF DeadLetter, Write, Answer, FaultUnless, Fault
<1>10. ASSUME NEW r \in Slots, Send(r) PROVE TypeOK'
  <2>1. pc' \in [Tasks -> Points]
    BY <1>10 DEF Send, TypeOK, Tasks
  <2>2. buffered' \in [Slots -> BOOLEAN]
    <3>1. CASE buffered' = [buffered EXCEPT ![r] = TRUE]
      BY <3>1, Zenon DEF TypeOK
    <3>2. CASE buffered' = buffered
      BY <3>2, Zenon DEF TypeOK
    <3> QED BY <1>10, <3>1, <3>2, Zenon DEF Send
  <2>3. UNCHANGED <<sinkVars, poolVars, active, places, attempt, status, faults>>
    BY <1>10 DEF Send
  <2> QED BY <2>1, <2>2, <2>3 DEF TypeOK, sinkVars, poolVars
<1>11. ASSUME NEW r \in Slots, SendTimesOut(r) PROVE TypeOK'
  BY <1>11 DEF SendTimesOut, FaultUnless, Fault
<1>12. ASSUME NEW r \in Slots, Fallback(r) PROVE TypeOK'
  BY <1>12 DEF Requests, Fallback, Write, Answer, FaultUnless, Fault
<1>13. ASSUME NEW r \in Slots, Deliver(r) PROVE TypeOK'
  BY <1>13 DEF Deliver, Answer, FaultUnless, Fault
<1>14. ASSUME NEW r \in Slots, Expire(r) PROVE TypeOK'
  BY <1>14 DEF Expire, FaultUnless, Fault
<1>15. ASSUME CooldownEnds PROVE TypeOK'
  BY <1>15 DEF CooldownEnds
<1>16. ASSUME Shutdown PROVE TypeOK'
  BY <1>16 DEF Shutdown, Fault
<1>17. ASSUME Crash PROVE TypeOK'
  BY <1>17 DEF Crash, Fault
<1>18. ASSUME Boot PROVE TypeOK'
  BY <1>18 DEF Boot
<1>19. ASSUME Outage PROVE TypeOK'
  <2>1. faults' \in Nat
    BY <1>19 DEF Outage, Fault, TypeOK
  <2>2. brokerUp' \in BOOLEAN /\ sinkUp' \in BOOLEAN
    BY <1>19, Zenon DEF Outage, TypeOK
  <2>3. UNCHANGED <<poolVars, slotVars, pc>>
    BY <1>19 DEF Outage
  <2> QED BY <2>1, <2>2, <2>3 DEF TypeOK, poolVars, slotVars
<1>20. ASSUME BrokerRecovers PROVE TypeOK'
  BY <1>20 DEF BrokerRecovers
<1>21. ASSUME SinkRecovers PROVE TypeOK'
  BY <1>21 DEF SinkRecovers
<1>22. ASSUME UNCHANGED vars PROVE TypeOK'
  BY <1>22 DEF vars
<1> QED
  BY <1>1, <1>2, <1>3, <1>4, <1>5, <1>6, <1>7, <1>8, <1>9, <1>10, <1>11, <1>12, <1>13,
     <1>14, <1>15, <1>16, <1>17, <1>18, <1>19, <1>20, <1>21, <1>22
  DEF Next, ProducerStep, Arrive, RequestStep, BrokerStep

\* Every step keeps the lock exclusive and every started producer in sight.
LEMMA PoolStep ==
  ASSUME IInv, [Next]_vars
  PROVE  Pool'
<1> USE IngestionAssumption DEF IInv, TypeOK, Points, Pool, NoProducerIsLeaked,
         sinkVars, poolVars, slotVars, Tasks
<1>1. ASSUME NEW t \in Tasks, GetProducer(t) PROVE Pool'
  BY <1>1 DEF GetProducer, Return
<1>2. ASSUME NEW t \in Tasks, Locked(t) PROVE Pool'
  BY <1>2 DEF Locked, Return
<1>3. ASSUME NEW t \in Tasks, Started(t) PROVE Pool'
  BY <1>3 DEF Started, Return, FaultUnless, Fault
<1>4. ASSUME NEW t \in Tasks, Drop(t) PROVE Pool'
  BY <1>4 DEF Drop, Dropped
<1>5. ASSUME NEW t \in Tasks, Stopped(t) PROVE Pool'
  BY <1>5 DEF Stopped, Dropped
<1>6. ASSUME NEW r \in Slots, Accept(r) PROVE Pool'
  BY <1>6 DEF Accept, Forget
<1>7. ASSUME NEW r \in Slots, Refuse(r) PROVE Pool'
  BY <1>7 DEF Refuse, Forget
<1>8. ASSUME NEW r \in Slots, RefuseOversized(r) PROVE Pool'
  BY <1>8 DEF RefuseOversized, Forget, Answer
<1>9. ASSUME NEW r \in Slots, DeadLetter(r) PROVE Pool'
  BY <1>9 DEF DeadLetter, Write, Answer, FaultUnless, Fault
<1>10. ASSUME NEW r \in Slots, Send(r) PROVE Pool'
  BY <1>10 DEF Send
<1>11. ASSUME NEW r \in Slots, SendTimesOut(r) PROVE Pool'
  BY <1>11 DEF SendTimesOut, FaultUnless, Fault
<1>12. ASSUME NEW r \in Slots, Fallback(r) PROVE Pool'
  BY <1>12 DEF Fallback, Write, Answer, FaultUnless, Fault
<1>13. ASSUME NEW r \in Slots, Deliver(r) PROVE Pool'
  BY <1>13 DEF Deliver, Answer, FaultUnless, Fault
<1>14. ASSUME NEW r \in Slots, Expire(r) PROVE Pool'
  BY <1>14 DEF Expire, FaultUnless, Fault
<1>15. ASSUME CooldownEnds PROVE Pool'
  BY <1>15 DEF CooldownEnds
<1>16. ASSUME Shutdown PROVE Pool'
  BY <1>16 DEF Shutdown, Fault
<1>17. ASSUME Crash PROVE Pool'
  BY <1>17 DEF Crash, Fault
<1>18. ASSUME Boot PROVE Pool'
  BY <1>18 DEF Boot
<1>19. ASSUME Outage PROVE Pool'
  BY <1>19 DEF Outage, Fault
<1>20. ASSUME BrokerRecovers PROVE Pool'
  BY <1>20 DEF BrokerRecovers
<1>21. ASSUME SinkRecovers PROVE Pool'
  BY <1>21 DEF SinkRecovers
<1>22. ASSUME UNCHANGED vars PROVE Pool'
  BY <1>22 DEF vars
<1> QED
  BY <1>1, <1>2, <1>3, <1>4, <1>5, <1>6, <1>7, <1>8, <1>9, <1>10, <1>11, <1>12, <1>13,
     <1>14, <1>15, <1>16, <1>17, <1>18, <1>19, <1>20, <1>21, <1>22
  DEF Next, ProducerStep, Arrive, RequestStep, BrokerStep

\* Every step keeps what is known of the requests, and every answer true.
LEMMA RequestStepKeeps ==
  ASSUME IInv, [Next]_vars
  PROVE  Requests'
<1> USE IngestionAssumption DEF IInv, TypeOK, Points, Requests, AnswersAreTrue,
         SlotPoints, LifespanPoints, sinkVars, poolVars, slotVars, Tasks
<1>1. ASSUME NEW t \in Tasks, GetProducer(t) PROVE Requests'
  BY <1>1 DEF GetProducer, Return
<1>2. ASSUME NEW t \in Tasks, Locked(t) PROVE Requests'
  BY <1>2 DEF Locked, Return
<1>3. ASSUME NEW t \in Tasks, Started(t) PROVE Requests'
  <2>1. Fresh \in Producers
    BY <1>3, FreshExists DEF Started
  <2>2. PICK p \in Producers \cup {None} : Return(t, p)
    BY <1>3, <2>1 DEF Started
  <2>3. pc[t] = "starting"
    BY <1>3 DEF Started
  <2>4. CASE t = Lifespan
    BY <2>2, <2>3, <2>4 DEF Return, TypeOK, Requests, AnswersAreTrue, SlotPoints,
       LifespanPoints, slotVars, Tasks
  <2>5. CASE t # Lifespan
    BY <2>2, <2>3, <2>5 DEF Return, TypeOK, Requests, AnswersAreTrue, SlotPoints,
       LifespanPoints, Tasks
  <2> QED BY <2>4, <2>5
<1>4. ASSUME NEW t \in Tasks, Drop(t) PROVE Requests'
  BY <1>4 DEF Drop, Dropped
<1>5. ASSUME NEW t \in Tasks, Stopped(t) PROVE Requests'
  BY <1>5 DEF Stopped, Dropped
<1>6. ASSUME NEW r \in Slots, Accept(r) PROVE Requests'
  BY <1>6 DEF Accept, Forget
<1>7. ASSUME NEW r \in Slots, Refuse(r) PROVE Requests'
  BY <1>7 DEF Refuse, Forget
<1>8. ASSUME NEW r \in Slots, RefuseOversized(r) PROVE Requests'
  BY <1>8 DEF RefuseOversized, Forget, Answer
<1>9. ASSUME NEW r \in Slots, DeadLetter(r) PROVE Requests'
  BY <1>9 DEF DeadLetter, Write, Answer, FaultUnless, Fault
<1>10. ASSUME NEW r \in Slots, Send(r) PROVE Requests'
  BY <1>10 DEF Send
<1>11. ASSUME NEW r \in Slots, SendTimesOut(r) PROVE Requests'
  BY <1>11 DEF SendTimesOut, FaultUnless, Fault
<1>12. ASSUME NEW r \in Slots, Fallback(r) PROVE Requests'
  BY <1>12 DEF Fallback, Write, Answer, FaultUnless, Fault
<1>13. ASSUME NEW r \in Slots, Deliver(r) PROVE Requests'
  BY <1>13 DEF Deliver, Answer, FaultUnless, Fault
<1>14. ASSUME NEW r \in Slots, Expire(r) PROVE Requests'
  BY <1>14 DEF Expire, FaultUnless, Fault
<1>15. ASSUME CooldownEnds PROVE Requests'
  BY <1>15 DEF CooldownEnds
<1>16. ASSUME Shutdown PROVE Requests'
  BY <1>16 DEF Shutdown, Fault
<1>17. ASSUME Crash PROVE Requests'
  BY <1>17 DEF Crash, Fault
<1>18. ASSUME Boot PROVE Requests'
  BY <1>18 DEF Boot
<1>19. ASSUME Outage PROVE Requests'
  BY <1>19 DEF Outage, Fault
<1>20. ASSUME BrokerRecovers PROVE Requests'
  BY <1>20 DEF BrokerRecovers
<1>21. ASSUME SinkRecovers PROVE Requests'
  BY <1>21 DEF SinkRecovers
<1>22. ASSUME UNCHANGED vars PROVE Requests'
  BY <1>22 DEF vars
<1> QED
  BY <1>1, <1>2, <1>3, <1>4, <1>5, <1>6, <1>7, <1>8, <1>9, <1>10, <1>11, <1>12, <1>13,
     <1>14, <1>15, <1>16, <1>17, <1>18, <1>19, <1>20, <1>21, <1>22
  DEF Next, ProducerStep, Arrive, RequestStep, BrokerStep

\* The inductive invariant: types, an exclusive lock, and requests whose answers are
\* covered by what is stored.
THEOREM IngestionInvariant == Spec => []IInv
<1>1. Init => IInv
  <2> SUFFICES ASSUME Init PROVE IInv
    OBVIOUS
  <2> USE IngestionAssumption
  <2>1. pc \in [Tasks -> Points]
    BY DEF Init, Points, Tasks
  <2>2. brokerUp \in BOOLEAN /\ sinkUp \in BOOLEAN /\ cooling \in BOOLEAN
        /\ buffered \in [Slots -> BOOLEAN]
    BY Zenon DEF Init
  <2>3. TypeOK
    BY <2>1, <2>2 DEF Init, TypeOK
  <2>4. Pool
    BY DEF Init, Pool, NoProducerIsLeaked, Tasks
  <2>5. Requests
    BY DEF Init, Requests, AnswersAreTrue, SlotPoints, LifespanPoints, Tasks
  <2> QED BY <2>3, <2>4, <2>5 DEF IInv
<1>2. IInv /\ [Next]_vars => IInv'
  BY TypeStep, PoolStep, RequestStepKeeps DEF IInv
<1> QED BY <1>1, <1>2, PTL DEF Spec

\* Every variable of the ingestion process keeps its type; in particular no request
\* makes more than FALLBACK_MAX_RETRIES direct inserts.
THEOREM IngestionTypeCorrect == Spec => []TypeOK
<1>1. IInv => TypeOK
  BY DEF IInv
<1> QED BY <1>1, IngestionInvariant, PTL

\* A 202 always means that the event is stored, a 413 or 422 that it is not,
\* whatever became of the producer in the meantime.
THEOREM AnswersTrue == Spec => []AnswersAreTrue
<1>1. IInv => AnswersAreTrue
  BY DEF IInv, Requests
<1> QED BY <1>1, IngestionInvariant, PTL

\* However many requests race to build and to drop it, there is never a running
\* producer that the process no longer knows.
THEOREM NoProducerLeaked == Spec => []NoProducerIsLeaked
<1>1. IInv => NoProducerIsLeaked
  BY DEF IInv, Pool
<1> QED BY <1>1, IngestionInvariant, PTL

-----------------------------------------------------------------------------
(* Extract.                                                                 *)

\* Every set of naturals that is not empty has a least one.
LEMMA Least ==
  ASSUME NEW S, S \subseteq Nat, S # {}
  PROVE  \E x \in S : \A y \in S : x <= y
<1>1. PICK x \in S : \A y \in S : ~ (<<y, x>> \in OpToRel(<, Nat))
  <2> DEFINE R == OpToRel(<, Nat)
  <2>1. IsWellFoundedOn(R, Nat) BY NatLessThanWellFounded
  <2> HIDE DEF R
  <2>2. \E x \in S : \A y \in S : ~ (<<y, x>> \in R) BY <2>1, WFMin
  <2> QED BY <2>2 DEF R
<1>2. \A y \in S : ~(y < x)
  BY <1>1 DEF OpToRel
<1>3. x \in Nat /\ \A y \in S : y \in Nat
  OBVIOUS
<1> QED BY <1>2, <1>3

\* A set of naturals below a bound has a largest one.
LEMMA Greatest ==
  ASSUME NEW n \in Nat, NEW S, S \subseteq 0 .. n, S # {}
  PROVE  Largest(S) \in S /\ \A y \in S : y <= Largest(S)
<1> DEFINE R == {n - x : x \in S}
<1>1. R \subseteq Nat /\ R # {}
  <2>1. ASSUME NEW x \in S PROVE n - x \in Nat
    OBVIOUS
  <2>2. R # {}
    OBVIOUS
  <2> QED BY <2>1
<1>2. PICK r \in R : \A y \in R : r <= y
  BY <1>1, Least
<1>3. PICK x \in S : r = n - x
  BY <1>2
<1>4. ASSUME NEW y \in S PROVE y <= x
  <2>1. n - y \in R
    OBVIOUS
  <2>2. r <= n - y
    BY <1>2, <2>1
  <2> QED BY <1>3, <2>2
<1> HIDE DEF R
<1> QED BY <1>3, <1>4 DEF Largest

\* A column of seconds never holds a later time than the one written to it.
LEMMA SecondIsEarlier ==
  ASSUME NEW t \in Nat
  PROVE  Second(t) \in Nat /\ Second(t) <= t
<1>1. TICKS \in Nat \ {0}
  BY ExtractAssumption
<1>2. (t \div TICKS) \in Nat /\ t = TICKS * (t \div TICKS) + (t % TICKS) /\ (t % TICKS) \in Nat
  BY <1>1
<1>3. PICK d \in Nat, r \in Nat : d = t \div TICKS /\ t = TICKS * d + r
  BY <1>2
<1>4. d * TICKS = TICKS * d /\ TICKS * d \in Nat
  BY <1>1, <1>3
<1> QED BY <1>3, <1>4 DEF Second

\* Of two times, the later one's second is not the earlier.
LEMMA SecondsInOrder ==
  ASSUME NEW t \in Nat, NEW u \in Nat, t <= u
  PROVE  Second(t) <= Second(u)
<1>1. TICKS \in Nat \ {0}
  BY ExtractAssumption
<1>2. PICK d \in Nat, r \in Nat : d = t \div TICKS /\ t = TICKS * d + r /\ r < TICKS
  <2>1. (t \div TICKS) \in Nat /\ t = TICKS * (t \div TICKS) + (t % TICKS) /\ (t % TICKS) \in 0 .. TICKS - 1
    BY <1>1
  <2> QED BY <1>1, <2>1
<1>3. PICK e \in Nat, q \in Nat : e = u \div TICKS /\ u = TICKS * e + q /\ q < TICKS
  <2>1. (u \div TICKS) \in Nat /\ u = TICKS * (u \div TICKS) + (u % TICKS) /\ (u % TICKS) \in 0 .. TICKS - 1
    BY <1>1
  <2> QED BY <1>1, <2>1
<1>4. d <= e
  <2> SUFFICES ASSUME e + 1 <= d PROVE FALSE
    BY <1>2, <1>3
  <2>1. PICK k \in Nat : d = e + 1 + k
    <3>1. d - (e + 1) \in Nat /\ d = e + 1 + (d - (e + 1))
      BY <1>2, <1>3
    <3> QED BY <3>1
  <2>2. TICKS * d = TICKS * e + TICKS + TICKS * k /\ TICKS * k \in Nat /\ TICKS * e \in Nat
    BY <1>1, <1>3, <2>1
  <2>3. PICK x \in Nat, y \in Nat : x = TICKS * e /\ y = TICKS * k
    BY <2>2
  <2>4. t = x + TICKS + y + r /\ u = x + q
    BY <1>2, <1>3, <2>2, <2>3
  <2> QED BY <1>1, <1>2, <1>3, <2>3, <2>4
<1>5. PICK k \in Nat : e = d + k
  <2>1. e - d \in Nat /\ e = d + (e - d)
    BY <1>2, <1>3, <1>4
  <2> QED BY <2>1
<1>6. e * TICKS = d * TICKS + k * TICKS /\ k * TICKS \in Nat /\ d * TICKS \in Nat
  BY <1>1, <1>2, <1>5
<1>7. PICK x \in Nat, y \in Nat : x = d * TICKS /\ y = k * TICKS
  BY <1>6
<1> QED BY <1>2, <1>3, <1>6, <1>7 DEF Second

\* The order in which the bank serves records.
Older(i, j) == After(src[j].upd, j, src[i].upd, i)
Stamped == \A i \in Ids : src[i].upd \in Nat

\* The records are in one order, by stamp and then by id.
LEMMA OlderIsAnOrder ==
  ASSUME Stamped
  PROVE  /\ \A i, j \in Ids : i = j \/ Older(i, j) \/ Older(j, i)
         /\ \A i \in Ids : ~ Older(i, i)
         /\ \A i, j, k \in Ids : Older(i, j) /\ Older(j, k) => Older(i, k)
<1>1. \A i \in Ids : i \in Nat /\ i # 0 /\ src[i].upd \in Nat
  BY ExtractAssumption DEF Ids, Stamped
<1> QED BY <1>1 DEF Older, After

\* What a page leaves out is not older than anything it holds.
LEMMA PageIsFirst ==
  ASSUME Stamped, NEW t, NEW c, NEW i \in Eligible(t, c), i \notin Page(t, c), NEW j \in Page(t, c)
  PROVE  Older(j, i)
<1> DEFINE E == Eligible(t, c)
           B(k) == {m \in E : Older(m, k)}
<1>1. E \subseteq Ids /\ IsFiniteSet(Ids) /\ i \in E /\ j \in E
  <2>1. IsFiniteSet(1 .. NumIds)
    BY FS_Interval, ExtractAssumption
  <2>2. E \subseteq Ids
    BY DEF Eligible
  <2>3. Page(t, c) \subseteq E
    BY DEF Page
  <2> QED BY <2>1, <2>2, <2>3 DEF Ids
<1>2. IsFiniteSet(B(i)) /\ IsFiniteSet(B(j))
  BY <1>1, FS_Subset
<1>3. ~ (Cardinality(B(i)) < PAGE_SIZE) /\ Cardinality(B(j)) < PAGE_SIZE
  BY DEF Page, Older
<1>4. i # j
  OBVIOUS
<1>5. ASSUME Older(i, j) PROVE FALSE
  <2>1. B(i) \subseteq B(j)
    BY <1>1, <1>5, OlderIsAnOrder
  <2>2. Cardinality(B(i)) <= Cardinality(B(j))
    BY <1>2, <2>1, FS_Subset
  <2>3. Cardinality(B(i)) \in Nat /\ Cardinality(B(j)) \in Nat /\ PAGE_SIZE \in Nat
    BY <1>2, FS_CardinalityType, ExtractAssumption
  <2> QED BY <1>3, <2>2, <2>3
<1> QED BY <1>1, <1>4, <1>5, OlderIsAnOrder

\* A page that is not full is the last one.
LEMMA ShortPageIsAll ==
  ASSUME Stamped, NEW t, NEW c, Cardinality(Page(t, c)) < PAGE_SIZE
  PROVE  Page(t, c) = Eligible(t, c)
<1> DEFINE E == Eligible(t, c)
           P == Page(t, c)
           B(k) == {m \in E : Older(m, k)}
           R == {Cardinality(B(k)) : k \in E \ P}
<1>1. E \subseteq Ids /\ IsFiniteSet(Ids) /\ P \subseteq E
  BY FS_Interval, ExtractAssumption DEF Eligible, Page, Ids
<1>2. SUFFICES ASSUME E \ P # {} PROVE FALSE
  BY <1>1
<1>3. \A k : IsFiniteSet(B(k)) /\ Cardinality(B(k)) \in Nat
  BY <1>1, FS_Subset, FS_CardinalityType
<1>4. IsFiniteSet(P) /\ Cardinality(P) \in Nat
  BY <1>1, FS_Subset, FS_CardinalityType
<1>5. R \subseteq Nat /\ R # {}
  BY <1>2, <1>3
<1>6. PICK r \in R : \A y \in R : r <= y
  BY <1>5, Least
<1>7. PICK k \in E \ P : r = Cardinality(B(k))
  BY <1>6
<1>8. ~ (Cardinality(B(k)) < PAGE_SIZE)
  BY <1>7 DEF Page, Older
<1>9. ASSUME NEW m \in B(k), m \notin P PROVE FALSE
  <2>1. B(m) \subseteq B(k) /\ m \notin B(m) /\ m \in E \ P
    BY <1>1, <1>7, <1>9, OlderIsAnOrder
  <2>2. B(m) # B(k)
    BY <2>1, <1>9
  <2>3. Cardinality(B(m)) < Cardinality(B(k))
    BY <1>3, <2>1, <2>2, FS_Subset
  <2>4. r <= Cardinality(B(m))
    BY <1>6, <2>1
  <2> QED BY <1>3, <1>7, <2>3, <2>4
<1>10. B(k) \subseteq P
  BY <1>9
<1>11. Cardinality(B(k)) <= Cardinality(P)
  BY <1>4, <1>10, FS_Subset
<1>12. PAGE_SIZE \in Nat
  BY ExtractAssumption
<1> QED BY <1>3, <1>4, <1>8, <1>11, <1>12

\* The record a page ends with is its youngest.
LEMMA LastIsYoungest ==
  ASSUME Stamped, \A i \in Ids : src[i].upd <= clock, clock \in Nat, NEW P, P \subseteq Ids, P # {}
  PROVE  LastOf(P) \in P /\ \A j \in P : ~ Older(LastOf(P), j)
<1> DEFINE T == {src[i].upd : i \in P}
           M == {i \in P : src[i].upd = Largest(T)}
<1>1. \A i \in Ids : i \in Nat /\ i # 0 /\ i <= NumIds /\ src[i].upd \in Nat /\ src[i].upd <= clock
  BY ExtractAssumption DEF Ids, Stamped
<1>2. T \subseteq 0 .. clock /\ T # {}
  BY <1>1
<1>3. Largest(T) \in T /\ \A y \in T : y <= Largest(T)
  BY <1>2, Greatest
<1>4. M \subseteq 0 .. NumIds /\ M # {}
  <2>1. PICK i \in P : src[i].upd = Largest(T)
    BY <1>3
  <2>2. M \subseteq 0 .. NumIds
    BY <1>1
  <2> QED BY <2>1, <2>2
<1>5. Largest(M) \in M /\ \A y \in M : y <= Largest(M)
  BY <1>4, Greatest, ExtractAssumption
<1>6. PICK x \in M : \A y \in M : y <= x
  BY <1>5
<1>7. x \in P /\ src[x].upd = Largest(T)
  BY <1>6
<1>8. ASSUME NEW j \in P PROVE ~ Older(x, j)
  <2>1. src[j].upd <= src[x].upd
    BY <1>3, <1>7
  <2>2. src[j].upd = src[x].upd => j <= x
    BY <1>6, <1>7
  <2>3. j \in Ids /\ x \in Ids
    BY <1>7
  <2> QED BY <1>1, <2>1, <2>2, <2>3 DEF Older, After
<1> HIDE DEF T, M
<1> QED BY <1>7, <1>8 DEF LastOf, Older

\* A change that no row holds yet, and that did not become visible too late.
Due(i) == i \in Ids \ late /\ src[i].val > 0 /\ ~ Landed(i)
Stored == older \cup {newest.wm}

\* Nothing the extract was served is younger than the clock, and no stored watermark is
\* later than the second of what it was served.
Times ==
  /\ \A i \in Ids : src[i].upd <= clock /\ open[i] <= clock
  /\ served <= clock
  /\ \A w \in Stored : w <= Second(served)

\* A sweep's cursor was served too, and its watermark is where it has got to.
Underway ==
  \A s \in Sweepers :
    /\ step[s] \in {"cursor", "fetch", "save"} => since[s] <= served /\ pageWatermark[s] = since[s]
    /\ step[s] = "cursor" => since[s] <= Second(served)
    /\ step[s] \in {"cursor", "fetch"} => pages[s] < MAX_PAGES

\* What is due is younger than every stored watermark, whichever of them is read, and
\* than the one a sweep is about to store, and still ahead of every sweep that reads.
Ahead ==
  \A i \in Ids : Due(i) =>
    /\ \A w \in Stored : w < src[i].upd
    /\ \A s \in Sweepers :
         /\ step[s] = "cursor" => since[s] < src[i].upd
         /\ step[s] = "save" => Second(since[s]) < src[i].upd
         /\ step[s] = "fetch" => After(src[i].upd, i, since[s], cursor[s])

EInv == ExtractTypes /\ Times /\ Underway /\ Ahead

\* A sweep that has used up its pages does not stop in the middle of a batch stamped at a
\* full second: what it leaves carries another stamp than the second it will store.
PagesEndBatches ==
  \A s \in Sweepers : step[s] = "fetch" /\ pages[s] + 1 >= MAX_PAGES =>
    \A i \in Eligible(since[s], cursor[s]) \ Page(since[s], cursor[s]) :
      src[i].upd # Second(src[LastOf(Page(since[s], cursor[s]))].upd)

\* At the start nothing is due, stored or under way.
LEMMA InitEInv == ExtractInit => EInv
<1> SUFFICES ASSUME ExtractInit PROVE EInv
  OBVIOUS
<1>1. ExtractTypes
  BY ExtractAssumption DEF ExtractInit, ExtractTypes
<1>2. Times
  <2>1. Second(0) \in Nat
    BY SecondIsEarlier
  <2> QED BY <2>1, ExtractAssumption DEF ExtractInit, Times, Stored
<1>3. Underway
  BY DEF ExtractInit, Underway
<1>4. Ahead
  <2>1. \A i \in Ids : src[i].val = 0
    BY DEF ExtractInit
  <2> QED BY <2>1 DEF Ahead, Due
<1> QED BY <1>1, <1>2, <1>3, <1>4 DEF EInv

\* Steps that leave the bank, the rows and the records marked late alone.
LEMMA SameDue ==
  ASSUME UNCHANGED <<src, bronze, late>>
  PROVE  \A i : Due(i)' <=> Due(i)
BY DEF Due, Landed

\* write_watermark stores nothing later than the second of the watermark it is given.
LEMMA StoredAfter ==
  ASSUME ExtractTypes, NEW wm \in Nat, NEW id \in Ids \cup {0}, WriteWatermark(wm, id)
  PROVE  /\ older' \subseteq Nat /\ newest' \in [wm : Nat, id : Ids \cup {0}]
         /\ \A w \in Stored' : w \in Stored \/ w <= Second(wm)
<1>1. Second(wm) \in Nat /\ Second(wm) <= wm
  BY SecondIsEarlier
<1>2. newest'.wm = Second(wm) /\ newest' = [wm |-> Second(wm), id |-> id]
  BY DEF WriteWatermark
<1>3. older' = Stored
  BY DEF WriteWatermark, Stored
<1>4. Stored \subseteq Nat
  BY DEF Stored, ExtractTypes
<1> QED BY <1>1, <1>2, <1>3, <1>4 DEF Stored

\* A change that commits and is not late is ahead of all that is stored and of every sweep.
LEMMA NotBehind ==
  ASSUME EInv, NEW t \in Nat, ~ Behind(t), NEW i
  PROVE  /\ \A w \in Stored : w < t
         /\ \A s \in Sweepers :
              /\ step[s] = "cursor" => since[s] < t
              /\ step[s] = "save" => Second(since[s]) < t
              /\ step[s] = "fetch" => After(t, i, since[s], cursor[s])
<1>1. served \in Nat /\ Stored \subseteq Nat /\ \A s \in Sweepers : since[s] \in Nat
  BY DEF EInv, ExtractTypes, Stored
<1>2. Second(served) \in Nat /\ ~ (t <= Second(served))
  BY <1>1, SecondIsEarlier DEF Behind
<1>3. ASSUME NEW w \in Stored PROVE w < t
  <2>1. w <= Second(served) /\ w \in Nat
    BY <1>1 DEF EInv, Times
  <2> QED BY <1>2, <2>1
<1>4. ASSUME NEW s \in Sweepers, step[s] = "cursor" PROVE since[s] < t
  <2>1. since[s] <= Second(served)
    BY <1>4 DEF EInv, Underway
  <2> QED BY <1>1, <1>2, <2>1
<1>5. ASSUME NEW s \in Sweepers, step[s] = "save" PROVE Second(since[s]) < t
  <2>1. since[s] <= served
    BY <1>5 DEF EInv, Underway
  <2>2. Second(since[s]) <= Second(served) /\ Second(since[s]) \in Nat
    BY <1>1, <2>1, SecondsInOrder, SecondIsEarlier
  <2> QED BY <1>2, <2>2
<1>6. ASSUME NEW s \in Sweepers, step[s] = "fetch" PROVE After(t, i, since[s], cursor[s])
  <2>1. ~ (t <= since[s])
    BY <1>6 DEF Behind
  <2> QED BY <1>1, <2>1 DEF After
<1> QED BY <1>3, <1>4, <1>5, <1>6

\* The bank: a change that commits is ahead of every sweep, or late.
LEMMA BankSteps ==
  ASSUME EInv, Tick \/ (\E i \in Ids : Change(i)) \/ (\E S \in SUBSET Ids : Commit(S)) \/ MoveBranch
  PROVE  EInv'
<1>0. ExtractTypes /\ Times /\ Underway /\ Ahead
  BY DEF EInv
<1>1. CASE Tick
  <2>1. clock' = clock + 1
        /\ UNCHANGED <<src, open, changes, region, bronze, geo, served, fingerprint, older, newest, since, cursor,
                       pages, pageWatermark, boot, step, late, failures>>
    BY <1>1 DEF Tick, landVars, storeVars, sweepVars
  <2>2. ExtractTypes'
    BY <1>0, <2>1 DEF ExtractTypes
  <2>3. Times'
    <3>1. clock \in Nat /\ served \in Nat /\ \A i \in Ids : src[i].upd \in Nat /\ open[i] \in Nat
      BY <1>0 DEF ExtractTypes
    <3> QED BY <1>0, <2>1, <3>1 DEF Times, Stored
  <2>4. Underway'
    BY <1>0, <2>1 DEF Underway
  <2>5. Ahead'
    BY <1>0, <2>1, SameDue DEF Ahead, Stored, After
  <2> QED BY <2>2, <2>3, <2>4, <2>5 DEF EInv
<1>2. CASE \E i \in Ids : Change(i)
  <2>1. PICK i \in Ids : Change(i)
    BY <1>2
  <2>2. open' = [open EXCEPT ![i] = clock] /\ changes' = changes + 1
        /\ UNCHANGED <<clock, src, region, bronze, geo, served, fingerprint, older, newest, since, cursor,
                       pages, pageWatermark, boot, step, late, failures>>
    BY <2>1 DEF Change, landVars, storeVars, sweepVars
  <2>3. open' \in [Ids -> Nat] /\ \A k \in Ids : open'[k] = clock \/ open'[k] = open[k]
    BY <1>0, <2>2 DEF ExtractTypes
  <2>4. ExtractTypes'
    BY <1>0, <2>2, <2>3 DEF ExtractTypes
  <2>5. Times'
    <3>1. clock \in Nat
      BY <1>0 DEF ExtractTypes
    <3> QED BY <1>0, <2>2, <2>3, <3>1 DEF Times, Stored
  <2>6. Underway'
    BY <1>0, <2>2 DEF Underway
  <2>7. Ahead'
    BY <1>0, <2>2, SameDue DEF Ahead, Stored, After
  <2> QED BY <2>4, <2>5, <2>6, <2>7 DEF EInv
<1>3. CASE \E S \in SUBSET Ids : Commit(S)
  <2>0. PICK S \in SUBSET Ids : Commit(S)
    BY <1>3
  <2>1. UNCHANGED <<clock, changes, region, bronze, geo, served, fingerprint, older, newest, since, cursor, pages,
                    pageWatermark, boot, step, failures>>
    BY <2>0 DEF Commit, landVars, storeVars, sweepVars
  <2>2. \A i \in Ids : src[i] \in [upd : Nat, val : Nat] /\ open[i] \in Nat /\ i \in Nat
    BY <1>0, ExtractAssumption DEF ExtractTypes, Ids
  <2>3. \A i \in Ids : /\ i \in S => src'[i].upd = open[i] /\ src'[i].val = src[i].val + 1 /\ open'[i] = 0
                       /\ i \notin S => src'[i] = src[i] /\ open'[i] = open[i]
    BY <2>0 DEF Commit
  <2>4. src' \in [Ids -> [upd : Nat, val : Nat]]
    BY <2>0, <2>2 DEF Commit
  <2>5. open' \in [Ids -> Nat]
    BY <2>0, <2>2 DEF Commit
  <2>6. late' = (late \ S) \cup {i \in S : Behind(open[i])}
    BY <2>0 DEF Commit
  <2>7. ExtractTypes'
    BY <1>0, <2>1, <2>4, <2>5, <2>6 DEF ExtractTypes
  <2>8. Times'
    <3>1. clock \in Nat
      BY <1>0 DEF ExtractTypes
    <3> QED BY <1>0, <2>1, <2>2, <2>3, <3>1 DEF Times, Stored
  <2>9. Underway'
    BY <1>0, <2>1 DEF Underway
  <2>10. ASSUME NEW i \in Ids, Due(i)'
         PROVE  (Due(i) /\ src'[i] = src[i]) \/ (src'[i].upd \in Nat /\ ~ Behind(src'[i].upd))
    <3>1. CASE i \in S
      BY <2>2, <2>3, <2>6, <2>10, <3>1 DEF Due
    <3>2. CASE i \notin S
      <4>1. i \notin late
        BY <2>6, <2>10, <3>2 DEF Due
      <4> QED BY <2>1, <2>3, <2>10, <3>2, <4>1 DEF Due, Landed
    <3> QED BY <3>1, <3>2
  <2>11. Ahead'
    <3> SUFFICES ASSUME NEW i \in Ids, Due(i)'
                 PROVE  /\ \A w \in Stored : w < src'[i].upd
                        /\ \A s \in Sweepers :
                             /\ step[s] = "cursor" => since[s] < src'[i].upd
                             /\ step[s] = "save" => Second(since[s]) < src'[i].upd
                             /\ step[s] = "fetch" => After(src'[i].upd, i, since[s], cursor[s])
      BY <2>1 DEF Ahead, Stored, After
    <3>1. CASE Due(i) /\ src'[i] = src[i]
      BY <1>0, <3>1 DEF Ahead
    <3>2. CASE src'[i].upd \in Nat /\ ~ Behind(src'[i].upd)
      <4>1. PICK t \in Nat : t = src'[i].upd
        BY <3>2
      <4>2. ~ Behind(t)
        BY <3>2, <4>1
      <4> QED BY <4>1, <4>2, NotBehind
    <3> QED BY <2>10, <3>1, <3>2
  <2> QED BY <2>7, <2>8, <2>9, <2>11 DEF EInv
<1>4. CASE MoveBranch
  <2>1. UNCHANGED <<clock, src, open, changes, bronze, geo, served, fingerprint, older, newest, since, cursor, pages,
                    pageWatermark, boot, step, late>>
    BY <1>4 DEF MoveBranch, landVars, storeVars, sweepVars
  <2>2. ExtractTypes'
    BY <1>4, <2>1, ExtractAssumption DEF EInv, ExtractTypes, MoveBranch, Failure
  <2>3. Times' /\ Underway'
    BY <2>1 DEF EInv, Times, Stored, Underway
  <2>4. Ahead'
    BY <2>1, SameDue DEF EInv, Ahead, Stored, After
  <2> QED BY <2>2, <2>3, <2>4 DEF EInv
<1> QED BY <1>1, <1>2, <1>3, <1>4

\* What a step does to a sweep that lands nothing by it.
Rests(s) ==
  /\ step'[s] = step[s] /\ since'[s] = since[s] /\ cursor'[s] = cursor[s] /\ pages'[s] = pages[s]
  /\ pageWatermark'[s] = pageWatermark[s]
Away(s) == step'[s] \notin {"cursor", "fetch", "save"}
Opens(s) ==
  /\ step'[s] \in {"cursor", "fetch"} /\ since'[s] \in Stored \cup {0}
  /\ pageWatermark'[s] = since'[s] /\ pages'[s] = 0
Resumes(s) ==
  /\ step[s] = "cursor" /\ step'[s] = "fetch" /\ since'[s] = since[s]
  /\ pageWatermark'[s] = pageWatermark[s] /\ pages'[s] = pages[s]

\* A step that lands nothing, and stores no watermark but zero or that of a sweep that has
\* nothing left to land.
LEMMA ControlStep ==
  ASSUME EInv, ExtractTypes', UNCHANGED <<bankVars, bronze, served, late>>,
         \A w \in Stored' : w \in Stored \/ w <= 0 \/ \E s \in Sweepers : step[s] = "save" /\ w <= Second(pageWatermark[s]),
         \A s \in Sweepers : Rests(s) \/ Away(s) \/ Opens(s) \/ Resumes(s)
  PROVE  EInv'
<1>1. UNCHANGED <<clock, src, open>>
  BY DEF bankVars
<1>2. /\ clock \in Nat /\ served \in Nat /\ Stored \subseteq Nat /\ Stored' \subseteq Nat /\ MAX_PAGES \in Nat \ {0}
      /\ \A i \in Ids : i \in Nat /\ src[i].upd \in Nat
      /\ \A s \in Sweepers : /\ since[s] \in Nat /\ pageWatermark[s] \in Nat
                            /\ since'[s] \in Nat /\ pageWatermark'[s] \in Nat
  <2>1. clock \in Nat /\ served \in Nat /\ Stored \subseteq Nat /\ Stored' \subseteq Nat
    BY DEF EInv, ExtractTypes, Stored
  <2>2. MAX_PAGES \in Nat \ {0} /\ \A i \in Ids : i \in Nat
    BY ExtractAssumption DEF Ids
  <2>3. \A i \in Ids : src[i].upd \in Nat
    BY DEF EInv, ExtractTypes
  <2>4. \A s \in Sweepers : /\ since[s] \in Nat /\ pageWatermark[s] \in Nat
                            /\ since'[s] \in Nat /\ pageWatermark'[s] \in Nat
    BY DEF EInv, ExtractTypes
  <2> QED BY <2>1, <2>2, <2>3, <2>4
<1>3. \A w \in Stored : w <= Second(served)
  BY DEF EInv, Times
<1>33. Second(served) \in Nat /\ Second(served) <= served /\ \A s \in Sweepers : Second(since[s]) \in Nat
  BY <1>2, SecondIsEarlier
<1>4. Times'
  <2>1. ASSUME NEW w \in Stored' PROVE w <= Second(served)
    <3>1. CASE w \in Stored
      BY <1>3, <3>1
    <3>2. CASE w <= 0
      BY <1>2, <1>33, <3>2
    <3>3. CASE \E s \in Sweepers : step[s] = "save" /\ w <= Second(pageWatermark[s])
      <4>1. PICK s \in Sweepers : step[s] = "save" /\ w <= Second(pageWatermark[s])
        BY <3>3
      <4>2. since[s] <= served /\ pageWatermark[s] = since[s]
        BY <4>1 DEF EInv, Underway
      <4>3. Second(since[s]) <= Second(served)
        BY <1>2, <4>2, SecondsInOrder
      <4>4. w \in Nat
        BY <1>2
      <4> QED BY <1>33, <4>1, <4>2, <4>3, <4>4
    <3> QED BY <3>1, <3>2, <3>3
  <2> QED BY <1>1, <2>1 DEF EInv, Times
<1>5. Underway'
  <2> SUFFICES ASSUME NEW s \in Sweepers
               PROVE  /\ step'[s] \in {"cursor", "fetch", "save"} => since'[s] <= served /\ pageWatermark'[s] = since'[s]
                      /\ step'[s] = "cursor" => since'[s] <= Second(served)
                      /\ step'[s] \in {"cursor", "fetch"} => pages'[s] < MAX_PAGES
    BY DEF Underway
  <2>1. CASE Rests(s)
    BY <2>1 DEF EInv, Underway, Rests
  <2>2. CASE Away(s)
    BY <2>2 DEF Away
  <2>3. CASE Opens(s)
    <3>1. since'[s] <= Second(served)
      BY <1>2, <1>3, <1>33, <2>3 DEF Opens
    <3>2. since'[s] <= served
      BY <1>2, <1>33, <3>1
    <3> QED BY <1>2, <2>3, <3>1, <3>2 DEF Opens
  <2>4. CASE Resumes(s)
    BY <2>4 DEF EInv, Underway, Resumes
  <2> QED BY <2>1, <2>2, <2>3, <2>4
<1>6. Ahead'
  <2> SUFFICES ASSUME NEW i \in Ids, Due(i)
               PROVE  /\ \A w \in Stored' : w < src[i].upd
                      /\ \A s \in Sweepers :
                           /\ step'[s] = "cursor" => since'[s] < src[i].upd
                           /\ step'[s] = "save" => Second(since'[s]) < src[i].upd
                           /\ step'[s] = "fetch" => After(src[i].upd, i, since'[s], cursor'[s])
    BY <1>1, SameDue DEF Ahead, After
  <2>1. /\ \A w \in Stored : w < src[i].upd
        /\ \A s \in Sweepers :
             /\ step[s] = "cursor" => since[s] < src[i].upd
             /\ step[s] = "save" => Second(since[s]) < src[i].upd
             /\ step[s] = "fetch" => After(src[i].upd, i, since[s], cursor[s])
    BY DEF EInv, Ahead
  <2>2. newest.wm \in Stored
    BY DEF Stored
  <2>3. 0 < src[i].upd
    <3>1. PICK w \in Stored : w < src[i].upd
      BY <2>1, <2>2
    <3> QED BY <1>2, <3>1
  <2>4. ASSUME NEW w \in Stored' PROVE w < src[i].upd
    <3>1. CASE w \in Stored
      BY <2>1, <3>1
    <3>2. CASE w <= 0
      BY <1>2, <2>3, <3>2
    <3>3. CASE \E s \in Sweepers : step[s] = "save" /\ w <= Second(pageWatermark[s])
      <4>1. PICK s \in Sweepers : step[s] = "save" /\ w <= Second(pageWatermark[s])
        BY <3>3
      <4>2. Second(since[s]) < src[i].upd /\ pageWatermark[s] = since[s]
        BY <2>1, <4>1 DEF EInv, Underway
      <4>3. w \in Nat
        BY <1>2
      <4> QED BY <1>2, <1>33, <4>1, <4>2, <4>3
    <3> QED BY <3>1, <3>2, <3>3
  <2>5. ASSUME NEW s \in Sweepers
        PROVE  /\ step'[s] = "cursor" => since'[s] < src[i].upd
               /\ step'[s] = "save" => Second(since'[s]) < src[i].upd
               /\ step'[s] = "fetch" => After(src[i].upd, i, since'[s], cursor'[s])
    <3>1. CASE Rests(s)
      BY <2>1, <3>1 DEF Rests
    <3>2. CASE Away(s)
      BY <3>2 DEF Away
    <3>3. CASE Opens(s)
      <4>1. since'[s] < src[i].upd
        BY <2>1, <2>3, <3>3 DEF Opens
      <4>2. step'[s] # "save"
        BY <3>3 DEF Opens
      <4> QED BY <1>2, <4>1, <4>2 DEF After
    <3>4. CASE Resumes(s)
      <4>1. since'[s] < src[i].upd
        BY <2>1, <3>4 DEF Resumes
      <4>2. step'[s] # "save"
        BY <3>4 DEF Resumes
      <4> QED BY <1>2, <4>1, <4>2 DEF After
    <3> QED BY <3>1, <3>2, <3>3, <3>4
  <2> QED BY <2>4, <2>5
<1> QED BY <1>4, <1>5, <1>6 DEF EInv

\* The steps of a sweep that lands nothing, merges and restarts.
LEMMA ControlSteps ==
  ASSUME EInv,
         \/ Merge \/ ServiceRestarts
         \/ \E s \in Sweepers : Fail(s) \/ Start(s) \/ Invalidate(s) \/ InvalidateFails(s) \/ ReadFull(s)
                             \/ ReadWatermark(s) \/ ReadCursor(s) \/ Save(s)
  PROVE  EInv'
<1>0. ExtractTypes /\ Stored \subseteq Nat /\ newest.wm \in Stored
  BY DEF EInv, ExtractTypes, Stored
<1>1. CASE Merge
  <2>1. PICK wm \in older : /\ older' = older \ {wm}
                            /\ UNCHANGED <<newest, fingerprint, bankVars, landVars, sweepVars, boot, step, late, failures>>
    BY <1>1 DEF Merge
  <2>2. ExtractTypes'
    BY <1>0, <2>1 DEF ExtractTypes, bankVars, landVars, sweepVars
  <2>3. \A w \in Stored' : w \in Stored
    BY <2>1 DEF Stored
  <2>4. \A s \in Sweepers : Rests(s)
    BY <2>1 DEF Rests, sweepVars
  <2>5. UNCHANGED <<bankVars, bronze, served, late>>
    BY <2>1 DEF landVars
  <2> QED BY <2>2, <2>3, <2>4, <2>5, ControlStep
<1>2. CASE ServiceRestarts
  <2>1. ExtractTypes'
    BY <1>0, <1>2, ExtractAssumption DEF ServiceRestarts, Failure, ExtractTypes, bankVars, landVars, storeVars
  <2>2. \A w \in Stored' : w \in Stored
    BY <1>2 DEF ServiceRestarts, Stored, storeVars
  <2>3. \A s \in Sweepers : Away(s)
    BY <1>2 DEF ServiceRestarts, Away
  <2>4. UNCHANGED <<bankVars, bronze, served, late>>
    BY <1>2 DEF ServiceRestarts, landVars
  <2> QED BY <2>1, <2>2, <2>3, <2>4, ControlStep
<1>3. ASSUME NEW s \in Sweepers, Fail(s) PROVE EInv'
  <2>1. ExtractTypes'
    <3>1. boot' \in BOOLEAN
      BY <1>0, <1>3 DEF Fail, Booted, ExtractTypes
    <3>2. End(s) /\ failures' = failures + 1 /\ UNCHANGED <<bankVars, landVars, storeVars, late>>
      BY <1>3 DEF Fail, Failure
    <3> QED BY <1>0, <3>1, <3>2, ExtractAssumption DEF End, Goto, ExtractTypes, bankVars, landVars, storeVars
  <2>2. \A w \in Stored' : w \in Stored
    BY <1>3 DEF Fail, Stored, storeVars
  <2>3. \A q \in Sweepers : Rests(q) \/ Away(q)
    BY <1>0, <1>3 DEF Fail, End, Goto, Rests, Away, ExtractTypes
  <2>4. UNCHANGED <<bankVars, bronze, served, late>>
    BY <1>3 DEF Fail, landVars
  <2> QED BY <2>1, <2>2, <2>3, <2>4, ControlStep
<1>4. ASSUME NEW s \in Sweepers, Start(s) PROVE EInv'
  <2>1. ExtractTypes'
    BY <1>0, <1>4, ExtractAssumption DEF Start, Goto, ExtractTypes, bankVars, storeVars, sweepVars
  <2>2. \A w \in Stored' : w \in Stored
    BY <1>4 DEF Start, Stored, storeVars
  <2>3. \A q \in Sweepers : Rests(q) \/ Away(q)
    BY <1>0, <1>4 DEF Start, Goto, Rests, Away, ExtractTypes, sweepVars
  <2>4. UNCHANGED <<bankVars, bronze, served, late>>
    BY <1>4 DEF Start
  <2> QED BY <2>1, <2>2, <2>3, <2>4, ControlStep
<1>5. ASSUME NEW s \in Sweepers, Invalidate(s) \/ InvalidateFails(s) PROVE EInv'
  <2>1. \/ UNCHANGED <<older, newest, fingerprint>>
        \/ WriteWatermark(0, 0) /\ fingerprint' \in {fingerprint, geo}
    BY <1>5 DEF Invalidate, InvalidateFails, storeVars
  <2>2. UNCHANGED <<bankVars, landVars, late>> /\ boot' \in BOOLEAN
    <3>1. boot' = boot \/ Booted(s)
      BY <1>5 DEF Invalidate, InvalidateFails
    <3> QED BY <1>0, <1>5, <3>1 DEF Invalidate, InvalidateFails, Booted, ExtractTypes
  <2>3. /\ older' \subseteq Nat /\ newest' \in [wm : Nat, id : Ids \cup {0}] /\ fingerprint' \in Nat
        /\ \A w \in Stored' : w \in Stored \/ w <= 0
    <3>0. Second(0) \in Nat /\ Second(0) <= 0
      BY SecondIsEarlier
    <3>1. CASE UNCHANGED <<older, newest, fingerprint>>
      BY <1>0, <3>1 DEF ExtractTypes, Stored
    <3>2. CASE WriteWatermark(0, 0) /\ fingerprint' \in {fingerprint, geo}
      <4>1. fingerprint' \in Nat
        BY <1>0, <3>2 DEF ExtractTypes
      <4>2. /\ older' \subseteq Nat /\ newest' \in [wm : Nat, id : Ids \cup {0}]
            /\ \A w \in Stored' : w \in Stored \/ w <= Second(0)
        BY <1>0, <3>2, StoredAfter
      <4>3. PICK z \in Nat : z = Second(0) /\ z <= 0
        BY <3>0
      <4>4. \A w \in Stored' : w \in Stored \/ w <= 0
        <5>1. z = 0
          BY <4>3
        <5> QED BY <4>2, <4>3, <5>1
      <4> QED BY <4>1, <4>2, <4>4
    <3> QED BY <2>1, <3>1, <3>2
  <2>4. \/ Goto(s, "watermark") /\ UNCHANGED <<sweepVars, failures>>
        \/ End(s) /\ Failure
    BY <1>5 DEF Invalidate, InvalidateFails
  <2>5. /\ step' \in [Sweepers -> {"idle", "branches", "watermark", "cursor", "fetch", "save"}]
        /\ since' \in [Sweepers -> Nat] /\ cursor' \in [Sweepers -> Ids \cup {0}]
        /\ pages' \in [Sweepers -> 0 .. MAX_PAGES] /\ pageWatermark' \in [Sweepers -> Nat] /\ failures' \in Nat
    BY <1>0, <2>4, ExtractAssumption DEF Goto, End, Failure, sweepVars, ExtractTypes
  <2>6. ExtractTypes'
    BY <1>0, <2>2, <2>3, <2>5 DEF ExtractTypes, bankVars, landVars
  <2>7. \A q \in Sweepers : Rests(q) \/ Away(q)
    BY <1>0, <2>4 DEF Goto, End, Rests, Away, ExtractTypes, sweepVars
  <2>8. UNCHANGED <<bankVars, bronze, served, late>>
    BY <2>2 DEF landVars
  <2> QED BY <2>3, <2>6, <2>7, <2>8, ControlStep
<1>6. ASSUME NEW s \in Sweepers, ReadFull(s) PROVE EInv'
  <2>1. ExtractTypes'
    <3>1. boot' \in BOOLEAN
      BY <1>0, <1>6 DEF ReadFull, Booted, ExtractTypes
    <3>2. /\ Goto(s, "fetch") /\ Fetching(s, 0) /\ cursor' = [cursor EXCEPT ![s] = 0]
          /\ UNCHANGED <<bankVars, landVars, storeVars, late, failures>>
      BY <1>6 DEF ReadFull
    <3> QED BY <1>0, <3>1, <3>2, ExtractAssumption DEF Fetching, Goto, ExtractTypes, bankVars, landVars, storeVars
  <2>2. \A w \in Stored' : w \in Stored
    BY <1>6 DEF ReadFull, Stored, storeVars
  <2>3. \A q \in Sweepers : Rests(q) \/ Opens(q)
    BY <1>0, <1>6 DEF ReadFull, Fetching, Goto, Rests, Opens, ExtractTypes
  <2>4. UNCHANGED <<bankVars, bronze, served, late>>
    BY <1>6 DEF ReadFull, landVars
  <2> QED BY <2>1, <2>2, <2>3, <2>4, ControlStep
<1>7. ASSUME NEW s \in Sweepers, ReadWatermark(s) PROVE EInv'
  <2>1. PICK wm : wm = Largest(Stored)
    OBVIOUS
  <2>2. wm \in Stored /\ wm \in Nat
    <3>1. \A w \in Stored : w \in Nat /\ w <= Second(served)
      BY <1>0 DEF EInv, Times
    <3>2. PICK z \in Nat : z = Second(served)
      BY <1>0, SecondIsEarlier DEF ExtractTypes
    <3>3. Stored \subseteq 0 .. z /\ Stored # {}
      BY <1>0, <3>1, <3>2
    <3> QED BY <1>0, <2>1, <3>2, <3>3, Greatest
  <2>3. Fetching(s, wm) /\ step[s] = "watermark" /\ Goto(s, "cursor")
        /\ UNCHANGED <<bankVars, landVars, storeVars, boot, cursor, late, failures>>
    BY <1>7, <2>1 DEF ReadWatermark, Stored
  <2>4. ExtractTypes'
    BY <1>0, <2>2, <2>3, ExtractAssumption DEF Fetching, Goto, ExtractTypes, bankVars, landVars, storeVars
  <2>5. \A w \in Stored' : w \in Stored
    BY <2>3 DEF Stored, storeVars
  <2>6. \A q \in Sweepers : Rests(q) \/ Opens(q)
    BY <1>0, <2>2, <2>3 DEF Fetching, Goto, Rests, Opens, ExtractTypes
  <2>7. UNCHANGED <<bankVars, bronze, served, late>>
    BY <2>3 DEF landVars
  <2> QED BY <2>4, <2>5, <2>6, <2>7, ControlStep
<1>8. ASSUME NEW s \in Sweepers, ReadCursor(s) PROVE EInv'
  <2>1. /\ step[s] = "cursor" /\ Goto(s, "fetch")
        /\ \/ cursor' = [cursor EXCEPT ![s] = newest.id]
           \/ cursor' = [cursor EXCEPT ![s] = 0]
        /\ (failures' = failures) \/ Failure
        /\ UNCHANGED <<bankVars, landVars, storeVars, boot, since, pages, pageWatermark, late>>
    BY <1>8 DEF ReadCursor
  <2>2. newest.id \in Ids \cup {0}
    BY <1>0 DEF ExtractTypes
  <2>3. cursor' \in [Sweepers -> Ids \cup {0}] /\ failures' \in Nat
    BY <1>0, <2>1, <2>2 DEF ExtractTypes, Failure
  <2>4. ExtractTypes'
    BY <1>0, <2>1, <2>3 DEF Goto, ExtractTypes, bankVars, landVars, storeVars
  <2>5. \A w \in Stored' : w \in Stored
    BY <2>1 DEF Stored, storeVars
  <2>6. \A q \in Sweepers : Rests(q) \/ Resumes(q)
    BY <1>0, <2>1 DEF Goto, Rests, Resumes, ExtractTypes
  <2>7. UNCHANGED <<bankVars, bronze, served, late>>
    BY <2>1 DEF landVars
  <2> QED BY <2>4, <2>5, <2>6, <2>7, ControlStep
<1>9. ASSUME NEW s \in Sweepers, Save(s) PROVE EInv'
  <2>1. pageWatermark[s] \in Nat /\ cursor[s] \in Ids \cup {0} /\ step[s] = "save"
    BY <1>0, <1>9 DEF Save, ExtractTypes
  <2>2. /\ older' \subseteq Nat /\ newest' \in [wm : Nat, id : Ids \cup {0}]
        /\ \A w \in Stored' : w \in Stored \/ w <= Second(pageWatermark[s])
    BY <1>0, <1>9, <2>1, StoredAfter DEF Save
  <2>3. ExtractTypes'
    BY <1>0, <1>9, <2>2, ExtractAssumption DEF Save, End, Goto, ExtractTypes, bankVars, landVars
  <2>4. \A q \in Sweepers : Rests(q) \/ Away(q)
    BY <1>0, <1>9 DEF Save, End, Goto, Rests, Away, ExtractTypes
  <2>5. UNCHANGED <<bankVars, bronze, served, late>>
    BY <1>9 DEF Save, landVars
  <2> QED BY <2>1, <2>2, <2>3, <2>4, <2>5, ControlStep
<1> QED BY <1>1, <1>2, <1>3, <1>4, <1>5, <1>6, <1>7, <1>8, <1>9

\* What a page landed is not due any more.
LEMMA LandedIsNotDue ==
  ASSUME ExtractTypes, NEW P, P \subseteq Ids, bronze' = bronze \cup {Row(i) : i \in P},
         UNCHANGED <<src, late>>
  PROVE  /\ bronze' \subseteq [id : Ids, val : Nat, region : Nat]
         /\ \A i \in Ids : Due(i)' => Due(i) /\ i \notin P
<1>1. \A i \in P : Row(i) \in [id : Ids, val : Nat, region : Nat]
  BY DEF Row, ExtractTypes
<1>2. \A i \in P : Row(i).id = i /\ Row(i).val = src[i].val /\ Row(i) \in bronze'
  BY DEF Row
<1>3. \A i \in Ids : Due(i)' => Due(i)
  BY DEF Due, Landed
<1>4. \A i \in P : ~ Due(i)'
  BY <1>2 DEF Due, Landed
<1>5. bronze' \subseteq [id : Ids, val : Nat, region : Nat]
  BY <1>1 DEF ExtractTypes
<1> QED BY <1>3, <1>4, <1>5

\* The stamps of a page lie between its sweep's position and its last record's.
LEMMA PageFacts ==
  ASSUME EInv, NEW s \in Sweepers, NEW P, P = Page(since[s], cursor[s]), P # {}
  PROVE  /\ P \subseteq Ids /\ LastOf(P) \in P
         /\ src[LastOf(P)].upd \in Nat /\ src[LastOf(P)].upd <= clock /\ since[s] <= src[LastOf(P)].upd
         /\ \A i \in P : src[i].upd \in Nat /\ src[i].upd <= src[LastOf(P)].upd
<1>1. P \subseteq Ids /\ \A i \in P : After(src[i].upd, i, since[s], cursor[s])
  BY DEF Page, Eligible
<1>2. Stamped /\ clock \in Nat /\ \A i \in Ids : src[i].upd <= clock
  BY DEF EInv, ExtractTypes, Stamped, Times
<1>3. LastOf(P) \in P /\ \A j \in P : ~ Older(LastOf(P), j)
  BY <1>1, <1>2, LastIsYoungest
<1>4. \A i \in P : src[i].upd \in Nat /\ i \in Ids
  BY <1>1, <1>2 DEF Stamped
<1>5. PICK l \in P : l = LastOf(P)
  BY <1>3
<1>6. \A j \in P : src[j].upd <= src[l].upd
  BY <1>3, <1>4, <1>5 DEF Older, After
<1>7. since[s] \in Nat
  BY DEF EInv, ExtractTypes
<1>8. since[s] <= src[l].upd
  BY <1>1, <1>4, <1>5, <1>7 DEF After
<1> QED BY <1>1, <1>2, <1>3, <1>4, <1>5, <1>6, <1>8

\* A page moves its sweep past what it landed, and past nothing else.
LEMMA FetchStep ==
  ASSUME EInv, PagesEndBatches, NEW s \in Sweepers, FetchPage(s)
  PROVE  EInv'
<1> DEFINE P == Page(since[s], cursor[s])
           E == Eligible(since[s], cursor[s])
<1>1. /\ step[s] = "fetch" /\ UNCHANGED <<bankVars, geo, storeVars, boot, late, failures>>
      /\ UNCHANGED <<clock, src, open, changes, region, older, newest, fingerprint>>
  BY DEF FetchPage, bankVars, storeVars
<1>2. /\ clock \in Nat /\ served \in Nat /\ Stored \subseteq Nat /\ PAGE_SIZE \in Nat \ {0} /\ MAX_PAGES \in Nat
      /\ since[s] \in Nat /\ pages[s] \in Nat /\ pageWatermark[s] = since[s]
      /\ pages[s] < MAX_PAGES /\ served <= clock
      /\ ExtractTypes /\ Times /\ Underway /\ Ahead
  <2>1. clock \in Nat /\ served \in Nat /\ Stored \subseteq Nat /\ since[s] \in Nat
    BY DEF EInv, ExtractTypes, Stored
  <2>2. pages[s] \in Nat /\ PAGE_SIZE \in Nat \ {0} /\ MAX_PAGES \in Nat
    BY ExtractAssumption DEF EInv, ExtractTypes
  <2>3. pageWatermark[s] = since[s] /\ pages[s] < MAX_PAGES
    BY <1>1 DEF EInv, Underway
  <2> QED BY <2>1, <2>2, <2>3 DEF EInv, Times
<1>3. Stamped
  BY <1>2 DEF ExtractTypes, Stamped
<1>4. ASSUME NEW i \in Ids, Due(i) PROVE i \in E
  BY <1>1, <1>2, <1>4 DEF Ahead, Due, Eligible
<1>5. CASE P = {}
  <2>1. Goto(s, "save") /\ UNCHANGED <<bronze, served, since, cursor, pages, pageWatermark>>
    BY <1>5 DEF FetchPage
  <2>2. E = {}
    BY <1>2, <1>3, <1>5, ShortPageIsAll, FS_EmptySet
  <2>3. \A i \in Ids : ~ Due(i)
    BY <1>4, <2>2
  <2>4. step' \in [Sweepers -> {"idle", "branches", "watermark", "cursor", "fetch", "save"}] /\ step'[s] = "save"
        /\ \A q \in Sweepers : q # s => step'[q] = step[q]
    BY <1>2, <2>1 DEF Goto, ExtractTypes
  <2>5. ExtractTypes'
    BY <1>1, <1>2, <2>1, <2>4 DEF ExtractTypes, bankVars, storeVars
  <2>6. Times'
    BY <1>1, <1>2, <2>1 DEF Times, Stored
  <2>7. Underway'
    BY <1>1, <1>2, <2>1, <2>4 DEF Underway
  <2>8. Ahead'
    BY <1>1, <2>1, <2>3, SameDue DEF Ahead
  <2> QED BY <2>5, <2>6, <2>7, <2>8 DEF EInv
<1>6. CASE P # {}
  <2>1. PICK last, t : last = LastOf(P) /\ t = src[last].upd
    OBVIOUS
  <2>2. /\ bronze' = bronze \cup {Row(i) : i \in P}
        /\ served' = IF t > served THEN t ELSE served
        /\ since' = [since EXCEPT ![s] = t]
        /\ cursor' = [cursor EXCEPT ![s] = last]
        /\ pageWatermark' = [pageWatermark EXCEPT ![s] = IF t > @ THEN t ELSE @]
        /\ pages' = [pages EXCEPT ![s] = @ + 1]
        /\ Goto(s, IF Cardinality(P) < PAGE_SIZE \/ pages[s] + 1 >= MAX_PAGES THEN "save" ELSE "fetch")
    BY <1>6, <2>1 DEF FetchPage
  <2>3. /\ P \subseteq Ids /\ last \in P /\ last \in Ids /\ t \in Nat /\ t <= clock /\ since[s] <= t
    BY <1>6, <2>1, PageFacts
  <2>4. ASSUME NEW i \in Ids, Due(i)'
        PROVE  /\ Due(i) /\ After(src[i].upd, i, t, last)
               /\ step'[s] = "save" => Second(t) < src[i].upd
    <3>1. Due(i) /\ i \notin P /\ i \in E
      BY <1>1, <1>2, <1>4, <2>2, <2>3, <2>4, LandedIsNotDue
    <3>2. Older(last, i)
      BY <1>3, <2>3, <3>1, PageIsFirst
    <3>3. After(src[i].upd, i, t, last)
      BY <2>1, <3>2 DEF Older
    <3>4. ASSUME step'[s] = "save" PROVE Second(t) < src[i].upd
      <4>1. ~ (Cardinality(P) < PAGE_SIZE)
        BY <1>3, <3>1, ShortPageIsAll
      <4>2. pages[s] + 1 >= MAX_PAGES
        BY <1>2, <2>2, <3>4, <4>1 DEF Goto, ExtractTypes
      <4>3. src[i].upd # Second(t)
        BY <1>1, <2>1, <3>1, <4>2 DEF PagesEndBatches
      <4>4. src[i].upd \in Nat /\ Second(t) \in Nat /\ Second(t) <= t
        BY <1>3, <2>3, SecondIsEarlier DEF Stamped
      <4>5. t <= src[i].upd
        BY <2>3, <3>3, <4>4 DEF After
      <4> QED BY <2>3, <4>3, <4>4, <4>5
    <3> QED BY <3>1, <3>3, <3>4
  <2> HIDE DEF P, E
  <2>5. /\ bronze' \subseteq [id : Ids, val : Nat, region : Nat]
    BY <1>1, <1>2, <2>2, <2>3, LandedIsNotDue
  <2>6. served' \in Nat /\ served <= served' /\ t <= served' /\ served' <= clock
    BY <1>2, <2>2, <2>3
  <2>7. /\ since' \in [Sweepers -> Nat] /\ since'[s] = t /\ cursor' \in [Sweepers -> Ids \cup {0}] /\ cursor'[s] = last
        /\ pageWatermark' \in [Sweepers -> Nat] /\ pageWatermark'[s] = t
        /\ \A q \in Sweepers : q # s => since'[q] = since[q] /\ cursor'[q] = cursor[q] /\ pageWatermark'[q] = pageWatermark[q]
    <3>1. since' \in [Sweepers -> Nat] /\ since'[s] = t /\ \A q \in Sweepers : q # s => since'[q] = since[q]
      BY <1>2, <2>2, <2>3 DEF ExtractTypes
    <3>2. /\ cursor' \in [Sweepers -> Ids \cup {0}] /\ cursor'[s] = last
          /\ \A q \in Sweepers : q # s => cursor'[q] = cursor[q]
      BY <1>2, <2>2, <2>3 DEF ExtractTypes
    <3>3. PICK w : w = IF t > pageWatermark[s] THEN t ELSE pageWatermark[s]
      OBVIOUS
    <3>4. w = t
      BY <1>2, <2>3, <3>3
    <3>5. pageWatermark' = [pageWatermark EXCEPT ![s] = w]
      BY <2>2, <3>3
    <3> QED BY <1>2, <2>3, <3>1, <3>2, <3>4, <3>5 DEF ExtractTypes
  <2>8. /\ pages' \in [Sweepers -> 0 .. MAX_PAGES] /\ pages'[s] = pages[s] + 1
        /\ \A q \in Sweepers : q # s => pages'[q] = pages[q]
    BY <1>2, <2>2 DEF ExtractTypes
  <2>9. /\ step' \in [Sweepers -> {"idle", "branches", "watermark", "cursor", "fetch", "save"}]
        /\ step'[s] \in {"fetch", "save"} /\ (step'[s] = "fetch" => ~ (pages[s] + 1 >= MAX_PAGES))
        /\ \A q \in Sweepers : q # s => step'[q] = step[q]
    BY <1>2, <2>2 DEF Goto, ExtractTypes
  <2>10. ExtractTypes'
    BY <1>1, <1>2, <2>5, <2>6, <2>7, <2>8, <2>9 DEF ExtractTypes
  <2>11. Times'
    <3>0. Second(served) <= Second(served') /\ Second(served) \in Nat /\ Second(served') \in Nat
      BY <1>2, <2>6, SecondsInOrder, SecondIsEarlier
    <3>1. ASSUME NEW w \in Stored PROVE w <= Second(served')
      <4>1. w <= Second(served) /\ w \in Nat
        BY <1>2 DEF Times
      <4> QED BY <3>0, <4>1
    <3> QED BY <1>1, <1>2, <2>6, <3>1 DEF Times, Stored
  <2>12. Underway'
    <3> SUFFICES ASSUME NEW q \in Sweepers
                 PROVE  /\ step'[q] \in {"cursor", "fetch", "save"} => since'[q] <= served' /\ pageWatermark'[q] = since'[q]
                        /\ step'[q] = "cursor" => since'[q] <= Second(served')
                        /\ step'[q] \in {"cursor", "fetch"} => pages'[q] < MAX_PAGES
      BY DEF Underway
    <3>1. CASE q = s
      BY <1>2, <2>6, <2>7, <2>8, <2>9, <3>1
    <3>2. CASE q # s
      <4>1. /\ step[q] \in {"cursor", "fetch", "save"} => since[q] <= served /\ pageWatermark[q] = since[q]
            /\ step[q] = "cursor" => since[q] <= Second(served)
            /\ step[q] \in {"cursor", "fetch"} => pages[q] < MAX_PAGES
        BY <1>2 DEF Underway
      <4>2. since[q] \in Nat
        BY <1>2 DEF ExtractTypes
      <4>3. since[q] <= served => since[q] <= served'
        BY <1>2, <2>6, <4>2
      <4>4. since[q] <= Second(served) => since[q] <= Second(served')
        <5>1. Second(served) <= Second(served') /\ Second(served) \in Nat /\ Second(served') \in Nat
          BY <1>2, <2>6, SecondsInOrder, SecondIsEarlier
        <5> QED BY <4>2, <5>1
      <4> QED BY <2>7, <2>8, <2>9, <3>2, <4>1, <4>3, <4>4
    <3> QED BY <3>1, <3>2
  <2>13. Ahead'
    <3> SUFFICES ASSUME NEW i \in Ids, Due(i)'
                 PROVE  /\ \A w \in Stored : w < src[i].upd
                        /\ \A q \in Sweepers :
                             /\ step'[q] = "cursor" => since'[q] < src[i].upd
                             /\ step'[q] = "save" => Second(since'[q]) < src[i].upd
                             /\ step'[q] = "fetch" => After(src[i].upd, i, since'[q], cursor'[q])
      BY <1>1 DEF Ahead, Stored, After
    <3>1. Due(i) /\ After(src[i].upd, i, t, last) /\ (step'[s] = "save" => Second(t) < src[i].upd)
      BY <2>4
    <3>2. \A w \in Stored : w < src[i].upd
      BY <1>2, <3>1 DEF Ahead
    <3>3. ASSUME NEW q \in Sweepers
          PROVE  /\ step'[q] = "cursor" => since'[q] < src[i].upd
                 /\ step'[q] = "save" => Second(since'[q]) < src[i].upd
                 /\ step'[q] = "fetch" => After(src[i].upd, i, since'[q], cursor'[q])
      <4>1. CASE q = s
        BY <2>7, <2>9, <3>1, <4>1
      <4>2. CASE q # s
        BY <1>2, <2>7, <2>9, <3>1, <4>2 DEF Ahead
      <4> QED BY <4>1, <4>2
    <3> QED BY <3>2, <3>3
  <2> QED BY <2>10, <2>11, <2>12, <2>13 DEF EInv
<1> QED BY <1>5, <1>6

\* A page that is landed and then raises leaves its rows, and ends its sweep.
LEMMA PageFailsStep ==
  ASSUME EInv, NEW s \in Sweepers, PageFails(s)
  PROVE  EInv'
<1> DEFINE P == Page(since[s], cursor[s])
           T == {src[i].upd : i \in P} \cup {served}
<1>1. /\ P # {} /\ bronze' = bronze \cup {Row(i) : i \in P} /\ served' = Largest(T)
      /\ End(s) /\ Failure /\ UNCHANGED <<bankVars, geo, storeVars, boot, late>>
      /\ UNCHANGED <<clock, src, open, changes, region, older, newest, fingerprint>>
  BY DEF PageFails, bankVars, storeVars
<1>2. ExtractTypes /\ Times /\ Underway /\ Ahead
  BY DEF EInv
<1>3. clock \in Nat /\ served \in Nat /\ Stored \subseteq Nat /\ served <= clock /\ (\A w \in Stored : w <= Second(served))
  BY <1>2 DEF ExtractTypes, Times, Stored
<1>4. P \subseteq Ids
  BY DEF Page, Eligible
<1>5. T \subseteq 0 .. clock /\ T # {} /\ served \in T
  <2>1. \A i \in P : src[i].upd \in Nat /\ src[i].upd <= clock
    BY <1>2, <1>4 DEF ExtractTypes, Times
  <2> QED BY <1>3, <2>1
<1>6. served' \in 0 .. clock /\ served <= served'
  BY <1>1, <1>3, <1>5, Greatest
<1>7. bronze' \subseteq [id : Ids, val : Nat, region : Nat] /\ \A i \in Ids : Due(i)' => Due(i)
  BY <1>1, <1>2, <1>4, LandedIsNotDue
<1> HIDE DEF P, T
<1>8. /\ step' = [step EXCEPT ![s] = "idle"] /\ since' = [since EXCEPT ![s] = 0] /\ cursor' = [cursor EXCEPT ![s] = 0]
      /\ pages' = [pages EXCEPT ![s] = 0] /\ pageWatermark' = [pageWatermark EXCEPT ![s] = 0]
      /\ failures' = failures + 1
  BY <1>1 DEF End, Goto, Failure
<1>9. ExtractTypes'
  BY <1>1, <1>2, <1>3, <1>6, <1>7, <1>8, ExtractAssumption DEF ExtractTypes
<1>66. Second(served) <= Second(served') /\ Second(served) \in Nat /\ Second(served') \in Nat
  BY <1>3, <1>6, SecondsInOrder, SecondIsEarlier
<1>10. Times'
  <2>1. ASSUME NEW w \in Stored PROVE w <= Second(served')
    <3>1. w \in Nat /\ w <= Second(served)
      BY <1>3
    <3> QED BY <1>66, <3>1
  <2> QED BY <1>1, <1>2, <1>6, <2>1 DEF Times, Stored
<1>11. ASSUME NEW q \in Sweepers
       PROVE  \/ step'[q] = "idle"
              \/ /\ step'[q] = step[q] /\ since'[q] = since[q] /\ cursor'[q] = cursor[q]
                 /\ pages'[q] = pages[q] /\ pageWatermark'[q] = pageWatermark[q] /\ since[q] \in Nat
  BY <1>2, <1>8 DEF ExtractTypes
<1>12. Underway'
  <2> SUFFICES ASSUME NEW q \in Sweepers
               PROVE  /\ step'[q] \in {"cursor", "fetch", "save"} => since'[q] <= served' /\ pageWatermark'[q] = since'[q]
                      /\ step'[q] = "cursor" => since'[q] <= Second(served')
                      /\ step'[q] \in {"cursor", "fetch"} => pages'[q] < MAX_PAGES
    BY DEF Underway
  <2>1. CASE step'[q] = "idle"
    BY <2>1
  <2>2. CASE step'[q] # "idle"
    <3>1. since[q] \in Nat /\ (since[q] <= served => since[q] <= served')
      BY <1>3, <1>6, <1>11, <2>2
    <3>2. since[q] <= Second(served) => since[q] <= Second(served')
      BY <1>66, <3>1
    <3> QED BY <1>2, <1>11, <2>2, <3>1, <3>2 DEF Underway
  <2> QED BY <2>1, <2>2
<1>13. Ahead'
  <2> SUFFICES ASSUME NEW i \in Ids, Due(i)'
               PROVE  /\ \A w \in Stored : w < src[i].upd
                      /\ \A q \in Sweepers :
                           /\ step'[q] = "cursor" => since'[q] < src[i].upd
                           /\ step'[q] = "save" => Second(since'[q]) < src[i].upd
                           /\ step'[q] = "fetch" => After(src[i].upd, i, since'[q], cursor'[q])
    BY <1>1 DEF Ahead, Stored, After
  <2>1. Due(i)
    BY <1>7
  <2> QED BY <1>2, <1>11, <2>1 DEF Ahead
<1> QED BY <1>9, <1>10, <1>12, <1>13 DEF EInv

\* While no sweep stops inside a batch, everything due is ahead of it.
THEOREM ExtractInvariant == ExtractSpec /\ []PagesEndBatches => []EInv
<1>1. EInv /\ PagesEndBatches /\ [ExtractNext]_extractVars => EInv'
  <2> SUFFICES ASSUME EInv, PagesEndBatches, [ExtractNext]_extractVars PROVE EInv'
    OBVIOUS
  <2>1. CASE UNCHANGED extractVars
    <3>1. UNCHANGED <<bankVars, landVars, storeVars, sweepVars, boot, step, late, failures>>
      BY <2>1 DEF extractVars
    <3>2. ExtractTypes'
      BY <3>1 DEF EInv, ExtractTypes, bankVars, landVars, storeVars, sweepVars
    <3>3. \A q \in Sweepers : Rests(q)
      BY <3>1 DEF Rests, sweepVars
    <3>4. \A w \in Stored' : w \in Stored
      BY <3>1 DEF Stored, storeVars
    <3>5. UNCHANGED <<bankVars, bronze, served, late>>
      BY <3>1 DEF landVars
    <3> QED BY <3>2, <3>3, <3>4, <3>5, ControlStep
  <2>2. CASE Tick \/ (\E i \in Ids : Change(i)) \/ (\E S \in SUBSET Ids : Commit(S)) \/ MoveBranch
    BY <2>2, BankSteps
  <2>3. CASE \/ Merge \/ ServiceRestarts
             \/ \E s \in Sweepers : Fail(s) \/ Start(s) \/ Invalidate(s) \/ InvalidateFails(s) \/ ReadFull(s)
                                 \/ ReadWatermark(s) \/ ReadCursor(s) \/ Save(s)
    BY <2>3, ControlSteps
  <2>4. CASE \E s \in Sweepers : FetchPage(s)
    BY <2>4, FetchStep
  <2>5. CASE \E s \in Sweepers : PageFails(s)
    BY <2>5, PageFailsStep
  <2> QED BY <2>1, <2>2, <2>3, <2>4, <2>5 DEF ExtractNext, SweepStep
<1> QED BY <1>1, InitEInv, PTL DEF ExtractSpec

\* In whatever order transactions commit, whatever sweeps overlap, fail and restart, and
\* whichever row the watermark and the cursor id are read from: a sweep that starts now
\* finds every change that is not landed, except those that became visible after the second
\* of their stamp was served or while a sweep had passed them, as long as no sweep has used up
\* its pages inside a batch stamped at a full second.
THEOREM NothingElseIsSkipped == ExtractSpec /\ []PagesEndBatches => []OnlyLateChangesAreSkipped
<1>1. EInv => OnlyLateChangesAreSkipped
  <2> SUFFICES ASSUME EInv, NEW i \in Ids \ late, src[i].val > 0, ~ Landed(i)
               PROVE  i \in Eligible(Largest(Stored), newest.id)
    BY DEF OnlyLateChangesAreSkipped, Stored
  <2>1. Due(i)
    BY DEF Due
  <2>0. PICK z \in Nat : z = Second(served)
    BY SecondIsEarlier DEF EInv, ExtractTypes
  <2>2. Stored \subseteq 0 .. z /\ Stored # {}
    <3>1. Stored \subseteq Nat /\ newest.wm \in Stored
      BY DEF EInv, ExtractTypes, Stored
    <3>2. \A w \in Stored : w <= z
      BY <2>0 DEF EInv, Times
    <3> QED BY <3>1, <3>2
  <2>3. Largest(Stored) \in Stored
    BY <2>2, Greatest
  <2>4. PICK w \in Stored : w = Largest(Stored)
    BY <2>3
  <2>5. w < src[i].upd /\ w \in Nat /\ src[i].upd \in Nat
    BY <2>1, <2>2 DEF EInv, ExtractTypes, Ahead
  <2> QED BY <2>4, <2>5 DEF Eligible, After
<1> QED BY <1>1, ExtractInvariant, PTL
=============================================================================
