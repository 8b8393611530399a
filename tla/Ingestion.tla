------------------------------ MODULE Ingestion ------------------------------
(***************************************************************************)
(* ingestion/main.py: POST /events, the way of an event into the topic or, *)
(* when Kafka does not answer, straight into bronze.events.                *)
(*                                                                         *)
(* One asyncio process serves the requests; they share one Kafka producer, *)
(* built on demand under a lock at most once per cooldown, and thrown away *)
(* by whoever sees a send fail.  A step is what a coroutine does between   *)
(* two awaits.  A slot is a place for one request at a time: it serves one *)
(* after another, and everything kept about a request is kept until the    *)
(* slot takes the next.  The lifespan handler also uses the producer, at   *)
(* start-up and at shutdown.                                               *)
(***************************************************************************)
EXTENDS Naturals, FiniteSets

CONSTANTS
  Slots,                 \* requests the process serves at the same time
  Lifespan,              \* the start-up and shutdown handler
  Producers,             \* AIOKafkaProducer objects, reused once forgotten
  None,                  \* no producer, no holder of the lock
  FALLBACK_MAX_RETRIES,
  MaxFaults              \* bound: outages, late or refused sends, crashes

\* Distinct identities; an object for the current producer and one for each slot
\* that still holds an earlier one.
ASSUME IngestionAssumption ==
  /\ Lifespan \notin Slots /\ None \notin Slots \cup Producers \cup {Lifespan}
  /\ IsFiniteSet(Slots) /\ IsFiniteSet(Producers)
  /\ Cardinality(Producers) > Cardinality(Slots)
  /\ FALLBACK_MAX_RETRIES \in Nat \ {0} /\ MaxFaults \in Nat

Tasks == Slots \cup {Lifespan}

VARIABLES
  brokerUp, sinkUp,      \* do Kafka and ClickHouse answer?
  producer,              \* the module's global
  conn,                  \* conn[p]: "open", "closing" (in stop()) or "closed"
  lock,                  \* holder of _producer_lock
  cooling,               \* time.monotonic() < _next_producer_attempt
  pc,
  active,                \* active_producer of the request in a slot
  buffered,              \* its record is in that producer's buffer
  places,                \* where the event is: "topic", "bronze", "dead_letter"
  attempt,               \* direct inserts tried
  status,                \* HTTP status answered, 0 before
  faults

sinkVars == <<brokerUp, sinkUp>>
poolVars == <<producer, conn, lock, cooling>>
slotVars == <<active, buffered, places, attempt, status>>
vars == <<sinkVars, poolVars, slotVars, pc, faults>>

Init ==
  /\ brokerUp \in BOOLEAN /\ sinkUp = TRUE
  /\ producer = None /\ lock = None /\ cooling = FALSE
  /\ conn = [p \in Producers |-> "closed"]
  /\ pc = [t \in Tasks |-> IF t = Lifespan THEN "get" ELSE "idle"]
  /\ active = [r \in Slots |-> None]
  /\ buffered = [r \in Slots |-> FALSE]
  /\ places = [r \in Slots |-> {}]
  /\ attempt = [r \in Slots |-> 0]
  /\ status = [r \in Slots |-> 0]
  /\ faults = 0

Fault == faults < MaxFaults /\ faults' = faults + 1
FaultUnless(cond) == IF cond THEN UNCHANGED faults ELSE Fault

\* The response goes out and the slot is free.
Answer(r, code) ==
  /\ status' = [status EXCEPT ![r] = code]
  /\ pc' = [pc EXCEPT ![r] = "idle"]
-----------------------------------------------------------------------------
(* The producer: get_producer, _start_producer, drop_producer.              *)

\* get_producer() returns p, or None: the request sends or falls back, the
\* start-up handler yields either way.
Return(t, p) ==
  IF t = Lifespan
    THEN pc' = [pc EXCEPT ![t] = "serving"] /\ UNCHANGED slotVars
    ELSE /\ pc' = [pc EXCEPT ![t] = IF p = None THEN "fallback" ELSE "send"]
         /\ active' = [active EXCEPT ![t] = p]
         /\ UNCHANGED <<buffered, places, attempt, status>>

\* Mutant: the code this one replaced, which tried once at start-up and gave up.
GetProducerOnce(t) ==
  /\ pc[t] = "get"
  /\ \/ (producer # None \/ t # Lifespan) /\ Return(t, producer)
     \/ /\ producer = None /\ t = Lifespan
        /\ pc' = [pc EXCEPT ![t] = "await_lock"] /\ UNCHANGED slotVars
  /\ UNCHANGED <<sinkVars, poolVars, faults>>

\* The checks before the lock.
GetProducer(t) ==
  /\ pc[t] = "get"
  /\ \/ (producer # None \/ cooling) /\ Return(t, producer)
     \/ /\ producer = None /\ ~cooling
        /\ pc' = [pc EXCEPT ![t] = "await_lock"] /\ UNCHANGED slotVars
  /\ UNCHANGED <<sinkVars, poolVars, faults>>

\* Mutant: what was checked before the wait for the lock is taken for granted.
LockedUnchecked(t) ==
  /\ pc[t] = "await_lock" /\ lock = None
  /\ lock' = t /\ cooling' = TRUE
  /\ pc' = [pc EXCEPT ![t] = "starting"]
  /\ UNCHANGED <<producer, conn, slotVars, sinkVars, faults>>

\* The same checks under the lock; one attempt, and the cooldown begins.
Locked(t) ==
  /\ pc[t] = "await_lock" /\ lock = None
  /\ \/ /\ producer # None \/ cooling
        /\ Return(t, producer)
        /\ UNCHANGED <<lock, cooling>>
     \/ /\ producer = None /\ ~cooling
        /\ lock' = t /\ cooling' = TRUE
        /\ pc' = [pc EXCEPT ![t] = "starting"]
        /\ UNCHANGED slotVars
  /\ UNCHANGED <<producer, conn, sinkVars, faults>>

Unused(p) == conn[p] = "closed" /\ \A r \in Slots : active[r] # p \/ pc[r] = "idle"

\* A new object, one like another.  There always is one: a closed producer only
\* counts as used while the request that used it runs.
Fresh == CHOOSE p \in Producers : Unused(p)

\* candidate.start() succeeded or not; a candidate that did not is stopped.
Started(t) ==
  /\ pc[t] = "starting" /\ lock' = None
  /\ \/ /\ brokerUp
        /\ producer' = Fresh
        /\ conn' = [conn EXCEPT ![Fresh] = "open"]
        /\ Return(t, Fresh)
        /\ UNCHANGED faults
     \/ /\ FaultUnless(~brokerUp)
        /\ producer' = None /\ UNCHANGED conn
        /\ Return(t, None)
  /\ UNCHANGED <<cooling, sinkVars>>

\* What follows drop_producer(): the fallback, or the end of the process.
Dropped(t) == pc' = [pc EXCEPT ![t] = IF t = Lifespan THEN "down" ELSE "fallback"]

\* drop_producer(): the current producer goes, whichever one the send had used.
Drop(t) ==
  /\ pc[t] = "drop" /\ lock = None
  /\ \/ producer = None /\ Dropped(t) /\ UNCHANGED poolVars
     \/ /\ producer # None
        /\ conn' = [conn EXCEPT ![producer] = "closing"]
        /\ producer' = None /\ lock' = t
        /\ pc' = [pc EXCEPT ![t] = "stopping"]
        /\ UNCHANGED cooling
  /\ UNCHANGED <<sinkVars, slotVars, faults>>

\* Mutant: stop() fails and the lock is never released.
StoppedKeepsLock(t) ==
  /\ pc[t] = "stopping"
  /\ \A r \in Slots : buffered[r] => conn[active[r]] # "closing"
  /\ conn' = [p \in Producers |-> IF conn[p] = "closing" THEN "closed" ELSE conn[p]]
  /\ Dropped(t)
  /\ UNCHANGED <<lock, producer, cooling, sinkVars, slotVars, faults>>

\* stale.stop() returns once its buffer is empty.
Stopped(t) ==
  /\ pc[t] = "stopping"
  /\ \A r \in Slots : buffered[r] => conn[active[r]] # "closing"
  /\ conn' = [p \in Producers |-> IF conn[p] = "closing" THEN "closed" ELSE conn[p]]
  /\ lock' = None
  /\ Dropped(t)
  /\ UNCHANGED <<producer, cooling, sinkVars, slotVars, faults>>

CooldownEnds ==
  /\ cooling /\ cooling' = FALSE
  /\ UNCHANGED <<producer, conn, lock, sinkVars, slotVars, pc, faults>>
-----------------------------------------------------------------------------
(* A request (ingest_event and the handlers in front of it).                *)

Forget(r) ==
  /\ active' = [active EXCEPT ![r] = None]
  /\ places' = [places EXCEPT ![r] = {}]
  /\ attempt' = [attempt EXCEPT ![r] = 0]
  /\ UNCHANGED buffered

\* A valid event of a served tenant.
Accept(r) ==
  /\ pc[Lifespan] = "serving" /\ pc[r] = "idle" /\ ~buffered[r]
  /\ Forget(r)
  /\ status' = [status EXCEPT ![r] = 0]
  /\ pc' = [pc EXCEPT ![r] = "get"]
  /\ UNCHANGED <<sinkVars, poolVars, faults>>

\* An event that does not validate, or of a tenant that is not served.
Refuse(r) ==
  /\ pc[Lifespan] = "serving" /\ pc[r] = "idle" /\ ~buffered[r]
  /\ Forget(r)
  /\ status' = [status EXCEPT ![r] = 0]
  /\ pc' = [pc EXCEPT ![r] = "refuse"]
  /\ UNCHANGED <<sinkVars, poolVars, faults>>

\* limit_events_body_size answers before the body is read.
RefuseOversized(r) ==
  /\ pc[Lifespan] = "serving" /\ pc[r] = "idle" /\ ~buffered[r]
  /\ Forget(r) /\ Answer(r, 413)
  /\ UNCHANGED <<sinkVars, poolVars, faults>>

\* A ClickHouse write of r's event into a table: is it stored, is it acknowledged?
Write(r, table, acked) ==
  /\ FaultUnless(acked \/ ~sinkUp)
  /\ \/ sinkUp /\ places' = [places EXCEPT ![r] = @ \cup {table}]
     \/ ~acked /\ UNCHANGED places

\* _dead_letter_validation_failure never raises: 422 either way.
DeadLetter(r) ==
  /\ pc[r] = "refuse"
  /\ \E acked \in BOOLEAN : Write(r, "dead_letter", acked)
  /\ Answer(r, 422)
  /\ UNCHANGED <<sinkVars, poolVars, active, buffered, attempt>>

\* send_and_wait hands the record to the producer; a stopped one raises.
Send(r) ==
  /\ pc[r] = "send"
  /\ \/ conn[active[r]] = "open" /\ buffered' = [buffered EXCEPT ![r] = TRUE]
        /\ pc' = [pc EXCEPT ![r] = "sending"]
     \/ conn[active[r]] # "open" /\ pc' = [pc EXCEPT ![r] = "drop"] /\ UNCHANGED buffered
  /\ UNCHANGED <<sinkVars, poolVars, active, places, attempt, status, faults>>

\* The broker takes a record from a buffer, perhaps long after its request gave
\* up; the acknowledgement reaches a request that still waits, or is late.
Deliver(r) ==
  /\ buffered[r] /\ brokerUp
  /\ buffered' = [buffered EXCEPT ![r] = FALSE]
  /\ places' = [places EXCEPT ![r] = @ \cup {"topic"}]
  /\ \/ pc[r] = "sending" /\ Answer(r, 202) /\ UNCHANGED faults
     \/ FaultUnless(pc[r] # "sending") /\ UNCHANGED <<pc, status>>
  /\ UNCHANGED <<sinkVars, poolVars, active, attempt>>

\* The producer gives a record up; a request that still waits gets the exception.
Expire(r) ==
  /\ buffered[r] /\ FaultUnless(~brokerUp)
  /\ buffered' = [buffered EXCEPT ![r] = FALSE]
  /\ pc' = [pc EXCEPT ![r] = IF @ = "sending" THEN "drop" ELSE @]
  /\ UNCHANGED <<sinkVars, poolVars, active, places, attempt, status>>

\* Mutant: the event counts as queued although nothing came back.
SendTimesOutAccepted(r) ==
  /\ pc[r] = "sending" /\ FaultUnless(~brokerUp \/ ~buffered[r])
  /\ Answer(r, 202)
  /\ UNCHANGED <<sinkVars, poolVars, active, buffered, places, attempt>>

\* wait_for gives up after five seconds; the record stays where it is.
SendTimesOut(r) ==
  /\ pc[r] = "sending" /\ FaultUnless(~brokerUp \/ ~buffered[r])
  /\ pc' = [pc EXCEPT ![r] = "drop"]
  /\ UNCHANGED <<sinkVars, poolVars, slotVars>>

\* One of the attempts of _insert_direct_to_clickhouse.
Fallback(r) ==
  /\ pc[r] = "fallback"
  /\ attempt' = [attempt EXCEPT ![r] = @ + 1]
  /\ \E acked \in BOOLEAN :
       /\ Write(r, "bronze", acked)
       /\ \/ acked /\ Answer(r, 202)
          \/ ~acked /\ attempt[r] + 1 >= FALLBACK_MAX_RETRIES /\ Answer(r, 500)
          \/ ~acked /\ attempt[r] + 1 < FALLBACK_MAX_RETRIES /\ UNCHANGED <<pc, status>>
  /\ UNCHANGED <<sinkVars, poolVars, active, buffered>>
-----------------------------------------------------------------------------
(* The process and its surroundings.                                        *)

\* uvicorn lets the requests finish, then the handler drops the producer.
Shutdown ==
  /\ pc[Lifespan] = "serving" /\ \A r \in Slots : pc[r] = "idle"
  /\ Fault
  /\ pc' = [pc EXCEPT ![Lifespan] = "drop"]
  /\ UNCHANGED <<sinkVars, poolVars, slotVars>>

Crash ==
  /\ pc[Lifespan] # "down" /\ Fault
  /\ pc' = [t \in Tasks |-> IF t = Lifespan THEN "down" ELSE "idle"]
  /\ producer' = None /\ lock' = None
  /\ conn' = [p \in Producers |-> "closed"]
  /\ buffered' = [r \in Slots |-> FALSE]
  /\ UNCHANGED <<cooling, sinkVars, active, places, attempt, status>>

\* A new process: the lifespan handler runs before any request.
Boot ==
  /\ pc[Lifespan] = "down"
  /\ pc' = [pc EXCEPT ![Lifespan] = "get"]
  /\ cooling' = FALSE
  /\ UNCHANGED <<producer, conn, lock, sinkVars, slotVars, faults>>

Outage == /\ Fault
          /\ \/ brokerUp /\ brokerUp' = FALSE /\ UNCHANGED sinkUp
             \/ sinkUp /\ sinkUp' = FALSE /\ UNCHANGED brokerUp
          /\ UNCHANGED <<poolVars, slotVars, pc>>

BrokerRecovers ==
  /\ ~brokerUp /\ brokerUp' = TRUE
  /\ UNCHANGED <<sinkUp, poolVars, slotVars, pc, faults>>

SinkRecovers ==
  /\ ~sinkUp /\ sinkUp' = TRUE
  /\ UNCHANGED <<brokerUp, poolVars, slotVars, pc, faults>>
-----------------------------------------------------------------------------
ProducerStep(t) == GetProducer(t) \/ Locked(t) \/ Started(t) \/ Drop(t) \/ Stopped(t)

Arrive(r) == Accept(r) \/ Refuse(r) \/ RefuseOversized(r)

RequestStep(r) == DeadLetter(r) \/ Send(r) \/ SendTimesOut(r) \/ Fallback(r)

BrokerStep(r) == Deliver(r) \/ Expire(r)

Next ==
  \/ \E t \in Tasks : ProducerStep(t)
  \/ \E r \in Slots : Arrive(r) \/ RequestStep(r) \/ BrokerStep(r)
  \/ CooldownEnds \/ Shutdown \/ Crash \/ Boot
  \/ Outage \/ BrokerRecovers \/ SinkRecovers

Spec == Init /\ [][Next]_vars

(* asyncio runs every task that can run, and its lock is first come, first  *)
(* served; a send ends after five seconds at the latest, and aiokafka sends *)
(* or gives up what it buffers; the cooldown ends; the process is restarted;*)
(* outages end; and valid events keep coming.                               *)
Fairness ==
  /\ \A t \in Tasks : WF_vars(ProducerStep(t)) /\ SF_vars(Locked(t)) /\ SF_vars(Drop(t))
  /\ \A r \in Slots :
       WF_vars(RequestStep(r)) /\ WF_vars(BrokerStep(r)) /\ SF_vars(Accept(r))
  /\ WF_vars(CooldownEnds) /\ WF_vars(Boot)
  /\ WF_vars(BrokerRecovers) /\ WF_vars(SinkRecovers)

FairSpec == Spec /\ Fairness
-----------------------------------------------------------------------------
\* Where a coroutine can be.
Points == {"idle", "get", "await_lock", "starting", "send", "sending", "drop", "stopping",
           "fallback", "refuse", "serving", "down"}

TypeOK ==
  /\ brokerUp \in BOOLEAN /\ sinkUp \in BOOLEAN
  /\ producer \in Producers \cup {None}
  /\ conn \in [Producers -> {"open", "closing", "closed"}]
  /\ lock \in Tasks \cup {None}
  /\ cooling \in BOOLEAN
  /\ pc \in [Tasks -> Points]
  /\ active \in [Slots -> Producers \cup {None}]
  /\ buffered \in [Slots -> BOOLEAN]
  /\ places \in [Slots -> SUBSET {"topic", "bronze", "dead_letter"}]
  /\ attempt \in [Slots -> 0 .. FALLBACK_MAX_RETRIES]
  /\ status \in [Slots -> {0, 202, 413, 422, 500}]
  /\ faults \in Nat

\* "Event queued successfully" is true: the event is in the topic or in
\* bronze.events, whatever happened to the producer it was sent with; and an event
\* that was refused is in neither.
AnswersAreTrue ==
  \A r \in Slots :
    /\ status[r] = 202 => places[r] \cap {"topic", "bronze"} # {}
    /\ status[r] \in {413, 422} => places[r] \subseteq {"dead_letter"}

\* No producer that was started is forgotten without being stopped, although
\* requests race to build and to drop it ("never leak an unclosed producer",
\* main.py:87).
NoProducerIsLeaked == \A p \in Producers : conn[p] = "open" => producer = p

\* Every request is answered, or its process is gone: nobody waits for ever on the
\* lock, on a producer that is being stopped, or on the broker.
EveryRequestEnds == \A r \in Slots : pc[r] # "idle" ~> pc[r] = "idle"

\* A broker that comes up late, or restarts, is picked up, "instead of stranding
\* the service on the fallback path forever" (main.py:94-96).
BrokerIsPickedUp == []<>(producer # None)

\* A request only drops the producer its own send failed on: "Discard a producer
\* that failed mid-send so the next call rebuilds it." (main.py:118).
OnlyFailedProducersAreDropped ==
  [][\A r \in Slots : Drop(r) /\ producer # None => producer = active[r]]_vars
=============================================================================
