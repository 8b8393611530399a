----------------------------- MODULE KafkaWorker -----------------------------
(***************************************************************************)
(* pipeline/worker.py: the consumer group `feature-processor-group` that   *)
(* moves the events topic into bronze.events.                              *)
(*                                                                         *)
(* Each worker runs one thread: poll one message, buffer it, flush the     *)
(* buffer when it is full, old or stuck, commit the offsets.  A flush      *)
(* tries the whole batch MAX_RETRIES_BEFORE_SPLIT times, then row by row,  *)
(* and parks the rows that fail on their own in the dead-letter table.     *)
(* The broker revokes partitions in the middle of any of this, evicts a    *)
(* worker that stays silent, and answers asynchronous commits late.        *)
(*                                                                         *)
(* A message is <<partition, offset>>, offsets starting at 1; a position   *)
(* or a committed offset counts the messages before it.  The order of the  *)
(* rows inside a batch only feeds the insert token, which the code's own   *)
(* comment (worker.py:133-144) shows to be ignored by this ClickHouse, so  *)
(* a batch is a set and rows are tried in any order.  Time is the choice   *)
(* whether FLUSH_INTERVAL has elapsed.                                     *)
(***************************************************************************)
EXTENDS Naturals, Sequences, FiniteSets

CONSTANTS
  Workers,                   \* processes running worker.py in the group
  Partitions,                \* partitions of the topic
  NoWorker,                  \* owner of a partition nobody is assigned
  BATCH_SIZE,
  MAX_RETRIES_BEFORE_SPLIT,
  PauseMayFail,              \* may consumer.pause()/resume() raise?
  MaxLog,                    \* bound: messages per partition
  MaxFaults                  \* bound: outages, lost replies, rebalances, crashes

\* What BATCH_SIZE, the retry limit and the bounds are (worker.py:19-31).
ASSUME WorkerAssumption ==
  /\ NoWorker \notin Workers
  /\ BATCH_SIZE \in Nat \ {0}
  /\ MAX_RETRIES_BEFORE_SPLIT \in Nat \ {0}
  /\ PauseMayFail \in BOOLEAN
  /\ MaxLog \in Nat /\ MaxFaults \in Nat

\* "good": the sink accepts the row.  "poison": it decodes, but no insert of
\* it can succeed (a missing field, a value that does not convert).
\* "undecodable": json.loads or .decode() raises.
Kinds == {"good", "poison", "undecodable"}

VARIABLES
  \* the broker
  log,                  \* log[p]: kinds of the messages of p
  committed,            \* committed[p]: the group's committed offset
  owner,                \* owner[p]: the member the coordinator assigned p to
  inflight,             \* inflight[w]: asynchronous commits not answered yet
  \* the warehouse
  sinkUp,               \* does ClickHouse answer?
  bronze,               \* messages with a row in bronze.events
  dlq,                  \* messages with a row in bronze.events_dead_letter
  \* each worker
  pc,
  assigned,             \* the consumer's view of its assignment
  position,             \* position[w][p]: messages of p handed out by poll()
  batch,
  dirty,
  polling_active,
  batch_stuck,
  commit_retry_needed,
  cause,                \* who called flush_batch
  attempt,              \* whole-batch attempts made by this flush
  todo,                 \* rows the isolation loop has not tried yet
  poison,               \* rows that failed on their own and are not parked yet
  \* environment budget
  faults

brokerVars == <<log, committed, owner, inflight>>
sinkVars   == <<sinkUp, bronze, dlq>>
flushVars  == <<cause, attempt, todo, poison>>
loopVars   == <<assigned, position, batch, dirty, polling_active, batch_stuck,
                commit_retry_needed>>
vars == <<brokerVars, sinkVars, flushVars, loopVars, pc, faults>>

Offsets == [Partitions -> Nat]
NoOffsets == [p \in Partitions |-> 0]
Kind(m) == log[m[1]][m[2]]
Published == {m \in Partitions \X Nat : m[2] \in 1..Len(log[m[1]])}
Decodable(m) == Kind(m) # "undecodable"
\* In the warehouse: what flush_batch's docstring calls "accounted for".
Accounted == bronze \cup dlq

Init ==
  /\ log = [p \in Partitions |-> <<>>]
  /\ committed = NoOffsets
  /\ owner = [p \in Partitions |-> NoWorker]
  /\ inflight = [w \in Workers |-> <<>>]
  /\ sinkUp = TRUE /\ bronze = {} /\ dlq = {}
  /\ pc = [w \in Workers |-> "poll"]
  /\ assigned = [w \in Workers |-> {}]
  /\ position = [w \in Workers |-> NoOffsets]
  /\ batch = [w \in Workers |-> {}]
  /\ dirty = [w \in Workers |-> FALSE]
  /\ polling_active = [w \in Workers |-> TRUE]
  /\ batch_stuck = [w \in Workers |-> FALSE]
  /\ commit_retry_needed = [w \in Workers |-> FALSE]
  /\ cause = [w \in Workers |-> "loop"]
  /\ attempt = [w \in Workers |-> 0]
  /\ todo = [w \in Workers |-> {}]
  /\ poison = [w \in Workers |-> {}]
  /\ faults = 0

Fault == faults < MaxFaults /\ faults' = faults + 1
-----------------------------------------------------------------------------
(* Writes to ClickHouse.  A write the sink accepts may still be reported as *)
(* failed when the reply is lost; a write it does not accept raises.        *)

Write(accepted, stored, acked) ==
  \/ sinkUp /\ accepted /\ stored /\ acked /\ UNCHANGED faults
  \/ sinkUp /\ accepted /\ stored /\ ~acked /\ Fault
  \/ ~(sinkUp /\ accepted) /\ ~stored /\ ~acked /\ UNCHANGED faults

\* ch_client.insert_events(rows): one insert, refused as a whole if any of its
\* rows cannot be converted.
InsertEvents(rows, acked) ==
  \E stored \in BOOLEAN :
    /\ Write(\A m \in rows : Kind(m) = "good", stored, acked)
    /\ bronze' = IF stored THEN bronze \cup rows ELSE bronze
    /\ UNCHANGED <<sinkUp, dlq>>

\* _dead_letter([record]): True only if the insert was acknowledged.
DeadLetter(m, ok) ==
  \E stored \in BOOLEAN :
    /\ Write(TRUE, stored, ok)
    /\ dlq' = IF stored THEN dlq \cup {m} ELSE dlq
    /\ UNCHANGED <<sinkUp, bronze>>
-----------------------------------------------------------------------------
(* Offset commits.  Offsets are those poll() has moved past, whatever       *)
(* became of the messages.  The coordinator only accepts them from the      *)
(* member that owns the partitions.                                         *)

Accept(w, offsets) ==
  committed' = [p \in Partitions |-> IF owner[p] = w THEN offsets[p] ELSE committed[p]]

IsMember(w) == \E p \in Partitions : owner[p] = w

\* consumer.commit(asynchronous=False).  Requests of one consumer are answered
\* in order, so the earlier asynchronous ones have been.
SyncCommit(w, ok) ==
  /\ inflight[w] = <<>>
  /\ \/ ok /\ IsMember(w) /\ Accept(w, position[w]) /\ UNCHANGED faults
     \/ ~ok /\ ~IsMember(w) /\ UNCHANGED <<committed, faults>>
     \/ ~ok /\ IsMember(w) /\ Fault /\ UNCHANGED committed
  /\ UNCHANGED <<log, owner, inflight>>

\* consumer.commit(asynchronous=True): returns at once, answered later.
AsyncCommit(w) ==
  /\ inflight' = [inflight EXCEPT ![w] = Append(@, position[w])]
  /\ UNCHANGED <<log, committed, owner, faults>>

\* The broker accepts the oldest unanswered commit of w.
CommitLands(w) ==
  /\ inflight[w] # <<>> /\ IsMember(w)
  /\ Accept(w, Head(inflight[w]))
  /\ inflight' = [inflight EXCEPT ![w] = Tail(@)]
  /\ UNCHANGED <<log, owner, sinkVars, flushVars, loopVars, pc, faults>>

\* It refuses it instead, and on_commit sets commit_retry_needed: callbacks run
\* inside poll(), commit() and close(), here while a commit call waits.
CommitRefused(w) ==
  /\ inflight[w] # <<>>
  /\ pc[w] \in {"poll", "check", "settled", "down"}
  /\ pc[w] = "settled" => (cause[w] # "loop" \/ commit_retry_needed[w])
  /\ IF IsMember(w) THEN Fault ELSE UNCHANGED faults
  /\ inflight' = [inflight EXCEPT ![w] = Tail(@)]
  /\ commit_retry_needed' = [commit_retry_needed EXCEPT ![w] = pc[w] # "down"]
  /\ UNCHANGED <<log, committed, owner, sinkVars, flushVars, assigned, position, batch,
                 dirty, polling_active, batch_stuck, pc>>
-----------------------------------------------------------------------------
(* The poll half of the loop (worker.py:388-442).                           *)

\* Mutant: a stuck batch that is not full goes on growing.
ShouldPollWhileStuck(w) == Cardinality(batch[w]) < BATCH_SIZE

ShouldPoll(w) == Cardinality(batch[w]) < BATCH_SIZE /\ ~batch_stuck[w]

\* pause()/resume() when the wish changed; if the call raises, polling_active
\* keeps its value and poll() is called all the same.
TogglePolling(w) ==
  \E active \in {ShouldPoll(w)} \cup (IF PauseMayFail THEN {polling_active[w]} ELSE {}) :
    polling_active' = [polling_active EXCEPT ![w] = active]

\* What poll() returns is the next message of an assigned, unpaused partition.
Polled(w, p) ==
  /\ pc[w] = "poll" /\ p \in assigned[w]
  /\ position[w][p] < Len(log[p])
  /\ TogglePolling(w) /\ polling_active'[w]
  /\ position' = [position EXCEPT ![w][p] = @ + 1]
  /\ pc' = [pc EXCEPT ![w] = "check"]

\* The message poll() hands out next from p.
NextOf(w, p) == <<p, position[w][p] + 1>>

PollDecodable(w, p) ==
  /\ Polled(w, p) /\ Decodable(NextOf(w, p))
  /\ batch' = [batch EXCEPT ![w] = @ \cup {NextOf(w, p)}]
  /\ UNCHANGED <<brokerVars, sinkVars, flushVars, assigned, dirty, batch_stuck,
                 commit_retry_needed, faults>>

\* _dead_letter_undecodable: the offset is committable (dirty) if it succeeded.
PollUndecodable(w, p) ==
  /\ Polled(w, p) /\ ~Decodable(NextOf(w, p))
  /\ \E ok \in BOOLEAN :
       /\ DeadLetter(NextOf(w, p), ok)
       /\ dirty' = [dirty EXCEPT ![w] = @ \/ ok]
  /\ UNCHANGED <<brokerVars, flushVars, assigned, batch, batch_stuck, commit_retry_needed>>

\* poll() times out, or reports the end of the partition.
PollNothing(w) ==
  /\ pc[w] = "poll" /\ TogglePolling(w)
  /\ pc' = [pc EXCEPT ![w] = "check"]
  /\ UNCHANGED <<brokerVars, sinkVars, flushVars, assigned, position, batch, dirty,
                 batch_stuck, commit_retry_needed, faults>>

\* The coordinator may give the partitions of w to another member.
Disown(w) ==
  owner' = [p \in Partitions |-> IF owner[p] = w THEN NoWorker ELSE owner[p]]

\* The consumer gives its assignment up.
Release(w) ==
  /\ assigned' = [assigned EXCEPT ![w] = {}]
  /\ position' = [position EXCEPT ![w] = NoOffsets]
  /\ Disown(w)

\* The process ends and its variables with it; a restart begins with fresh ones.
Exit(w) ==
  /\ pc' = [pc EXCEPT ![w] = "down"]
  /\ assigned' = [assigned EXCEPT ![w] = {}]
  /\ position' = [position EXCEPT ![w] = NoOffsets]
  /\ batch' = [batch EXCEPT ![w] = {}]
  /\ dirty' = [dirty EXCEPT ![w] = FALSE]
  /\ polling_active' = [polling_active EXCEPT ![w] = TRUE]
  /\ batch_stuck' = [batch_stuck EXCEPT ![w] = FALSE]
  /\ commit_retry_needed' = [commit_retry_needed EXCEPT ![w] = FALSE]
  /\ cause' = [cause EXCEPT ![w] = "loop"]
  /\ attempt' = [attempt EXCEPT ![w] = 0]
  /\ todo' = [todo EXCEPT ![w] = {}]
  /\ poison' = [poison EXCEPT ![w] = {}]

BeginFlush(w, who) ==
  /\ pc' = [pc EXCEPT ![w] = "insert"]
  /\ cause' = [cause EXCEPT ![w] = who]
  /\ UNCHANGED <<attempt, todo, poison>>

\* poll() dispatches on_revoke: a rebalance, or the discovery of an eviction.
PollRevoked(w) ==
  /\ pc[w] = "poll" /\ assigned[w] # {} /\ Fault /\ TogglePolling(w)
  /\ \/ /\ batch[w] = {} /\ Release(w)
        /\ UNCHANGED <<pc, flushVars>>
     \/ /\ batch[w] # {} /\ BeginFlush(w, "revoke")
        /\ UNCHANGED <<owner, assigned, position>>
  /\ UNCHANGED <<log, committed, inflight, sinkVars, batch, dirty, batch_stuck,
                 commit_retry_needed>>

\* poll() returns an error, run_worker raises KafkaException, and the finally
\* clause closes the consumer, which dispatches on_revoke too.
PollError(w) ==
  /\ pc[w] = "poll" /\ Fault
  /\ \/ batch[w] = {} /\ Exit(w) /\ Disown(w)
     \/ /\ batch[w] # {} /\ TogglePolling(w) /\ BeginFlush(w, "close")
        /\ UNCHANGED <<owner, assigned, position, batch, dirty, batch_stuck,
                       commit_retry_needed>>
  /\ UNCHANGED <<log, committed, inflight, sinkVars>>
-----------------------------------------------------------------------------
(* The second half of the loop (worker.py:444-499).                         *)

\* Mutant: commits for the dead-lettered message although a batch is pending.
CommitDirtyOverBatch(w) ==
  /\ pc[w] = "check" /\ dirty[w]
  /\ \E ok \in BOOLEAN : SyncCommit(w, ok)
  /\ dirty' = [dirty EXCEPT ![w] = FALSE]
  /\ pc' = [pc EXCEPT ![w] = "poll"]
  /\ UNCHANGED <<sinkVars, flushVars, assigned, position, batch, polling_active,
                 batch_stuck, commit_retry_needed>>

\* FLUSH_INTERVAL elapsed with an empty batch and an offset owed a commit.
CommitDirty(w) ==
  /\ pc[w] = "check" /\ dirty[w] /\ batch[w] = {}
  /\ \E ok \in BOOLEAN : SyncCommit(w, ok)
  /\ dirty' = [dirty EXCEPT ![w] = FALSE]
  /\ pc' = [pc EXCEPT ![w] = "poll"]
  /\ UNCHANGED <<sinkVars, flushVars, assigned, position, batch, polling_active,
                 batch_stuck, commit_retry_needed>>

\* A batch is flushed when it is full, stuck, or old enough.
FlushBatch(w) ==
  /\ pc[w] = "check" /\ batch[w] # {}
  /\ BeginFlush(w, "loop")
  /\ UNCHANGED <<brokerVars, sinkVars, loopVars, faults>>

\* FLUSH_INTERVAL has not elapsed, or there is nothing to do.
NoFlush(w) ==
  /\ pc[w] = "check" /\ Cardinality(batch[w]) < BATCH_SIZE /\ ~batch_stuck[w]
  /\ pc' = [pc EXCEPT ![w] = "poll"]
  /\ UNCHANGED <<brokerVars, sinkVars, flushVars, loopVars, faults>>

\* flush_batch returned True.
CommitFlushed(w) ==
  /\ pc[w] = "settled" /\ cause[w] = "loop"
  /\ \/ /\ commit_retry_needed[w]
        /\ \E ok \in BOOLEAN :
             /\ SyncCommit(w, ok)
             /\ commit_retry_needed' = [commit_retry_needed EXCEPT ![w] = ~ok]
     \/ /\ ~commit_retry_needed[w]
        /\ AsyncCommit(w)
        /\ UNCHANGED commit_retry_needed
  /\ batch' = [batch EXCEPT ![w] = {}]
  /\ batch_stuck' = [batch_stuck EXCEPT ![w] = FALSE]
  /\ dirty' = [dirty EXCEPT ![w] = FALSE]
  /\ pc' = [pc EXCEPT ![w] = "poll"]
  /\ UNCHANGED <<sinkVars, flushVars, assigned, position, polling_active>>

\* Mutant: gives the batch up instead of holding it.
HoldBatchDrops(w) ==
  /\ pc[w] = "held" /\ cause[w] = "loop"
  /\ batch' = [batch EXCEPT ![w] = {}]
  /\ pc' = [pc EXCEPT ![w] = "poll"]
  /\ UNCHANGED <<brokerVars, sinkVars, flushVars, assigned, position, batch_stuck, dirty,
                 polling_active, commit_retry_needed, faults>>

\* flush_batch returned False: keep the batch, commit nothing, stop consuming.
HoldBatch(w) ==
  /\ pc[w] = "held" /\ cause[w] = "loop"
  /\ batch_stuck' = [batch_stuck EXCEPT ![w] = TRUE]
  /\ pc' = [pc EXCEPT ![w] = "poll"]
  /\ UNCHANGED <<brokerVars, sinkVars, flushVars, assigned, position, batch, dirty,
                 polling_active, commit_retry_needed, faults>>
-----------------------------------------------------------------------------
(* on_revoke (worker.py:339-369), from poll() or from close().              *)

\* The commit that follows a flush in on_revoke, before the batch is dropped.
RevokeCommit(w) ==
  /\ pc[w] = "settled" /\ cause[w] # "loop"
  /\ \E ok \in BOOLEAN : SyncCommit(w, ok)
  /\ pc' = [pc EXCEPT ![w] = "revoked"]
  /\ UNCHANGED <<sinkVars, flushVars, loopVars>>

\* The batch is dropped, flushed or not, and the partitions are let go; a close
\* ends the process.
FinishRevoke(w) ==
  /\ pc[w] = "revoked" \/ (pc[w] = "held" /\ cause[w] # "loop")
  /\ \/ cause[w] = "close" /\ Exit(w) /\ Disown(w)
     \/ /\ cause[w] = "revoke" /\ Release(w)
        /\ batch' = [batch EXCEPT ![w] = {}]
        /\ batch_stuck' = [batch_stuck EXCEPT ![w] = FALSE]
        /\ cause' = [cause EXCEPT ![w] = "loop"]
        /\ pc' = [pc EXCEPT ![w] = "poll"]
        /\ UNCHANGED <<dirty, polling_active, commit_retry_needed, attempt, todo, poison>>
  /\ UNCHANGED <<log, committed, inflight, sinkVars, faults>>
-----------------------------------------------------------------------------
(* flush_batch (worker.py:203-267).                                         *)

\* One attempt at the whole batch; after the last one, row by row.
InsertBatch(w) ==
  /\ pc[w] = "insert"
  /\ \E acked \in BOOLEAN :
       /\ InsertEvents(batch[w], acked)
       /\ \/ /\ acked
             /\ pc' = [pc EXCEPT ![w] = "settled"]
             /\ attempt' = [attempt EXCEPT ![w] = 0]
             /\ UNCHANGED todo
          \/ /\ ~acked /\ attempt[w] + 1 < MAX_RETRIES_BEFORE_SPLIT
             /\ attempt' = [attempt EXCEPT ![w] = @ + 1]
             /\ UNCHANGED <<pc, todo>>
          \/ /\ ~acked /\ attempt[w] + 1 >= MAX_RETRIES_BEFORE_SPLIT
             /\ pc' = [pc EXCEPT ![w] = "isolate"]
             /\ attempt' = [attempt EXCEPT ![w] = 0]
             /\ todo' = [todo EXCEPT ![w] = batch[w]]
  /\ UNCHANGED <<brokerVars, loopVars, cause, poison>>

\* One row on its own.
InsertRow(w) ==
  /\ pc[w] = "isolate"
  /\ \E m \in todo[w], acked \in BOOLEAN :
       /\ InsertEvents({m}, acked)
       /\ todo' = [todo EXCEPT ![w] = @ \ {m}]
       /\ poison' = [poison EXCEPT ![w] = IF acked THEN @ ELSE @ \cup {m}]
  /\ UNCHANGED <<brokerVars, loopVars, pc, cause, attempt>>

ParkOrSettle(rows) == IF rows = {} THEN "settled" ELSE "park"

\* Every row tried: if all failed, ask ClickHouse why; otherwise park the failed ones.
JudgeRows(w) ==
  /\ pc[w] = "isolate" /\ todo[w] = {}
  /\ pc' = [pc EXCEPT ![w] = IF poison[w] = batch[w] THEN "probe"
                             ELSE ParkOrSettle(poison[w])]
  /\ UNCHANGED <<brokerVars, sinkVars, loopVars, flushVars, faults>>

\* Mutant: a batch whose rows all failed is always taken for an outage.
ProbeSinkNever(w) ==
  /\ pc[w] = "probe"
  /\ pc' = [pc EXCEPT ![w] = "held"]
  /\ poison' = [poison EXCEPT ![w] = {}]
  /\ UNCHANGED <<brokerVars, sinkVars, loopVars, cause, attempt, todo, faults>>

\* _sink_is_reachable: SELECT 1 decides between an outage and a poison batch.
ProbeSink(w) ==
  /\ pc[w] = "probe"
  /\ \/ sinkUp /\ pc' = [pc EXCEPT ![w] = ParkOrSettle(poison[w])] /\ UNCHANGED poison
     \/ /\ ~sinkUp
        /\ pc' = [pc EXCEPT ![w] = "held"]
        /\ poison' = [poison EXCEPT ![w] = {}]
  /\ UNCHANGED <<brokerVars, sinkVars, loopVars, cause, attempt, todo, faults>>

\* Mutant: a failed dead-letter write counts as done.
ParkRowSwallows(w) ==
  /\ pc[w] = "park"
  /\ \E m \in poison[w], ok \in BOOLEAN :
       /\ DeadLetter(m, ok)
       /\ poison' = [poison EXCEPT ![w] = @ \ {m}]
       /\ pc' = [pc EXCEPT ![w] = ParkOrSettle(poison[w] \ {m})]
  /\ UNCHANGED <<brokerVars, loopVars, cause, attempt, todo>>

\* all(_dead_letter([record]) ...): stops at the first write that fails.
ParkRow(w) ==
  /\ pc[w] = "park"
  /\ \E m \in poison[w], ok \in BOOLEAN :
       /\ DeadLetter(m, ok)
       /\ poison' = [poison EXCEPT ![w] = IF ok THEN @ \ {m} ELSE {}]
       /\ pc' = [pc EXCEPT ![w] = IF ok THEN ParkOrSettle(poison[w] \ {m}) ELSE "held"]
  /\ UNCHANGED <<brokerVars, loopVars, cause, attempt, todo>>
-----------------------------------------------------------------------------
(* Outside the worker: producers, ClickHouse, the group coordinator, the    *)
(* container runtime.                                                       *)

\* ingestion/main.py publishes a message.
Publish ==
  /\ \E p \in Partitions, k \in Kinds :
       Len(log[p]) < MaxLog /\ log' = [log EXCEPT ![p] = Append(@, k)]
  /\ UNCHANGED <<committed, owner, inflight, sinkVars, flushVars, loopVars, pc, faults>>

SinkFails ==
  /\ sinkUp /\ Fault /\ sinkUp' = FALSE
  /\ UNCHANGED <<bronze, dlq, brokerVars, flushVars, loopVars, pc>>

SinkRecovers ==
  /\ ~sinkUp /\ sinkUp' = TRUE
  /\ UNCHANGED <<bronze, dlq, brokerVars, flushVars, loopVars, pc, faults>>

\* The coordinator gives free partitions to a member that holds none; the
\* consumer starts at the committed offsets.  The client lets no commit of the
\* previous generation cross into a new one.
Assign(w) ==
  /\ pc[w] = "poll" /\ assigned[w] = {} /\ inflight[w] = <<>>
  /\ \E ps \in SUBSET {p \in Partitions : owner[p] = NoWorker} :
       /\ ps # {}
       /\ assigned' = [assigned EXCEPT ![w] = ps]
       /\ position' = [position EXCEPT ![w] =
                         [p \in Partitions |-> IF p \in ps THEN committed[p] ELSE 0]]
       /\ owner' = [p \in Partitions |-> IF p \in ps THEN w ELSE owner[p]]
  /\ UNCHANGED <<log, committed, inflight, sinkVars, flushVars, pc, batch, dirty,
                 polling_active, batch_stuck, commit_retry_needed, faults>>

\* The session of w times out: it loses its partitions and does not know yet.
Evict(w) ==
  /\ IsMember(w)
  /\ IF pc[w] = "down" THEN UNCHANGED faults ELSE Fault
  /\ Disown(w)
  /\ UNCHANGED <<log, committed, inflight, sinkVars, flushVars, loopVars, pc>>

\* The process dies between two steps.
Crash(w) ==
  /\ pc[w] # "down" /\ Fault
  /\ Exit(w)
  /\ UNCHANGED <<brokerVars, sinkVars>>

\* restart: unless-stopped (docker-compose.yml) starts it again as a new member.
Restart(w) ==
  /\ pc[w] = "down" /\ ~IsMember(w)
  /\ pc' = [pc EXCEPT ![w] = "poll"]
  /\ UNCHANGED <<brokerVars, sinkVars, flushVars, loopVars, faults>>
-----------------------------------------------------------------------------
LoopStep(w) ==
  \/ \E p \in Partitions : PollDecodable(w, p) \/ PollUndecodable(w, p)
  \/ PollNothing(w) \/ PollRevoked(w) \/ PollError(w)
  \/ CommitDirty(w) \/ FlushBatch(w) \/ NoFlush(w) \/ CommitFlushed(w) \/ HoldBatch(w)
  \/ RevokeCommit(w) \/ FinishRevoke(w)

FlushStep(w) ==
  InsertBatch(w) \/ InsertRow(w) \/ JudgeRows(w) \/ ProbeSink(w) \/ ParkRow(w)

GroupStep(w) == CommitLands(w) \/ CommitRefused(w) \/ Assign(w) \/ Evict(w)

Next ==
  \/ \E w \in Workers : LoopStep(w) \/ FlushStep(w) \/ GroupStep(w) \/ Crash(w) \/ Restart(w)
  \/ Publish \/ SinkFails \/ SinkRecovers

Spec == Init /\ [][Next]_vars

(* The main loop and flush_batch never block for ever (poll has a timeout,  *)
(* every ClickHouse call one too), FLUSH_INTERVAL elapses, a message that   *)
(* can be delivered is delivered in the end, the broker answers, and the    *)
(* container runtime restarts the process.  Outages and other faults are    *)
(* finite in number, and a finite outage ends.                              *)
Fairness ==
  /\ \A w \in Workers :
       /\ WF_vars(LoopStep(w)) /\ WF_vars(FlushStep(w))
       /\ SF_vars(\E p \in Partitions : PollDecodable(w, p) \/ PollUndecodable(w, p))
       /\ SF_vars(FlushBatch(w))
       /\ SF_vars(Assign(w)) /\ SF_vars(CommitLands(w) \/ CommitRefused(w))
       /\ WF_vars(Restart(w)) /\ WF_vars(pc[w] = "down" /\ Evict(w))
  /\ WF_vars(SinkRecovers)

FairSpec == Spec /\ Fairness
-----------------------------------------------------------------------------
PCs == {"poll", "check", "insert", "isolate", "probe", "park", "settled", "held",
        "revoked", "down"}

TypeOK ==
  /\ log \in [Partitions -> Seq(Kinds)]
  /\ committed \in Offsets
  /\ owner \in [Partitions -> Workers \cup {NoWorker}]
  /\ inflight \in [Workers -> Seq(Offsets)]
  /\ sinkUp \in BOOLEAN
  /\ bronze \subseteq Published /\ dlq \subseteq Published
  /\ pc \in [Workers -> PCs]
  /\ assigned \in [Workers -> SUBSET Partitions]
  /\ position \in [Workers -> Offsets]
  /\ batch \in [Workers -> SUBSET Published]
  /\ dirty \in [Workers -> BOOLEAN]
  /\ polling_active \in [Workers -> BOOLEAN]
  /\ batch_stuck \in [Workers -> BOOLEAN]
  /\ commit_retry_needed \in [Workers -> BOOLEAN]
  /\ cause \in [Workers -> {"loop", "revoke", "close"}]
  /\ attempt \in [Workers -> Nat]
  /\ todo \in [Workers -> SUBSET Published]
  /\ poison \in [Workers -> SUBSET Published]
  /\ faults \in Nat

\* The offset the group has committed never passes a message that decodes and is
\* in neither table: the promise of flush_batch's docstring and of every "hold
\* the offset" branch, across batches, rebalances, zombies and crashes.
CommittedIsAccounted ==
  \A p \in Partitions : \A o \in 1..committed[p] :
    Decodable(<<p, o>>) => <<p, o>> \in Accounted

\* The group as its contract sees it; an undecodable message is not protected
\* (see UndecodableIsKept).
Contract == INSTANCE DeliveryContract
              WITH durable <- Accounted, Protected <- {"good", "poison"}

\* The group implements the delivery contract: in particular committed offsets
\* never move backwards, although evicted workers go on committing.
ImplementsContract == Contract!Spec

\* A batch that failed to flush changes only by being resolved or dropped, so
\* every retry is of exactly the messages that failed (worker.py:324-328).
StuckBatchIsFrozen ==
  [][\A w \in Workers : batch_stuck[w] => batch'[w] \in {batch[w], {}}]_vars

\* Nobody buffers more than one full batch, however long the sink is down: the
\* memory leak worker.py:22-28 describes is gone.  It relies on pause() working.
BatchIsBounded == \A w \in Workers : Cardinality(batch[w]) <= BATCH_SIZE

\* Every message that decodes reaches a table, whatever the order of outages,
\* lost replies, rebalances and restarts.
DecodableIsDelivered ==
  \A p \in Partitions, o \in 1..MaxLog :
    (o <= Len(log[p]) /\ Decodable(<<p, o>>)) ~> (<<p, o>> \in Accounted)

\* A stuck batch is resolved in the end: neither a poison row nor an outage
\* that is over blocks the partition for ever (worker.py:240-244).
StuckBatchResolves == \A w \in Workers : batch_stuck[w] ~> ~batch_stuck[w]

\* An undecodable message whose dead-letter write failed keeps its offset
\* uncommitted until it is parked: "If the DLQ write failed, committing would
\* destroy the only remaining copy, so hold" (worker.py:433-435).
UndecodableIsKept ==
  \A p \in Partitions : \A o \in 1..committed[p] : <<p, o>> \in Accounted

\* Only rows the sink refuses are dead-lettered; an outage makes the worker hold
\* the batch: 'Distinguish "ClickHouse is down" (retry forever, do not lose data)
\* from "one row is poison" (isolate it)' (worker.py:229-230).
OnlyRefusedRowsAreParked == \A m \in dlq : Kind(m) # "good"
=============================================================================
