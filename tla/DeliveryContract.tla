-------------------------- MODULE DeliveryContract --------------------------
(***************************************************************************)
(* What a consumer group that moves a topic into the warehouse promises,   *)
(* whatever its batches, retries, rebalances and crashes look like:        *)
(*                                                                         *)
(*   - messages are appended to partitions;                                *)
(*   - a message becomes durable when it is in bronze.events or in         *)
(*     bronze.events_dead_letter, and stays so;                            *)
(*   - the committed offset of a partition never moves backwards and only  *)
(*     passes a message whose kind is Protected once it is durable.        *)
(*                                                                         *)
(* pipeline/worker.py states the last point in the docstring of            *)
(* flush_batch ("fully accounted for (inserted or dead-lettered) and the   *)
(* Kafka offset may be committed").                                        *)
(***************************************************************************)
EXTENDS Naturals, Sequences

CONSTANTS
  Partitions,  \* partitions of the topic
  Kinds,       \* what a message can turn out to be
  Protected    \* the kinds the committed offset may not pass while not durable

VARIABLES
  log,        \* log[p]: the kinds of the messages appended to p, in order
  durable,    \* the messages <<p, offset>> the warehouse holds
  committed   \* committed[p]: how many messages of p the group has committed

vars == <<log, durable, committed>>

Init ==
  /\ log = [p \in Partitions |-> <<>>]
  /\ durable = {}
  /\ committed = [p \in Partitions |-> 0]

\* A producer appends one message.
Publish ==
  /\ \E p \in Partitions, k \in Kinds : log' = [log EXCEPT ![p] = Append(@, k)]
  /\ UNCHANGED <<durable, committed>>

\* Some messages of the log become durable.
Persist ==
  /\ durable \subseteq durable'
  /\ \A m \in durable' \ durable : m \in Partitions \X Nat /\ m[2] \in 1..Len(log[m[1]])
  /\ UNCHANGED <<log, committed>>

\* The committed offsets advance, past durable or unprotected messages only.
Commit ==
  /\ committed' \in [Partitions -> Nat]
  /\ \A p \in Partitions :
       /\ committed'[p] \in committed[p]..Len(log[p])
       /\ \A o \in 1..committed'[p] : log[p][o] \in Protected => <<p, o>> \in durable
  /\ UNCHANGED <<log, durable>>

Next == Publish \/ Persist \/ Commit

Spec == Init /\ [][Next]_vars
=============================================================================
