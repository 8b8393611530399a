\* Two requests at a time, three producer objects, up to two faults.
SPECIFICATION FairSpec
CONSTANTS
  Slots = {r1, r2}
  Lifespan = Lifespan
  Producers = {k1, k2, k3}
  None = None
  FALLBACK_MAX_RETRIES = 2
  MaxFaults = 2
INVARIANTS AnswersAreTrue NoProducerIsLeaked
PROPERTIES EveryRequestEnds BrokerIsPickedUp
