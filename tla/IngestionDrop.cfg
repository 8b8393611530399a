\* Two requests at a time; two sends on the same producer fail.
SPECIFICATION Spec
CONSTANTS
  Slots = {r1, r2}
  Lifespan = Lifespan
  Producers = {k1, k2, k3}
  None = None
  FALLBACK_MAX_RETRIES = 2
  MaxFaults = 2
PROPERTY OnlyFailedProducersAreDropped
