\* One process and two investigations of one window are enough.
SPECIFICATION Spec
CONSTANTS
  Sweepers = {service}
  WINDOW_CHOICES = {1}
  WINDOW_DAYS = 1
  MAX_CAUSES = 1
  FirstDay = 1
  MaxDay = 1
  MaxRuns = 3
INVARIANT SupersededNeverServed
