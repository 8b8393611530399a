\* Windows of one and two days seen over two midnights, so that the windows of both
\* lengths from one day occur; the service and a rescore, three investigations.
SPECIFICATION Spec
CONSTANTS
  Sweepers = {service, rescore}
  WINDOW_CHOICES = {1, 2}
  WINDOW_DAYS = 1
  MAX_CAUSES = 1
  FirstDay = 2
  MaxDay = 3
  MaxRuns = 3
INVARIANTS EvidenceComesFirst QuietVerdictSilences
  FindingIsServed PageAndListAgree FiguresAreOneRuns
SYMMETRY Symmetry
