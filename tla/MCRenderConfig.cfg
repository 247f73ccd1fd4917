\* Two runs, of which the second may find what the first has published or left.
CONSTANTS
  MaxRuns = 2
  MaxDeviations = 2
SPECIFICATION Spec
INVARIANTS
  NeverHalfWritten
  FailClosed
  SuccessPublishesBoth
\* The program renders once and is gone; nothing need start it again.
CHECK_DEADLOCK FALSE
