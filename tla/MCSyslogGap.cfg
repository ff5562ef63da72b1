\* One call at a time, batches in order, each evaluated or lost.  A tick is 10 s:
\* the fallback engages after 30 s and asks for the last 20 s.
SPECIFICATION Spec
CONSTANTS
  Calls = {c1}
  Silence = 3
  LookBack = 2
  Faults = {"drop"}
  MaxLines = 2
  LastLine = 2
  MaxTime = 6
  MaxMishaps = 0
PROPERTIES
  EveryLineIsEvaluated
