\* One classified port: lines lost and late, polls that fail, one restart.
SPECIFICATION Spec
CONSTANTS
  Ports = {p1}
  Classified = {p1}
  Pollers = {t1}
  Threshold = 2
  MaxLines = 1
  MaxRestarts = 1
PROPERTIES
  UpClears
  ReachableClears
