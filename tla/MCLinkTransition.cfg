\* A port nobody classified, no restart: is an outage the poll saw reported?
SPECIFICATION Spec
CONSTANTS
  Ports = {p1}
  Classified = {}
  Pollers = {t1}
  Threshold = 1
  MaxLines = 1
  MaxRestarts = 0
PROPERTIES
  TransitionIsReported
