\* One port, one poller: does an old "up" ever close an outage?
SPECIFICATION HSpec
CONSTANTS
  Ports = {p1}
  Classified = {}
  Pollers = {t1}
  Threshold = 1
  MaxLines = 1
  MaxRestarts = 0
PROPERTIES
  StaleUpClosesNothing
