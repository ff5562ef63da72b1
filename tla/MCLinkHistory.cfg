\* One port nobody classified, two polls at a time: lost and late lines, failing polls, a hand that resolves.
SPECIFICATION HSpec
CONSTANTS
  Ports = {p1}
  Classified = {}
  Pollers = {t1, t2}
  Threshold = 1
  MaxLines = 1
  MaxRestarts = 0
SYMMETRY Interchangeable
PROPERTIES
  UnusedPortsStayQuiet
  OldPollsChangeNothing
