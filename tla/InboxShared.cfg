SPECIFICATION Spec
CONSTANTS
  s1 = s1
  s2 = s2
  Anna = Anna
  Emil = Emil
  Otto = Otto
  Session = {s1, s2}
  First = {Anna}
  Last = {Emil, Otto}
  MaxMails = 2
  Skew = 1
  Timeout = 2
  Modes = {"poll"}
  MaxFaults = 0
  MaxRestarts = 0
  MaxTime = 2
  NoMail = NoMail
  Broker = Broker
SYMMETRY Sessions
INVARIANT NoCrossWiring
CHECK_DEADLOCK FALSE
