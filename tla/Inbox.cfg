SPECIFICATION Spec
CONSTANTS
  s1 = s1
  s2 = s2
  Anna = Anna
  Emil = Emil
  Otto = Otto
  Session = {s1, s2}
  First = {Anna, Emil, Otto}
  Last = {Otto}
  MaxMails = 2
  Skew = 1
  Timeout = 3
  Modes = {"poll", "feed"}
  MaxFaults = 1
  MaxRestarts = 1
  MaxTime = 4
  NoMail = NoMail
  Broker = Broker
SYMMETRY Interchange
INVARIANT ToldApart
PROPERTY OwnSupersedes
INVARIANT CodeInTime
CHECK_DEADLOCK FALSE
