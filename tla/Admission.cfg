CONSTANTS
  Address = {a}
  Sock = {s}
  connection_threshold = 2
  time_window = 2
  max_connected = 1
  msg_rate_limit = 2
  msg_time_window = 5
  CleanPeriod = 5
  MaxTime = 6
  MaxAttempts = 3
  MaxMessages = 3
  MaxBoots = 2
SPECIFICATION Spec
INVARIANTS BansSurvive MessageLimits
PROPERTY AddressesAreLimited
CHECK_DEADLOCK FALSE
