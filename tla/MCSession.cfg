SPECIFICATION MCSpec
CONSTANTS
  RelayKinds = {"usb", "tcp", "forward", "pump", "exec_out", "shell", "exec_in", "install", "server_in", "server_out", "abb_in"}
  Up = 2
  Down = 2
  MaxPort = 1
  Named = {9}
  Remotes = {r1, r2}
  MaxRequests = 3
  c1 = c1
  c2 = c2
  c3 = c3
  nobody = nobody
  u1 = u1
  u2 = u2
  t1 = t1
  none = none
  Procs = {c1, c2}
  Aosp = aosp
  Absent = none
  Torn = torn
  MaxCrashes = 1
  Codes = {1, 2}
  Bad = 0
  MaxTls = 1
  MaxClassic = 1
INVARIANTS  RulesAreServed OnlineIsAgreed  PairedIsMutual  UsbOpensAsAsked
 
CHECK_DEADLOCK FALSE
