SPECIFICATION MCSpec
CONSTANTS
  Instances = {n1, n2, n3}
  InstanceType <- MCInstanceType
  InstanceSerial <- MCInstanceSerial
  s1 = s1
  s2 = s2
  h1 = h1
  a1 = a1
  a2 = a2
  w1 = w1
  e1 = e1
  n1 = n1
  n2 = n2
  n3 = n3
  k1 = k1
  k2 = k2
  k3 = k3
  k4 = k4
  Services = {s1, s2}
  TypeOf <- MCTypeOf
  Tracked = {"_adb._tcp"}
  Hosts = {h1}
  Addrs = {a1, a2}
  Ports = {1, 2}
  Txts = {"t"}
  Ttls = {0, 20}
  Packets <- MCPackets
  Refresh = 20
  Idle = 10
  MinWait = 1
  MaxWait = 20
  Early = 8
  Late = 4
INVARIANTS ViewIsStore NothingOverdue HeapIsSound 
PROPERTY MdnsMovesOn
