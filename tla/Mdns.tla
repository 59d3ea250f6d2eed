-------------------------------- MODULE Mdns --------------------------------
(* mDNS discovery: the engine, and the server's manager beside it, which keeps *)
(* state of its own.                                                           *)
EXTENDS ZeroConfig

CONSTANTS Instances, InstanceType, InstanceSerial   \* of ServerMdns

VARIABLES flag, thread, joining, cache, registry, told

M == INSTANCE ServerMdns WITH running <- flag, TypeOf <- InstanceType, Serial <- InstanceSerial

(* A TXT record has one serial or none.                                        *)
ASSUME SerialsAssumption == \A n \in Instances : \A s, t \in InstanceSerial[n] : s = t

(* The manager: the hooks were told of every service in the cache and not of   *)
(* its loss, and the registry has its address, see ServerMdns.                 *)
HooksFollowCache == M!HooksFollowCache
=============================================================================
