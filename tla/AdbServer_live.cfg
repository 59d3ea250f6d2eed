SPECIFICATION FairSpec
CONSTANTS
    a1 = a1
    a2 = a2
    Addrs <- MCAddrs
    AddrString <- MCAddrString
    Resolve <- MCResolve
    Targets = {"l1"}
    Emulators = {}
    UsbSerials = {"u1"}
    MdnsSerials = {}
    MdnsKeys = {}
    Usb = Usb
    None = None
    Threads = {c1, c2}
    Commands = {"connect", "track-devices", "wait-for-device", "kill"}
    WatchMode = "poll"
    MaxId = 3
    MaxConns = 1
    MaxPlugs = 2
PROPERTIES
    
    WatchersHear
CHECK_DEADLOCK FALSE
