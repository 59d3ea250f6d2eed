SPECIFICATION Spec
CONSTANTS
    a1 = a1
    a2 = a2
    Addrs <- MCAddrs
    AddrString <- MCAddrString
    Resolve <- MCResolve
    Targets = {"l1"}
    Emulators = {}
    UsbSerials = {}
    MdnsSerials = {}
    MdnsKeys = {}
    Usb = Usb
    None = None
    Threads = {c1}
    Commands = {"connect", "transport"}
    WatchMode = "poll"
    MaxId = 2
    MaxConns = 2
    MaxPlugs = 0
INVARIANTS
    RefusedNotBridged
CHECK_DEADLOCK FALSE
