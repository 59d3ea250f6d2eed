SPECIFICATION Spec
CONSTANTS
    a1 = a1
    a2 = a2
    Addrs <- MCAddrs
    AddrString <- MCAddrString
    Resolve <- MCResolve
    Targets = {"l1"}
    Emulators = {}
    UsbSerials = {"u1"}
    MdnsSerials = {}
    MdnsKeys = {}
    Usb = Usb
    None = None
    Threads = {c1, c2}
    Commands = {"connect", "transport", "transport-any", "transport-id"}
    WatchMode = "poll"
    MaxId = 2
    MaxConns = 1
    MaxPlugs = 2
SYMMETRY MCSymmetry
PROPERTIES
    ChosenUnlessReplaced
CHECK_DEADLOCK FALSE
