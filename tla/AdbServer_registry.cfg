SPECIFICATION Spec
CONSTANTS
    a1 = a1
    a2 = a2
    Addrs <- MCAddrs
    AddrString <- MCAddrString
    Resolve <- MCResolve
    Targets = {"h1", "e1"}
    Emulators = {"e1"}
    UsbSerials = {"u1"}
    MdnsSerials = {"u1", "m1"}
    MdnsKeys = {1, 2}
    Usb = Usb
    None = None
    Threads = {c1}
    Commands = {"connect", "emulator", "disconnect"}
    WatchMode = "poll"
    MaxId = 2
    MaxConns = 1
    MaxPlugs = 1
INVARIANTS
    TypeOK
    UniqueTransportIds
    DuplicatesAreRenamed
    DiscoveredIsCurrent
PROPERTIES
    IdsNeverReused
    UsbOwnedByWatcher
CHECK_DEADLOCK FALSE
