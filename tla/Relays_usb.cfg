SPECIFICATION Spec
CONSTANTS
  Kinds = {"usb", "tcp", "forward", "pump", "exec_out", "exec_in", "install", "server_in"}
  Up = 2
  Down = 2
PROPERTY SharedTransportRelays
CHECK_DEADLOCK FALSE
