\* One thread, traffic with a packet that has no IPv4 header.
CONSTANTS
  Children = 0
  MaxBatch = 2
  PrintDelay = 2
  Packets <- TrafficMixed
  BatchSizes = {1, 2}
  BulkHandlers = {"packet_bulk_handler_opt_with_scaling"}
  MaxPackets = 2
SPECIFICATION Spec
INVARIANT NoNullHeaderRead
CHECK_DEADLOCK FALSE
