\* One thread, every batch size up to MAX_BATCH_SIZE (3 here) and the
\* empty batch, traffic with and without IPv4 headers.
CONSTANTS
  Children = 0
  MaxBatch = 3
  PrintDelay = 2
  Packets <- TrafficMixed
  BatchSizes = {0, 1, 2, 3}
  BulkHandlers = {"packet_bulk_handler", "packet_bulk_handler_opt_with_scaling"}
  MaxPackets = 4
SPECIFICATION Spec
INVARIANTS
  FppMaskSound
PROPERTIES
  Returns
\* The NF stops when the traffic does, or when it dies.
CHECK_DEADLOCK FALSE
