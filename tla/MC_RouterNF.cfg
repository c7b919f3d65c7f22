\* The NF and one scaled child; batches of zero to MAX_BATCH_SIZE (3 here)
\* packets with and without IPv4 headers; destination 0 (sent out) or a
\* service id; any of the three bulk handlers registered.
CONSTANTS
  Children = 1
  MaxBatch = 3
  Destinations = {0, 2}
  BatchSizes = {0, 1, 2, 3}
  MaxPackets = 6
  BulkHandlers = {"packet_bulk_handler", "packet_bulk_handler_opt",
                  "packet_bulk_handler_opt_with_scaling"}
SPECIFICATION Spec
INVARIANTS
  TypeOK
  FppMaskSound
PROPERTIES
  RoutedOnReturn
  Returns
\* The NF stops when the traffic does, or when it dies.
CHECK_DEADLOCK FALSE
