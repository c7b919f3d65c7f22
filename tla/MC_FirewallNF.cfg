\* The NF and one scaled child sharing the stats and packet_handler's
\* counter, batches of one or two packets; main registers either the plain
\* loop or the FPP handler with scaling.
CONSTANTS
  Children = 1
  MaxBatch = 2
  PrintDelay = 2
  Packets <- TrafficIPv4
  BatchSizes = {1, 2}
  BulkHandlers = {"packet_bulk_handler", "packet_bulk_handler_opt_with_scaling"}
  MaxPackets = 4
SPECIFICATION Spec
INVARIANTS
  TypeOK
  StatsNeverAhead
PROPERTIES
  Returns
\* The NF stops when the traffic does.
CHECK_DEADLOCK FALSE
