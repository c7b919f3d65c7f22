\* The NF and one child, accepted traffic: do the shared stats balance?
CONSTANTS
  Children = 1
  MaxBatch = 2
  PrintDelay = 2
  Packets <- TrafficAccept
  BatchSizes = {1, 2}
  BulkHandlers = {"packet_bulk_handler_opt_with_scaling"}
  MaxPackets = 3
SPECIFICATION Spec
INVARIANT StatsBalance
CHECK_DEADLOCK FALSE
