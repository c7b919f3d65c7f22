\* The NF and one scaled child (-n 1) receiving TCP, UDP, ICMP and non-IPv4
\* packets, singly and in batches of 0 to BIG_BATCH_SIZE (4 here); the
\* scan loops over every big batch of payloads of up to 2 bytes.
CONSTANTS
  Dfas = {0, 1}
  States = {0, 1, 2, 3}
  Alphabet = {0, 1}
  G <- MCG
  Out <- MCOut
  MaxLen = 2
  BatchSize = 2
  BigBatch = 4
  Children = 1
  Traffic = {"tcp", "udp", "icmp", "nonip"}
  BatchSizes = {0, 1, 2, 3, 4}
  MaxPackets = 8
SPECIFICATION Spec
INVARIANTS
  TypeOK
  ScansAgree

  
\* The NF stops when the traffic does, or when it dies.
CHECK_DEADLOCK FALSE
