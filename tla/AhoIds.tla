-------------------------------- MODULE AhoIds --------------------------------
(***************************************************************************)
(* The simple_forward IDS NF (src/examples/simple_forward/forward.c and    *)
(* handopt.c): the handlers onvm_nflib calls on the NF and on the children *)
(* it scales, and aho_packet_handler, which they all call.                 *)
(*                                                                         *)
(* aho_packet_handler builds the shared DFAs on its first invocation, as  *)
(* the static dfa_init_flag tells it, and hands the packets to ids_func.   *)
(* ids_func collects them in a big batch local to the call and scans it   *)
(* only once BIG_BATCH_SIZE packets are in it.  Every NF thread -- the NF  *)
(* and each child -- calls aho_packet_handler on its own lcore, so the     *)
(* flag, the DFAs and the build are shared between threads.                *)
(*                                                                         *)
(* A packet is abstracted to its protocol; the payload and the meta (TONF *)
(* to the -d destination for every packet) are left out.  The scan itself  *)
(* is the AhoBatch module; here it is one step that reads the DFAs.  The   *)
(* DFA build is three steps, one per loop of the init block.               *)
(***************************************************************************)
EXTENDS AhoBatch, FiniteSets

CONSTANTS
  Children,    \* num_children (-n)
  Traffic,     \* protocols of the packets the NF receives
  BatchSizes,  \* nb_pkts values onvm_nflib passes to the bulk handler
  MaxPackets   \* packets handed in over a behaviour

Protos == {"tcp", "udp", "icmp", "nonip"}

ASSUME /\ Children \in Nat /\ Traffic \subseteq Protos
       /\ BatchSizes \subseteq 0..BigBatch /\ MaxPackets \in Nat

Threads == 0..Children          \* 0: the NF itself; 1..Children: children
Parent  == 0

\* The stages of the shared dfa_arr: never built, reset by aho_init, with
\* the patterns added, and with the failure function built.
DfaStages == {"unset", "empty", "patterns", "built"}

\* Where a thread is: outside a call, or at a step of aho_packet_handler.
Pcs == {"idle", "check", "inc", "init", "add", "ff", "ids"}

VARIABLES
  spawned,  \* spawned_nfs, static in packet_bulk_handler_with_scaling
  alive,    \* threads running: the NF and the children spawned
  pc,       \* pc[t]: where thread t is
  nb,       \* nb[t]: num_pkts of t's aho_packet_handler call
  flag,     \* dfa_init_flag, static in aho_packet_handler
  dfa,      \* the stage of the static dfa_arr
  crashed,  \* the process died on a NULL header dereference
  handled   \* packets handed to the NF so far

vars == <<spawned, alive, pc, nb, flag, dfa, crashed, handled>>

Init ==
  /\ spawned = 0
  /\ alive = {Parent}
  /\ pc = [t \in Threads |-> "idle"]
  /\ nb = [t \in Threads |-> 0]
  /\ flag = 0
  /\ dfa = "unset"
  /\ crashed = FALSE
  /\ handled = 0

\* Thread t can take a new call from onvm_nflib.
Ready(t) == ~crashed /\ t \in alive /\ pc[t] = "idle"

\* Thread t enters aho_packet_handler with n packets.
EnterAho(t, n) ==
  /\ pc' = [pc EXCEPT ![t] = "check"]
  /\ nb' = [nb EXCEPT ![t] = n]

\* packet_handler: onvm_pkt_udp_hdr is NULL unless the packet is IPv4 and
\* UDP; a UDP packet goes to aho_packet_handler alone, any other packet
\* only gets its meta.
PacketHandler(t, proto) ==
  /\ Ready(t) /\ handled < MaxPackets
  /\ handled' = handled + 1
  /\ IF proto = "udp" THEN EnterAho(t, 1) ELSE UNCHANGED <<pc, nb>>
  /\ UNCHANGED <<spawned, alive, flag, dfa, crashed>>

\* packet_bulk_handler_with_scaling's loop, in the NF's own table only:
\* while spawned_nfs < num_children, scale a child running packet_handler
\* and packet_bulk_handler.
SpawnChildren(t) ==
  IF t = Parent THEN spawned' = Children /\ alive' = Threads
                ELSE UNCHANGED <<spawned, alive>>

\* packet_bulk_handler with batch b (the NF through the wrapper): the loop
\* reads next_proto_id through onvm_pkt_ipv4_hdr, which is NULL for a
\* packet without an IPv4 header, then every packet goes to
\* aho_packet_handler.
BulkHandler(t, b) ==
  /\ Ready(t) /\ handled + Len(b) <= MaxPackets
  /\ SpawnChildren(t)
  /\ handled' = handled + Len(b)
  /\ IF \E i \in 1..Len(b) : b[i] = "nonip"
       THEN crashed' = TRUE /\ UNCHANGED <<pc, nb>>
       ELSE EnterAho(t, Len(b)) /\ UNCHANGED crashed
  /\ UNCHANGED <<flag, dfa>>

\* if (dfa_init_flag == 0): the DFAs still have to be built.
InitNeeded(f) == f = 0

\* Seeded fault: the call counter the handler once kept, incremented on
\* every call in place of the test.
AhoCheckCountsCalls(t) ==
  /\ ~crashed /\ pc[t] = "check"
  /\ flag' = flag + 1
  /\ pc' = [pc EXCEPT ![t] = IF InitNeeded(flag) THEN "init" ELSE "ids"]
  /\ UNCHANGED <<spawned, alive, nb, dfa, crashed, handled>>

\* aho_packet_handler tests dfa_init_flag.
AhoCheck(t) ==
  /\ ~crashed /\ pc[t] = "check"
  /\ pc' = [pc EXCEPT ![t] = IF InitNeeded(flag) THEN "inc" ELSE "ids"]
  /\ UNCHANGED <<spawned, alive, nb, flag, dfa, crashed, handled>>

\* dfa_init_flag++.  A lost update of this increment would leave the flag
\* non-zero all the same, and the flag is only compared with 0.
AhoInc(t) ==
  /\ ~crashed /\ pc[t] = "inc"
  /\ flag' = flag + 1
  /\ pc' = [pc EXCEPT ![t] = "init"]
  /\ UNCHANGED <<spawned, alive, nb, dfa, crashed, handled>>

\* One loop of the init block on the shared dfa_arr: from pc "from" to pc
\* "to", leaving the DFAs at stage s.
Build(t, from, to, s) ==
  /\ ~crashed /\ pc[t] = from
  /\ dfa' = s
  /\ pc' = [pc EXCEPT ![t] = to]
  /\ UNCHANGED <<spawned, alive, nb, flag, crashed, handled>>

\* aho_init of every DFA.
AhoInit(t) == Build(t, "init", "add", "empty")

\* aho_get_patterns and aho_add_pattern of every pattern.
AhoAddPatterns(t) == Build(t, "add", "ff", "patterns")

AhoBuildFf(t) == Build(t, "ff", "ids", "built")

\* ids_func: the packets go into a big batch local to the call; it is
\* scanned (with dfa_arr) only if it fills, i.e. num_pkts is
\* BIG_BATCH_SIZE, and dropped otherwise.
IdsFunc(t) ==
  /\ ~crashed /\ pc[t] = "ids"
  /\ pc' = [pc EXCEPT ![t] = "idle"]
  /\ nb' = [nb EXCEPT ![t] = 0]
  /\ UNCHANGED <<spawned, alive, flag, dfa, crashed, handled>>

(***************************************************************************)
(* The specification.                                                      *)
(***************************************************************************)

\* The steps of a call in progress on thread t.
Step(t) == AhoCheck(t) \/ AhoInc(t) \/ AhoInit(t) \/ AhoAddPatterns(t)
           \/ AhoBuildFf(t) \/ IdsFunc(t)

\* onvm_nflib hands a thread a packet or a batch.
Call(t) ==
  \/ \E p \in Traffic : PacketHandler(t, p)
  \/ \E n \in BatchSizes : \E b \in [1..n -> Traffic] : BulkHandler(t, b)

Next == \E t \in Threads : Step(t) \/ Call(t)

\* Every NF thread polls on its own lcore and never blocks inside a call:
\* a step it can take is eventually taken.  Calls need traffic, so none
\* is forced.
Spec == Init /\ [][Next]_vars /\ \A t \in Threads : WF_vars(Step(t))

TypeOK ==
  /\ spawned \in 0..Children /\ Parent \in alive /\ alive \subseteq Threads
  /\ pc \in [Threads -> Pcs]
  /\ nb \in [Threads -> 0..BigBatch]
  /\ flag \in 0..Cardinality(Threads)
  /\ dfa \in DfaStages
  /\ crashed \in BOOLEAN
  /\ handled \in 0..MaxPackets

(***************************************************************************)
(* Properties.                                                             *)
(***************************************************************************)

\* Whenever ids_func scans a full big batch, the loop its flags pick for
\* each sub-batch reports what the per-packet walk reports, whatever the
\* payloads (FastPathsAgree of AhoBatch).
ScansAgree ==
  \A t \in Threads : (pc[t] = "ids" /\ nb[t] = BigBatch) => FastPathsAgree

====
