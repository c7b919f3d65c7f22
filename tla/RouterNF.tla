------------------------------- MODULE RouterNF -------------------------------
(***************************************************************************)
(* The router NF (src/examples/nf_router/nf_router.c): the handlers        *)
(* onvm_nflib calls with received packets and the scaled children the bulk *)
(* handler spawns.                                                         *)
(*                                                                         *)
(* Every handler looks a packet's destination up in tbl24 and discards the *)
(* result; what it leaves behind is the packet's meta: destination = the  *)
(* -d argument and an action.  packet_bulk_handler_opt does this with the  *)
(* FPP goto scheme in two stages: fpp_label_1 reads the IPv4 header and    *)
(* prefetches the tbl24 entry, fpp_label_2 reads it and sets the meta.     *)
(* Each FPP_PSS saves the packet's resume label in batch_rips[I] and       *)
(* switches to the next packet; fpp_end marks the packet in iMask and      *)
(* returns once the mask is complete.                                      *)
(*                                                                         *)
(* A packet is abstracted to whether it has an IPv4 header: tbl24's        *)
(* contents never reach the meta.  The print counters only drive the      *)
(* statistics display and are left out.                                    *)
(***************************************************************************)
EXTENDS Integers, Sequences, Bitwise

CONSTANTS
  Children,     \* num_children (-n)
  MaxBatch,     \* MAX_BATCH_SIZE: batch capacity and width of iMask
  Destinations, \* values the -d argument may give destination
  BatchSizes,   \* nb_pkts values onvm_nflib passes to the bulk handler
  MaxPackets,   \* packets handed in over a behaviour
  BulkHandlers  \* the pkt_bulk_handler main may register for the NF

ASSUME /\ Children \in Nat /\ MaxBatch \in Nat \ {0}
       /\ Destinations \subseteq Nat /\ BatchSizes \subseteq 0..MaxBatch
       /\ MaxPackets \in Nat
       /\ BulkHandlers \subseteq {"packet_bulk_handler", "packet_bulk_handler_opt",
                                "packet_bulk_handler_opt_with_scaling"}

Threads == 0..Children          \* 0: the NF itself; 1..Children: children
Parent  == 0
Slots   == 0..(MaxBatch - 1)
Labels  == {"fpp_start", "fpp_label_1", "fpp_label_2", "fpp_end"}
NoMeta  == [destination |-> -1, action |-> "none"]

\* The meta packet_handler sets: always ONVM_NF_ACTION_TONF.
HandlerMeta(d) == [destination |-> d, action |-> "TONF"]

\* The meta the bulk handlers set: ONVM_NF_ACTION_OUT when destination is
\* 0, ONVM_NF_ACTION_TONF otherwise.
BulkMeta(d) == [destination |-> d, action |-> IF d = 0 THEN "OUT" ELSE "TONF"]

\* The int arithmetic of iMask: MaxBatch-bit two's complement.
Unsigned(x) == x % 2^MaxBatch
Signed(u)   == IF u >= 2^(MaxBatch - 1) THEN u - 2^MaxBatch ELSE u

\* Seeded fault: the mask kept as an unsigned value.
FppSetUnsigned(m, i) == Unsigned(m) | 2^i

\* Seeded fault: the bit of the next packet set.
FppSetShifted(m, i) == Signed(Unsigned(m) | 2^((i + 1) % MaxBatch))

\* FPP_SET(iMask, I): iMask | (1 << I).
FppSet(m, i) == Signed(Unsigned(m) | 2^i)

\* Seeded fault: the all-done mask without the "- 1".
AllDoneMaskNoMinus(n) == IF n < MaxBatch THEN 2^n ELSE -1

\* The mask fpp_end compares with: (1 << nb_pkts) - 1, or -1 for a full batch.
AllDoneMask(n) == IF n < MaxBatch THEN 2^n - 1 ELSE -1

\* I = (I + 1) < nb_pkts ? I + 1 : 0, in FPP_PSS and at fpp_end.
NextIndex(i, n) == IF i + 1 < n THEN i + 1 ELSE 0

\* Seeded fault: the tbl24 prefetch resuming the packet at fpp_end.
Stage2LabelSkip == "fpp_end"

\* The label fpp_label_1's FPP_PSS saves for the packet: fpp_label_2.
Stage2Label == "fpp_label_2"

VARIABLES
  destination, \* the global destination (-d)
  registered,  \* the pkt_bulk_handler main put in the NF's function table
  spawned,     \* spawned_nfs, static in ..._with_scaling
  alive,       \* threads running: the NF and the children spawned
  pc,          \* pc[t]: "idle", or "fpp" inside packet_bulk_handler_opt
  batch,       \* batch[t]: the packets of t's current call (TRUE: IPv4)
  I,           \* I[t]: FPP batch index
  iMask,       \* iMask[t]: FPP done mask
  rips,        \* rips[t][k]: batch_rips[k], the label packet k resumes at
  meta,        \* meta[t][k]: the meta of packet k of t's current call
  crashed,     \* the process died on a NULL header dereference
  visits,      \* visits[t][k][l]: times label l ran for packet k this call
  handled      \* packets handed to the NF so far

vars == <<destination, registered, spawned, alive, pc, batch, I, iMask,
          rips, meta, crashed, visits, handled>>

fppVars == <<I, iMask, rips, visits>>

Init ==
  /\ destination \in Destinations
  /\ registered \in BulkHandlers
  /\ spawned = 0
  /\ alive = {Parent}
  /\ pc = [t \in Threads |-> "idle"]
  /\ batch = [t \in Threads |-> <<>>]
  /\ I = [t \in Threads |-> 0]
  /\ iMask = [t \in Threads |-> 0]
  /\ rips = [t \in Threads |-> [k \in Slots |-> "fpp_start"]]
  /\ meta = [t \in Threads |-> [k \in Slots |-> NoMeta]]
  /\ crashed = FALSE
  /\ visits = [t \in Threads |-> [k \in Slots |-> [l \in Labels |-> 0]]]
  /\ handled = 0

\* Thread t can take a new call from onvm_nflib.
Ready(t) == ~crashed /\ t \in alive /\ pc[t] = "idle"

\* packet_handler with packet ipv4: onvm_pkt_ipv4_hdr, the tbl24 read
\* through it (NULL for a packet without an IPv4 header: RTE_ASSERT is
\* compiled out), then the meta.
PacketHandler(t, ipv4) ==
  /\ Ready(t) /\ handled < MaxPackets
  /\ handled' = handled + 1
  /\ batch' = [batch EXCEPT ![t] = <<ipv4>>]
  /\ IF ipv4
       THEN /\ meta' = [meta EXCEPT ![t] = [k \in Slots |->
                          IF k = 0 THEN HandlerMeta(destination) ELSE NoMeta]]
            /\ UNCHANGED crashed
       ELSE crashed' = TRUE /\ UNCHANGED meta
  /\ UNCHANGED <<destination, registered, spawned, alive, pc, fppVars>>

\* packet_bulk_handler on batch b, when main registers it: the loop sets
\* each packet's meta in order and dereferences NULL at the first packet
\* without an IPv4 header.
PlainBulkHandler(t, b) ==
  /\ Ready(t) /\ handled + Len(b) <= MaxPackets
  /\ t = Parent /\ registered = "packet_bulk_handler"
  /\ handled' = handled + Len(b)
  /\ batch' = [batch EXCEPT ![t] = b]
  /\ LET ok(k) == \A j \in 1..(k + 1) : b[j]
     IN meta' = [meta EXCEPT ![t] = [k \in Slots |->
                   IF k < Len(b) /\ ok(k) THEN BulkMeta(destination)
                                          ELSE NoMeta]]
  /\ crashed' = \E j \in 1..Len(b) : ~b[j]
  /\ UNCHANGED <<destination, registered, spawned, alive, pc, fppVars>>

\* packet_bulk_handler_opt_with_scaling's loop: while spawned_nfs <
\* num_children, scale a child running packet_handler and
\* packet_bulk_handler_opt.  Only the NF's own table has the wrapper.
SpawnChildren(t) ==
  IF t = Parent /\ registered = "packet_bulk_handler_opt_with_scaling"
    THEN spawned' = Children /\ alive' = Threads
    ELSE UNCHANGED <<spawned, alive>>

\* packet_bulk_handler_opt called with batch b (by a child, or by the NF
\* through the wrapper, which first spawns the children still missing):
\* every batch_rips to fpp_start, I and iMask 0, then the FPP loop.
OptCall(t, b) ==
  /\ Ready(t) /\ handled + Len(b) <= MaxPackets
  /\ t = Parent => registered # "packet_bulk_handler"
  /\ SpawnChildren(t)
  /\ handled' = handled + Len(b)
  /\ batch' = [batch EXCEPT ![t] = b]
  /\ I' = [I EXCEPT ![t] = 0]
  /\ iMask' = [iMask EXCEPT ![t] = 0]
  /\ rips' = [rips EXCEPT ![t] = [k \in Slots |-> "fpp_start"]]
  /\ visits' = [visits EXCEPT ![t] = [k \in Slots |-> [l \in Labels |-> 0]]]
  /\ meta' = [meta EXCEPT ![t] = [k \in Slots |-> NoMeta]]
  /\ pc' = [pc EXCEPT ![t] = "fpp"]
  /\ UNCHANGED <<destination, registered, crashed>>

\* Thread t resumes its FPP loop at label: goto *batch_rips[I].
InFpp(t, label) ==
  /\ ~crashed /\ pc[t] = "fpp" /\ rips[t][I[t]] = label

\* Label l runs once more for the current packet.
Visit(t, l) == visits' = [visits EXCEPT ![t][I[t]][l] = @ + 1]

\* FPP_PSS(p, next, nb_pkts): batch_rips[I] = &&next, then the next packet.
Pss(t, next) ==
  /\ rips' = [rips EXCEPT ![t][I[t]] = next]
  /\ I' = [I EXCEPT ![t] = NextIndex(I[t], Len(batch[t]))]

\* fpp_end: batch_rips[I] = &&fpp_end; FPP_SET; return when every packet
\* is done, else advance I and jump to its label.
EndBlock(t) ==
  LET m == FppSet(iMask[t], I[t])
  IN /\ rips' = [rips EXCEPT ![t][I[t]] = "fpp_end"]
     /\ iMask' = [iMask EXCEPT ![t] = m]
     /\ IF m = AllDoneMask(Len(batch[t]))
          THEN pc' = [pc EXCEPT ![t] = "idle"] /\ UNCHANGED I
          ELSE I' = [I EXCEPT ![t] = NextIndex(I[t], Len(batch[t]))]
               /\ UNCHANGED pc

\* fpp_start: FPP_PSS(pkts[I], fpp_label_1, nb_pkts).
FppStart(t) ==
  /\ InFpp(t, "fpp_start")
  /\ Visit(t, "fpp_start")
  /\ Pss(t, "fpp_label_1")
  /\ UNCHANGED <<destination, registered, spawned, alive, pc, batch, iMask,
                 meta, crashed, handled>>

\* pkts[I] has an IPv4 header: for I >= nb_pkts (an empty batch) whatever
\* mbuf the array slot still holds.
HasIpv4(t) ==
  IF I[t] < Len(batch[t]) THEN {batch[t][I[t] + 1]} ELSE BOOLEAN

\* fpp_label_1: the IPv4 header and meta of pkts[I], hash = dst_addr >> 8
\* (read through NULL without an IPv4 header), then FPP_PSS(&tbl24[hash],
\* fpp_label_2, nb_pkts).
FppLabel1(t) ==
  /\ InFpp(t, "fpp_label_1")
  /\ \E ipv4 \in HasIpv4(t) :
       IF ipv4
         THEN /\ Visit(t, "fpp_label_1")
              /\ Pss(t, Stage2Label)
              /\ UNCHANGED crashed
         ELSE crashed' = TRUE /\ UNCHANGED fppVars
  /\ UNCHANGED <<destination, registered, spawned, alive, pc, batch, iMask,
                 meta, handled>>

\* fpp_label_2: res = tbl24[hash[I]], the meta set by destination, then
\* fpp_end.
FppLabel2(t) ==
  /\ InFpp(t, "fpp_label_2")
  /\ Visit(t, "fpp_label_2")
  /\ meta' = [meta EXCEPT ![t][I[t]] = BulkMeta(destination)]
  /\ EndBlock(t)
  /\ UNCHANGED <<destination, registered, spawned, alive, batch, crashed,
                 handled>>

\* goto *batch_rips[I] landing on fpp_end.
FppEnd(t) ==
  /\ InFpp(t, "fpp_end")
  /\ EndBlock(t)
  /\ UNCHANGED <<destination, registered, spawned, alive, batch, meta,
                 visits, crashed, handled>>

(***************************************************************************)
(* The specification.                                                      *)
(***************************************************************************)

\* The steps of a call in progress on thread t.
Step(t) == FppStart(t) \/ FppLabel1(t) \/ FppLabel2(t) \/ FppEnd(t)

\* onvm_nflib hands a thread a packet or a batch.
Call(t) ==
  \/ \E ipv4 \in BOOLEAN : PacketHandler(t, ipv4)
  \/ \E n \in BatchSizes : \E b \in [1..n -> BOOLEAN] :
       PlainBulkHandler(t, b) \/ OptCall(t, b)

Next == \E t \in Threads : Step(t) \/ Call(t)

\* Every NF thread polls on its own lcore and never blocks inside a call:
\* a step it can take is eventually taken.  Calls need traffic, so none
\* is forced.
Spec == Init /\ [][Next]_vars /\ \A t \in Threads : WF_vars(Step(t))

TypeOK ==
  /\ destination \in Destinations /\ registered \in BulkHandlers
  /\ spawned \in 0..Children /\ Parent \in alive /\ alive \subseteq Threads
  /\ pc \in [Threads -> {"idle", "fpp"}]
  /\ batch \in [Threads -> Seq(BOOLEAN)]
  /\ I \in [Threads -> Slots]
  /\ iMask \in [Threads -> -(2^(MaxBatch - 1))..(2^(MaxBatch - 1) - 1)]
  /\ rips \in [Threads -> [Slots -> Labels]]
  /\ meta \in [Threads -> [Slots -> {NoMeta, HandlerMeta(destination),
                                     BulkMeta(destination)}]]
  /\ crashed \in BOOLEAN
  /\ visits \in [Threads -> [Slots -> [Labels -> Nat]]]
  /\ handled \in 0..MaxPackets

(***************************************************************************)
(* Properties.                                                             *)
(***************************************************************************)

\* Bit k of an FPP mask.
MaskHas(m, k) == (Unsigned(m) \div 2^k) % 2 = 1

\* The two-stage FPP done mask is sound: a packet's bit is set only once
\* both its stages have run, exactly once each, and its resume label is
\* fpp_end -- for every batch size, the empty and the full batch included.
FppMaskSound ==
  \A t \in Threads : pc[t] = "fpp" =>
    \A k \in Slots : MaskHas(iMask[t], k) =>
      /\ visits[t][k]["fpp_label_1"] = 1
      /\ visits[t][k]["fpp_label_2"] = 1
      /\ rips[t][k] = "fpp_end"

\* When packet_bulk_handler_opt returns, every packet of its batch has been
\* through fpp_label_2 exactly once and carries the meta its destination
\* calls for: the interleaving of the batch's packets over the two
\* prefetch stages neither skips nor repeats a packet.
RoutedOnReturn ==
  [][\A t \in Threads :
       (pc[t] = "fpp" /\ pc'[t] = "idle") =>
         \A k \in 0..(Len(batch[t]) - 1) :
           /\ visits'[t][k]["fpp_label_2"] = 1
           /\ meta'[t][k] = BulkMeta(destination)]_vars

\* Every packet_bulk_handler_opt call given at least one packet returns
\* (unless the process has died).  A call with nb_pkts = 0 is left out: its
\* FPP loop never ends.
Returns ==
  \A t \in Threads : (pc[t] = "fpp" /\ batch[t] # <<>>)
                       ~> (pc[t] = "idle" \/ crashed)

====
