------------------------------ MODULE FirewallNF ------------------------------
(***************************************************************************)
(* The firewall NF's packet layer (src/examples/firewall/firewall.c): the  *)
(* handlers onvm_nflib calls with received packets, the statistics they    *)
(* keep, and the scaled children the bulk handler spawns.                  *)
(*                                                                         *)
(* main registers packet_handler for single packets and, for batches,      *)
(* packet_bulk_handler_opt_with_scaling (the line registering the plain    *)
(* packet_bulk_handler is commented out; the model lets either be the one  *)
(* registered).  The first batch call under the wrapper                    *)
(* spawns num_children children, each running packet_handler and           *)
(* packet_bulk_handler_opt on its own lcore.  All threads share the global *)
(* stats and packet_handler's static counter; their "x += n" updates are   *)
(* plain loads and stores, so each is a load step and a store step here.   *)
(*                                                                         *)
(* packet_bulk_handler_opt walks its batch with the FPP goto scheme: every *)
(* packet has a resume label batch_rips[I]; FPP_PSS (a prefetch, then      *)
(* "batch_rips[I] = label; I = next(I); goto *batch_rips[I]") switches to  *)
(* the next packet; fpp_end marks packet I in iMask and returns once the   *)
(* mask is complete.  iMask is an int as wide as the batch (MAX_BATCH_SIZE *)
(* bits), the full batch giving -1.                                        *)
(*                                                                         *)
(* The classifier is abstracted to its result: a packet's ret is the sign  *)
(* of what firewall_5tuple_handler returns for it.                         *)
(***************************************************************************)
EXTENDS Integers, Sequences, FiniteSets, Bitwise

CONSTANTS
  Children,    \* num_children (-n)
  MaxBatch,    \* MAX_BATCH_SIZE: batch capacity and width of iMask
  PrintDelay,  \* print_delay (-p)
  Packets,     \* packets the NF may be handed: [ipv4, proto, ret]
  BatchSizes,  \* nb_pkts values onvm_nflib passes to the bulk handler
  MaxPackets,  \* packets handed in over a behaviour
  BulkHandlers \* the pkt_bulk_handler main may register for the NF

ASSUME /\ Children \in Nat /\ MaxBatch \in Nat \ {0} /\ PrintDelay \in Nat \ {0}
       /\ BatchSizes \subseteq 0..MaxBatch /\ MaxPackets \in Nat
       /\ BulkHandlers \subseteq {"packet_bulk_handler", "packet_bulk_handler_opt",
                                "packet_bulk_handler_opt_with_scaling"}

Threads == 0..Children          \* 0: the NF itself; 1..Children: children
Parent  == 0
Slots   == 0..(MaxBatch - 1)
Fields  == {"pkt_drop", "pkt_accept", "pkt_not_ipv4", "pkt_total"}
Labels  == {"fpp_start", "fpp_label_1", "fpp_end"}
NoLoad  == -1
Statics == {"packet_handler", "packet_bulk_handler"}  \* static print counters

\* The int arithmetic of iMask: MaxBatch-bit two's complement.
Unsigned(x) == x % 2^MaxBatch
Signed(u)   == IF u >= 2^(MaxBatch - 1) THEN u - 2^MaxBatch ELSE u

\* Seeded fault: the mask kept as an unsigned value.
FppSetUnsigned(m, i) == Unsigned(m) | 2^i

\* Seeded fault: the bit of the next packet set.
FppSetShifted(m, i) == Signed(Unsigned(m) | 2^((i + 1) % MaxBatch))

\* FPP_SET(iMask, I): iMask | (1 << I).
FppSet(m, i) == Signed(Unsigned(m) | 2^i)

\* Seeded fault: the all-done mask without the "- 1".
AllDoneMaskNoMinus(n) == IF n < MaxBatch THEN 2^n ELSE -1

\* The mask fpp_end compares with: (1 << nb_pkts) - 1, or -1 for a full batch.
AllDoneMask(n) == IF n < MaxBatch THEN 2^n - 1 ELSE -1

\* I = (I + 1) < nb_pkts ? I + 1 : 0, in FPP_PSS and at fpp_end.
NextIndex(i, n) == IF i + 1 < n THEN i + 1 ELSE 0

\* firewall_check: the classifier's answer for TCP and UDP, 0 otherwise.
FirewallCheck(p) == IF p.proto \in {"tcp", "udp"} THEN p.ret ELSE 0

\* Seeded fault: "case 0" missing its break, falling into default.
OptCountsFallThrough(r) ==
  IF r < 0 THEN <<"pkt_drop", "pkt_drop">>
  ELSE IF r = 0 THEN <<"pkt_accept", "pkt_drop">> ELSE <<"pkt_drop">>

\* The counters packet_bulk_handler_opt bumps for one verdict: the
\* "ret < 0" block and then the switch, whose default also takes ret < 0.
OptCounts(r) ==
  IF r < 0 THEN <<"pkt_drop", "pkt_drop">>
  ELSE IF r = 0 THEN <<"pkt_accept">> ELSE <<"pkt_drop">>

\* The counters packet_handler bumps after pkt_total: it returns early on
\* a non-IPv4 packet and on ret < 0.
HandlerCounts(p) ==
  IF ~p.ipv4 THEN <<"pkt_not_ipv4">>
  ELSE IF FirewallCheck(p) = 0 THEN <<"pkt_accept">> ELSE <<"pkt_drop">>

\* Each counter as a one-packet read-modify-write.
Incs(fs) == [k \in 1..Len(fs) |-> <<fs[k], 1>>]

VARIABLES
  stats,     \* the global firewall_pkt_stats
  counter,   \* counter[h]: the static print counter of handler h
  spawned,   \* spawned_nfs, static in ..._with_scaling
  alive,     \* threads running: the NF and the children spawned
  pc,        \* pc[t]: where thread t is in its handler call
  batch,     \* batch[t]: the packets of t's current call
  I,         \* I[t]: FPP batch index
  iMask,     \* iMask[t]: FPP done mask
  rips,      \* rips[t][k]: batch_rips[k], the label packet k resumes at
  tmp,       \* tmp[t]: value loaded by t's read-modify-write in flight
  incs,      \* incs[t]: t's stats updates still to load and store
  crashed,   \* the process died on a NULL header dereference
  visits,    \* visits[t][k]: times fpp_label_1 ran for packet k this call
  handled,   \* packets handed to the NF so far
  registered \* the pkt_bulk_handler main put in the NF's function table

vars == <<stats, counter, spawned, alive, pc, batch, I, iMask, rips, tmp,
          incs, crashed, visits, handled, registered>>

fppVars == <<I, iMask, rips, visits>>

Init ==
  /\ stats = [f \in Fields |-> 0]
  /\ counter = [h \in Statics |-> 0]
  /\ spawned = 0
  /\ alive = {Parent}
  /\ pc = [t \in Threads |-> "idle"]
  /\ batch = [t \in Threads |-> <<>>]
  /\ I = [t \in Threads |-> 0]
  /\ iMask = [t \in Threads |-> 0]
  /\ rips = [t \in Threads |-> [k \in Slots |-> "fpp_start"]]
  /\ tmp = [t \in Threads |-> NoLoad]
  /\ incs = [t \in Threads |-> <<>>]
  /\ crashed = FALSE
  /\ visits = [t \in Threads |-> [k \in Slots |-> 0]]
  /\ handled = 0
  /\ registered \in BulkHandlers

\* Thread t can take a new call from onvm_nflib.
Ready(t) ==
  /\ ~crashed /\ t \in alive /\ pc[t] = "idle" /\ incs[t] = <<>>

(***************************************************************************)
(* Shared statistics: each "stats.f += n" is a load, then a store.         *)
(***************************************************************************)

LoadStat(t) ==
  /\ ~crashed /\ incs[t] # <<>> /\ tmp[t] = NoLoad
  /\ tmp' = [tmp EXCEPT ![t] = stats[Head(incs[t])[1]]]
  /\ UNCHANGED <<stats, counter, spawned, alive, pc, batch, fppVars, incs,
                 crashed, handled, registered>>

StoreStat(t) ==
  /\ ~crashed /\ incs[t] # <<>> /\ tmp[t] # NoLoad
  /\ stats' = [stats EXCEPT ![Head(incs[t])[1]] = tmp[t] + Head(incs[t])[2]]
  /\ tmp' = [tmp EXCEPT ![t] = NoLoad]
  /\ incs' = [incs EXCEPT ![t] = Tail(@)]
  /\ UNCHANGED <<counter, spawned, alive, pc, batch, fppVars, crashed,
                 handled, registered>>

(***************************************************************************)
(* packet_handler: one packet.                                             *)
(***************************************************************************)

\* Called with packet p: "++counter" loads the shared counter.
PhCall(t, p) ==
  /\ Ready(t) /\ handled < MaxPackets
  /\ tmp' = [tmp EXCEPT ![t] = counter["packet_handler"]]
  /\ batch' = [batch EXCEPT ![t] = <<p>>]
  /\ pc' = [pc EXCEPT ![t] = "ph_inc"]
  /\ handled' = handled + 1
  /\ UNCHANGED <<stats, counter, spawned, alive, fppVars, incs, crashed,
                 registered>>

\* The store of "++counter", compared with print_delay.
PhInc(t) ==
  /\ ~crashed /\ pc[t] = "ph_inc"
  /\ counter' = [counter EXCEPT !["packet_handler"] = tmp[t] + 1]
  /\ tmp' = [tmp EXCEPT ![t] = NoLoad]
  /\ pc' = [pc EXCEPT ![t] = IF tmp[t] + 1 = PrintDelay THEN "ph_reset"
                                                       ELSE "ph_body"]
  /\ UNCHANGED <<stats, spawned, alive, batch, fppVars, incs, crashed,
                 handled, registered>>

\* do_stats_display(); counter = 0.
PhReset(t) ==
  /\ ~crashed /\ pc[t] = "ph_reset"
  /\ counter' = [counter EXCEPT !["packet_handler"] = 0]
  /\ pc' = [pc EXCEPT ![t] = "ph_body"]
  /\ UNCHANGED <<stats, spawned, alive, batch, fppVars, tmp, incs, crashed,
                 handled, registered>>

\* pkt_total++, then the IPv4 check, firewall_check and the verdict's
\* counter; the meta action set alongside is not tracked.
PhBody(t) ==
  /\ ~crashed /\ pc[t] = "ph_body"
  /\ incs' = [incs EXCEPT ![t] = Incs(<<"pkt_total">> \o
                                      HandlerCounts(batch[t][1]))]
  /\ pc' = [pc EXCEPT ![t] = "idle"]
  /\ UNCHANGED <<stats, counter, spawned, alive, batch, fppVars, tmp,
                 crashed, handled, registered>>

(***************************************************************************)
(* packet_bulk_handler_opt_with_scaling / packet_bulk_handler_opt.         *)
(***************************************************************************)

\* packet_bulk_handler_opt_with_scaling's loop: while spawned_nfs <
\* num_children, scale a child running packet_handler and
\* packet_bulk_handler_opt.  Only the NF's own table has the wrapper.
SpawnChildren(t) ==
  IF t = Parent /\ registered = "packet_bulk_handler_opt_with_scaling"
    THEN spawned' = Children /\ alive' = Threads
    ELSE UNCHANGED <<spawned, alive>>

\* Called with batch b: a child, or the NF with an opt handler registered.
\* Under ..._with_scaling the NF first spawns the children still missing;
\* then packet_bulk_handler_opt: every
\* batch_rips to fpp_start, the local counter = nb_pkts displayed when it
\* reaches print_delay, "stats.pkt_total += nb_pkts", then the FPP loop.
BulkCall(t, b) ==
  /\ Ready(t) /\ handled + Len(b) <= MaxPackets
  /\ t = Parent => registered # "packet_bulk_handler"
  /\ SpawnChildren(t)
  /\ incs' = [incs EXCEPT ![t] = <<<<"pkt_total", Len(b)>>>>]
  /\ batch' = [batch EXCEPT ![t] = b]
  /\ I' = [I EXCEPT ![t] = 0]
  /\ iMask' = [iMask EXCEPT ![t] = 0]
  /\ rips' = [rips EXCEPT ![t] = [k \in Slots |-> "fpp_start"]]
  /\ visits' = [visits EXCEPT ![t] = [k \in Slots |-> 0]]
  /\ pc' = [pc EXCEPT ![t] = "fpp"]
  /\ handled' = handled + Len(b)
  /\ UNCHANGED <<stats, counter, tmp, crashed, registered>>

\* Thread t runs its FPP loop, its pending stats updates done.
InFpp(t, label) ==
  /\ ~crashed /\ pc[t] = "fpp" /\ incs[t] = <<>>
  /\ rips[t][I[t]] = label

\* fpp_end: batch_rips[I] = &&fpp_end; FPP_SET; return when every packet
\* is done, else advance I and jump to its label.
FppEndBlock(t) ==
  LET m == FppSet(iMask[t], I[t])
  IN /\ rips' = [rips EXCEPT ![t][I[t]] = "fpp_end"]
     /\ iMask' = [iMask EXCEPT ![t] = m]
     /\ IF m = AllDoneMask(Len(batch[t]))
          THEN /\ pc' = [pc EXCEPT ![t] = "idle"]
               /\ UNCHANGED I
          ELSE /\ I' = [I EXCEPT ![t] = NextIndex(I[t], Len(batch[t]))]
               /\ UNCHANGED pc

\* fpp_start: FPP_PSS(pkts[I], fpp_label_1, nb_pkts).
FppStart(t) ==
  /\ InFpp(t, "fpp_start")
  /\ rips' = [rips EXCEPT ![t][I[t]] = "fpp_label_1"]
  /\ I' = [I EXCEPT ![t] = NextIndex(I[t], Len(batch[t]))]
  /\ UNCHANGED <<stats, counter, spawned, alive, pc, batch, iMask, tmp, incs,
                 crashed, visits, handled, registered>>

\* pkts[I]: a packet of the batch, or for I >= nb_pkts (an empty batch)
\* whatever mbuf the array slot still holds.
PacketAt(t) ==
  IF I[t] < Len(batch[t]) THEN {batch[t][I[t] + 1]} ELSE Packets

\* fpp_label_1 on an IPv4 packet: firewall_check, the verdict's counters,
\* then fpp_end.
FppLabel1(t) ==
  /\ InFpp(t, "fpp_label_1")
  /\ \E p \in PacketAt(t) :
       /\ p.ipv4
       /\ incs' = [incs EXCEPT ![t] = Incs(OptCounts(FirewallCheck(p)))]
  /\ visits' = [visits EXCEPT ![t][I[t]] = @ + 1]
  /\ FppEndBlock(t)
  /\ UNCHANGED <<stats, counter, spawned, alive, batch, tmp, crashed, handled,
                 registered>>

\* fpp_label_1 on a packet without an IPv4 header: onvm_pkt_ipv4_hdr
\* gives NULL and firewall_check dereferences it; the process dies.
FppNullDeref(t) ==
  /\ InFpp(t, "fpp_label_1")
  /\ \E p \in PacketAt(t) : ~p.ipv4
  /\ crashed' = TRUE
  /\ UNCHANGED <<stats, counter, spawned, alive, pc, batch, fppVars, tmp,
                 incs, handled, registered>>

\* A jump to fpp_end of a packet already done.
FppEnd(t) ==
  /\ InFpp(t, "fpp_end")
  /\ FppEndBlock(t)
  /\ UNCHANGED <<stats, counter, spawned, alive, batch, tmp, incs, crashed,
                 visits, handled, registered>>

(***************************************************************************)
(* packet_bulk_handler: a plain loop over the batch.                       *)
(***************************************************************************)

\* "if (counter >= print_delay)" on the static counter.
PlainDisplays(c) == c >= PrintDelay

\* Called with batch b when main registers packet_bulk_handler: the static
\* counter += nb_pkts, displayed and reset at print_delay,
\* "stats.pkt_total += nb_pkts", then the loop from packet 0.
PlainCall(t, b) ==
  /\ t = Parent /\ registered = "packet_bulk_handler"
  /\ Ready(t) /\ handled + Len(b) <= MaxPackets
  /\ LET c == counter["packet_bulk_handler"] + Len(b)
     IN counter' = [counter EXCEPT !["packet_bulk_handler"] =
                      IF PlainDisplays(c) THEN 0 ELSE c]
  /\ incs' = [incs EXCEPT ![t] = <<<<"pkt_total", Len(b)>>>>]
  /\ batch' = [batch EXCEPT ![t] = b]
  /\ I' = [I EXCEPT ![t] = 0]
  /\ pc' = [pc EXCEPT ![t] = IF Len(b) = 0 THEN "idle" ELSE "plain"]
  /\ handled' = handled + Len(b)
  /\ UNCHANGED <<spawned, alive, iMask, rips, visits, tmp, crashed, stats,
                 registered>>

\* One iteration on an IPv4 packet: firewall_check, then "ret < 0" counts
\* a drop and returns from the handler, leaving the rest of the batch;
\* otherwise the switch counts the verdict and the loop moves on.
PlainStep(t) ==
  /\ ~crashed /\ pc[t] = "plain" /\ incs[t] = <<>>
  /\ batch[t][I[t] + 1].ipv4
  /\ LET r == FirewallCheck(batch[t][I[t] + 1])
         last == r < 0 \/ I[t] + 1 = Len(batch[t])
     IN /\ incs' = [incs EXCEPT ![t] =
                       Incs(<<IF r = 0 THEN "pkt_accept" ELSE "pkt_drop">>)]
        /\ IF last THEN pc' = [pc EXCEPT ![t] = "idle"] /\ UNCHANGED I
                   ELSE I' = [I EXCEPT ![t] = @ + 1] /\ UNCHANGED pc
  /\ UNCHANGED <<stats, counter, spawned, alive, batch, iMask, rips, tmp,
                 crashed, visits, handled, registered>>

\* An iteration on a packet without an IPv4 header: firewall_check
\* dereferences NULL.
PlainNullDeref(t) ==
  /\ ~crashed /\ pc[t] = "plain" /\ incs[t] = <<>>
  /\ ~batch[t][I[t] + 1].ipv4
  /\ crashed' = TRUE
  /\ UNCHANGED <<stats, counter, spawned, alive, pc, batch, fppVars, tmp,
                 incs, handled, registered>>

(***************************************************************************)
(* The specification.                                                      *)
(***************************************************************************)

\* The steps of a call in progress on thread t.
Step(t) ==
  \/ PhInc(t) \/ PhReset(t) \/ PhBody(t)
  \/ FppStart(t) \/ FppLabel1(t) \/ FppNullDeref(t) \/ FppEnd(t)
  \/ PlainStep(t) \/ PlainNullDeref(t)
  \/ LoadStat(t) \/ StoreStat(t)

\* onvm_nflib hands a thread a packet or a batch.
Call(t) ==
  \/ \E p \in Packets : PhCall(t, p)
  \/ \E n \in BatchSizes : \E b \in [1..n -> Packets] :
       BulkCall(t, b) \/ PlainCall(t, b)

Next == \E t \in Threads : Step(t) \/ Call(t)

\* Every NF thread polls on its own lcore and never blocks inside a call:
\* a step it can take is eventually taken.  Calls need traffic, so none
\* is forced.
Spec == Init /\ [][Next]_vars /\ \A t \in Threads : WF_vars(Step(t))

TypeOK ==
  /\ stats \in [Fields -> Nat]
  /\ counter \in [Statics -> Nat] /\ spawned \in 0..Children
  /\ Parent \in alive /\ alive \subseteq Threads
  /\ pc \in [Threads -> {"idle", "ph_inc", "ph_reset", "ph_body", "fpp",
                          "plain"}]
  /\ batch \in [Threads -> Seq(Packets)]
  /\ I \in [Threads -> Slots]
  /\ iMask \in [Threads -> -(2^(MaxBatch - 1))..(2^(MaxBatch - 1) - 1)]
  /\ rips \in [Threads -> [Slots -> Labels]]
  /\ tmp \in [Threads -> Nat \cup {NoLoad}]
  /\ incs \in [Threads -> Seq(Fields \X Nat)]
  /\ crashed \in BOOLEAN
  /\ visits \in [Threads -> [Slots -> Nat]]
  /\ handled \in 0..MaxPackets /\ registered \in BulkHandlers

(***************************************************************************)
(* Properties.                                                             *)
(***************************************************************************)

\* No call in progress and no stats update pending on any thread.
Quiescent == \A t \in Threads : pc[t] = "idle" /\ incs[t] = <<>>

\* The statistics balance: whenever the NF is between calls, pkt_total
\* counts every packet it was handed and every packet was counted exactly
\* once as dropped, accepted or not IPv4 -- across the FPP loop's
\* interleaving of packets and the threads' updates of the shared stats.
StatsBalance ==
  Quiescent =>
    /\ stats["pkt_total"] = handled
    /\ stats["pkt_drop"] + stats["pkt_accept"] + stats["pkt_not_ipv4"]
         = handled

\* Racing updates of the shared stats may lose counts but never invent
\* them: at every moment pkt_total and the verdict counters together stay
\* within the packets handed in.
StatsNeverAhead ==
  /\ stats["pkt_total"] <= handled
  /\ stats["pkt_drop"] + stats["pkt_accept"] + stats["pkt_not_ipv4"]
       <= handled

\* Thread t is inside a handler call or still has stats updates to do.
InCall(t) == pc[t] # "idle" \/ incs[t] # <<>>

\* Every handler call given at least one packet returns: the FPP loop of
\* packet_bulk_handler_opt reaches its all-done mask, the plain loop its
\* end, and every pending stats update completes (unless the process has
\* died).  A call with nb_pkts = 0 is left out: its FPP loop never ends.
Returns ==
  \A t \in Threads : (InCall(t) /\ batch[t] # <<>>) ~> (~InCall(t) \/ crashed)

\* Bit k of an FPP mask.
MaskHas(m, k) == (Unsigned(m) \div 2^k) % 2 = 1

\* The FPP done mask is sound, whatever nb_pkts the handler is given (an
\* empty and a full batch included): a packet's bit is set only once its
\* fpp_label_1 has run, exactly once, and its resume label is fpp_end, so
\* the loop's all-done test never passes over a packet or repeats one.
FppMaskSound ==
  \A t \in Threads : pc[t] = "fpp" =>
    \A k \in Slots : MaskHas(iMask[t], k) =>
      visits[t][k] = 1 /\ rips[t][k] = "fpp_end"

\* No packet reaches firewall_check without an IPv4 header, where
\* onvm_pkt_ipv4_hdr's NULL would be dereferenced.
NoNullHeaderRead == ~crashed

=============================================================================
