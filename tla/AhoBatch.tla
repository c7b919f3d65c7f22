------------------------------- MODULE AhoBatch -------------------------------
(***************************************************************************)
(* The batched Aho-Corasick scan of the simple_forward IDS                 *)
(* (src/examples/simple_forward/handopt.c): ids_func collects packets in a *)
(* big batch, sorts it by DFA id and length (compare), cuts it into        *)
(* sub-batches of BATCH_SIZE and walks each sub-batch through one of three *)
(* loops: process_batch_same_dfa_and_len when every packet has the same    *)
(* DFA and length, process_batch_same_dfa when only the DFA is shared, and *)
(* process_batch_diff (one packet at a time) otherwise.  Every loop        *)
(* appends a state's out_arr to the packet's mp_list before it consumes    *)
(* the next byte.                                                          *)
(*                                                                         *)
(* The DFAs are built by aho.c, which is not part of the repository: here  *)
(* they are constants, a transition table G and the out_arr of every      *)
(* state, and what is checked holds for the tables a model gives them.     *)
(* Sequences are 1-indexed where the C arrays are 0-indexed.               *)
(***************************************************************************)
EXTENDS Integers, Sequences, TLC

CONSTANTS
  Dfas,       \* DFA ids (AHO_MAX_DFA of them)
  States,     \* state numbers of a DFA; 0 is the root
  Alphabet,   \* byte values a payload holds
  G,          \* G[d][s][c]: st_arr[s].G[c] of DFA d
  Out,        \* Out[d][s]: st_arr[s].out_arr, the ids of the patterns s ends
  MaxLen,     \* longest payload
  BatchSize,  \* BATCH_SIZE
  BigBatch    \* BIG_BATCH_SIZE

ASSUME /\ 0 \in States
       /\ G \in [Dfas -> [States -> [Alphabet -> States]]]
       /\ Out \in [Dfas -> [States -> Seq(Nat)]]
       /\ BatchSize \in Nat \ {0} /\ BigBatch % BatchSize = 0

\* struct aho_pkt: the DFA the packet is matched against and its payload.
\* forward.c sets dfa_id 0 for every TCP and UDP packet, but the entries it
\* leaves uninitialised reach ids_func too, so any dfa_id and length may.
AhoPkts == UNION {[dfa_id : Dfas, len : {n}, content : [1..n -> Alphabet]]
                    : n \in 0..MaxLen}

\* compare: by dfa_id, then by len (the difference of the two).
Compare(p1, p2) ==
  IF p1.dfa_id - p2.dfa_id # 0 THEN p1.dfa_id - p2.dfa_id
                               ELSE p1.len - p2.len

\* process_batch_diff: each packet from the root of its own DFA, over its
\* own length, in turn.
RECURSIVE DiffWalk(_, _, _, _)
DiffWalk(d, pkt, j, state) ==
  IF j >= pkt.len THEN <<>>
  ELSE Out[d][state] \o DiffWalk(d, pkt, j + 1, G[d][state][pkt.content[j + 1]])

ProcessBatchDiff(pkts) ==
  [I \in 1..Len(pkts) |-> DiffWalk(pkts[I].dfa_id, pkts[I], 0, 0)]

\* The lockstep loop of process_batch_same_dfa (skip = TRUE: a packet
\* shorter than j is skipped, bound = max_len) and of
\* process_batch_same_dfa_and_len (skip = FALSE, bound = len): byte j of
\* every packet of the sub-batch through DFA d, then byte j + 1.
RECURSIVE Lockstep(_, _, _, _, _, _, _)
Lockstep(d, pkts, j, bound, skip, state, mp) ==
  IF j >= bound THEN mp
  ELSE LET moves(I) == ~(skip /\ j >= pkts[I].len)
       IN Lockstep(d, pkts, j + 1, bound, skip,
            [I \in DOMAIN pkts |-> IF moves(I)
                                     THEN G[d][state[I]][pkts[I].content[j + 1]]
                                     ELSE state[I]],
            [I \in DOMAIN pkts |-> IF moves(I) THEN mp[I] \o Out[d][state[I]]
                                               ELSE mp[I]])

\* max_len of process_batch_same_dfa.
MaxLenOf(pkts) ==
  LET lens == {pkts[I].len : I \in DOMAIN pkts} \cup {0}
  IN CHOOSE m \in lens : \A n \in lens : m >= n

\* Every state at the root and every mp_list empty.
Fresh(pkts, v) == [I \in DOMAIN pkts |-> v]

ProcessBatchSameDfa(d, pkts) ==
  Lockstep(d, pkts, 0, MaxLenOf(pkts), TRUE, Fresh(pkts, 0), Fresh(pkts, <<>>))

ProcessBatchSameDfaAndLen(d, pkts, len) ==
  Lockstep(d, pkts, 0, len, FALSE, Fresh(pkts, 0), Fresh(pkts, <<>>))

\* ids_func's scan of a sub-batch: the flags loop breaks at the first
\* packet of another DFA, clearing both flags; a packet of another length
\* before it clears same_dfa_and_len.
SameDfa(sub) == \A k \in DOMAIN sub : sub[k].dfa_id = sub[1].dfa_id

\* Seeded fault: the length comparison left out of the flags loop.
SameDfaAndLenNoLen(sub) == SameDfa(sub)

SameDfaAndLen(sub) ==
  SameDfa(sub) /\ \A k \in DOMAIN sub : sub[k].len = sub[1].len

ProcessSubBatch(sub) ==
  CASE SameDfaAndLen(sub) ->
         ProcessBatchSameDfaAndLen(sub[1].dfa_id, sub, sub[1].len)
    [] SameDfa(sub) -> ProcessBatchSameDfa(sub[1].dfa_id, sub)
    [] OTHER -> ProcessBatchDiff(sub)

\* A full big batch: qsort with compare, then the sub-batches in order.
\* The result pairs the sorted batch with the mp_list of each of its
\* packets (mp_list is cleared after every sub-batch).
IdsBigBatch(bbatch) ==
  LET sorted == SortSeq(bbatch, LAMBDA p1, p2 : Compare(p1, p2) < 0)
      scans  == [b \in 1..(BigBatch \div BatchSize) |->
                   ProcessSubBatch(SubSeq(sorted, (b - 1) * BatchSize + 1,
                                                  b * BatchSize))]
  IN <<sorted, [k \in 1..BigBatch |-> scans[(k - 1) \div BatchSize + 1]
                                           [((k - 1) % BatchSize) + 1]]>>

(***************************************************************************)
(* Properties.                                                             *)
(***************************************************************************)

\* The two lockstep fast paths ids_func picks for a sub-batch of the
\* sorted big batch report, for every packet, exactly the pattern ids
\* (in order) that process_batch_diff -- the plain per-packet walk --
\* reports: the choice of loop by the flags, and the skipping of packets
\* shorter than max_len, never change what a packet matches.
FastPathsAgree ==
  \A bbatch \in [1..BigBatch -> AhoPkts] :
    LET r == IdsBigBatch(bbatch)
    IN r[2] = ProcessBatchDiff(r[1])

====
