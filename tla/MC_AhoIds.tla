------------------------------- MODULE MC_AhoIds -------------------------------
(***************************************************************************)
(* Model of the IDS for TLC.  Two DFAs over the bytes 0 and 1, as          *)
(* aho_build_ff would build them: DFA 0 for the patterns 0 = "01" and      *)
(* 1 = "1", DFA 1 for pattern 2 = "00".  State s of a DFA is the longest   *)
(* pattern prefix the bytes read so far end with; its out_arr lists the    *)
(* patterns that prefix ends with.                                         *)
(***************************************************************************)
EXTENDS AhoIds

\* DFA 0: 0 = "", 1 = "0", 2 = "01", 3 = "1".
\* DFA 1: 0 = "", 1 = "0", 2 = "00"; state 3 is unused.
MCG ==
  [d \in {0, 1} |->
     IF d = 0
       THEN [s \in 0..3 |-> [c \in {0, 1} |-> IF c = 0 THEN 1
                                              ELSE IF s = 1 THEN 2 ELSE 3]]
       ELSE [s \in 0..3 |-> [c \in {0, 1} |-> IF c = 1 THEN 0
                                              ELSE IF s \in {1, 2} THEN 2
                                                                   ELSE 1]]]

MCOut ==
  [d \in {0, 1} |->
     IF d = 0 THEN (0 :> <<>> @@ 1 :> <<>> @@ 2 :> <<0, 1>> @@ 3 :> <<1>>)
              ELSE (0 :> <<>> @@ 1 :> <<>> @@ 2 :> <<2>> @@ 3 :> <<>>)]

====
