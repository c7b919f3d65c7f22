---------------------------- MODULE MC_AddrTrie ----------------------------
(* Model-checking instance of AddrTrie: four rules over 3-bit addresses,   *)
(* every prefix length 0..3; the arena is sized so it cannot run out.     *)
EXTENDS AddrTrie
=============================================================================
