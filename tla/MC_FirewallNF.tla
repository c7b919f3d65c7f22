---------------------------- MODULE MC_FirewallNF ----------------------------
(* Traffic for FirewallNF: a packet is [ipv4, proto, ret], ret the sign of  *)
(* the classifier's answer (-1: rule 0's bit, the sign bit of word 0).      *)
EXTENDS FirewallNF

Pkt(ip, pr, r) == [ipv4 |-> ip, proto |-> pr, ret |-> r]

\* IPv4 traffic the classifier accepts or drops by a rule other than rule 0
\* (rule 0 is never reported: it sits in the port trees' sentinel node).
TrafficIPv4 == {Pkt(TRUE, "tcp", 0), Pkt(TRUE, "udp", 1), Pkt(TRUE, "icmp", 1)}

\* Accepted TCP traffic only.
TrafficAccept == {Pkt(TRUE, "tcp", 0)}

\* IPv4 traffic and a packet without an IPv4 header (ARP, IPv6, ...).
TrafficMixed == TrafficIPv4 \cup {Pkt(FALSE, "other", 0)}
=============================================================================
