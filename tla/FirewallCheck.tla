---------------------------- MODULE FirewallCheck ----------------------------
(***************************************************************************)
(* firewall_check (src/examples/firewall/firewall.c) over the classifier   *)
(* it calls: the packet's IP protocol picks the TCP or UDP header for the  *)
(* ports, and its next_proto_id is passed on as firewall_5tuple_handler's  *)
(* proto_id, the index into protocolHash.  The answer's sign and zero-ness *)
(* decide the packet's fate in the handlers (FirewallNF): 0 accepts, any   *)
(* other value drops.                                                      *)
(***************************************************************************)
EXTENDS Classifier

IPPROTO_TCP == 6
IPPROTO_UDP == 17

\* The four dimensions that do not depend on proto_id.
FieldLookups(sa, da, sp, dp) ==
  SrcAddrLookup(sa) \cap DesAddrLookup(da) \cap SrcPortLookup(sp)
    \cap DesPortLookup(dp)

\* The answers firewall_check may give for a packet with protocol proto:
\* TCP and UDP go to the classifier with proto_id = next_proto_id; for UDP
\* protocolHash[17] lies past the 16-entry table, so its word is whatever
\* memory follows; any other protocol returns 0.
FirewallCheckResults(sa, da, proto, sp, dp) ==
  CASE proto = IPPROTO_TCP -> {Firewall5TupleHandler(sa, da, proto, sp, dp)}
    [] proto = IPPROTO_UDP ->
         {{i \in FieldLookups(sa, da, sp, dp) \cap w : i < WordBits} :
            w \in SUBSET RuleIdx}
    [] OTHER -> {{}}

PacketTuples == Addr \X Addr \X Ports \X Ports

\* A TCP packet gets the verdict the classifier gives the rules' own
\* protocol encoding (TYPE_TCP, which every built rule carries): it is
\* dropped exactly when some rule matches it.
TcpVerdictMatchesRules ==
  built =>
    \A t \in PacketTuples :
      \A res \in FirewallCheckResults(t[1], t[2], IPPROTO_TCP, t[3], t[4]) :
        (res = {}) <=> (Firewall5TupleHandler(t[1], t[2], TYPE_TCP, t[3], t[4]) = {})
=============================================================================
