--------------------------- MODULE MC_FirewallCheck ---------------------------
(* firewall_check over the classifier instance of MC_Classifier.            *)
EXTENDS FirewallCheck, MC_Classifier
=============================================================================
