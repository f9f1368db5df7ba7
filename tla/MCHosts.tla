------------------------------- MODULE MCHosts -------------------------------
(* Small instances of Hosts.                                               *)
EXTENDS Hosts, TLC

MCBlockCodes == {"round-limit", "queue-failed", "model-reported"}
MCSlots == Permutations(Workers) \cup Permutations(Turns)
=============================================================================
