---------------------------- MODULE MCServerRounds ----------------------------
(* Small instances of ServerRounds.                                        *)
EXTENDS ServerRounds, TLC

MCBlockCodes == {"round-limit", "queue-failed", "model-reported"}
MCSlots == Permutations(Workers) \cup Permutations(Turns)
=============================================================================
