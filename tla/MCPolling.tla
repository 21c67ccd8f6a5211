----------------------------- MODULE MCPolling -----------------------------
(***************************************************************************)
(* Instances of Polling for TLC.  Base key 0 holds the notification keys 1 *)
(* and 2, base key 3 holds the key 4.                                      *)
(***************************************************************************)
EXTENDS Polling

MCKeysTwo == [l \in {0, 3} |-> IF l = 0 THEN {1, 2} ELSE {4}]
MCKeysOne == [l \in {0} |-> {1, 2}]
MCAllPCs == PCs
MCPCsButWrite == PCs \ {"write"}
=============================================================================
