-------------------------- MODULE MCServiceConfig --------------------------
(***************************************************************************)
(* Instances of ServiceConfig for TLC: the name of the second service      *)
(* begins with that of the first, as in v1 and v10, and there is a file    *)
(* with the name of the temporary file of another.                         *)
(***************************************************************************)
EXTENDS ServiceConfig

CONSTANTS u1, u2, v1, v10

MCUsers == {u1, u2}
MCServices == {v1, v10}
MCFile == [name |-> "a", tmps |-> 0]
MCTmp == [name |-> "a", tmps |-> 1]
MCFiles == {MCFile, MCTmp}
MCBeginsWith ==
  [n \in MCServices \cup MCFiles |->
     IF n = v1 THEN MCServices ELSE IF n = MCFile THEN MCFiles ELSE {n}]
MCOneBeginsWith ==
  [n \in {v1} \cup MCFiles |-> IF n = MCFile THEN MCFiles ELSE {n}]

MCDoes ==
  [u \in MCUsers |-> IF u = u1 THEN {"push", "pull"} ELSE {"push", "remove", "revert"}]
=============================================================================
