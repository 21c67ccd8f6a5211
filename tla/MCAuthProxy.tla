---- MODULE MCAuthProxy ----
(* Instances of AuthProxy for TLC *)
EXTENDS AuthProxy

(* The threads of one process share its cache *)
SharedCache == [w \in Workers |-> "c"]
====
