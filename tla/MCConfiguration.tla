-------------------------- MODULE MCConfiguration --------------------------
(***************************************************************************)
(* An instance of Configuration for TLC: a switch and another option in    *)
(* the section, the switch debug and the name of the user outside it.      *)
(***************************************************************************)
EXTENDS Configuration

SomeOptions == {"https", "timeout"}
SomeScalars == {"debug", "username"}
SomeNullable == {"username"}
SomeSwitches == {"https", "debug"}
SomeUnchecked == {"timeout"}

(* Files of the client that say nothing, turn the switch on, or take away  *)
(* the other option                                                        *)
SomeOwnFiles ==
  {[https |-> h, timeout |-> t] : h \in {Absent, "true"}, t \in {Absent, None}}
=============================================================================
