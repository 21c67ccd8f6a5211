-------------------------- MODULE MCAdministration --------------------------
(***************************************************************************)
(* Instances of Administration for TLC.                                    *)
(***************************************************************************)
EXTENDS Administration

CONSTANT d1

MCDestinations == {d1}
(* Both jobs at midnight, the default (aviso_admin/config.py).             *)
MCDefaultSchedule == {Jobs}
=============================================================================
