------------------------ MODULE MCListenerLifecycle ------------------------
(***************************************************************************)
(* Instances of ListenerLifecycle for TLC: two listener files, the first   *)
(* with two listeners that have a key in common, and one file with two     *)
(* listeners.                                                              *)
(***************************************************************************)
EXTENDS ListenerLifecycle

MCTwoFiles == <<1, 1, 2>>
MCTwoFilesKeys == <<<<"a", "b">>, <<"a">>, <<"a">>>>

MCOneFile == <<1, 1>>
MCOneFileKeys == <<<<"a">>, <<"b">>>>
=============================================================================
