---------------------------- MODULE MCDriveThree ----------------------------
(***************************************************************************)
(* A straight run over the belts, one over the rollers, and a turn that    *)
(* begins on each.                                                         *)
(***************************************************************************)
EXTENDS DriveThree

MCDirs == {<<"AHEAD", "BACK">>, <<"RIGHT", "LEFT">>,
           <<"AHEAD", "LEFT">>, <<"LEFT", "AHEAD">>}
=============================================================================
