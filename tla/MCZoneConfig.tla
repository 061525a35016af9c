---------------------------- MODULE MCZoneConfig ----------------------------
(***************************************************************************)
(* Three configurations: two of two packets that fill page 1, and one of   *)
(* a single packet that reaches page 2.                                    *)
(***************************************************************************)
EXTENDS ZoneConfig

MCCut == <<<<1, 2>>, <<1, 2>>, <<3>>>>
=============================================================================
