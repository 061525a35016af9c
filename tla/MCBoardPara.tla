---------------------------- MODULE MCBoardPara -----------------------------
(***************************************************************************)
(* A set of three frames and two of four, one of these with a ramp of 0,   *)
(* and a start command.                                                    *)
(***************************************************************************)
EXTENDS BoardPara

P(s, r) == [spd |-> s, ramp |-> r]

MCSetting == {<<P(3, 1)>>, <<P(4, 2), P(5, 3)>>, <<P(6, 0), P(1, 2)>>}
MCMessage == MCSetting \cup {StartCmd}
MCBytes   == [m \in MCMessage |-> IF m = StartCmd THEN 6 ELSE 7 + 10 * Len(m)]
=============================================================================
