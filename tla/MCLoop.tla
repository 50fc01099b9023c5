------------------------------- MODULE MCLoop -------------------------------
(* Instances of Loop for TLC.                                               *)
EXTENDS Loop

(* The first beacon takes the -interval, the second's own does not parse,   *)
(* the third has its own, the fourth polls once: its interval is zero.      *)
FourIntervals == <<Blank, Bad, 3, 0>>

(* Every beacon takes the -interval.                                        *)
SameIntervals == [b \in Beacons |-> Blank]

MCMaxAge == <<0, 0, 7, 0>>
NoMaxAge == [b \in Beacons |-> 0]
=============================================================================
