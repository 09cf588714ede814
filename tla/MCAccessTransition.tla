-------------------------- MODULE MCAccessTransition --------------------------
(* Ticks of five seconds: the kit's own limits with the node's cadence, a  *)
(* slower node, and a driver that waits for longer than the hold lasts.    *)
EXTENDS AccessTransition

Kit == [interval |-> 6, latency |-> 1, command |-> 7, adoption |-> 8, hold |-> 9]

MCTimings == {Kit, [Kit EXCEPT !.interval = 9, !.latency = 2], [Kit EXCEPT !.command = 10]}
=============================================================================
