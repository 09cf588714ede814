--------------------------- MODULE MCHostAuthority ---------------------------
(* One host with its own workspace and another of the account, and the     *)
(* requests of its first two generations.                                  *)
EXTENDS HostAuthority, TLC

CONSTANTS mac, own, other

Alike == Permutations(Threads)

MCHome == [x \in {mac} |-> own]

Plain == [op |-> "other", host |-> mac, gen |-> 1, seq |-> 1, sessions |-> {}, hint |-> "full"]

Attaching(g) == [Plain EXCEPT !.op = "attach", !.gen = g, !.sessions = {own}]

MCRequests ==
  {[Plain EXCEPT !.op = "prove", !.gen = 0, !.seq = 0], Attaching(1), Attaching(2),
   [Attaching(2) EXCEPT !.op = "attach_workspaces", !.sessions = {own, other}, !.seq = 2],
   [Plain EXCEPT !.op = "disconnect", !.seq = 2],
   [Plain EXCEPT !.op = "forget", !.gen = 2, !.seq = 3]}
=============================================================================
