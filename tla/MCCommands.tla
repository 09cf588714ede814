------------------------------ MODULE MCCommands ------------------------------
(* Commands of each lane: tasks, and registrations of an app.              *)
EXTENDS Commands, TLC

CONSTANTS app

Alike == Permutations(Threads) \cup Permutations(Instances)

JobOf(x) == [op |-> x, app |-> app]

MCJobs == {JobOf("exec"), JobOf("register")}
=============================================================================
