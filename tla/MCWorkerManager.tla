-------------------------- MODULE MCWorkerManager --------------------------
(* Instances of WorkerManager for TLC: two tasks of one session.             *)
EXTENDS WorkerManager

CONSTANTS m1, m2, s1

MCMsgs2 == {m1, m2}
MCSessions == {s1}
MCSessionOf2 == [m \in MCMsgs2 |-> s1]
=============================================================================
