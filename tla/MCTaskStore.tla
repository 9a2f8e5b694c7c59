---------------------------- MODULE MCTaskStore ----------------------------
(* Instances of TaskStore for TLC: two tasks of a session, one from each     *)
(* process.                                                                  *)
EXTENDS TaskStore, TLC

CONSTANTS t1, t2, s1

MCTasks == {t1, t2}
MCSessions == {s1}
MCSessionOf == [t \in MCTasks |-> s1]
MCHomeOf == (t1 :> "ws") @@ (t2 :> "api")
=============================================================================
