------------------------ MODULE MCAutonomousQueue --------------------------
(* Instances of AutonomousQueue for TLC: tasks of one user.                  *)
EXTENDS AutonomousQueue

CONSTANT u1

MCUsers == {u1}
MCUserOf == [t \in Tasks |-> u1]
=============================================================================
