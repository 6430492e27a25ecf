-------------------------------- MODULE MCTasks --------------------------------
(* Three slots, and memory for two tasks and the stack of a third, but not for    *)
(* its heap; generations that come round during the run.                      *)
EXTENDS Tasks

MCRequests == {16}
=============================================================================
