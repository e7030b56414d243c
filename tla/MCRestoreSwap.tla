--------------------------- MODULE MCRestoreSwap ---------------------------
(* Two goroutines and two snapshots on one target, with every failure.     *)
EXTENDS RestoreSwap

BothKinds == {"restore", "extract"}
AllFaults == {"stage", "rename", "rollback", "remove", "crash"}
=============================================================================
