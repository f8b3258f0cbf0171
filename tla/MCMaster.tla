------------------------------ MODULE MCMaster ------------------------------
(***************************************************************************)
(* Small instances of NoraI2CMaster.  Each of the sets of configurations   *)
(* is the value of Configs in one of the .cfg files.                       *)
(***************************************************************************)
EXTENDS NoraI2CMaster

Untimed == [get_ms |-> FALSE, timeout_ms |-> 0, pending_timeout_ms |-> 0]
Timed(t, p) == [get_ms |-> TRUE, timeout_ms |-> t, pending_timeout_ms |-> p]

UntimedConfigs == {Untimed}
TimedConfigs   == {Timed(1, 1)}
TimeoutConfigs == {Timed(1, 2), Timed(0, 1)}
=============================================================================
