------------------------------- MODULE MCLink -------------------------------
(***************************************************************************)
(* NoraI2CLink with the one configuration of Link.cfg: no timeouts.        *)
(***************************************************************************)
EXTENDS NoraI2CLink

Untimed == [get_ms |-> FALSE, timeout_ms |-> 0, pending_timeout_ms |-> 0]
MC_Configs == {Untimed}
=============================================================================
