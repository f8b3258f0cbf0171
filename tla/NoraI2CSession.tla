--------------------------- MODULE NoraI2CSession ---------------------------
(***************************************************************************)
(* What the blocking master API makes of its calls, without registers,     *)
(* stages or time.  An instance is off, idle, or held: on record, a write  *)
(* without STOP is open on the bus.  A call runs, its transfer goes well   *)
(* or not, it makes its STOP, and these two outcomes determine what it     *)
(* returns and what is on record from then on.  NoraI2CMaster implements   *)
(* it.                                                                     *)
(***************************************************************************)
VARIABLES
  session,   \* "off", "idle" or "held", as of the last return
  doing,     \* the call that is running, "none" between calls
  open,      \* a write is on the bus that only a STOP or a read ends
  failed,    \* the error the transfer ran into, "OK" as long as none
  release,   \* what became of the STOP, "none" as long as there is none
  result     \* what the last call returned, "none" while one is running

inside == <<open, failed, release>>
vars   == <<session, doing, inside, result>>

Opens      == {"write", "read", "write_read", "write_no_stop"}
Continues  == {"read_after_restart", "stop"}
WireErrors == {"ERR_COLLISION", "ERR_BUS", "ERR_TIMEOUT"}

Init ==
  /\ session = "off" /\ doing = "none" /\ result = "OK"
  /\ open = FALSE /\ failed = "OK" /\ release = "none"

(* A call that is refused changes nothing, and its result tells why: the   *)
(* other half of a no-STOP transfer is missing, or is in the way.          *)
Refusals ==
  CASE session = "off"  -> {"ERR_INVALID_ARG", "ERR_NOT_INITIALIZED"}
    [] session = "idle" -> {"ERR_INVALID_ARG", "ERR_SEQUENCE", "ERR_BUSY"}
    [] OTHER            -> {"ERR_INVALID_ARG", "ERR_BUSY"}

Refuse == result' \in Refusals /\ UNCHANGED <<session, doing, inside>>

(* The calls that do not touch the wires.                                  *)
InitCall ==
  session' = "idle" /\ result' = "OK" /\ UNCHANGED <<doing, inside>>

SpeedCall ==
  session = "idle" /\ result' = "OK" /\ UNCHANGED <<session, doing, inside>>

DeinitCall ==
  /\ session # "off"
  /\ session' = "off" /\ result' = "OK"
  /\ UNCHANGED <<doing, inside>>

(* An idle instance opens transactions, a held one continues its own.      *)
Entitled(op) ==
  \/ op \in Opens /\ session = "idle"
  \/ op \in Continues /\ session = "held"

(* A call on an instance held by a stale transaction only closes that one, *)
(* and counts as timed out from the start.                                 *)
Begin(op) ==
  /\ doing' = op /\ result' = "none"
  /\ \/ Entitled(op) /\ failed' = "OK"
     \/ session = "held" /\ failed' = "ERR_TIMEOUT"
  /\ open' = (session = "held")
  /\ UNCHANGED <<session, release>>

Call ==
  /\ doing = "none"
  /\ \/ Refuse \/ InitCall \/ SpeedCall \/ DeinitCall
     \/ \E op \in Opens \cup Continues \cup {"deinit"} : Begin(op)

-----------------------------------------------------------------------------
(* What happens in a running call.                                         *)

Running == doing # "none" /\ release = "none"

(* Its write phase is over.                                                *)
Written ==
  /\ Running /\ doing \in {"write", "write_read"} /\ failed = "OK" /\ ~open
  /\ open' = TRUE
  /\ UNCHANGED <<session, doing, failed, release, result>>

(* A step of its transfer fails; only there does a NACK show.              *)
Break ==
  /\ Running /\ doing \notin {"stop", "deinit"} /\ failed = "OK"
  /\ failed' \in WireErrors \cup {"ERR_NACK"}
  /\ UNCHANGED <<session, doing, open, release, result>>

(* It makes its one STOP: after a failure, after a write, after a read.    *)
Stop ==
  /\ Running /\ (failed # "OK" \/ open \/ doing = "read")
  /\ release' \in WireErrors \cup {"OK"}
  /\ UNCHANGED <<session, doing, open, failed, result>>

-----------------------------------------------------------------------------
(* The ways a running call returns.  Releasing the instance succeeds       *)
(* whatever became of the STOP.                                            *)

Result(to, st) ==
  session' = (IF doing = "deinit" THEN "off" ELSE to) /\ result' = st

(* A write without STOP went well.                                         *)
LeaveOpen ==
  /\ Running /\ doing = "write_no_stop" /\ failed = "OK"
  /\ Result("held", "OK")

(* After a good STOP nothing is open, and the first error is reported.     *)
Closed == release = "OK" /\ Result("idle", failed)

(* A write is open and its STOP failed: it stays open, and the STOP's own  *)
(* error takes the place of the first one.                                 *)
StaysOpen == open /\ release \in WireErrors /\ Result("held", release)

(* No write was open: nothing is recorded of a STOP that failed, and it is *)
(* only reported if nothing else is.                                       *)
Forgotten ==
  /\ ~open /\ release \in WireErrors
  /\ Result("idle", IF failed = "OK" THEN release ELSE failed)

Return ==
  /\ doing # "none" /\ doing' = "none"
  /\ open' = FALSE /\ failed' = "OK" /\ release' = "none"
  /\ LeaveOpen \/ Closed \/ StaysOpen \/ Forgotten

Next == Call \/ Written \/ Break \/ Stop \/ Return

Spec == Init /\ [][Next]_vars
=============================================================================
