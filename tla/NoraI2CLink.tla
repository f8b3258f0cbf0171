---------------------------- MODULE NoraI2CLink ----------------------------
(***************************************************************************)
(* Both engines of the HAL at the two ends of one bus: the blocking master *)
(* of one instance (NoraI2CMaster) and the slave vector of another one     *)
(* (NoraI2CSlave), with no other device between them.  Neither end's       *)
(* environment is free here: what the master's module does on the wires is *)
(* what the slave's module sees, and the slave holds SCL against it.       *)
(*                                                                         *)
(* The slave is set up before the master starts and stays so, and every    *)
(* transfer is addressed to it.                                            *)
(***************************************************************************)
EXTENDS NoraI2CMaster

CONSTANTS
  Stretches, MaxAhead   \* of NoraI2CSlave

(* One master, and no clock: whatever comes to a stop here does so for     *)
(* good.                                                                   *)
ASSUME LinkAssumption ==
  /\ Collisions = FALSE
  /\ \A config \in Configs : ~config.get_ms

(* The variables of NoraI2CSlave, its stat renamed.                        *)
VARIABLES stretch, prompt, s_stat, rcv, loaded, held, iflag, wire, g_reading,
          isr, snap, app, owed, ahead

(* History, to compare what was asked of the master with the callbacks.    *)
VARIABLES
  job,      \* the last public call that got as far as the wires
  got,      \* on_rx_byte() calls since the last match of a write address
  taken     \* on_tx_byte() calls since the last match of a read address

Slave == INSTANCE NoraI2CSlave WITH stat <- s_stat, Prompts <- {TRUE}

engine == <<hal, now, call, calm>>
slave  == <<stretch, prompt, s_stat, rcv, loaded, held, iflag, wire,
            g_reading, isr, snap, app, owed, ahead>>
tally  == <<job, got, taken>>
link   == <<vars, slave, tally>>

NoJob == [op |-> "none", tx |-> 0, rx |-> 0]

LinkInit ==
  /\ Init /\ Slave!Init
  /\ job = NoJob /\ got = 0 /\ taken = 0

-----------------------------------------------------------------------------
(* The two processors.                                                     *)

CallMade ==
  /\ CallNext
  /\ job' = IF call'.at = "rest" THEN NoJob
            ELSE [op |-> call'.op, tx |-> call'.tx, rx |-> call'.rx]
  /\ UNCHANGED <<slave, got, taken>>

EngineStep == EngineNext /\ UNCHANGED <<slave, tally>>

Tally(count, starts, counts) ==
  IF starts THEN 0 ELSE IF counts THEN count + 1 ELSE count

VectorStep ==
  /\ Slave!VectorNext
  /\ got' = Tally(got, isr = "addr" /\ "R_W" \notin snap, isr = "data")
  /\ taken' = Tally(taken, isr = "addr" /\ "R_W" \in snap, isr = "ask")
  /\ UNCHANGED <<vars, job>>

-----------------------------------------------------------------------------
(* The wires: one step of each module.                                     *)

(* The direction the master will send with the address.                    *)
Reads == call.op = "read" \/ call.at = "restart"

Condition(b) ==
  /\ HwFinish(b)
  /\ Slave!BusStart
  /\ wire' = IF Reads THEN "addr_r" ELSE "addr_w"

Shift == HwShift /\ UNCHANGED slave

ByteTaken   == HwSent(TRUE) /\ (Slave!BusAddress \/ Slave!BusReceive)
ByteRefused == HwSent(FALSE) /\ Slave!BusOverflow

(* Eight bits of the slave's, whether I2CxTRN was loaded or not ...        *)
ByteRead ==
  /\ HwFinish("RCEN")
  /\ wire = "tx" /\ ~held
  /\ UNCHANGED slave

(* ... and the ninth clock, with the master's answer.                      *)
Answer ==
  /\ HwFinish("ACKEN")
  /\ Slave!BusTransmit
  /\ "ACKSTAT" \in s_stat' <=> "ACKDT" \in conl

Stop == HwFinish("PEN") /\ Slave!BusStop

WireStep ==
  /\ \/ \E b \in {"SEN", "RSEN"} : Condition(b)
     \/ Shift \/ ByteTaken \/ ByteRefused \/ ByteRead \/ Answer \/ Stop
  /\ UNCHANGED <<engine, tally>>

LinkNext == CallMade \/ EngineStep \/ VectorStep \/ WireStep

(* Both processors run, and the wires do what both ends let them do.       *)
LinkSpec ==
  /\ LinkInit /\ [][LinkNext]_link
  /\ WF_link(EngineStep) /\ WF_link(VectorStep) /\ WF_link(WireStep)

-----------------------------------------------------------------------------
(* What the two promise each other.                                        *)

(* The slave's vector has caught up with the bus.                          *)
Settled == isr = "idle" /\ ~iflag

Succeeded(ops) ==
  call.at = "rest" /\ call.st = "OK" /\ job.op \in ops /\ Settled

WriteOps == {"write", "write_read", "write_no_stop"}
ReadOps  == {"read", "write_read", "read_after_restart"}

(* What a successful call says it has transferred is what the callbacks of *)
(* the slave have seen, byte for byte: each byte written went to           *)
(* on_rx_byte() once, each byte read is one call of on_tx_byte(), none is  *)
(* fetched ahead of the master's NACK.  (The second needs clock_stretch,   *)
(* see ReadsLoadedBytes.)                                                  *)
TransfersMatch ==
  /\ Succeeded(WriteOps) => got = job.tx
  /\ stretch /\ Succeeded(ReadOps) => taken = job.rx

(* The slave's application knows of an open transaction exactly when the   *)
(* master holds one pending: each of the STOPs the master's calls issue    *)
(* becomes an on_stop(), and nora_i2c_master_write_no_stop() does not.     *)
AppFollowsPending ==
  Succeeded(WriteOps \cup ReadOps \cup {"stop"}) =>
    (app # "closed" <=> g_pending_state # "NONE")

(* A byte the master reads is one the slave has loaded: both its calls and *)
(* the vector are slow, and SCL is all that keeps them in step.  (Without  *)
(* clock_stretch a repeated START can follow a written byte before the     *)
(* vector is done with it, and the address is then released too early.)    *)
ReadsLoadedBytes ==
  [][(stretch /\ "RCEN" \in conl \ conl' /\ call'.at = "rx") => loaded]_link

(* Every call returns: master and slave never wait for each other, the one *)
(* for SCL and the other for an event.                                     *)
LinkCallsReturn == (call.at # "rest") ~> (call.at = "rest")

(* The same as a safety property, with and without clock_stretch: while a  *)
(* call polls for a bit its module has something to do, and either the     *)
(* slave lets the clock go and has left the wires where the module can do  *)
(* it, or it holds SCL and its vector is running or about to be raised.    *)
Outstanding == "I2CEN" \in conl /\ (Busy \/ "TBF" \in stat)

WiresFit ==
  /\ conl \cap {"SEN", "RSEN"} # {} => wire \in {"idle", "rx", "ended"}
  /\ "PEN" \in conl => wire \in {"rx", "ended"}
  /\ conl \cap {"RCEN", "ACKEN"} # {} => wire = "tx"
  /\ "TRSTAT" \in stat => wire \in {"addr_w", "addr_r", "rx"}

NoStandoff ==
  (call.at # "rest" /\ call.ph # "issue" /\ ~done) =>
    /\ Outstanding
    /\ IF held THEN iflag \/ isr # "idle" ELSE WiresFit

(* A slave that stretches never answers a call with a NACK.                *)
StretchingSlaveAccepts == stretch => call.st # "ERR_NACK"
=============================================================================
