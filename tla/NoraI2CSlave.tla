---------------------------- MODULE NoraI2CSlave ----------------------------
(***************************************************************************)
(* The interrupt-driven slave engine of one active instance                *)
(* (nora_i2c_dspic33ck_slave.c): _SI2CxInterrupt clears the event flag,    *)
(* takes one snapshot of I2CxSTAT and acts on it, while the bus goes on    *)
(* wherever the slave does not hold SCL.                                   *)
(*                                                                         *)
(* The peripheral and the master at the other end (the Bus* actions) are   *)
(* not in the repository; they are modelled from the head comment of the   *)
(* file and from what slave_service() expects of the flags.  Only          *)
(* transactions with this slave are modelled.                              *)
(***************************************************************************)
EXTENDS Naturals

CONSTANTS
  Stretches,   \* the values of config->clock_stretch
  Prompts,     \* whether the vector is sure to read I2CxSTAT before the next
               \* bus event once it has cleared its flag
  MaxAhead     \* the counters of bytes saturate here

ASSUME SlaveAssumption ==
  /\ Stretches \subseteq BOOLEAN
  /\ Prompts \subseteq BOOLEAN
  /\ MaxAhead \in Nat /\ MaxAhead >= 2

VARIABLES
  stretch, prompt,   \* fixed: one of Stretches, one of Prompts
  stat,              \* the bits set in I2CxSTAT
  rcv,               \* what I2CxRCV holds while RBF is set
  loaded,            \* I2CxTRN holds a byte that is not shifted out yet
  held,              \* the slave holds SCL low (SCLREL is clear)
  iflag,             \* _SI2CxIF
  wire,              \* where the transaction on the bus has got to
  g_reading,
  isr,               \* the next step of the vector
  snap,              \* the local variable stat of slave_service()
  app,               \* the transaction the callbacks have told the application of
  owed,              \* data bytes ACKed to the master, not given to on_rx_byte()
  ahead              \* bytes taken from on_tx_byte(), not shifted out

config == <<stretch, prompt>>
bus    == <<rcv, wire>>
engine == <<g_reading, isr, snap>>
books  == <<app, owed, ahead>>
vars   == <<config, stat, bus, loaded, held, iflag, engine, books>>

StatBits == {"RBF", "D_A", "R_W", "P", "ACKSTAT", "I2COV"}
IsrSteps == {"idle", "clear", "stat", "recv", "addr", "ask", "load", "data",
             "acked", "release", "stop", "ov"}
AddressBits == {"D_A", "R_W"}

(* The type invariant.                                                     *)
TypeOK ==
  /\ stretch \in BOOLEAN /\ prompt \in BOOLEAN
  /\ stat \subseteq StatBits /\ snap \subseteq StatBits
  /\ rcv \in {"address", "data"}
  /\ loaded \in BOOLEAN /\ held \in BOOLEAN /\ iflag \in BOOLEAN
  /\ wire \in {"idle", "addr_w", "addr_r", "rx", "tx", "ended"}
  /\ g_reading \in BOOLEAN
  /\ isr \in IsrSteps
  /\ app \in {"closed", "w", "r"}
  /\ owed \in 0 .. MaxAhead /\ ahead \in 0 .. MaxAhead

(* What nora_i2c_slave_init() leaves.                                      *)
Init ==
  /\ stretch \in Stretches /\ prompt \in Prompts
  /\ stat = {} /\ snap = {} /\ rcv = "data"
  /\ loaded = FALSE /\ held = FALSE /\ iflag = FALSE
  /\ wire = "idle"
  /\ g_reading = FALSE /\ isr = "idle"
  /\ app = "closed" /\ owed = 0 /\ ahead = 0

OneMore(n) == IF n < MaxAhead THEN n + 1 ELSE n
OneLess(n) == IF n > 0 THEN n - 1 ELSE 0

-----------------------------------------------------------------------------
(* The bus.                                                                *)

(* Nothing moves on the bus while SCL is held.                             *)
BusStep ==
  /\ ~held
  /\ prompt => isr # "stat"
  /\ UNCHANGED <<config, engine, app>>

(* A START, repeated or not, clears P.                                     *)
BusStart ==
  /\ BusStep
  /\ wire \in {"idle", "rx", "ended"}
  /\ wire' \in {"addr_w", "addr_r"}
  /\ stat' = stat \ {"P"}
  /\ UNCHANGED <<rcv, loaded, held, iflag, owed, ahead>>

(* A byte that finds the last one unread, or the overflow latch set, is    *)
(* not taken and not ACKed.                                                *)
Full == stat \cap {"RBF", "I2COV"} # {}

BusOverflow ==
  /\ BusStep
  /\ wire \in {"addr_w", "addr_r", "rx"}
  /\ Full
  /\ stat' = stat \cup {"I2COV"}
  /\ iflag' \in {iflag, TRUE}
  /\ wire' = "ended"
  /\ UNCHANGED <<rcv, loaded, held, owed, ahead>>

(* The address matched: SCL is held, whatever clock_stretch says.          *)
BusAddress ==
  /\ BusStep
  /\ wire \in {"addr_w", "addr_r"}
  /\ ~Full
  /\ stat' = (stat \ AddressBits) \cup {"RBF"}
               \cup (IF wire = "addr_r" THEN {"R_W"} ELSE {})
  /\ rcv' = "address"
  /\ wire' = IF wire = "addr_r" THEN "tx" ELSE "rx"
  /\ held' = TRUE /\ iflag' = TRUE
  /\ UNCHANGED <<loaded, owed, ahead>>

BusReceive ==
  /\ BusStep
  /\ wire = "rx"
  /\ ~Full
  /\ stat' = stat \cup {"RBF", "D_A"}
  /\ rcv' = "data"
  /\ held' = stretch /\ iflag' = TRUE
  /\ owed' = OneMore(owed)
  /\ UNCHANGED <<wire, loaded, ahead>>

(* A byte has been shifted out; SCL is held if the master wants another.   *)
BusTransmit ==
  /\ BusStep
  /\ wire = "tx"
  /\ loaded' = FALSE
  /\ ahead' = OneLess(ahead)
  /\ iflag' = TRUE
  /\ \/ /\ stat' = stat \ {"ACKSTAT"}
        /\ held' = TRUE
        /\ UNCHANGED wire
     \/ /\ stat' = stat \cup {"ACKSTAT"}
        /\ wire' = "ended"
        /\ UNCHANGED held
  /\ UNCHANGED <<rcv, owed>>

(* PCIE makes a STOP raise the interrupt.                                  *)
BusStop ==
  /\ BusStep
  /\ wire \in {"rx", "ended"}
  /\ wire' = "idle"
  /\ stat' = stat \cup {"P"}
  /\ iflag' = TRUE
  /\ UNCHANGED <<rcv, loaded, held, owed, ahead>>

BusNext == BusStart \/ BusOverflow \/ BusAddress \/ BusReceive
             \/ BusTransmit \/ BusStop

-----------------------------------------------------------------------------
(* The vector.                                                             *)

At(step) == isr = step /\ UNCHANGED <<config, bus>>

EnterVector ==
  /\ At("idle") /\ iflag
  /\ isr' = "clear"
  /\ UNCHANGED <<stat, loaded, held, iflag, g_reading, snap, books>>

(* nora_i2c_slave_event_irq(): the flag goes before the events are looked  *)
(* at.                                                                     *)
nora_i2c_slave_irq_clear ==
  /\ At("clear")
  /\ iflag' = FALSE
  /\ isr' = "stat"
  /\ UNCHANGED <<stat, loaded, held, g_reading, snap, books>>

(* Mutant: SCL is released before the byte is read.                        *)
Mut_release_first ==
  /\ At("stat")
  /\ snap' = stat
  /\ isr' = IF "RBF" \in stat THEN "recv"
            ELSE IF g_reading THEN "acked" ELSE "stop"
  /\ held' = FALSE
  /\ UNCHANGED <<stat, loaded, iflag, g_reading, books>>

(* slave_service() decides everything but the overflow on this snapshot.   *)
ReadStat ==
  /\ At("stat")
  /\ snap' = stat
  /\ isr' = IF "RBF" \in stat THEN "recv"
            ELSE IF g_reading THEN "acked" ELSE "stop"
  /\ UNCHANGED <<stat, loaded, held, iflag, g_reading, books>>

(* Reading I2CxRCV clears RBF; a data byte that comes during a read has no *)
(* taker.                                                                  *)
ReadRcv ==
  /\ At("recv")
  /\ stat' = stat \ {"RBF"}
  /\ isr' = IF "D_A" \notin snap THEN "addr"
            ELSE IF g_reading THEN "release" ELSE "data"
  /\ UNCHANGED <<loaded, held, iflag, g_reading, snap, books>>

(* Mutant: the direction is only latched when it is a read.                *)
Mut_address_keeps_direction ==
  /\ At("addr")
  /\ g_reading' = (g_reading \/ "R_W" \in snap)
  /\ app' = IF "R_W" \in snap THEN "r" ELSE "w"
  /\ isr' = IF "R_W" \in snap THEN "ask" ELSE "release"
  /\ UNCHANGED <<stat, loaded, held, iflag, snap, owed, ahead>>

(* The address byte: on_addr_match().                                      *)
AddressByte ==
  /\ At("addr")
  /\ g_reading' = ("R_W" \in snap)
  /\ app' = IF "R_W" \in snap THEN "r" ELSE "w"
  /\ isr' = IF "R_W" \in snap THEN "ask" ELSE "release"
  /\ UNCHANGED <<stat, loaded, held, iflag, snap, owed, ahead>>

(* on_tx_byte() and the TRN write that takes its result.                   *)
next_tx_byte ==
  /\ At("ask")
  /\ ahead' = OneMore(ahead)
  /\ isr' = "load"
  /\ UNCHANGED <<stat, loaded, held, iflag, g_reading, snap, app, owed>>

WriteTrn ==
  /\ At("load")
  /\ loaded' = TRUE
  /\ isr' = "release"
  /\ UNCHANGED <<stat, held, iflag, g_reading, snap, books>>

(* on_rx_byte().                                                           *)
DataByte ==
  /\ At("data")
  /\ owed' = OneLess(owed)
  /\ isr' = "release"
  /\ UNCHANGED <<stat, loaded, held, iflag, g_reading, snap, app, ahead>>

(* Mutants: SCL is released without a new byte; the NACK is not noticed.   *)
Mut_ack_releases_only ==
  /\ At("acked")
  /\ isr' = IF "ACKSTAT" \in snap THEN "stop" ELSE "release"
  /\ g_reading' = ("ACKSTAT" \notin snap)
  /\ UNCHANGED <<stat, loaded, held, iflag, snap, books>>

Mut_nack_ignored ==
  /\ At("acked")
  /\ isr' = "ask"
  /\ UNCHANGED <<stat, loaded, held, iflag, g_reading, snap, books>>

(* The master has answered a byte of ours: another one, or the end.        *)
AckByte ==
  /\ At("acked")
  /\ isr' = IF "ACKSTAT" \in snap THEN "stop" ELSE "ask"
  /\ g_reading' = ("ACKSTAT" \notin snap)
  /\ UNCHANGED <<stat, loaded, held, iflag, snap, books>>

ReleaseScl ==
  /\ At("release")
  /\ held' = FALSE
  /\ isr' = "stop"
  /\ UNCHANGED <<stat, loaded, iflag, g_reading, snap, books>>

(* Mutant: STOP is looked up afresh instead of in the snapshot.            *)
Mut_stop_read_afresh ==
  /\ At("stop")
  /\ isr' = "ov"
  /\ IF "P" \in stat
     THEN g_reading' = FALSE /\ app' = "closed"
     ELSE UNCHANGED <<g_reading, app>>
  /\ UNCHANGED <<stat, loaded, held, iflag, snap, owed, ahead>>

(* on_stop().                                                              *)
StopSeen ==
  /\ At("stop")
  /\ isr' = "ov"
  /\ IF "P" \in snap
     THEN g_reading' = FALSE /\ app' = "closed"
     ELSE UNCHANGED <<g_reading, app>>
  /\ UNCHANGED <<stat, loaded, held, iflag, snap, owed, ahead>>

(* Mutant: the overflow latch is left.                                     *)
Mut_overflow_kept ==
  /\ At("ov")
  /\ isr' = "idle" /\ snap' = {}
  /\ UNCHANGED <<stat, loaded, held, iflag, g_reading, books>>

(* Mutant: the event flag is cleared after the service routine as well.    *)
Mut_flag_cleared_after ==
  /\ At("ov")
  /\ stat' = stat \ {"I2COV"}
  /\ isr' = "idle" /\ snap' = {}
  /\ iflag' = FALSE
  /\ UNCHANGED <<loaded, held, g_reading, books>>

(* The overflow latch is read and cleared on the way out, and the snapshot *)
(* goes with the routine.                                                  *)
ClearOverflow ==
  /\ At("ov")
  /\ stat' = stat \ {"I2COV"}
  /\ isr' = "idle" /\ snap' = {}
  /\ UNCHANGED <<loaded, held, iflag, g_reading, books>>

VectorNext ==
  \/ EnterVector \/ nora_i2c_slave_irq_clear \/ ReadStat \/ ReadRcv
  \/ AddressByte \/ next_tx_byte \/ WriteTrn \/ DataByte \/ AckByte
  \/ ReleaseScl \/ StopSeen \/ ClearOverflow

Next == BusNext \/ VectorNext

(* An enabled interrupt is taken and its vector runs to its end.           *)
Spec == Init /\ [][Next]_vars /\ WF_vars(VectorNext)

-----------------------------------------------------------------------------
(* What the engine promises.                                               *)

(* A bus that waits for the vector: SCL is held after every byte, and no   *)
(* event falls between the clearing of the flag and the snapshot.          *)
Paced == stretch /\ prompt

(* Every data byte that was ACKed to the master reaches on_rx_byte(): it   *)
(* waits in I2CxRCV, or is on its way there in the vector.  No timing and  *)
(* no stretching is assumed.                                               *)
AckedBytesDelivered ==
  owed = (IF "RBF" \in stat /\ rcv = "data" THEN 1 ELSE 0)
           + (IF isr = "data" THEN 1 ELSE 0)

(* A master that reads is never clocked out an empty I2CxTRN: the byte is  *)
(* there before SCL is released.                                           *)
LoadedBeforeRelease == (Paced /\ wire = "tx" /\ ~held) => loaded

(* clock_stretch keeps the master from running over an unread byte,        *)
(* however late the vector is entered and however long its callbacks take. *)
StretchPreventsOverflow == Paced => "I2COV" \notin stat

(* on_tx_byte() is called once for each byte the master reads: what it     *)
(* returned and the master did not get yet is the byte in I2CxTRN.         *)
OneByteAhead ==
  Paced => ahead = (IF loaded THEN 1 ELSE 0) + (IF isr = "load" THEN 1 ELSE 0)

(* SCL is never held with nothing left that makes the vector let go of it: *)
(* the event it is held for is still to be served, however many others     *)
(* were served since.                                                      *)
SclHeldForService == (prompt /\ held) => iflag \/ isr # "idle"

(* The slave lets go of SCL whenever it holds it: no deadlock between a    *)
(* master that waits for SCL and a slave that waits for an event.          *)
SclReleased == (prompt /\ held) ~> ~held

(* "Never let a receive-overflow latch wedge the slave" (slave_service()). *)
OverflowCleared == ("I2COV" \in stat) ~> ("I2COV" \notin stat)

-----------------------------------------------------------------------------
(* The abstract specification it implements.                               *)

calling ==
  CASE isr = "addr" -> "on_addr_match"
    [] isr = "data" -> "on_rx_byte"
    [] isr = "ask" -> "on_tx_byte"
    [] isr = "stop" /\ "P" \in snap -> "on_stop"
    [] OTHER -> "none"

Callbacks == INSTANCE NoraI2CCallbacks WITH
  loose <- ~Paced, open <- app, calling <- calling

(* The callbacks come in an order the application can follow, whatever the *)
(* timing: no byte without a matched address, none in the wrong direction  *)
(* (each of them rests on the snapshot and on g_reading, latched an        *)
(* address ago), and on a bus that waits for the vector on_stop() ends a   *)
(* transaction once.                                                       *)
CallbacksInOrder == Callbacks!Spec

-----------------------------------------------------------------------------
(* What comments say of it and the code does not do.                       *)

(* "The service routine is idempotent, so a spurious re-entry is harmless" *)
(* (nora_i2c_slave_event_irq()): with SCL held after every byte, a re-     *)
(* entry does not repeat on_stop() ...                                     *)
ReentryRepeatsNoStop ==
  [][(isr = "stop" /\ isr' = "ov" /\ "P" \in snap /\ stretch)
       => app # "closed"]_vars

(* ... nor does it leave the bus to hang.                                  *)
ReentryHoldsNoClock == (stretch /\ held) ~> ~held
=============================================================================
