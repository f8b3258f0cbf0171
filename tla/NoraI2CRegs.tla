---------------------------- MODULE NoraI2CRegs ----------------------------
(***************************************************************************)
(* The register layer of one I2C instance, as the master engine sees it:   *)
(* the request bits of I2CxCONL, the flags of I2CxSTAT and what the        *)
(* peripheral does with them on its own.                                   *)
(*                                                                         *)
(* Register accesses (the first half) are nora_i2c_dspic33ck_reg.h.  The   *)
(* peripheral itself (the second half, the Hw* actions) is not in the      *)
(* repository: it is modelled from what the comments and polling loops of  *)
(* nora_i2c_dspic33ck_master.c expect of it.                               *)
(***************************************************************************)
EXTENDS Integers, FiniteSets

CONSTANTS
  Overlap,     \* what a request made during another one may do, see Accepts
  Collisions   \* whether another master or noise can make this one lose the bus

ASSUME RegsAssumption ==
  /\ Overlap \subseteq {"queued", "ignored"}
  /\ Overlap # {}
  /\ Collisions \in BOOLEAN

VARIABLES
  conl,   \* the bits set in I2CxCONL
  stat,   \* the bits set in I2CxSTAT
  trn,    \* what I2CxTRN holds while TRSTAT is set
  bus,    \* a START of this master is open on the wires (no STOP since)
  drv     \* the addressed device drives SDA: it was ACKed and shifts a byte out

regs == <<conl, stat, trn, bus, drv>>

ReqBits   == {"SEN", "RSEN", "PEN", "RCEN", "ACKEN"}
ConlBits  == ReqBits \cup {"ACKDT", "I2CEN"}
FaultBits == {"IWCOL", "I2COV", "BCL"}
MoveBits  == {"TBF", "TRSTAT", "RBF"}
StatBits  == FaultBits \cup MoveBits \cup {"ACKSTAT"}
TrnBytes  == {"none", "plain", "read_addr"}   \* "read_addr": (addr7 << 1) | 1

RegsTypeOK ==
  /\ conl \subseteq ConlBits
  /\ stat \subseteq StatBits
  /\ trn \in TrnBytes
  /\ bus \in BOOLEAN
  /\ drv \in BOOLEAN

RegsInit ==
  /\ conl = {} /\ stat = {} /\ trn = "none" /\ bus = FALSE /\ drv = FALSE

requests == conl \cap ReqBits

(* idle_request_bits_clear() and the TRSTAT test that goes with it.        *)
idle_request_bits_clear == requests = {}
Busy == "TRSTAT" \in stat \/ ~idle_request_bits_clear

(* What quiet means for the next transfer: nothing asked for, nothing      *)
(* moving, no byte waiting to be read.                                     *)
Quiet == requests = {} /\ stat \cap MoveBits = {}

-----------------------------------------------------------------------------
(* Register accesses of the driver.                                        *)

(* A write to a request bit while another request or a transmission is     *)
(* outstanding: the driver's text leaves open whether the module takes it  *)
(* beside the other one ("queued") or drops it ("ignored").                *)
Accepts(how) == Busy => how = "queued"

Request(b) ==
  \E how \in Overlap :
     conl' = IF Accepts(how) THEN conl \cup {b} ELSE conl

RequestAck(ack) ==
  LET chosen == IF ack THEN conl \ {"ACKDT"} ELSE conl \cup {"ACKDT"} IN
  \E how \in Overlap :
     conl' = IF Accepts(how) THEN chosen \cup {"ACKEN"} ELSE chosen

(* The IWCOL clearing and the TRN write of nora_i2c_ll_write_byte_issue(). *)
WriteTrn(byte) ==
  \E how \in Overlap :
     IF Accepts(how)
     THEN /\ stat' = (stat \ {"IWCOL"}) \cup {"TBF", "TRSTAT"}
          /\ trn' = byte
     ELSE /\ stat' = stat \cup {"IWCOL"}
          /\ UNCHANGED trn

(* Losing I2CEN stops whatever the module was doing and lets go of the     *)
(* lines; whether an unread byte survives is left open.                    *)
ModuleReset(faults) ==
  \E unread \in SUBSET (stat \cap {"RBF"}) :
     /\ stat' = (stat \ (MoveBits \cup faults)) \cup unread
     /\ trn' = "none"
     /\ bus' = FALSE
     /\ drv' = FALSE

-----------------------------------------------------------------------------
(* The peripheral.                                                         *)

(* SEN, RSEN, PEN and ACKEN clear when the condition is on the wires.      *)
HwStarted(b) ==
  /\ b \in requests \cap {"SEN", "RSEN"}
  /\ bus' = TRUE
  /\ drv' = FALSE
  /\ UNCHANGED stat

HwStopped(b) ==
  /\ b \in requests \cap {"PEN"}
  /\ bus' = FALSE
  /\ drv' = FALSE
  /\ UNCHANGED stat

(* An ACKed device goes on sending, a NACKed one lets go of SDA.           *)
HwAcked(b) ==
  /\ b \in requests \cap {"ACKEN"}
  /\ drv' = (bus /\ "ACKDT" \notin conl)
  /\ UNCHANGED <<stat, bus>>

(* RCEN clears with the eighth bit; a byte nobody read makes an overflow.  *)
HwReceived(b) ==
  /\ b \in requests \cap {"RCEN"}
  /\ stat' = stat \cup (IF "RBF" \in stat THEN {"I2COV"} ELSE {"RBF"})
  /\ UNCHANGED <<bus, drv>>

HwFinish(b) ==
  /\ "I2CEN" \in conl
  /\ HwStarted(b) \/ HwStopped(b) \/ HwAcked(b) \/ HwReceived(b)
  /\ conl' = conl \ {b}
  /\ UNCHANGED trn

(* TBF clears when the byte moves to the shift register.                   *)
HwShift ==
  /\ "I2CEN" \in conl
  /\ "TBF" \in stat
  /\ stat' = stat \ {"TBF"}
  /\ UNCHANGED <<conl, trn, bus, drv>>

(* TRSTAT clears after the ninth clock, with the device's answer.          *)
HwSent(acked) ==
  /\ "I2CEN" \in conl
  /\ "TRSTAT" \in stat /\ "TBF" \notin stat
  /\ stat' = (stat \ {"TRSTAT", "ACKSTAT"})
               \cup (IF acked THEN {} ELSE {"ACKSTAT"})
  /\ drv' = (bus /\ acked /\ trn = "read_addr")
  /\ trn' = "none"
  /\ UNCHANGED <<conl, bus>>

(* A lost arbitration aborts what the module was doing.                    *)
HwCollide ==
  /\ Collisions
  /\ "I2CEN" \in conl
  /\ Busy
  /\ conl' = conl \ ReqBits
  /\ stat' = (stat \ {"TBF", "TRSTAT"}) \cup {"BCL"}
  /\ trn' = "none"
  /\ bus' = FALSE
  /\ drv' = FALSE

HwNext ==
  \/ \E b \in ReqBits : HwFinish(b)
  \/ HwShift
  \/ \E acked \in BOOLEAN : HwSent(acked)
  \/ HwCollide

(* A healthy wire: every condition and byte completes.  A STOP can only be *)
(* relied on once no device drives SDA.                                    *)
HwFairness ==
  /\ \A b \in ReqBits \ {"PEN"} : WF_regs(HwFinish(b))
  /\ WF_regs(HwFinish("PEN") /\ ~drv)
  /\ WF_regs(HwShift)
  /\ WF_regs(\E acked \in BOOLEAN : HwSent(acked))
=============================================================================
