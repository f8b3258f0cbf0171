-------------------------- MODULE NoraI2CSlaveProofs -------------------------
(***************************************************************************)
(* Proofs about NoraI2CSlave: of any slave, and of one that stretches on a *)
(* bus that waits for the vector (Paced).                                  *)
(***************************************************************************)
EXTENDS NoraI2CSlave, TLAPS

(* The byte counters stay within their bound.                              *)
LEMMA CountersBounded ==
  ASSUME NEW n \in 0 .. MaxAhead
  PROVE  OneMore(n) \in 0 .. MaxAhead /\ OneLess(n) \in 0 .. MaxAhead
  BY SlaveAssumption DEF OneMore, OneLess

(* What nora_i2c_slave_init() leaves is of the right types.                *)
LEMMA SlaveTypeInit ==
  ASSUME Init
  PROVE  TypeOK
<1>1. stretch \in BOOLEAN /\ prompt \in BOOLEAN
  BY SlaveAssumption DEF Init
<1>2. owed \in 0 .. MaxAhead /\ ahead \in 0 .. MaxAhead
  BY SlaveAssumption DEF Init
<1>. QED  BY <1>1, <1>2 DEF Init, TypeOK, StatBits, IsrSteps

(* A step of the bus keeps the types.                                      *)
LEMMA BusType ==
  ASSUME TypeOK, BusNext
  PROVE  TypeOK'
<1>. USE DEF TypeOK, BusStep, config, engine, StatBits, AddressBits
<1>1. CASE BusStart
  BY <1>1 DEF BusStart
<1>2. CASE BusOverflow
  BY <1>2 DEF BusOverflow
<1>3. CASE BusAddress
  BY <1>3 DEF BusAddress
<1>4. CASE BusReceive
  BY <1>4, CountersBounded DEF BusReceive
<1>5. CASE BusTransmit
  BY <1>5, CountersBounded DEF BusTransmit
<1>6. CASE BusStop
  BY <1>6 DEF BusStop
<1>. QED  BY ONLY BusNext, <1>1, <1>2, <1>3, <1>4, <1>5, <1>6 DEF BusNext

(* A step of the vector keeps the types.                                   *)
LEMMA VectorType ==
  ASSUME TypeOK, VectorNext
  PROVE  TypeOK'
<1>. USE DEF TypeOK, At, config, bus, books, IsrSteps
<1>1. CASE EnterVector \/ nora_i2c_slave_irq_clear
  BY <1>1 DEF EnterVector, nora_i2c_slave_irq_clear
<1>2. CASE ReadStat
  BY <1>2 DEF ReadStat
<1>3. CASE ReadRcv
  BY <1>3 DEF ReadRcv
<1>4. CASE AddressByte
  BY <1>4 DEF AddressByte
<1>5. CASE next_tx_byte
  BY <1>5, CountersBounded DEF next_tx_byte
<1>6. CASE WriteTrn
  BY <1>6 DEF WriteTrn
<1>7. CASE DataByte
  BY <1>7, CountersBounded DEF DataByte
<1>8. CASE AckByte
  BY <1>8 DEF AckByte
<1>9. CASE ReleaseScl
  BY <1>9 DEF ReleaseScl
<1>10. CASE StopSeen
  BY <1>10 DEF StopSeen
<1>11. CASE ClearOverflow
  BY <1>11 DEF ClearOverflow
<1>. QED
  BY ONLY VectorNext, <1>1, <1>2, <1>3, <1>4, <1>5, <1>6, <1>7, <1>8, <1>9,
     <1>10, <1>11
     DEF VectorNext

(* Every variable keeps to the values its register bits and its C type     *)
(* allow, whatever the bus does between the steps of the vector.           *)
THEOREM SlaveTypeCorrect == Spec => []TypeOK
<1>1. Init => TypeOK
  BY SlaveTypeInit
<1>2. TypeOK /\ [Next]_vars => TypeOK'
  <2>. SUFFICES ASSUME TypeOK, [Next]_vars PROVE TypeOK'
    OBVIOUS
  <2>1. CASE UNCHANGED vars
    BY <2>1 DEF vars, config, bus, engine, books, TypeOK
  <2>. QED  BY <2>1, BusType, VectorType DEF Next
<1>. QED  BY <1>1, <1>2, PTL DEF Spec

-----------------------------------------------------------------------------
(* No ACKed byte is lost.                                                  *)

Unread(what) == "RBF" \in stat /\ rcv = what

(* What the flags say of the byte in I2CxRCV, and the snapshot of the      *)
(* flags, while a byte is there.                                           *)
FlagsMatch ==
  /\ "RBF" \in stat => ("D_A" \in stat <=> rcv = "data")
  /\ isr = "recv" =>
       /\ "RBF" \in stat
       /\ "D_A" \in snap <=> "D_A" \in stat
       /\ "R_W" \in snap <=> "R_W" \in stat
  /\ wire = "rx" => "R_W" \notin stat

(* While the master writes, or a byte it wrote is unread, the engine does  *)
(* not take itself to be read from: either it has latched the direction,   *)
(* or it is about to, or the address byte is still unread.                 *)
DirectionLatched ==
  (wire = "rx" \/ Unread("data")) =>
     \/ Unread("address")
     \/ isr = "addr" /\ "R_W" \notin snap
     \/ isr # "addr" /\ ~g_reading

SInv ==
  /\ TypeOK
  /\ FlagsMatch
  /\ isr = "acked" => g_reading
  /\ DirectionLatched
  /\ AckedBytesDelivered

(* The bus keeps the books and the direction.                              *)
LEMMA BusKeeps ==
  ASSUME SInv, BusNext
  PROVE  /\ FlagsMatch' /\ DirectionLatched' /\ AckedBytesDelivered'
         /\ (isr = "acked" => g_reading)'
<1>. USE DEF SInv, TypeOK, FlagsMatch, DirectionLatched, Unread,
     AckedBytesDelivered, BusStep, Full, AddressBits, config, engine
<1>1. CASE BusStart
  BY <1>1 DEF BusStart
<1>2. CASE BusOverflow
  BY <1>2 DEF BusOverflow
<1>3. CASE BusAddress
  BY <1>3 DEF BusAddress
<1>4. CASE BusReceive
  BY <1>4, SlaveAssumption DEF BusReceive, OneMore, OneLess
<1>5. CASE BusTransmit
  BY <1>5 DEF BusTransmit
<1>6. CASE BusStop
  BY <1>6 DEF BusStop
<1>. QED
  BY ONLY BusNext, <1>1, <1>2, <1>3, <1>4, <1>5, <1>6
     DEF BusNext

(* So does the vector.                                                     *)
LEMMA VectorKeeps ==
  ASSUME SInv, VectorNext
  PROVE  /\ FlagsMatch' /\ DirectionLatched' /\ AckedBytesDelivered'
         /\ (isr = "acked" => g_reading)'
<1>. USE DEF SInv, TypeOK, FlagsMatch, DirectionLatched, Unread,
     AckedBytesDelivered, At, config, bus, books
<1>1. CASE EnterVector
  BY <1>1 DEF EnterVector
<1>2. CASE nora_i2c_slave_irq_clear
  BY <1>2 DEF nora_i2c_slave_irq_clear
<1>3. CASE ReadStat
  BY <1>3 DEF ReadStat
<1>4. CASE ReadRcv
  BY <1>4 DEF ReadRcv
<1>5. CASE AddressByte
  BY <1>5 DEF AddressByte
<1>6. CASE next_tx_byte
  BY <1>6 DEF next_tx_byte
<1>7. CASE WriteTrn
  BY <1>7 DEF WriteTrn
<1>8. CASE DataByte
  BY <1>8, SlaveAssumption DEF DataByte, OneMore, OneLess
<1>9. CASE AckByte
  BY <1>9 DEF AckByte
<1>10. CASE ReleaseScl
  BY <1>10 DEF ReleaseScl
<1>11. CASE StopSeen
  BY <1>11 DEF StopSeen
<1>12. CASE ClearOverflow
  BY <1>12 DEF ClearOverflow
<1>. QED
  BY ONLY VectorNext, <1>1, <1>2, <1>3, <1>4, <1>5, <1>6, <1>7, <1>8, <1>9,
     <1>10, <1>11, <1>12
     DEF VectorNext

(* The strengthened invariant holds in every reachable state.              *)
THEOREM SlaveInvariance == Spec => []SInv
<1>1. Init => SInv
  <2>1. Init => TypeOK
    BY SlaveTypeInit
  <2>. QED
    BY <2>1 DEF Init, SInv, FlagsMatch, DirectionLatched, Unread,
       AckedBytesDelivered
<1>2. SInv /\ [Next]_vars => SInv'
  <2>. SUFFICES ASSUME SInv, [Next]_vars PROVE SInv'
    OBVIOUS
  <2>1. CASE UNCHANGED vars
    BY <2>1 DEF vars, config, bus, engine, books, SInv, TypeOK, FlagsMatch,
       DirectionLatched, Unread, AckedBytesDelivered
  <2>2. CASE BusNext
    BY <2>2, BusType, BusKeeps DEF SInv
  <2>3. CASE VectorNext
    BY <2>3, VectorType, VectorKeeps DEF SInv
  <2>. QED  BY <2>1, <2>2, <2>3 DEF Next
<1>. QED  BY <1>1, <1>2, PTL DEF Spec

(* Every data byte ACKed to the master reaches on_rx_byte(): with or       *)
(* without clock stretching, however late the vector runs, and with every  *)
(* spurious re-entry of it.                                                *)
THEOREM AckedBytesAreDelivered == Spec => []AckedBytesDelivered
  BY SlaveInvariance, PTL DEF SInv

-----------------------------------------------------------------------------
(* On a bus that waits for the vector: what clock stretching is for.       *)

(* A byte is unread only while SCL is held, a STOP leaves the bus idle.    *)
BusWaits ==
  /\ "I2COV" \notin stat
  /\ held => wire \in {"rx", "tx"}
  /\ "RBF" \in stat => held
  /\ ("RBF" \in stat /\ wire = "tx") => "R_W" \in stat /\ "D_A" \notin stat
  /\ "P" \in stat => wire = "idle"

(* A vector that serves a byte has SCL held since its snapshot; one that   *)
(* does not leaves what came after its snapshot to the next entry.         *)
VectorServes ==
  /\ isr = "stat" => ~iflag
  /\ isr \in {"recv", "addr", "data", "ask", "load", "release"} =>
       held /\ ~iflag /\ ("RBF" \in stat <=> isr = "recv")
  /\ isr \in {"ask", "load"} => wire = "tx"
  /\ isr = "addr" => ("R_W" \in snap <=> wire = "tx")
  /\ isr = "data" => wire = "rx"
  /\ (isr = "acked" /\ "ACKSTAT" \notin snap) =>
       held /\ ~iflag /\ wire = "tx" /\ "RBF" \notin stat
  /\ "P" \in snap => isr \in {"acked", "stop", "ov"}
  /\ (wire = "tx" /\ ("P" \in snap \/ (isr = "acked" /\ "ACKSTAT" \in snap))) =>
       "RBF" \in stat

(* What the engine knows of a read, and when I2CxTRN is loaded.            *)
ReadFollows ==
  /\ (g_reading /\ wire # "tx") => "ACKSTAT" \in stat
  /\ loaded <=> wire = "tx" /\ (~held \/ isr = "release")
  /\ (wire = "tx" /\ ~held) =>
       ~iflag /\ g_reading /\ isr \in {"idle", "stop", "ov"}
  /\ (wire = "tx" /\ held /\ "RBF" \notin stat) =>
       /\ g_reading \/ isr = "addr"
       /\ isr \in {"idle", "clear", "stat", "stop", "ov"} => "ACKSTAT" \notin stat

PacedShape == BusWaits /\ VectorServes /\ ReadFollows /\ OneByteAhead

(* Nobody changes what paces the bus.                                      *)
LEMMA PaceFixed ==
  ASSUME [Next]_vars
  PROVE  stretch' = stretch /\ prompt' = prompt
<1>1. CASE UNCHANGED vars
  BY <1>1 DEF vars, config
<1>2. CASE BusNext
  BY <1>2 DEF BusNext, BusStart, BusOverflow, BusAddress, BusReceive,
     BusTransmit, BusStop, BusStep, config
<1>3. CASE VectorNext
  BY <1>3 DEF VectorNext, EnterVector, nora_i2c_slave_irq_clear, ReadStat,
     ReadRcv, AddressByte, next_tx_byte, WriteTrn, DataByte, AckByte,
     ReleaseScl, StopSeen, ClearOverflow, At, config
<1>. QED  BY <1>1, <1>2, <1>3 DEF Next

(* The bus moves only where the vector lets it.                            *)
LEMMA PacedBus ==
  ASSUME SInv, Paced, PacedShape, BusNext
  PROVE  PacedShape'
<1>. USE DEF SInv, TypeOK, FlagsMatch, PacedShape, BusWaits, VectorServes,
     ReadFollows, OneByteAhead, Paced, BusStep, Full, AddressBits, config,
     engine
<1>1. CASE BusStart
  BY <1>1 DEF BusStart
<1>2. CASE BusOverflow
  BY <1>2 DEF BusOverflow
<1>3. CASE BusAddress
  BY <1>3 DEF BusAddress
<1>4. CASE BusReceive
  BY <1>4 DEF BusReceive
<1>5. CASE BusTransmit
  BY <1>5, SlaveAssumption DEF BusTransmit, OneLess
<1>6. CASE BusStop
  BY <1>6 DEF BusStop
<1>. QED
  BY ONLY BusNext, <1>1, <1>2, <1>3, <1>4, <1>5, <1>6
     DEF BusNext

(* The vector leaves it where it found it, or one byte further.            *)
LEMMA PacedVector ==
  ASSUME SInv, Paced, PacedShape, VectorNext
  PROVE  PacedShape'
<1>. USE DEF SInv, TypeOK, FlagsMatch, PacedShape, BusWaits, VectorServes,
     ReadFollows, OneByteAhead, Paced, At, config, bus, books
<1>1. CASE EnterVector
  BY <1>1 DEF EnterVector
<1>2. CASE nora_i2c_slave_irq_clear
  BY <1>2 DEF nora_i2c_slave_irq_clear
<1>3. CASE ReadStat
  BY <1>3 DEF ReadStat
<1>4. CASE ReadRcv
  BY <1>4 DEF ReadRcv
<1>5. CASE AddressByte
  BY <1>5 DEF AddressByte
<1>6. CASE next_tx_byte
  BY <1>6, SlaveAssumption DEF next_tx_byte, OneMore
<1>7. CASE WriteTrn
  BY <1>7 DEF WriteTrn
<1>8. CASE DataByte
  BY <1>8 DEF DataByte
<1>9. CASE AckByte
  BY <1>9 DEF AckByte
<1>10. CASE ReleaseScl
  BY <1>10 DEF ReleaseScl
<1>11. CASE StopSeen
  BY <1>11 DEF StopSeen
<1>12. CASE ClearOverflow
  BY <1>12 DEF ClearOverflow
<1>. QED
  BY ONLY VectorNext, <1>1, <1>2, <1>3, <1>4, <1>5, <1>6, <1>7, <1>8, <1>9,
     <1>10, <1>11, <1>12
     DEF VectorNext

-----------------------------------------------------------------------------
(* On a bus that waits the shape holds in every reachable state.           *)
THEOREM PacedInvariance == Spec => [](Paced => PacedShape)
<1>1. Init => (Paced => PacedShape)
  BY DEF Init, PacedShape, BusWaits, VectorServes, ReadFollows, OneByteAhead
<1>2. SInv /\ (Paced => PacedShape) /\ [Next]_vars => (Paced => PacedShape)'
  <2>. SUFFICES ASSUME SInv, PacedShape, [Next]_vars, Paced PROVE PacedShape'
    BY PaceFixed DEF Paced
  <2>1. CASE UNCHANGED vars
    BY <2>1 DEF vars, config, bus, engine, books, PacedShape, BusWaits,
       VectorServes, ReadFollows, OneByteAhead, Paced
  <2>. QED  BY <2>1, PacedBus, PacedVector DEF Next
<1>. QED  BY <1>1, <1>2, SlaveInvariance, PTL DEF Spec

(* On a bus that waits a slave that stretches never overflows, for every   *)
(* bus master and however late the vector is entered.                      *)
THEOREM StretchingPreventsOverflow == Spec => []StretchPreventsOverflow
<1>1. (Paced => PacedShape) => StretchPreventsOverflow
  BY DEF PacedShape, BusWaits, StretchPreventsOverflow
<1>. QED  BY <1>1, PacedInvariance, PTL

(* SCL is never released for a byte that is not in I2CxTRN.                *)
THEOREM ReleasedLoaded == Spec => []LoadedBeforeRelease
<1>1. (Paced => PacedShape) => LoadedBeforeRelease
  BY DEF PacedShape, ReadFollows, LoadedBeforeRelease
<1>. QED  BY <1>1, PacedInvariance, PTL

(* on_tx_byte() is called once for each byte the master reads.             *)
THEOREM AskedOncePerByte == Spec => []OneByteAhead
<1>1. (Paced => PacedShape) => OneByteAhead
  BY DEF PacedShape, OneByteAhead
<1>. QED  BY <1>1, PacedInvariance, PTL

-----------------------------------------------------------------------------
(* With or without clock stretching: what SCL is held for.                 *)

(* A vector that takes its snapshot now will come to ReleaseScl, and so    *)
(* will one that has got this far.                                         *)
Due == "RBF" \in stat \/ (g_reading /\ "ACKSTAT" \notin stat)
Serving == {"recv", "addr", "ask", "load", "data", "release"}

(* While SCL is held a service is due or under way, whatever the present   *)
(* entry of the vector is about to do ...                                  *)
HeldIsDue ==
  held =>
    /\ \/ iflag \/ isr \in Serving \cup {"clear", "stat"}
       \/ isr = "acked" /\ "ACKSTAT" \notin snap
    /\ isr \in {"idle", "clear", "stat", "ov"} => Due
    /\ isr = "stop" => Due /\ ("RBF" \in stat \/ "P" \notin snap)
    /\ isr = "acked" => "RBF" \in stat \/ "ACKSTAT" \notin snap

(* ... and a master that reads meets an engine that knows of it: the       *)
(* address is unread, or its direction is in the snapshot, or latched.     *)
ReadIsKnown ==
  wire = "tx" =>
    \/ "RBF" \in stat
    \/ /\ "P" \notin snap
       /\ IF isr = "addr" THEN "R_W" \in snap ELSE g_reading
       /\ isr = "acked" => "ACKSTAT" \notin snap

(* The flags a snapshot is taken of: P outlives no START, a byte that is   *)
(* unread in a read is its address, and what the last byte of a read was   *)
(* answered is an ACK until the read has ended.                            *)
FlagsFresh ==
  /\ isr = "stat" => ~iflag
  /\ isr \in {"idle", "clear", "stat"} => snap = {}
  /\ "P" \in stat => wire = "idle"
  /\ wire = "tx" /\ isr = "recv" => "P" \notin snap
  /\ wire = "tx" /\ "RBF" \in stat => rcv = "address" /\ "R_W" \in stat
  /\ (/\ wire = "tx"
      /\ iflag \/ isr \in {"clear", "stat"}
      /\ "RBF" \notin stat \/ isr = "recv")
       => "ACKSTAT" \notin stat

HeldShape == HeldIsDue /\ ReadIsKnown /\ FlagsFresh

(* A bus event that makes the module hold SCL is due for service.          *)
LEMMA HeldBus ==
  ASSUME SInv, prompt, HeldShape, BusNext
  PROVE  HeldShape'
<1>. USE DEF SInv, TypeOK, FlagsMatch, HeldShape, HeldIsDue, ReadIsKnown,
     FlagsFresh, Due, Serving, IsrSteps, BusStep, Full, AddressBits, config,
     engine
<1>1. CASE BusStart
  BY <1>1 DEF BusStart
<1>2. CASE BusOverflow
  BY <1>2 DEF BusOverflow
<1>3. CASE BusAddress
  BY <1>3 DEF BusAddress
<1>4. CASE BusReceive
  BY <1>4 DEF BusReceive
<1>5. CASE BusTransmit
  BY <1>5 DEF BusTransmit
<1>6. CASE BusStop
  BY <1>6 DEF BusStop
<1>. QED
  BY ONLY BusNext, <1>1, <1>2, <1>3, <1>4, <1>5, <1>6
     DEF BusNext

(* The vector serves what SCL is held for or leaves it due.                *)
LEMMA HeldVector ==
  ASSUME SInv, prompt, HeldShape, VectorNext
  PROVE  HeldShape'
<1>. USE DEF SInv, TypeOK, FlagsMatch, HeldShape, HeldIsDue, ReadIsKnown,
     FlagsFresh, Due, Serving, At, config, bus, books
<1>1. CASE EnterVector
  BY <1>1 DEF EnterVector
<1>2. CASE nora_i2c_slave_irq_clear
  BY <1>2 DEF nora_i2c_slave_irq_clear
<1>3. CASE ReadStat
  BY <1>3 DEF ReadStat
<1>4. CASE ReadRcv
  BY <1>4 DEF ReadRcv
<1>5. CASE AddressByte
  BY <1>5 DEF AddressByte
<1>6. CASE next_tx_byte
  BY <1>6 DEF next_tx_byte
<1>7. CASE WriteTrn
  BY <1>7 DEF WriteTrn
<1>8. CASE DataByte
  BY <1>8 DEF DataByte
<1>9. CASE AckByte
  BY <1>9 DEF AckByte
<1>10. CASE ReleaseScl
  BY <1>10 DEF ReleaseScl
<1>11. CASE StopSeen
  BY <1>11 DEF StopSeen
<1>12. CASE ClearOverflow
  BY <1>12 DEF ClearOverflow
<1>. QED
  BY ONLY VectorNext, <1>1, <1>2, <1>3, <1>4, <1>5, <1>6, <1>7, <1>8, <1>9,
     <1>10, <1>11, <1>12
     DEF VectorNext

(* As long as nothing falls between the clearing of the flag and the       *)
(* snapshot, the slave never keeps SCL: for every master and every delay   *)
(* of the vector, with or without clock stretching.                        *)
THEOREM HeldForService == Spec => []SclHeldForService
<1>1. Init => (prompt => HeldShape)
  BY DEF Init, HeldShape, HeldIsDue, ReadIsKnown, FlagsFresh
<1>2. SInv /\ (prompt => HeldShape) /\ [Next]_vars => (prompt => HeldShape)'
  <2>. SUFFICES ASSUME SInv, HeldShape, [Next]_vars, prompt PROVE HeldShape'
    BY PaceFixed
  <2>1. CASE UNCHANGED vars
    BY <2>1 DEF vars, config, bus, engine, books, HeldShape, HeldIsDue,
       ReadIsKnown, FlagsFresh, Due
  <2>. QED  BY <2>1, HeldBus, HeldVector DEF Next
<1>3. (prompt => HeldShape) => SclHeldForService
  BY DEF HeldShape, HeldIsDue, Serving, SclHeldForService
<1>. QED  BY <1>1, <1>2, <1>3, SlaveInvariance, PTL DEF Spec
=============================================================================
