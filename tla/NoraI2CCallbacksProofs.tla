----------------------- MODULE NoraI2CCallbacksProofs -----------------------
(***************************************************************************)
(* Proofs that NoraI2CSlave implements NoraI2CCallbacks.                   *)
(***************************************************************************)
EXTENDS NoraI2CSlaveProofs

(* What the callbacks have told the application is the direction the       *)
(* engine has latched, and that of the bytes it is about to give it.       *)
AppFollows ==
  /\ g_reading => app = "r"
  /\ isr = "data" => app = "w"
  /\ (wire = "rx" \/ Unread("data")) =>
       \/ Unread("address")
       \/ isr = "addr" /\ "R_W" \notin snap
       \/ isr # "addr" /\ app = "w"

(* A vector that is about to end a transaction has not read the address of *)
(* the next one yet.                                                       *)
StopAhead ==
  /\ isr \in {"idle", "clear", "stat"} => snap = {}
  /\ "P" \in stat => wire = "idle"
  /\ ("P" \in snap /\ isr = "recv") => wire # "rx"
  /\ ("P" \in snap /\ isr # "recv" /\ (wire = "rx" \/ Unread("data"))) =>
       Unread("address")

(* On a bus that waits, a STOP that is not served yet ends a transaction   *)
(* the application knows of.                                               *)
StopOnce ==
  /\ "P" \in snap => wire \in {"idle", "addr_w", "addr_r"} \/ Unread("address")
  /\ (wire \in {"rx", "tx", "ended"} /\ ~Unread("address") /\ isr # "addr") =>
       app # "closed"
  /\ ("P" \in stat /\ (iflag \/ isr \in {"clear", "stat"})) => app # "closed"
  /\ ("P" \in snap /\ "P" \in stat) => ~iflag

CInv == SInv /\ AppFollows /\ StopAhead

(* A step of the bus calls nobody back.                                    *)
LEMMA CallbacksBus ==
  ASSUME CInv, BusNext
  PROVE  AppFollows' /\ StopAhead'
<1>. USE DEF CInv, SInv, TypeOK, FlagsMatch, AppFollows, StopAhead, Unread,
     BusStep, Full, AddressBits, config, engine
<1>1. CASE BusStart
  BY <1>1 DEF BusStart
<1>2. CASE BusOverflow
  BY <1>2 DEF BusOverflow
<1>3. CASE BusAddress
  BY <1>3 DEF BusAddress
<1>4. CASE BusReceive
  BY <1>4 DEF BusReceive
<1>5. CASE BusTransmit
  BY <1>5 DEF BusTransmit
<1>6. CASE BusStop
  BY <1>6 DEF BusStop
<1>. QED
  BY ONLY BusNext, <1>1, <1>2, <1>3, <1>4, <1>5, <1>6
     DEF BusNext

(* A callback tells the application what the engine has latched.           *)
LEMMA CallbacksVector ==
  ASSUME CInv, VectorNext
  PROVE  AppFollows' /\ StopAhead'
<1>. USE DEF CInv, SInv, TypeOK, FlagsMatch, AppFollows, StopAhead, Unread,
     At, config, bus, books
<1>1. CASE EnterVector
  BY <1>1 DEF EnterVector
<1>2. CASE nora_i2c_slave_irq_clear
  BY <1>2 DEF nora_i2c_slave_irq_clear
<1>3. CASE ReadStat
  BY <1>3 DEF ReadStat
<1>4. CASE ReadRcv
  BY <1>4 DEF ReadRcv
<1>5. CASE AddressByte
  BY <1>5 DEF AddressByte
<1>6. CASE next_tx_byte
  BY <1>6 DEF next_tx_byte
<1>7. CASE WriteTrn
  BY <1>7 DEF WriteTrn
<1>8. CASE DataByte
  BY <1>8 DEF DataByte
<1>9. CASE AckByte
  BY <1>9 DEF AckByte
<1>10. CASE ReleaseScl
  BY <1>10 DEF ReleaseScl
<1>11. CASE StopSeen
  BY <1>11 DEF StopSeen
<1>12. CASE ClearOverflow
  BY <1>12 DEF ClearOverflow
<1>. QED
  BY ONLY VectorNext, <1>1, <1>2, <1>3, <1>4, <1>5, <1>6,
     <1>7, <1>8, <1>9, <1>10, <1>11, <1>12
     DEF VectorNext

(* The STOP of a bus that waits ends an open transaction.                  *)
LEMMA StopOnceBus ==
  ASSUME CInv, Paced, PacedShape, StopOnce, BusNext
  PROVE  StopOnce'
<1>. USE DEF CInv, SInv, TypeOK, FlagsMatch, PacedShape, BusWaits, VectorServes,
     ReadFollows, AppFollows, StopAhead, StopOnce, Unread, Paced, BusStep, Full,
     AddressBits, config, engine
<1>1. CASE BusStart
  BY <1>1 DEF BusStart
<1>2. CASE BusOverflow
  BY <1>2 DEF BusOverflow
<1>3. CASE BusAddress
  BY <1>3 DEF BusAddress
<1>4. CASE BusReceive
  BY <1>4 DEF BusReceive
<1>5. CASE BusTransmit
  BY <1>5 DEF BusTransmit
<1>6. CASE BusStop
  BY <1>6 DEF BusStop
<1>. QED
  BY ONLY BusNext, <1>1, <1>2, <1>3, <1>4, <1>5, <1>6
     DEF BusNext

(* The vector serves it once.                                              *)
LEMMA StopOnceVector ==
  ASSUME CInv, Paced, PacedShape, StopOnce, VectorNext
  PROVE  StopOnce'
<1>. USE DEF CInv, SInv, TypeOK, FlagsMatch, PacedShape, BusWaits, VectorServes,
     ReadFollows, AppFollows, StopAhead, StopOnce, Unread, Paced, At, config,
     bus, books
<1>1. CASE EnterVector
  BY <1>1 DEF EnterVector
<1>2. CASE nora_i2c_slave_irq_clear
  BY <1>2 DEF nora_i2c_slave_irq_clear
<1>3. CASE ReadStat
  BY <1>3 DEF ReadStat
<1>4. CASE ReadRcv
  BY <1>4 DEF ReadRcv
<1>5. CASE AddressByte
  BY <1>5 DEF AddressByte
<1>6. CASE next_tx_byte
  BY <1>6 DEF next_tx_byte
<1>7. CASE WriteTrn
  BY <1>7 DEF WriteTrn
<1>8. CASE DataByte
  BY <1>8 DEF DataByte
<1>9. CASE AckByte
  BY <1>9 DEF AckByte
<1>10. CASE ReleaseScl
  BY <1>10 DEF ReleaseScl
<1>11. CASE StopSeen
  BY <1>11 DEF StopSeen
<1>12. CASE ClearOverflow
  BY <1>12 DEF ClearOverflow
<1>. QED
  BY ONLY VectorNext, <1>1, <1>2, <1>3, <1>4, <1>5, <1>6,
     <1>7, <1>8, <1>9, <1>10, <1>11, <1>12
     DEF VectorNext

(* The two invariants hold in every reachable state.                       *)
THEOREM CallbacksInvariance == Spec => [](CInv /\ (Paced => StopOnce))
<1>1. Init => AppFollows /\ StopAhead /\ StopOnce
  BY DEF Init, AppFollows, StopAhead, StopOnce, Unread
<1>2. CInv /\ [Next]_vars => (AppFollows /\ StopAhead)'
  <2>. SUFFICES ASSUME CInv, [Next]_vars PROVE (AppFollows /\ StopAhead)'
    OBVIOUS
  <2>1. CASE UNCHANGED vars
    BY <2>1 DEF vars, config, bus, engine, books, CInv, AppFollows, StopAhead,
       Unread
  <2>. QED  BY <2>1, CallbacksBus, CallbacksVector DEF Next
<1>3. /\ CInv /\ (Paced => PacedShape) /\ (Paced => StopOnce) /\ [Next]_vars
      => (Paced => StopOnce)'
  <2>. SUFFICES ASSUME CInv, PacedShape, StopOnce, [Next]_vars, Paced
                PROVE  StopOnce'
    BY PaceFixed DEF Paced
  <2>1. CASE UNCHANGED vars
    BY <2>1 DEF vars, config, bus, engine, books, StopOnce, Unread
  <2>. QED  BY <2>1, StopOnceBus, StopOnceVector DEF Next
<1>4. CInv <=> SInv /\ AppFollows /\ StopAhead
  BY DEF CInv
<1>. QED
  BY <1>1, <1>2, <1>3, <1>4, SlaveInvariance, PacedInvariance, PTL DEF Spec

-----------------------------------------------------------------------------
(* The refinement.                                                         *)

(* A step of the bus is no step of the callbacks.                          *)
LEMMA BusStutters ==
  ASSUME BusNext
  PROVE  UNCHANGED <<~Paced, app, calling>>
<1>1. UNCHANGED <<config, engine, app>>
  BY DEF BusNext, BusStart, BusOverflow, BusAddress, BusReceive, BusTransmit,
     BusStop, BusStep
<1>. QED  BY <1>1 DEF config, engine, Paced, calling

(* A step of the vector is one, or none.                                   *)
LEMMA VectorCalls ==
  ASSUME CInv, Paced => PacedShape, Paced => StopOnce, VectorNext
  PROVE  Callbacks!Next \/ UNCHANGED <<~Paced, app, calling>>
<1>. USE DEF Callbacks!Next, Callbacks!Enter, Callbacks!Leave, Callbacks!May,
     Callbacks!Callbacks, calling, At, config, books
<1>0. (~Paced)' = ~Paced
  <2>1. stretch' = stretch /\ prompt' = prompt
    BY PaceFixed DEF Next
  <2>. QED  BY <2>1, Zenon DEF Paced
<1>1. CASE EnterVector
  BY <1>0, <1>1 DEF EnterVector
<1>2. CASE nora_i2c_slave_irq_clear
  BY <1>0, <1>2 DEF nora_i2c_slave_irq_clear
<1>3. CASE ReadStat
  BY <1>0, <1>3 DEF ReadStat, CInv, StopOnce, StopAhead, SInv, TypeOK
<1>4. CASE ReadRcv
  BY <1>0, <1>4 DEF ReadRcv, CInv, SInv, FlagsMatch,
     AppFollows, Unread
<1>5. CASE AddressByte
  BY <1>0, <1>5 DEF AddressByte
<1>6. CASE next_tx_byte
  BY <1>0, <1>6 DEF next_tx_byte
<1>7. CASE WriteTrn
  BY <1>0, <1>7 DEF WriteTrn
<1>8. CASE DataByte
  BY <1>0, <1>8 DEF DataByte
<1>9. CASE AckByte
  BY <1>0, <1>9 DEF AckByte, CInv, SInv, AppFollows
<1>10. CASE ReleaseScl
  BY <1>0, <1>10 DEF ReleaseScl, PacedShape, VectorServes
<1>11. CASE StopSeen
  BY <1>0, <1>11 DEF StopSeen
<1>12. CASE ClearOverflow
  BY <1>0, <1>12 DEF ClearOverflow
<1>. QED
  BY ONLY VectorNext, <1>1, <1>2, <1>3, <1>4, <1>5, <1>6,
     <1>7, <1>8, <1>9, <1>10, <1>11, <1>12
     DEF VectorNext

(* The callbacks come in the order the application is promised: each step  *)
(* of the engine and the bus is a step of NoraI2CCallbacks or none.        *)
THEOREM CallbacksRefinement == Spec => CallbacksInOrder
<1>1. Init => Callbacks!Init
  BY DEF Init, Callbacks!Init, calling
<1>2. CInv /\ (Paced => PacedShape) /\ (Paced => StopOnce) /\ [Next]_vars
      => [Callbacks!Next]_(Callbacks!vars)
  <2>. SUFFICES ASSUME CInv, Paced => PacedShape, Paced => StopOnce, [Next]_vars
                PROVE  Callbacks!Next \/ UNCHANGED <<~Paced, app, calling>>
    BY DEF Callbacks!vars
  <2>1. CASE UNCHANGED vars
    BY <2>1 DEF vars, config, engine, books, Paced, calling
  <2>. QED  BY <2>1, BusStutters, VectorCalls DEF Next
<1>. QED
  BY <1>1, <1>2, CallbacksInvariance, PacedInvariance, PTL
     DEF Spec, CallbacksInOrder, Callbacks!Spec
=============================================================================
