------------------------- MODULE NoraI2CLinkProofs -------------------------
(***************************************************************************)
(* Proofs about NoraI2CLink, for every value of the constants: what the    *)
(* two ends of one bus know of each other.  The master's half of the       *)
(* invariant is that of NoraI2CMasterCalmProofs, cited from there.  The    *)
(* slave's half is that of NoraI2CCallbacksProofs, taken by its            *)
(* definitions: a theorem cannot be cited through INSTANCE.                *)
(***************************************************************************)
EXTENDS NoraI2CLink, NoraI2CMasterCalmProofs

SlaveEnd == INSTANCE NoraI2CCallbacksProofs WITH
  stat <- s_stat, Prompts <- {TRUE}

-----------------------------------------------------------------------------
(* Each end by itself.                                                     *)

(* Nobody else is on the wires and no call gives up waiting.               *)
LEMMA LinkUndisturbed == Undisturbed
  BY LinkAssumption DEF Undisturbed

(* A step of the link is one of the master's or leaves it alone ...        *)
LEMMA MasterSteps ==
  ASSUME [LinkNext]_link
  PROVE  [Next]_vars
<1>1. CASE WireStep
  <2>1. HwNext /\ UNCHANGED engine
    BY <1>1
       DEF WireStep, Condition, Shift, ByteTaken, ByteRefused, ByteRead, Answer,
           Stop, HwNext, ReqBits
  <2>. QED  BY <2>1 DEF Next, Hardware, engine
<1>2. CASE VectorStep
  BY <1>2 DEF VectorStep, vars
<1>3. CASE CallMade \/ EngineStep
  BY <1>3 DEF CallMade, EngineStep, Next
<1>4. CASE UNCHANGED link
  BY <1>4 DEF link
<1>. QED  BY <1>1, <1>2, <1>3, <1>4 DEF LinkNext

(* ... and the same of the slave.                                          *)
LEMMA SlaveSteps ==
  ASSUME [LinkNext]_link
  PROVE  [Slave!Next]_(Slave!vars)
<1>. USE DEF Slave!Next, Slave!vars, Slave!config, Slave!bus, Slave!engine,
     Slave!books, slave
<1>1. CASE WireStep
  <2>1. Slave!BusNext \/ UNCHANGED slave
    BY <1>1
       DEF WireStep, Condition, Shift, ByteTaken, ByteRefused, ByteRead, Answer,
           Stop, Slave!BusNext
  <2>. QED  BY <2>1
<1>2. CASE VectorStep
  BY <1>2 DEF VectorStep
<1>3. CASE CallMade \/ EngineStep
  BY <1>3 DEF CallMade, EngineStep
<1>4. CASE UNCHANGED link
  BY <1>4 DEF link
<1>. QED  BY <1>1, <1>2, <1>3, <1>4 DEF LinkNext

(* So whatever holds of a master on any bus and of a slave under any       *)
(* master holds of the two here: the link is a behaviour of both.          *)
THEOREM BothEnds ==
  LinkSpec => Spec /\ Slave!Init /\ [][Slave!Next]_(Slave!vars)
<1>1. LinkInit => Init /\ Slave!Init
  BY DEF LinkInit
<1>. QED  BY <1>1, MasterSteps, SlaveSteps, PTL DEF LinkSpec, Spec

(* The master meets no fault here.                                         *)
MasterHalf == IInv /\ CalmInv /\ NoFault

(* ... so that what NoraI2CMasterCalmProofs shows of such a bus holds of   *)
(* this one throughout.                                                    *)
LEMMA MasterHalfHolds == LinkSpec => []MasterHalf
<1>1. Spec => []NoFault
  BY LinkUndisturbed, FaultNeverMet
<1>. QED
  BY <1>1, BothEnds, Invariance, CalmInvariance, PTL DEF MasterHalf

-----------------------------------------------------------------------------
(* The slave.                                                              *)

(* A STOP that the application has not heard of will be served, and so     *)
(* will a byte that nobody has read.                                       *)
StopServed ==
  /\ (wire = "idle" /\ "P" \notin s_stat) =>
       isr = "idle" /\ ~iflag /\ app = "closed"
  /\ ("P" \in s_stat /\ isr \notin {"clear", "stat"}) =>
       \/ iflag
       \/ IF isr \in {"idle", "ov"} THEN app = "closed" ELSE "P" \in snap

UnreadServed == "RBF" \in s_stat => iflag \/ isr \in {"clear", "stat", "recv"}

(* What a slave knows by itself: with or without clock_stretch, and with.  *)
SlaveKnows ==
  /\ SlaveEnd!FlagsMatch /\ SlaveEnd!AppFollows /\ SlaveEnd!StopAhead
  /\ isr = "acked" => g_reading
  /\ rcv \in {"address", "data"} /\ iflag \in BOOLEAN
  /\ StopServed /\ UnreadServed

SlaveWaits == SlaveEnd!BusWaits /\ SlaveEnd!VectorServes /\ SlaveEnd!ReadFollows

SlaveHalf ==
  prompt /\ SlaveKnows /\ SlaveEnd!HeldShape /\ (stretch => SlaveWaits)

(* A flag that may be set or left is still a flag.                         *)
LEMMA FlagStays ==
  ASSUME NEW a \in BOOLEAN, NEW b \in {a, TRUE}
  PROVE  b \in BOOLEAN /\ (a => b)
  OBVIOUS

(* The slave's half through a step of the bus: the module holds SCL after  *)
(* the bytes that the vector has to see first.                             *)
LEMMA SlaveBus ==
  ASSUME SlaveHalf, Slave!BusNext
  PROVE  SlaveHalf'
<1>0. prompt' /\ stretch' = stretch
  BY DEF SlaveHalf, Slave!BusNext, Slave!BusStart, Slave!BusOverflow,
     Slave!BusAddress, Slave!BusReceive, Slave!BusTransmit, Slave!BusStop,
     Slave!BusStep, Slave!config
<1>1. SlaveKnows'
  <2>. USE DEF SlaveHalf, SlaveKnows, SlaveEnd!FlagsMatch, SlaveEnd!AppFollows,
       SlaveEnd!StopAhead, SlaveEnd!Unread, StopServed, UnreadServed,
       Slave!BusStep, Slave!Full, Slave!AddressBits, Slave!config, Slave!engine
  <2>1. CASE Slave!BusStart
    BY <2>1 DEF Slave!BusStart
  <2>2. CASE Slave!BusOverflow
    <3>1. iflag' \in {iflag, TRUE} /\ iflag \in BOOLEAN
      BY <2>2 DEF Slave!BusOverflow
    <3>2. iflag' \in BOOLEAN /\ (iflag => iflag')
      BY ONLY <3>1, FlagStays, Zenon
    <3>. QED  BY <2>2, <3>2 DEF Slave!BusOverflow
  <2>3. CASE Slave!BusAddress
    BY <2>3 DEF Slave!BusAddress
  <2>4. CASE Slave!BusReceive
    BY <2>4 DEF Slave!BusReceive
  <2>5. CASE Slave!BusTransmit
    BY <2>5 DEF Slave!BusTransmit
  <2>6. CASE Slave!BusStop
    BY <2>6 DEF Slave!BusStop
  <2>. QED
    BY ONLY Slave!BusNext, <2>1, <2>2, <2>3, <2>4, <2>5, <2>6
       DEF Slave!BusNext
<1>2. ASSUME stretch, SlaveWaits
      PROVE  SlaveWaits'
  <2>. USE <1>2
       DEF SlaveHalf, SlaveKnows, SlaveWaits, SlaveEnd!FlagsMatch,
           SlaveEnd!BusWaits, SlaveEnd!VectorServes, SlaveEnd!ReadFollows,
           Slave!BusStep, Slave!Full, Slave!AddressBits, Slave!config,
           Slave!engine
  <2>1. CASE Slave!BusStart
    BY <2>1 DEF Slave!BusStart
  <2>2. CASE Slave!BusOverflow
    BY <2>2 DEF Slave!BusOverflow
  <2>3. CASE Slave!BusAddress
    BY <2>3 DEF Slave!BusAddress
  <2>4. CASE Slave!BusReceive
    BY <2>4 DEF Slave!BusReceive
  <2>5. CASE Slave!BusTransmit
    BY <2>5 DEF Slave!BusTransmit
  <2>6. CASE Slave!BusStop
    BY <2>6 DEF Slave!BusStop
  <2>. QED
    BY ONLY Slave!BusNext, <2>1, <2>2, <2>3, <2>4, <2>5, <2>6
       DEF Slave!BusNext
<1>3. SlaveEnd!HeldShape'
  <2>. USE DEF SlaveHalf, SlaveKnows, SlaveEnd!FlagsMatch, SlaveEnd!HeldShape,
       SlaveEnd!HeldIsDue, SlaveEnd!ReadIsKnown, SlaveEnd!FlagsFresh,
       SlaveEnd!Due, SlaveEnd!Serving, Slave!BusStep, Slave!Full,
       Slave!AddressBits, Slave!config, Slave!engine
  <2>1. CASE Slave!BusStart
    BY <2>1 DEF Slave!BusStart
  <2>2. CASE Slave!BusOverflow
    <3>1. iflag' \in {iflag, TRUE} /\ iflag \in BOOLEAN
      BY <2>2 DEF Slave!BusOverflow
    <3>2. iflag' \in BOOLEAN /\ (iflag => iflag')
      BY ONLY <3>1, FlagStays, Zenon
    <3>. QED  BY <2>2, <3>2 DEF Slave!BusOverflow
  <2>3. CASE Slave!BusAddress
    BY <2>3 DEF Slave!BusAddress
  <2>4. CASE Slave!BusReceive
    BY <2>4 DEF Slave!BusReceive
  <2>5. CASE Slave!BusTransmit
    BY <2>5 DEF Slave!BusTransmit
  <2>6. CASE Slave!BusStop
    BY <2>6 DEF Slave!BusStop
  <2>. QED
    BY ONLY Slave!BusNext, <2>1, <2>2, <2>3, <2>4, <2>5, <2>6
       DEF Slave!BusNext
<1>. QED  BY <1>0, <1>1, <1>2, <1>3 DEF SlaveHalf

(* The slave's half through a step of the vector: it serves what the       *)
(* snapshot says and leaves the rest to the next event.                    *)
LEMMA SlaveVector ==
  ASSUME SlaveHalf, Slave!VectorNext
  PROVE  SlaveHalf'
<1>0. prompt' /\ stretch' = stretch
  BY DEF SlaveHalf, Slave!VectorNext, Slave!EnterVector,
     Slave!nora_i2c_slave_irq_clear, Slave!ReadStat, Slave!ReadRcv,
     Slave!AddressByte, Slave!next_tx_byte, Slave!WriteTrn, Slave!DataByte,
     Slave!AckByte, Slave!ReleaseScl, Slave!StopSeen, Slave!ClearOverflow,
     Slave!At, Slave!config
<1>1. SlaveKnows'
  <2>. USE DEF SlaveHalf, SlaveKnows, SlaveEnd!FlagsMatch, SlaveEnd!AppFollows,
       SlaveEnd!StopAhead, SlaveEnd!Unread, StopServed, UnreadServed, Slave!At,
       Slave!config, Slave!bus, Slave!books
  <2>1. CASE Slave!EnterVector
    BY <2>1 DEF Slave!EnterVector
  <2>2. CASE Slave!nora_i2c_slave_irq_clear
    BY <2>2 DEF Slave!nora_i2c_slave_irq_clear
  <2>3. CASE Slave!ReadStat
    BY <2>3 DEF Slave!ReadStat
  <2>4. CASE Slave!ReadRcv
    BY <2>4 DEF Slave!ReadRcv
  <2>5. CASE Slave!AddressByte
    BY <2>5 DEF Slave!AddressByte
  <2>6. CASE Slave!next_tx_byte
    BY <2>6 DEF Slave!next_tx_byte
  <2>7. CASE Slave!WriteTrn
    BY <2>7 DEF Slave!WriteTrn
  <2>8. CASE Slave!DataByte
    BY <2>8 DEF Slave!DataByte
  <2>9. CASE Slave!AckByte
    BY <2>9 DEF Slave!AckByte
  <2>10. CASE Slave!ReleaseScl
    BY <2>10 DEF Slave!ReleaseScl
  <2>11. CASE Slave!StopSeen
    BY <2>11 DEF Slave!StopSeen
  <2>12. CASE Slave!ClearOverflow
    BY <2>12 DEF Slave!ClearOverflow
  <2>. QED
    BY ONLY Slave!VectorNext, <2>1, <2>2, <2>3, <2>4, <2>5, <2>6, <2>7, <2>8,
       <2>9, <2>10, <2>11, <2>12
       DEF Slave!VectorNext
<1>2. ASSUME stretch, SlaveWaits
      PROVE  SlaveWaits'
  <2>. USE <1>2
       DEF SlaveHalf, SlaveKnows, SlaveWaits, SlaveEnd!FlagsMatch,
           SlaveEnd!BusWaits, SlaveEnd!VectorServes, SlaveEnd!ReadFollows,
           Slave!At, Slave!config, Slave!bus, Slave!books
  <2>1. CASE Slave!EnterVector
    BY <2>1 DEF Slave!EnterVector
  <2>2. CASE Slave!nora_i2c_slave_irq_clear
    BY <2>2 DEF Slave!nora_i2c_slave_irq_clear
  <2>3. CASE Slave!ReadStat
    BY <2>3 DEF Slave!ReadStat
  <2>4. CASE Slave!ReadRcv
    BY <2>4 DEF Slave!ReadRcv
  <2>5. CASE Slave!AddressByte
    BY <2>5 DEF Slave!AddressByte
  <2>6. CASE Slave!next_tx_byte
    BY <2>6 DEF Slave!next_tx_byte
  <2>7. CASE Slave!WriteTrn
    BY <2>7 DEF Slave!WriteTrn
  <2>8. CASE Slave!DataByte
    BY <2>8 DEF Slave!DataByte
  <2>9. CASE Slave!AckByte
    BY <2>9 DEF Slave!AckByte
  <2>10. CASE Slave!ReleaseScl
    BY <2>10 DEF Slave!ReleaseScl
  <2>11. CASE Slave!StopSeen
    BY <2>11 DEF Slave!StopSeen
  <2>12. CASE Slave!ClearOverflow
    BY <2>12 DEF Slave!ClearOverflow
  <2>. QED
    BY ONLY Slave!VectorNext, <2>1, <2>2, <2>3, <2>4, <2>5, <2>6, <2>7, <2>8,
       <2>9, <2>10, <2>11, <2>12
       DEF Slave!VectorNext
<1>3. SlaveEnd!HeldShape'
  <2>. USE DEF SlaveHalf, SlaveKnows, SlaveEnd!FlagsMatch, SlaveEnd!HeldShape,
       SlaveEnd!HeldIsDue, SlaveEnd!ReadIsKnown, SlaveEnd!FlagsFresh,
       SlaveEnd!Due, SlaveEnd!Serving, Slave!At, Slave!config,
       Slave!bus, Slave!books
  <2>1. CASE Slave!EnterVector
    BY <2>1 DEF Slave!EnterVector
  <2>2. CASE Slave!nora_i2c_slave_irq_clear
    BY <2>2 DEF Slave!nora_i2c_slave_irq_clear
  <2>3. CASE Slave!ReadStat
    BY <2>3 DEF Slave!ReadStat
  <2>4. CASE Slave!ReadRcv
    BY <2>4 DEF Slave!ReadRcv
  <2>5. CASE Slave!AddressByte
    BY <2>5 DEF Slave!AddressByte
  <2>6. CASE Slave!next_tx_byte
    BY <2>6 DEF Slave!next_tx_byte
  <2>7. CASE Slave!WriteTrn
    BY <2>7 DEF Slave!WriteTrn
  <2>8. CASE Slave!DataByte
    BY <2>8 DEF Slave!DataByte
  <2>9. CASE Slave!AckByte
    BY <2>9 DEF Slave!AckByte
  <2>10. CASE Slave!ReleaseScl
    BY <2>10 DEF Slave!ReleaseScl
  <2>11. CASE Slave!StopSeen
    BY <2>11 DEF Slave!StopSeen
  <2>12. CASE Slave!ClearOverflow
    BY <2>12 DEF Slave!ClearOverflow
  <2>. QED
    BY ONLY Slave!VectorNext, <2>1, <2>2, <2>3, <2>4, <2>5, <2>6, <2>7, <2>8,
       <2>9, <2>10, <2>11, <2>12
       DEF Slave!VectorNext
<1>. QED  BY <1>0, <1>1, <1>2, <1>3 DEF SlaveHalf

(* What holds of the slave in every reachable state of the link.           *)
LEMMA SlaveHalfHolds == LinkSpec => []SlaveHalf
<1>1. Slave!Init => SlaveHalf
  BY DEF Slave!Init, SlaveHalf, SlaveKnows, SlaveEnd!FlagsMatch,
     SlaveEnd!AppFollows, SlaveEnd!StopAhead, SlaveEnd!Unread, StopServed,
     UnreadServed, SlaveWaits, SlaveEnd!BusWaits, SlaveEnd!VectorServes,
     SlaveEnd!ReadFollows, SlaveEnd!HeldShape, SlaveEnd!HeldIsDue,
     SlaveEnd!ReadIsKnown, SlaveEnd!FlagsFresh
<1>2. SlaveHalf /\ [Slave!Next]_(Slave!vars) => SlaveHalf'
  <2>1. SlaveHalf /\ UNCHANGED Slave!vars => SlaveHalf'
    BY DEF Slave!vars, Slave!config, Slave!bus, Slave!engine, Slave!books,
       SlaveHalf, SlaveKnows, SlaveEnd!FlagsMatch, SlaveEnd!AppFollows,
       SlaveEnd!StopAhead, SlaveEnd!Unread, StopServed, UnreadServed,
       SlaveWaits, SlaveEnd!BusWaits, SlaveEnd!VectorServes,
       SlaveEnd!ReadFollows, SlaveEnd!HeldShape, SlaveEnd!HeldIsDue,
       SlaveEnd!ReadIsKnown, SlaveEnd!FlagsFresh, SlaveEnd!Due,
       SlaveEnd!Serving
  <2>. QED  BY <2>1, SlaveBus, SlaveVector DEF Slave!Next
<1>. QED  BY <1>1, <1>2, BothEnds, PTL

-----------------------------------------------------------------------------
(* What each group of the engine's steps does, in terms of the stage.      *)

(* A call that returns at once, and one that starts: it finds the pending  *)
(* state as its stage expects it.                                          *)
Stops ==
  /\ call'.at = "rest"
  /\ g_pending_state' = g_pending_state \/ g_pending_state' = "NONE"
Starts ==
  /\ UNCHANGED <<regs, g_pending_state>>
  /\ \/ /\ call'.at = "start" /\ g_pending_state = "NONE"
        /\ call'.op \in ReadOps => call'.rx >= 1
     \/ /\ call'.at = "restart" /\ g_pending_state # "NONE"
        /\ call'.op = "read_after_restart" /\ call'.rx >= 1
     \/ /\ call'.at \in {"stop", "recover"} /\ g_pending_state # "NONE"
        /\ call'.at = "stop" => call'.op = "stop"

CallMoves ==
  /\ call.at = "rest" /\ call'.orig = "OK" /\ call'.ph = "issue"
  /\ call'.tx \in Nat /\ call'.rx \in Nat /\ call'.st # "ERR_NACK"
  /\ bus' => bus
  /\ "ACKSTAT" \in stat' => "ACKSTAT" \in stat
  /\ Stops \/ Starts

(* A public call begins where the last one left the bus, or returns at     *)
(* once.                                                                   *)
LEMMA CallsMove ==
  ASSUME CallNext
  PROVE  CallMoves
<1>a. call.at = "rest"
  BY DEF CallNext, RejectArgs, nora_i2c_write, nora_i2c_read,
     nora_i2c_write_read, nora_i2c_master_write_no_stop, BeginIndependent,
     nora_i2c_master_read_after_restart, nora_i2c_master_stop, Continue,
     nora_i2c_init, nora_i2c_deinit, nora_i2c_set_bus_speed, Entry
<1>1. ASSUME NEW st, Refuse(st), st # "ERR_NACK"
      PROVE  CallMoves
  BY <1>a, <1>1 DEF Refuse, Rest, CallMoves, Stops, regs, hal
<1>2. ASSUME NEW faults, ModuleReset(faults), NEW st, call' = Rest(st),
             st # "ERR_NACK",
             g_pending_state' = g_pending_state \/ g_pending_state' = "NONE"
      PROVE  CallMoves
  BY <1>a, <1>2 DEF ModuleReset, Rest, CallMoves, Stops
<1>3. ASSUME NEW op, NEW stage, NEW tx \in Nat, NEW rx \in Nat,
             Run(op, stage, tx, rx),
             \/ /\ stage = "start" /\ g_pending_state = "NONE"
                /\ op \in ReadOps => rx >= 1
             \/ /\ stage = "restart" /\ g_pending_state # "NONE"
                /\ op = "read_after_restart" /\ rx >= 1
             \/ /\ stage \in {"stop", "recover"} /\ g_pending_state # "NONE"
                /\ stage = "stop" => op = "stop"
      PROVE  CallMoves
  <2>1. /\ call'.at = stage /\ call'.op = op /\ call'.tx = tx /\ call'.rx = rx
        /\ call'.st = "OK" /\ call'.orig = "OK" /\ call'.ph = "issue"
        /\ UNCHANGED <<regs, g_pending_state>>
    BY <1>3 DEF Run, Enter, Rest, hal
  <2>. QED  BY <1>a, <1>3, <2>1 DEF CallMoves, Starts, regs
<1>4. ASSUME NEW op, NEW tx \in Nat, NEW rx \in Nat, op \in ReadOps => rx >= 1,
             BeginIndependent(op, tx, rx)
      PROVE  CallMoves
  BY <1>1, <1>3, <1>4 DEF BeginIndependent, pending_timeout_expired
<1>5. ASSUME NEW op, NEW stage, NEW rx \in Nat, Continue(op, stage, rx),
             \/ stage = "restart" /\ op = "read_after_restart" /\ rx >= 1
             \/ stage = "stop" /\ op = "stop"
      PROVE  CallMoves
  BY <1>1, <1>3, <1>5 DEF Continue, pending_timeout_expired
<1>6. CASE RejectArgs
  BY <1>1, <1>6 DEF RejectArgs
<1>7. ASSUME NEW tx \in TxLens,
             nora_i2c_write(tx) \/ nora_i2c_master_write_no_stop(tx)
      PROVE  CallMoves
  BY <1>4, <1>7, MasterAssumption
     DEF nora_i2c_write, nora_i2c_master_write_no_stop, ReadOps
<1>8. ASSUME NEW rx \in RxLens, nora_i2c_read(rx)
      PROVE  CallMoves
  <2>1. rx \in Nat /\ rx >= 1 /\ BeginIndependent("read", 0, rx)
    BY <1>8, MasterAssumption DEF nora_i2c_read
  <2>. QED  BY ONLY <1>4, <2>1
<1>9. ASSUME NEW tx \in TxLens, NEW rx \in RxLens, nora_i2c_write_read(tx, rx)
      PROVE  CallMoves
  <2>1. tx \in Nat /\ rx \in Nat /\ rx >= 1
    BY <1>9, MasterAssumption
  <2>2. BeginIndependent("write_read", tx, rx)
    BY <1>9 DEF nora_i2c_write_read
  <2>. QED  BY ONLY <1>4, <2>1, <2>2
<1>10. ASSUME NEW rx \in RxLens, nora_i2c_master_read_after_restart(rx)
       PROVE  CallMoves
  <2>1. rx \in Nat /\ rx >= 1
    BY <1>10, MasterAssumption
  <2>2. Continue("read_after_restart", "restart", rx)
    BY <1>10 DEF nora_i2c_master_read_after_restart
  <2>. QED  BY ONLY <1>5, <2>1, <2>2
<1>11. CASE nora_i2c_master_stop
  BY <1>5, <1>11 DEF nora_i2c_master_stop
<1>12. ASSUME NEW config \in Configs, nora_i2c_init(config)
       PROVE  CallMoves
  BY <1>2, <1>12 DEF nora_i2c_init
<1>13. CASE nora_i2c_deinit
  BY <1>1, <1>2, <1>3, <1>13
     DEF nora_i2c_deinit, ForceOff, pending_timeout_expired
<1>14. CASE nora_i2c_set_bus_speed
  BY <1>1, <1>2, <1>14 DEF nora_i2c_set_bus_speed, hal
<1>. QED
  BY ONLY CallNext, <1>6, <1>7, <1>8, <1>9, <1>10, <1>11, <1>12, <1>13, <1>14
     DEF CallNext

(* A frame that stays where it is.                                         *)
SameFrame ==
  /\ call'.at = call.at /\ call'.op = call.op
  /\ call'.tx = call.tx /\ call'.rx = call.rx /\ call'.orig = call.orig
  /\ g_pending_state' = g_pending_state

(* A register access asks for what its stage is about, and for that alone. *)
IssueMoves ==
  /\ call.at \in Stages /\ call.ph = "issue" /\ call'.ph = "poll"
  /\ SameFrame /\ call'.st = call.st
  /\ "SEN" \in conl' <=> call.at = "start"
  /\ "RSEN" \in conl' <=> call.at = "restart"
  /\ "PEN" \in conl' <=> call.at \in StopStages
  /\ "RCEN" \in conl' <=> call.at = "rx"
  /\ "ACKEN" \in conl' <=> call.at = "ack"
  /\ "TRSTAT" \in stat' <=> call.at \in {"w_sent", "r_sent"}
  /\ "ACKSTAT" \in stat' <=> "ACKSTAT" \in stat

(* A step that issues puts one request to the module, the one its stage    *)
(* stands for.                                                             *)
LEMMA IssuesMove ==
  ASSUME MasterHalf, IssueNext
  PROVE  IssueMoves
<1>1. /\ call.at \in Stages /\ call.ph = "issue" /\ call'.ph = "poll"
      /\ SameFrame /\ call'.st = call.st
  BY DEF MasterHalf, IInv, TypeOK, Frames, IssueNext, Issue, hal, SameFrame,
     nora_i2c_ll_start_issue, nora_i2c_ll_restart_issue, AwaitReady,
     nora_i2c_ll_write_byte_issue, nora_i2c_ll_read_byte_issue,
     nora_i2c_ll_ack_issue, nora_i2c_ll_stop_issue, Stages, StopStages,
     WriteStages, ReadStages
<1>2. ~Busy
  BY <1>1 DEF MasterHalf, NoFault, CalmInv, InCall, CalmCall, OneThing, Stages,
     StopStages, WriteStages, ReadStages
<1>. USE <1>1, <1>2, BitByBit
     DEF IssueMoves, Issue, Request, Accepts, regs, Stages, StopStages,
         WriteStages, ReadStages
<1>3. CASE nora_i2c_ll_start_issue
  BY <1>3 DEF nora_i2c_ll_start_issue, FaultBits
<1>4. CASE nora_i2c_ll_restart_issue
  BY <1>4 DEF nora_i2c_ll_restart_issue
<1>5. CASE AwaitReady
  BY <1>5 DEF AwaitReady
<1>6. CASE nora_i2c_ll_write_byte_issue
  BY <1>6 DEF nora_i2c_ll_write_byte_issue, WriteTrn
<1>7. CASE nora_i2c_ll_read_byte_issue
  BY <1>7 DEF nora_i2c_ll_read_byte_issue
<1>8. CASE nora_i2c_ll_ack_issue
  BY <1>8 DEF nora_i2c_ll_ack_issue, RequestAck
<1>9. CASE nora_i2c_ll_stop_issue
  BY <1>9 DEF nora_i2c_ll_stop_issue
<1>. QED
  BY ONLY IssueNext, <1>3, <1>4, <1>5, <1>6, <1>7, <1>8, <1>9 DEF IssueNext

(* wait_until() only looks.                                                *)
WaitMoves ==
  /\ call.at # "rest" /\ call.ph # "issue" /\ call'.ph # "issue"
  /\ SameFrame /\ call'.st \in {call.st} \cup WaitStatuses
  /\ UNCHANGED regs

(* A wait changes nothing but its own end.                                 *)
LEMMA WaitsMove ==
  ASSUME MasterHalf, WaitNext
  PROVE  WaitMoves
  BY DEF MasterHalf, IInv, TypeOK, Frames, WaitNext, Waiting, GoOn, ComeBack,
     hal, Poll, nora_i2c_ll_has_collision, nora_i2c_ll_has_error, PollTimer,
     WaitPhases, WaitMoves, SameFrame, WaitStatuses

(* From stage to stage, with the one before it done: what is left to       *)
(* transfer goes down by one where another byte is to come.                *)
Onward ==
  /\ call'.op = call.op /\ call'.ph = "issue" /\ call'.st = "OK"
  /\ call'.orig = call.orig
  /\ call'.tx = call.tx \/ (call.at = "w_sent" /\ call.tx > 0)
  /\ call'.rx = call.rx \/ (call.at = "ack" /\ call.rx > 1)
  /\ \/ call.at = "start" /\ call'.at = "r_ready" /\ call.op = "read"
     \/ call.at = "start" /\ call'.at = "w_ready" /\ call.op # "read"
     \/ call.at = "restart" /\ call'.at = "r_ready"
     \/ call.at = "w_ready" /\ call'.at = "w_sent"
     \/ call.at = "r_ready" /\ call'.at = "r_sent"
     \/ /\ call.at = "w_sent" /\ call'.at = "w_ready"
        /\ "ACKSTAT" \notin stat /\ call'.tx = call.tx - 1
     \/ /\ call.at = "w_sent" /\ call'.at = "stop" /\ call.op = "write"
        /\ "ACKSTAT" \notin stat /\ call.tx = 0
     \/ /\ call.at = "w_sent" /\ call'.at = "restart" /\ call.op = "write_read"
        /\ "ACKSTAT" \notin stat /\ call.tx = 0
     \/ call.at = "r_sent" /\ call'.at = "rx" /\ "ACKSTAT" \notin stat
     \/ call.at = "rx" /\ call'.at = "ack"
     \/ call.at = "ack" /\ call'.at = "rx" /\ call'.rx = call.rx - 1
     \/ call.at = "ack" /\ call'.at = "stop" /\ ~(call.rx > 1)
Nacked ==
  /\ call.at \in {"w_sent", "r_sent"} /\ "ACKSTAT" \in stat
  /\ call'.at \in {"quiet", "abort"} /\ call'.op = call.op
  /\ call'.ph = "issue" /\ call'.st = "OK"
LeftOpen ==
  /\ call.at = "w_sent" /\ call'.at = "rest" /\ call.op = "write_no_stop"
  /\ "ACKSTAT" \notin stat /\ call.tx = 0
  /\ g_pending_state' # "NONE" /\ call'.st = "OK" /\ call'.orig = "OK"
Closed ==
  /\ call.at \in StopStages /\ call'.at = "rest" /\ g_pending_state' = "NONE"
  /\ call'.st = (IF call.at = "stop" THEN "OK"
                 ELSE IF call.at = "recover" THEN "ERR_TIMEOUT" ELSE call.orig)
  /\ call'.st = "OK" => call.at = "stop"
  /\ call'.orig = "OK"

BackMoves ==
  /\ call.at \in Stages /\ call.ph = "back" /\ ~Busy /\ ~Busy'
  /\ "ACKSTAT" \in stat' <=> "ACKSTAT" \in stat
  /\ Onward \/ Nacked \/ LeftOpen \/ Closed

(* A wait that is over takes the call on to the stage after, or home.      *)
LEMMA BacksMove ==
  ASSUME MasterHalf, BackNext
  PROVE  BackMoves
<1>1. call.at \in Stages /\ call.ph = "back" /\ call.st = "OK"
  BY DEF MasterHalf, NoFault, BackNext, TransferFails, Started, Restarted,
     Ready, SentNacked, SentMore, SentAll, ReaderAddressed,
     nora_i2c_ll_read_byte_get, Acked, StopDone, AbortDone, QuietDone,
     RecoverDone, StopFails, DeinitRecovered, Back, Stages, StopStages,
     WriteStages, ReadStages
<1>2. ~Busy
  BY <1>1 DEF MasterHalf, NoFault, CalmInv, InCall, CalmCall, OneThing, Done,
     Stages, StopStages, WriteStages, ReadStages
<1>3. /\ call.at \in {"quiet", "abort"} <=> call.orig # "OK"
  BY <1>1 DEF MasterHalf, CalmInv, OrigMatches, Stages
<1>4. call \in Frames /\ PendingMatchesStage
  BY DEF MasterHalf, IInv, TypeOK
<1>5. ASSUME Onward \/ Nacked \/ LeftOpen \/ Closed,
             \/ UNCHANGED <<conl, stat>>
             \/ UNCHANGED conl /\ stat' = stat \ {"RBF"}
             \/ ModuleReset({}) /\ conl' = conl \ {"I2CEN"}
      PROVE  BackMoves
  BY <1>1, <1>2, <1>5, BitByBit, BitByBitNext
     DEF BackMoves, ModuleReset, MoveBits
<1>6. CASE Started
  BY <1>1, <1>4, <1>5, <1>6 DEF Started, Back, Next_stage, Frames, Onward, regs
<1>7. CASE Restarted \/ Ready
  BY <1>1, <1>4, <1>5, <1>7
     DEF Restarted, Ready, Back, Next_stage, Frames, Onward, regs
<1>8. CASE SentMore
  BY <1>1, <1>4, <1>5, <1>8 DEF SentMore, Back, Next_stage, Frames, Onward, regs
<1>9. CASE ReaderAddressed
  BY <1>1, <1>4, <1>5, <1>9
     DEF ReaderAddressed, Back, Next_stage, Frames, Onward, regs
<1>10. CASE nora_i2c_ll_read_byte_get
  BY <1>1, <1>4, <1>5, <1>10
     DEF nora_i2c_ll_read_byte_get, Back, Next_stage, Frames, Onward
<1>11. CASE Acked
  BY <1>1, <1>4, <1>5, <1>11 DEF Acked, Back, Next_stage, Frames, Onward, regs
<1>12. CASE SentNacked
  BY <1>1, <1>4, <1>5, <1>12
     DEF SentNacked, Fail, Back, Next_stage, Frames, Nacked, regs
<1>13. CASE SentAll
  <2>1. call.op \in Writes
    BY <1>4, <1>13 DEF SentAll, Back, PendingMatchesStage, WriteStages, Writes
  <2>2. CASE call.op = "write"
    BY <1>4, <1>5, <1>13, <2>2
       DEF SentAll, Back, Next_stage, Frames, Onward, regs
  <2>3. CASE call.op = "write_read"
    BY <1>4, <1>5, <1>13, <2>3
       DEF SentAll, Back, Next_stage, Frames, Onward, regs
  <2>4. CASE call.op = "write_no_stop"
    BY <1>4, <1>5, <1>13, <2>4
       DEF SentAll, Back, pending_set, Rest, Frames, LeftOpen, regs
  <2>. QED  BY <2>1, <2>2, <2>3, <2>4 DEF Writes
<1>14. CASE StopDone \/ AbortDone \/ QuietDone \/ RecoverDone
  <2>1. Closed
    BY <1>3, <1>4, <1>14
       DEF StopDone, AbortDone, QuietDone, RecoverDone, Back, pending_clear,
           Rest, Closed, StopStages, hal, PendingMatchesStage
  <2>2. UNCHANGED regs
    BY <1>14 DEF StopDone, AbortDone, QuietDone, RecoverDone
  <2>. QED  BY <1>5, <2>1, <2>2 DEF regs
<1>15. CASE DeinitRecovered
  <2>1. ForceOff("ERR_TIMEOUT") /\ call.at = "recover"
    BY <1>1, <1>15 DEF DeinitRecovered, Back
  <2>2. Closed
    BY <2>1 DEF ForceOff, Rest, Closed, StopStages
  <2>. QED  BY <1>5, <2>1, <2>2 DEF ForceOff
<1>16. ~TransferFails /\ ~StopFails
  BY <1>1 DEF TransferFails, StopFails, Back
<1>. QED
  BY ONLY BackNext, <1>6, <1>7, <1>8, <1>9, <1>10, <1>11, <1>12, <1>13, <1>14,
     <1>15, <1>16
     DEF BackNext

-----------------------------------------------------------------------------
(* Both ends together.                                                     *)

(* A byte of a write is still to go over the wires (of the address byte,   *)
(* too); a byte has been sent and answered; a byte received has been.      *)
Sending == \/ call.at = "w_ready"
           \/ call.at = "w_sent" /\ (call.ph = "issue" \/ "TRSTAT" \in stat)
Sent(stage) == call.at = stage /\ call.ph # "issue" /\ "TRSTAT" \notin stat
Answered == call.at = "ack" /\ call.ph # "issue" /\ "ACKEN" \notin conl

(* The frame of the running call is that of the job it was called for.     *)
JobMatches ==
  /\ job.tx \in Nat /\ job.rx \in Nat
  /\ call.at # "rest" => job.op = call.op
  /\ call.at \in WriteStages => call.tx <= job.tx
  /\ call.at = "start" => call.tx = job.tx
  /\ call.at \in WriteStages \cup {"restart", "r_ready", "r_sent"} =>
       /\ call.rx = job.rx
       /\ job.op \in ReadOps => job.rx >= 1
  /\ call.at \in {"rx", "ack"} => 1 <= call.rx /\ call.rx <= job.rx

(* Each stage of the master finds the wires where it takes them to be; a   *)
(* pending write has left them in the middle of the bytes to the slave,    *)
(* and a transfer that ended well has left them idle.  A byte that was     *)
(* asked for is on its way or there.                                       *)
Place ==
  /\ (call.at = "start" /\ call.ph # "issue" /\ "SEN" \notin conl) =>
       wire = (IF call.op = "read" THEN "addr_r" ELSE "addr_w")
  /\ Sending => wire = (IF call.tx = job.tx THEN "addr_w" ELSE "rx")
  /\ Sent("w_sent") => wire = (IF "ACKSTAT" \in stat THEN "ended" ELSE "rx")
  /\ (call.at = "restart" /\ call.ph # "issue" /\ "RSEN" \notin conl) =>
       wire = "addr_r"
  /\ (call.at \in {"r_ready", "r_sent"} /\ ~Sent("r_sent")) => wire = "addr_r"
  /\ Sent("r_sent") => wire = (IF "ACKSTAT" \in stat THEN "ended" ELSE "tx")
  /\ call.at = "rx" => wire = "tx"
  /\ call.at = "ack" =>
       wire = (IF Answered /\ ~(call.rx > 1) THEN "ended" ELSE "tx")
  /\ (call.at \in {"start", "restart"}
      /\ (call.ph = "issue" \/ conl \cap {"SEN", "RSEN"} # {}))
       => wire \in {"idle", "rx"}
  /\ call.at \in StopStages =>
       IF call.ph = "issue" \/ "PEN" \in conl THEN wire \in {"rx", "ended"}
       ELSE wire = "idle"
  /\ call.at = "rest" => wire \in {"idle", "rx"}
  /\ (call.at = "rest" /\ g_pending_state # "NONE") => wire = "rx"
  /\ (call.at = "rest" /\ call.st = "OK" /\ job.op # "none"
      /\ g_pending_state = "NONE") => wire = "idle"
  /\ (call.at = "rx" /\ call.ph # "issue") =>
       "RCEN" \in conl \/ "RBF" \in stat

(* The bytes of a write the slave has, as its callbacks will have counted  *)
(* them once the vector is done with what is in I2CxRCV and in its hands.  *)
NewWrite == SlaveEnd!Unread("address") /\ "R_W" \notin s_stat
Seen ==
  (IF NewWrite \/ (isr = "addr" /\ "R_W" \notin snap) THEN 0 ELSE got)
  + (IF SlaveEnd!Unread("data") THEN 1 ELSE 0)
  + (IF isr = "data" /\ ~NewWrite THEN 1 ELSE 0)

(* The bytes of a read that are over, those fetched and not clocked out    *)
(* yet taken off.                                                          *)
Beginning == wire = "tx" /\ ("RBF" \in s_stat \/ isr = "addr")
Clocked ==
  IF Beginning THEN 0
  ELSE taken - (IF loaded THEN 1 ELSE 0) - (IF isr = "load" THEN 1 ELSE 0)

(* The two counts agree at each stage with what is left of the job.        *)
WriteTally ==
  job.op \in WriteOps =>
    /\ (Sending /\ call.tx # job.tx) => Seen = job.tx - call.tx - 1
    /\ (Sent("w_sent") /\ "ACKSTAT" \notin stat) => Seen = job.tx - call.tx
    /\ call.at \in {"restart", "stop"} \cup ReadStages => Seen = job.tx
    /\ (call.at = "rest" /\ call.st = "OK") => Seen = job.tx

ReadTally ==
  job.op \in ReadOps =>
    /\ (Sent("r_sent") /\ "ACKSTAT" \notin stat) => Clocked = 0
    /\ (call.at \in {"rx", "ack"} /\ ~Answered) => Clocked = job.rx - call.rx
    /\ Answered => Clocked = job.rx - call.rx + 1
    /\ call.at = "stop" => Clocked = job.rx
    /\ (call.at = "rest" /\ call.st = "OK") => Clocked = job.rx

NoNack ==
  "ACKSTAT" \notin stat /\ call.orig # "ERR_NACK" /\ call.st # "ERR_NACK"

Joint ==
  /\ got \in Nat /\ taken \in Nat
  /\ JobMatches /\ Place /\ WriteTally
  /\ stretch => ReadTally /\ NoNack

(* The two counts are numbers whatever the vector has got to.              *)
LEMMA BooksType ==
  ASSUME got \in Nat, taken \in Nat
  PROVE  Seen \in Int /\ Clocked \in Int
  BY DEF Seen, Clocked

(* The frame's counts are numbers.                                         *)
LEMMA FrameType ==
  ASSUME MasterHalf
  PROVE  call.tx \in Nat /\ call.rx \in Nat /\ call.at \in Stages \cup {"rest"}
  BY DEF MasterHalf, IInv, TypeOK, Frames

(* A step of the master's processor leaves the slave and its books alone.  *)
LEMMA BooksStay ==
  ASSUME UNCHANGED <<slave, got, taken>>
  PROVE  UNCHANGED <<wire, stretch, Seen, Clocked, got, taken>>
  BY DEF slave, Seen, Clocked, NewWrite, Beginning, SlaveEnd!Unread

(* What Joint depends on.                                                  *)
LEMMA JointSame ==
  ASSUME Joint, UNCHANGED <<call, conl, stat, g_pending_state, job>>,
         UNCHANGED <<wire, stretch>>, got' \in Nat, taken' \in Nat,
         Seen' = Seen, stretch => Clocked' = Clocked
  PROVE  Joint'
  BY DEF Joint, JobMatches, Place, WriteTally, ReadTally, NoNack, Sending, Sent,
     Answered

(* What the two know of each other, through the master's issuing ...       *)
LEMMA JointIssue ==
  ASSUME MasterHalf, Joint, IssueMoves, UNCHANGED <<slave, tally>>
  PROVE  Joint'
<1>1. /\ UNCHANGED <<wire, stretch, Seen, Clocked, got, taken>>
      /\ UNCHANGED job
  BY BooksStay DEF tally
<1>. USE <1>1, FrameType
     DEF Joint, IssueMoves, SameFrame, Sending, Sent, Answered, Stages,
         WriteStages, ReadStages, StopStages
<1>2. JobMatches'
  BY DEF JobMatches
<1>3. Place'
  BY DEF Place
<1>4. WriteTally'
  BY DEF WriteTally
<1>5. stretch' => ReadTally'
  BY DEF ReadTally
<1>6. stretch' => NoNack'
  BY DEF NoNack
<1>. QED  BY <1>2, <1>3, <1>4, <1>5, <1>6

(* ... its waiting ...                                                     *)
LEMMA JointWait ==
  ASSUME MasterHalf, Joint, WaitMoves, UNCHANGED <<slave, tally>>
  PROVE  Joint'
<1>1. /\ UNCHANGED <<wire, stretch, Seen, Clocked, got, taken>>
      /\ UNCHANGED job
  BY BooksStay DEF tally
<1>. USE <1>1, FrameType
     DEF Joint, WaitMoves, SameFrame, Sending, Sent, Answered, regs
<1>2. JobMatches'
  BY DEF JobMatches
<1>3. Place'
  BY DEF Place
<1>4. WriteTally'
  BY DEF WriteTally
<1>5. stretch' => ReadTally'
  BY DEF ReadTally
<1>6. stretch' => NoNack'
  BY DEF NoNack, WaitStatuses
<1>. QED  BY <1>2, <1>3, <1>4, <1>5, <1>6

(* ... its going on to the next stage ...                                  *)
LEMMA JointBack ==
  ASSUME MasterHalf, Joint, BackMoves, UNCHANGED <<slave, tally>>
  PROVE  Joint'
<1>1. /\ UNCHANGED <<wire, stretch, Seen, Clocked, got, taken>>
      /\ UNCHANGED job
  BY BooksStay DEF tally
<1>2. call.at \in ReadStages \cup {"restart"} => call.op \in ReadOps
  BY DEF MasterHalf, IInv, PendingMatchesStage, ReadOps
<1>3. call.at \in Stages /\ call.at # "rest" /\ call.ph = "back"
  BY DEF BackMoves, Stages, StopStages, WriteStages, ReadStages
<1>4. /\ "TRSTAT" \notin stat /\ "SEN" \notin conl /\ "RSEN" \notin conl
      /\ "PEN" \notin conl /\ "ACKEN" \notin conl
      /\ "ACKEN" \notin conl' /\ "TRSTAT" \notin stat'
      /\ "ACKSTAT" \in stat' <=> "ACKSTAT" \in stat
  BY BitByBit, BitByBitNext DEF BackMoves
<1>. USE <1>1, <1>2, <1>3, <1>4, FrameType
     DEF Joint, Sending, Sent, Answered, WriteStages, ReadStages, StopStages
<1>5. CASE Onward
  <2>. USE <1>5 DEF Onward
  <2>1. JobMatches'
    BY DEF JobMatches
  <2>2. Place'
    BY DEF Place, JobMatches
  <2>3. WriteTally'
    BY DEF WriteTally, JobMatches, WriteOps
  <2>4. stretch' => ReadTally'
    BY DEF ReadTally, JobMatches, ReadOps
  <2>5. stretch' => NoNack'
    BY DEF NoNack
  <2>. QED  BY <2>1, <2>2, <2>3, <2>4, <2>5
<1>6. CASE Nacked
  BY <1>6 DEF Nacked, JobMatches, Place, WriteTally, ReadTally, NoNack
<1>7. CASE LeftOpen
  BY <1>7
     DEF LeftOpen, JobMatches, Place, WriteTally, ReadTally, NoNack, ReadOps
<1>8. CASE Closed
  BY <1>8 DEF Closed, JobMatches, Place, WriteTally, ReadTally, NoNack
<1>. QED  BY <1>5, <1>6, <1>7, <1>8 DEF BackMoves

(* ... and a new call of its application;                                  *)
LEMMA JointCall ==
  ASSUME MasterHalf, Joint, CallMade
  PROVE  Joint'
<1>1. UNCHANGED <<wire, stretch, Seen, Clocked, got, taken>> /\ CallMoves
  BY BooksStay, CallsMove DEF CallMade
<1>2. /\ call'.at = "rest" => job' = NoJob
      /\ call'.at # "rest" =>
           job' = [op |-> call'.op, tx |-> call'.tx, rx |-> call'.rx]
  BY DEF CallMade
<1>. USE <1>1 DEF Joint, CallMoves, Sending, Sent, Answered
<1>3. CASE Stops
  BY <1>2, <1>3
     DEF Stops, JobMatches, Place, WriteTally, ReadTally, NoNack, NoJob,
         WriteOps, ReadOps, WriteStages, ReadStages, StopStages
<1>4. CASE Starts
  <2>1. /\ job'.op = call'.op /\ job'.tx = call'.tx /\ job'.rx = call'.rx
        /\ call'.at \in {"start", "restart", "stop", "recover"}
        /\ call'.at \in {"restart", "stop"} => call'.op \notin WriteOps
        /\ call'.at = "stop" => call'.op \notin ReadOps
        /\ call'.at # "start" => wire = "rx"
    BY <1>2, <1>4 DEF Starts, Place, WriteOps, ReadOps
  <2>2. JobMatches'
    BY <1>4, <2>1 DEF Starts, JobMatches, WriteStages
  <2>3. Place'
    BY <1>4, <2>1 DEF Starts, Place, StopStages
  <2>4. WriteTally' /\ ReadTally'
    BY <2>1 DEF WriteTally, ReadTally, ReadStages
  <2>5. stretch' => NoNack'
    BY DEF NoNack
  <2>. QED  BY <2>2, <2>3, <2>4, <2>5
<1>. QED  BY <1>3, <1>4

(* A step of the vector moves bytes within the slave: neither count of     *)
(* what has gone over the wires changes.                                   *)
LEMMA VectorBooks ==
  ASSUME SlaveHalf, got \in Nat, taken \in Nat, VectorStep
  PROVE  /\ got' \in Nat /\ taken' \in Nat /\ UNCHANGED <<wire, stretch>>
         /\ Seen' = Seen /\ (stretch => Clocked' = Clocked)
<1>1. /\ got' = Tally(got, isr = "addr" /\ "R_W" \notin snap, isr = "data")
      /\ taken' = Tally(taken, isr = "addr" /\ "R_W" \in snap, isr = "ask")
      /\ Slave!VectorNext
  BY DEF VectorStep
<1>2. got' \in Nat /\ taken' \in Nat
  BY <1>1 DEF Tally
<1>. USE <1>1, <1>2
     DEF SlaveHalf, SlaveKnows, SlaveWaits, SlaveEnd!FlagsMatch,
         SlaveEnd!AppFollows, SlaveEnd!BusWaits, SlaveEnd!VectorServes,
         SlaveEnd!ReadFollows, SlaveEnd!Unread, Seen, NewWrite, Clocked,
         Beginning, Tally, Slave!At, Slave!config, Slave!bus, Slave!books
<1>3. CASE Slave!EnterVector
  BY <1>3 DEF Slave!EnterVector
<1>4. CASE Slave!nora_i2c_slave_irq_clear
  BY <1>4 DEF Slave!nora_i2c_slave_irq_clear
<1>5. CASE Slave!ReadStat
  BY <1>5 DEF Slave!ReadStat
<1>6. CASE Slave!ReadRcv
  BY <1>6 DEF Slave!ReadRcv
<1>7. CASE Slave!AddressByte
  BY <1>7 DEF Slave!AddressByte
<1>8. CASE Slave!next_tx_byte
  BY <1>8 DEF Slave!next_tx_byte
<1>9. CASE Slave!WriteTrn
  BY <1>9 DEF Slave!WriteTrn
<1>10. CASE Slave!DataByte
  BY <1>10 DEF Slave!DataByte
<1>11. CASE Slave!AckByte
  BY <1>11 DEF Slave!AckByte
<1>12. CASE Slave!ReleaseScl
  BY <1>12 DEF Slave!ReleaseScl
<1>13. CASE Slave!StopSeen
  BY <1>13 DEF Slave!StopSeen
<1>14. CASE Slave!ClearOverflow
  BY <1>14 DEF Slave!ClearOverflow
<1>. QED
  BY ONLY <1>1, <1>3, <1>4, <1>5, <1>6, <1>7, <1>8, <1>9, <1>10, <1>11, <1>12,
     <1>13, <1>14
     DEF Slave!VectorNext

(* through a step of the slave's vector, which the wires do not see ...    *)
LEMMA JointVector ==
  ASSUME SlaveHalf, Joint, VectorStep
  PROVE  Joint'
<1>1. UNCHANGED <<call, conl, stat, g_pending_state, job>>
  BY DEF VectorStep, vars, regs, hal
<1>2. got \in Nat /\ taken \in Nat
  BY DEF Joint
<1>. QED  BY <1>1, <1>2, VectorBooks, JointSame

(* What a step of the bus does to the two counts.                          *)
LEMMA BusBooks ==
  ASSUME SlaveHalf, got \in Nat, taken \in Nat, UNCHANGED <<got, taken>>
  PROVE  /\ Slave!BusStart \/ Slave!BusStop \/ Slave!BusOverflow =>
              Seen' = Seen /\ (stretch => Clocked' = Clocked)
         /\ Slave!BusAddress =>
              /\ Seen' = IF wire = "addr_w" THEN 0 ELSE Seen
              /\ wire = "addr_r" => Clocked' = 0
         /\ Slave!BusReceive => Seen' = Seen + 1
         /\ Slave!BusTransmit =>
              Seen' = Seen /\ (stretch => Clocked' = Clocked + 1)
<1>. USE DEF SlaveHalf, SlaveKnows, SlaveWaits, SlaveEnd!BusWaits,
         SlaveEnd!VectorServes, SlaveEnd!ReadFollows, SlaveEnd!Unread, Seen,
         NewWrite, Clocked, Beginning, Slave!BusStep, Slave!config,
         Slave!engine, Slave!Full, Slave!AddressBits
<1>1. ASSUME Slave!BusStart
      PROVE  Seen' = Seen /\ (stretch => Clocked' = Clocked)
  BY <1>1 DEF Slave!BusStart
<1>2. ASSUME Slave!BusStop
      PROVE  Seen' = Seen /\ (stretch => Clocked' = Clocked)
  BY <1>2 DEF Slave!BusStop
<1>3. ASSUME Slave!BusOverflow
      PROVE  Seen' = Seen /\ (stretch => Clocked' = Clocked)
  BY <1>3 DEF Slave!BusOverflow
<1>4. ASSUME Slave!BusAddress
      PROVE  /\ Seen' = IF wire = "addr_w" THEN 0 ELSE Seen
             /\ wire = "addr_r" => Clocked' = 0
  BY <1>4 DEF Slave!BusAddress
<1>5. ASSUME Slave!BusReceive
      PROVE  Seen' = Seen + 1
  BY <1>5 DEF Slave!BusReceive
<1>6. ASSUME Slave!BusTransmit
      PROVE  Seen' = Seen /\ (stretch => Clocked' = Clocked + 1)
  BY <1>6 DEF Slave!BusTransmit
<1>. QED  BY ONLY <1>1, <1>2, <1>3, <1>4, <1>5, <1>6

(* Only what the running call has asked for goes over the wires.           *)
LEMMA WiresServe ==
  ASSUME MasterHalf, WireStep
  PROVE  /\ call.at # "rest" /\ call.ph # "issue" /\ OneThing /\ DriveFollows
         /\ UNCHANGED <<call, g_pending_state, job, got, taken>>
<1>1. UNCHANGED <<call, g_pending_state, job, got, taken>>
  BY DEF WireStep, engine, hal, tally
<1>2. Busy \/ "TBF" \in stat
  BY BitByBit
     DEF WireStep, Condition, Shift, ByteTaken, ByteRefused, ByteRead, Answer,
         Stop, HwFinish, HwStarted, HwStopped, HwAcked, HwReceived, HwShift,
         HwSent, requests
<1>3. call.at # "rest"
  BY <1>2, BitByBit DEF MasterHalf, NoFault, Calm
<1>4. CalmCall
  BY <1>3 DEF MasterHalf, NoFault, CalmInv, InCall
<1>. QED
  BY <1>1, <1>2, <1>3, <1>4, BitByBit DEF CalmCall, OneThing

(* ... and through each step of the wires, where the two meet.             *)
LEMMA JointWire ==
  ASSUME MasterHalf, SlaveHalf, Joint, WireStep
  PROVE  Joint'
<1>1. /\ call.at # "rest" /\ call.ph # "issue" /\ OneThing /\ DriveFollows
      /\ UNCHANGED <<call, g_pending_state, job, got, taken>>
  BY WiresServe
<1>2. got \in Nat /\ taken \in Nat /\ Seen \in Int /\ Clocked \in Int
  BY BooksType DEF Joint
<1>3. ASSUME NEW b \in {"SEN", "RSEN"}, Condition(b)
      PROVE  Joint'
  <2>1. /\ b \in conl /\ conl' = conl \ {b} /\ UNCHANGED stat
        /\ wire' = (IF Reads THEN "addr_r" ELSE "addr_w") /\ Slave!BusStart
        /\ UNCHANGED stretch
    BY <1>3 DEF Condition, HwFinish, HwStarted, HwStopped, HwAcked, HwReceived,
       requests, Slave!BusStart, Slave!BusStep, Slave!config
  <2>2. Seen' = Seen /\ (stretch => Clocked' = Clocked)
    BY <1>1, <1>2, <2>1, BusBooks
  <2>3. call.at = (IF b = "SEN" THEN "start" ELSE "restart")
    BY <1>1, <2>1 DEF OneThing
  <2>4. "SEN" \notin conl' /\ "RSEN" \notin conl'
    BY <1>1, <2>1, <2>3 DEF OneThing
  <2>. USE <1>1, <1>2, <2>1, <2>2, <2>3, <2>4
       DEF Joint, Sending, Sent, Answered, ReadStages, WriteStages, StopStages
  <2>5. Place'
    BY DEF Place, Reads
  <2>. QED
    BY <2>5 DEF JobMatches, WriteTally, ReadTally, NoNack
<1>4. CASE Shift
  <2>1. UNCHANGED <<wire, stretch, Seen, Clocked, got, taken>>
    BY <1>1, <1>4, BooksStay DEF Shift
  <2>2. /\ UNCHANGED conl
        /\ "TRSTAT" \in stat' <=> "TRSTAT" \in stat
        /\ "ACKSTAT" \in stat' <=> "ACKSTAT" \in stat
        /\ "RBF" \in stat' <=> "RBF" \in stat
    BY <1>4 DEF Shift, HwShift
  <2>. QED
    BY <1>1, <2>1, <2>2
       DEF Joint, JobMatches, Place, WriteTally, ReadTally, NoNack, Sending,
           Sent, Answered
<1>5. CASE ByteTaken \/ ByteRefused
  <2>1. /\ "TRSTAT" \in stat /\ "TRSTAT" \notin stat' /\ UNCHANGED conl
        /\ ByteTaken => "ACKSTAT" \notin stat'
        /\ ByteRefused => "ACKSTAT" \in stat'
    BY <1>5 DEF ByteTaken, ByteRefused, HwSent
  <2>2. call.at \in {"w_sent", "r_sent"}
    BY <1>1, <2>1 DEF OneThing
  <2>3. /\ call.at = "w_sent" =>
             wire = (IF call.tx = job.tx THEN "addr_w" ELSE "rx")
        /\ call.at = "r_sent" => wire = "addr_r"
    BY <2>1, <2>2 DEF Joint, Place, Sending, Sent
  <2>4. JobMatches'
    BY <1>1 DEF Joint, JobMatches
  <2>5. CASE Slave!BusAddress /\ ByteTaken
    <3>1. /\ UNCHANGED stretch
          /\ wire' = (IF wire = "addr_r" THEN "tx" ELSE "rx")
          /\ wire \in {"addr_r", "addr_w"}
      BY <2>5 DEF Slave!BusAddress, Slave!BusStep, Slave!config
    <3>2. /\ Seen' = IF wire = "addr_w" THEN 0 ELSE Seen
          /\ wire = "addr_r" => Clocked' = 0
      BY <1>1, <1>2, <2>5, BusBooks
    <3>. QED
      BY <1>1, <1>2, <2>1, <2>2, <2>3, <2>4, <2>5, <3>1, <3>2, FrameType
         DEF Joint, JobMatches, Place, WriteTally, ReadTally, NoNack, Sending,
             Sent, Answered, ReadStages, WriteStages
  <2>6. CASE Slave!BusReceive /\ ByteTaken
    <3>1. UNCHANGED <<stretch, wire>> /\ wire = "rx"
      BY <2>6 DEF Slave!BusReceive, Slave!BusStep, Slave!config
    <3>2. Seen' = Seen + 1
      BY <1>1, <1>2, <2>6, BusBooks
    <3>. QED
      BY <1>1, <1>2, <2>1, <2>2, <2>3, <2>4, <2>6, <3>1, <3>2, FrameType
         DEF Joint, JobMatches, Place, WriteTally, ReadTally, NoNack, Sending,
             Sent, Answered, ReadStages, WriteStages
  <2>7. CASE ByteRefused
    <3>1. UNCHANGED stretch /\ wire' = "ended" /\ ~stretch
      BY <2>7 DEF ByteRefused, Slave!BusOverflow, Slave!BusStep, Slave!config,
         Slave!Full, SlaveHalf, SlaveWaits, SlaveEnd!BusWaits
    <3>2. Seen' = Seen
      BY <1>1, <1>2, <2>7, BusBooks DEF ByteRefused
    <3>. QED
      BY <1>1, <1>2, <2>1, <2>2, <2>3, <2>4, <2>7, <3>1, <3>2
         DEF Joint, Place, WriteTally, Sending, Sent, Answered, ReadStages
  <2>. QED  BY <1>5, <2>5, <2>6, <2>7 DEF ByteTaken
<1>6. CASE ByteRead
  <2>1. /\ UNCHANGED <<wire, stretch, Seen, Clocked, got, taken>>
        /\ "RCEN" \in conl /\ conl' = conl \ {"RCEN"} /\ "RBF" \in stat'
        /\ "TRSTAT" \in stat' <=> "TRSTAT" \in stat
        /\ "ACKSTAT" \in stat' <=> "ACKSTAT" \in stat
    BY <1>1, <1>6, BooksStay
       DEF ByteRead, HwFinish, HwStarted, HwStopped, HwAcked, HwReceived,
           requests
  <2>2. call.at = "rx"
    BY <1>1, <2>1 DEF OneThing
  <2>. QED
    BY <1>1, <2>1, <2>2
       DEF Joint, JobMatches, Place, WriteTally, ReadTally, NoNack, Sending,
           Sent, Answered, ReadStages, WriteStages, StopStages
<1>7. CASE Answer
  <2>1. /\ "ACKEN" \in conl /\ conl' = conl \ {"ACKEN"} /\ UNCHANGED stat
        /\ Slave!BusTransmit /\ UNCHANGED stretch
        /\ wire' = (IF "ACKDT" \in conl THEN "ended" ELSE wire)
    BY <1>7 DEF Answer, HwFinish, HwStarted, HwStopped, HwAcked, HwReceived,
       requests, Slave!BusTransmit, Slave!BusStep, Slave!config
  <2>2. call.at = "ack" /\ (call.rx > 1 <=> "ACKDT" \notin conl)
    BY <1>1, <2>1 DEF OneThing, DriveFollows
  <2>3. Seen' = Seen /\ (stretch => Clocked' = Clocked + 1)
    BY <1>1, <1>2, <2>1, BusBooks
  <2>. QED
    BY <1>1, <1>2, <2>1, <2>2, <2>3, FrameType
       DEF Joint, JobMatches, Place, WriteTally, ReadTally, NoNack, Sending,
           Sent, Answered, ReadStages, WriteStages
<1>8. CASE Stop
  <2>1. /\ "PEN" \in conl /\ conl' = conl \ {"PEN"} /\ UNCHANGED stat
        /\ Slave!BusStop /\ UNCHANGED stretch /\ wire' = "idle"
    BY <1>8 DEF Stop, HwFinish, HwStarted, HwStopped, HwAcked, HwReceived,
       requests, Slave!BusStop, Slave!BusStep, Slave!config
  <2>2. call.at \in StopStages
    BY <1>1, <2>1 DEF OneThing
  <2>3. Seen' = Seen /\ (stretch => Clocked' = Clocked)
    BY <1>1, <1>2, <2>1, BusBooks
  <2>. QED
    BY <1>1, <2>1, <2>2, <2>3
       DEF Joint, JobMatches, Place, WriteTally, ReadTally, NoNack, Sending,
           Sent, Answered, StopStages, ReadStages, WriteStages
<1>. QED
  BY ONLY WireStep, <1>3, <1>4, <1>5, <1>6, <1>7, <1>8 DEF WireStep

(* What holds of the two together in every reachable state.                *)
LEMMA JointStep ==
  ASSUME MasterHalf, SlaveHalf, Joint, [LinkNext]_link
  PROVE  Joint'
<1>1. CASE UNCHANGED link
  <2>1. /\ UNCHANGED <<call, conl, stat, g_pending_state, job>>
        /\ UNCHANGED <<slave, got, taken>>
    BY <1>1 DEF link, vars, regs, hal, tally
  <2>. QED  BY <2>1, BooksStay, JointSame DEF Joint
<1>2. CASE EngineStep
  <2>1. IssueNext \/ WaitNext \/ BackNext
    BY <1>2 DEF EngineStep, EngineNext
  <2>. QED
    BY <1>2, <2>1, IssuesMove, WaitsMove, BacksMove, JointIssue, JointWait,
       JointBack
       DEF EngineStep
<1>. QED
  BY <1>1, <1>2, JointCall, JointVector, JointWire DEF LinkNext

(* What the two know of each other holds in every reachable state.         *)
LEMMA JointHolds == LinkSpec => []Joint
<1>1. LinkInit => Joint
  BY DEF LinkInit, Init, RegsInit, Slave!Init, Rest, NoJob, Joint, JobMatches,
     Place, WriteTally, ReadTally, NoNack, Sending, Sent, Answered, WriteStages,
     ReadStages, StopStages, WriteOps, ReadOps
<1>2. MasterHalf /\ SlaveHalf /\ Joint /\ [LinkNext]_link => Joint'
  BY JointStep
<1>. QED  BY <1>1, <1>2, MasterHalfHolds, SlaveHalfHolds, PTL DEF LinkSpec

-----------------------------------------------------------------------------
(* What a successful call says it has transferred is what the callbacks    *)
(* have seen once the vector has caught up, however far it was behind on   *)
(* the way, and for transfers of any length.                               *)
THEOREM TransferCountsAgree == LinkSpec => []TransfersMatch
<1>1. MasterHalf /\ SlaveHalf /\ Joint => TransfersMatch
  <2>. SUFFICES ASSUME MasterHalf, SlaveHalf, Joint
                PROVE  TransfersMatch
    OBVIOUS
  <2>1. Settled => isr = "idle" /\ "RBF" \notin s_stat
    BY DEF Settled, SlaveHalf, SlaveKnows, UnreadServed
  <2>2. ASSUME Succeeded(WriteOps)
        PROVE  got = job.tx
    <3>1. Seen = job.tx
      BY <2>2 DEF Succeeded, Joint, WriteTally
    <3>2. Seen = got
      BY <2>1, <2>2 DEF Succeeded, Joint, Seen, NewWrite, SlaveEnd!Unread
    <3>. QED  BY <3>1, <3>2
  <2>3. ASSUME stretch, Succeeded(ReadOps)
        PROVE  taken = job.rx
    <3>1. Clocked = job.rx
      BY <2>3 DEF Succeeded, Joint, ReadTally
    <3>2. wire # "tx"
      BY <2>3 DEF Succeeded, Joint, Place, ReadOps
    <3>3. ~loaded
      BY <2>3, <3>2 DEF SlaveHalf, SlaveWaits, SlaveEnd!ReadFollows
    <3>4. Clocked = taken
      BY <2>1, <2>3, <3>2, <3>3 DEF Succeeded, Joint, Clocked, Beginning
    <3>. QED  BY <3>1, <3>4
  <2>. QED  BY <2>2, <2>3 DEF TransfersMatch
<1>. QED  BY <1>1, MasterHalfHolds, SlaveHalfHolds, JointHolds, PTL

(* The slave's application is in a transaction exactly while the master    *)
(* holds one open: a STOP has been told of, or the wires are still with    *)
(* the bytes of the write.                                                 *)
THEOREM ApplicationFollows == LinkSpec => []AppFollowsPending
<1>1. SlaveHalf /\ Joint => AppFollowsPending
  <2>. SUFFICES ASSUME SlaveHalf, Joint,
                       Succeeded(WriteOps \cup ReadOps \cup {"stop"})
                PROVE  app # "closed" <=> g_pending_state # "NONE"
    BY DEF AppFollowsPending
  <2>1. isr = "idle" /\ ~iflag /\ "RBF" \notin s_stat
    BY DEF Succeeded, Settled, SlaveHalf, SlaveKnows, UnreadServed
  <2>2. CASE g_pending_state = "NONE"
    <3>1. wire = "idle"
      BY <2>2 DEF Succeeded, Joint, Place, WriteOps, ReadOps
    <3>. QED  BY <2>1, <2>2, <3>1 DEF SlaveHalf, SlaveKnows, StopServed
  <2>3. CASE g_pending_state # "NONE"
    <3>1. wire = "rx"
      BY <2>3 DEF Succeeded, Joint, Place
    <3>. QED
      BY <2>1, <2>3, <3>1
         DEF SlaveHalf, SlaveKnows, SlaveEnd!AppFollows, SlaveEnd!Unread
  <2>. QED  BY <2>2, <2>3
<1>. QED  BY <1>1, SlaveHalfHolds, JointHolds, PTL

(* A slave that stretches is never too late for a byte, so that no call    *)
(* returns ERR_NACK.                                                       *)
THEOREM NoCallNacked == LinkSpec => []StretchingSlaveAccepts
<1>1. Joint => StretchingSlaveAccepts
  BY DEF Joint, NoNack, StretchingSlaveAccepts
<1>. QED  BY <1>1, JointHolds, PTL

(* The master clocks a byte out of such a slave only after the vector has  *)
(* written it to I2CxTRN.                                                  *)
THEOREM BytesReadAreLoaded == LinkSpec => ReadsLoadedBytes
<1>. DEFINE A ==
       (stretch /\ "RCEN" \in conl \ conl' /\ call'.at = "rx") => loaded
<1>1. MasterHalf /\ SlaveHalf /\ Joint /\ [LinkNext]_link => A
  <2>. SUFFICES ASSUME MasterHalf, SlaveHalf, Joint, [LinkNext]_link, stretch,
                       "RCEN" \in conl, "RCEN" \notin conl', call'.at = "rx"
                PROVE  loaded
    OBVIOUS
  <2>1. CASE CallMade
    BY <2>1, CallsMove DEF CallMade, CallMoves, Stops, Starts
  <2>2. CASE EngineStep
    <3>1. IssueNext \/ WaitNext \/ BackNext
      BY <2>2 DEF EngineStep, EngineNext
    <3>2. CASE IssueNext
      BY <3>2, IssuesMove DEF IssueMoves, SameFrame
    <3>3. CASE WaitNext
      BY <3>3, WaitsMove DEF WaitMoves, regs
    <3>4. CASE BackNext
      BY <3>4, BacksMove, BitByBit DEF BackMoves
    <3>. QED  BY <3>1, <3>2, <3>3, <3>4
  <2>3. CASE VectorStep \/ UNCHANGED link
    BY <2>3 DEF VectorStep, link, vars, regs
  <2>4. CASE WireStep
    <3>1. ByteRead
      BY <2>4 DEF WireStep, Condition, Shift, ByteTaken, ByteRefused, Answer,
         Stop, HwFinish, HwStarted, HwStopped, HwAcked, HwReceived, HwShift,
         HwSent, requests
    <3>. QED
      BY <3>1 DEF ByteRead, SlaveHalf, SlaveWaits, SlaveEnd!ReadFollows
  <2>. QED  BY <2>1, <2>2, <2>3, <2>4 DEF LinkNext
<1>2. [][A]_link => ReadsLoadedBytes
  BY PTL DEF ReadsLoadedBytes
<1>. QED
  BY <1>1, <1>2, MasterHalfHolds, SlaveHalfHolds, JointHolds, PTL
     DEF LinkSpec

-----------------------------------------------------------------------------
(* Nobody waits in vain.                                                   *)

(* An initialized master has its module switched on.                       *)
Powered == g_initialized => "I2CEN" \in conl

(* Only nora_i2c_deinit() clears I2CEN, and with it g_initialized.         *)
LEMMA PoweredStep ==
  ASSUME Powered, [Next]_vars
  PROVE  Powered'
<1>. USE DEF Powered, regs, hal
<1>1. CASE CallNext
  <2>1. \/ UNCHANGED <<conl, g_initialized>>
        \/ "I2CEN" \in conl' \/ g_initialized' = FALSE
    BY <1>1 DEF CallNext, RejectArgs, nora_i2c_write, nora_i2c_read,
       nora_i2c_write_read, nora_i2c_master_write_no_stop, BeginIndependent,
       nora_i2c_master_read_after_restart, nora_i2c_master_stop, Continue,
       nora_i2c_init, nora_i2c_deinit, nora_i2c_set_bus_speed, Refuse, Run,
       ForceOff
  <2>. QED  BY <2>1
<1>2. CASE IssueNext
  <2>1. UNCHANGED g_initialized /\ ("I2CEN" \in conl => "I2CEN" \in conl')
    BY <1>2 DEF IssueNext, Issue, nora_i2c_ll_start_issue,
       nora_i2c_ll_restart_issue, AwaitReady, nora_i2c_ll_write_byte_issue,
       nora_i2c_ll_read_byte_issue, nora_i2c_ll_ack_issue,
       nora_i2c_ll_stop_issue, Request, RequestAck
  <2>. QED  BY <2>1
<1>3. CASE WaitNext
  BY <1>3 DEF WaitNext, Poll, nora_i2c_ll_has_collision,
     nora_i2c_ll_has_error, PollTimer, Waiting
<1>4. CASE BackNext
  <2>1. UNCHANGED <<conl, g_initialized>> \/ g_initialized' = FALSE
    BY <1>4 DEF BackNext, TransferFails, Started, Restarted, Ready,
       SentNacked, SentMore, SentAll, ReaderAddressed,
       nora_i2c_ll_read_byte_get, Acked, StopDone, AbortDone, QuietDone,
       RecoverDone, StopFails, DeinitRecovered, ForceOff, pending_set,
       pending_clear
  <2>. QED  BY <2>1
<1>5. CASE Hardware
  BY <1>5 DEF Hardware, HwNext, HwFinish, HwShift, HwSent, HwCollide, ReqBits
<1>6. CASE Tick \/ UNCHANGED vars
  BY <1>6 DEF Tick, vars
<1>. QED
  BY <1>1, <1>2, <1>3, <1>4, <1>5, <1>6 DEF Next, EngineNext

(* What a call waits for, its module is doing.                             *)
LEMMA WaitsForModule ==
  ASSUME MasterHalf, Joint, Powered, call.at # "rest", call.ph # "issue", ~done
  PROVE  Outstanding
<1>1. OneThing
  BY DEF MasterHalf, NoFault, CalmInv, InCall, CalmCall
<1>2. "I2CEN" \in conl
  BY DEF Powered, MasterHalf, IInv, PendingMatchesStage
<1>3. Busy \/ "TBF" \in stat
  BY BitByBit, FrameType DEF done, Joint, Place, Stages, WriteStages,
     ReadStages, StopStages
<1>. QED  BY <1>2, <1>3 DEF Outstanding

(* What the master's module is doing, the wires are ready for: the slave   *)
(* is where the stage takes it to be.                                      *)
LEMMA WiresAreReady ==
  ASSUME MasterHalf, Joint, call.at # "rest", call.ph # "issue"
  PROVE  WiresFit
<1>1. OneThing
  BY DEF MasterHalf, NoFault, CalmInv, InCall, CalmCall
<1>2. "TRSTAT" \in stat => wire \in {"addr_w", "addr_r", "rx"}
  BY <1>1 DEF OneThing, Joint, Place, Sending, Sent
<1>3. conl \cap {"RCEN", "ACKEN"} # {} => wire = "tx"
  BY <1>1 DEF OneThing, Joint, Place, Answered
<1>4. "PEN" \in conl => wire \in {"rx", "ended"}
  BY <1>1 DEF OneThing, Joint, Place
<1>5. conl \cap {"SEN", "RSEN"} # {} => wire \in {"idle", "rx", "ended"}
  BY <1>1 DEF OneThing, Joint, Place
<1>. QED  BY <1>2, <1>3, <1>4, <1>5 DEF WiresFit

(* A call that polls and a slave that holds SCL never wait for each other: *)
(* at every moment of every call one of the vector and the wires has a     *)
(* step to make, with and without clock stretching, for transfers of any   *)
(* length and after any sequence of calls.                                 *)
THEOREM NeverStandsOff == LinkSpec => []NoStandoff
<1>1. MasterHalf /\ SlaveHalf /\ Joint /\ Powered => NoStandoff
  <2>1. SlaveHalf /\ held => iflag \/ isr # "idle"
    BY DEF SlaveHalf, SlaveEnd!HeldShape, SlaveEnd!HeldIsDue,
       SlaveEnd!Serving
  <2>. QED  BY <2>1, WaitsForModule, WiresAreReady DEF NoStandoff
<1>2. Init => Powered
  BY DEF Init, Powered
<1>3. LinkSpec => []Powered
  BY <1>2, PoweredStep, BothEnds, PTL DEF Spec
<1>. QED
  BY <1>1, <1>3, MasterHalfHolds, SlaveHalfHolds, JointHolds, PTL
=============================================================================
