------------------------ MODULE NoraI2CMasterProofs ------------------------
(***************************************************************************)
(* Proofs about NoraI2CMaster for every value of its constants: any set of *)
(* configurations, any transfer lengths, any modulus of the clock, either  *)
(* behaviour of overlapping requests, with and without collisions.         *)
(***************************************************************************)
EXTENDS NoraI2CMaster, TLAPS

(* The inductive invariant.                                                *)
IInv == TypeOK /\ PendingMatchesStage

LEMMA ClockZero == 0 \in 0 .. ClockMod - 1 /\ 0 \in 0 .. ClockMod
  BY MasterAssumption

LEMMA RestType ==
  ASSUME NEW st \in Statuses
  PROVE  Rest(st) \in Frames
  BY ClockZero DEF Frames, Rest, Statuses, Phases

LEMMA EnterType ==
  ASSUME NEW op \in Ops, NEW stage \in Stages, NEW tx \in Nat, NEW rx \in Nat
  PROVE  Enter(op, stage, tx, rx) \in Frames
  BY ClockZero DEF Frames, Rest, Enter, Statuses, Phases

LEMMA NextStageType ==
  ASSUME call \in Frames, NEW stage \in Stages
  PROVE  Next_stage(stage) \in Frames
  BY DEF Frames, Next_stage, Statuses, Phases

-----------------------------------------------------------------------------
(* The register layer keeps its types.                                     *)

LEMMA RequestType ==
  ASSUME RegsTypeOK, NEW b \in ReqBits, Request(b)
  PROVE  conl' \subseteq ConlBits
  BY DEF RegsTypeOK, Request, ConlBits

LEMMA RequestAckType ==
  ASSUME RegsTypeOK, NEW ack, RequestAck(ack)
  PROVE  conl' \subseteq ConlBits
  BY DEF RegsTypeOK, RequestAck, ConlBits, ReqBits

LEMMA WriteTrnType ==
  ASSUME RegsTypeOK, NEW byte \in TrnBytes, WriteTrn(byte)
  PROVE  stat' \subseteq StatBits /\ trn' \in TrnBytes
  BY DEF RegsTypeOK, WriteTrn, StatBits, FaultBits, MoveBits

LEMMA ModuleResetType ==
  ASSUME RegsTypeOK, NEW faults, ModuleReset(faults)
  PROVE  /\ stat' \subseteq StatBits
         /\ trn' \in TrnBytes /\ bus' \in BOOLEAN /\ drv' \in BOOLEAN
  BY DEF RegsTypeOK, ModuleReset, StatBits, FaultBits, MoveBits, TrnBytes

LEMMA HardwareType ==
  ASSUME RegsTypeOK, HwNext
  PROVE  RegsTypeOK'
<1>1. ASSUME NEW b \in ReqBits, HwFinish(b)
      PROVE  RegsTypeOK'
  BY <1>1 DEF RegsTypeOK, HwFinish, HwStarted, HwStopped, HwAcked, HwReceived,
     StatBits, FaultBits, MoveBits
<1>2. CASE HwShift
  BY <1>2 DEF RegsTypeOK, HwShift
<1>3. ASSUME NEW acked \in BOOLEAN, HwSent(acked)
      PROVE  RegsTypeOK'
  BY <1>3 DEF RegsTypeOK, HwSent, StatBits, TrnBytes
<1>4. CASE HwCollide
  BY <1>4 DEF RegsTypeOK, HwCollide, StatBits, FaultBits, TrnBytes
<1>. QED  BY <1>1, <1>2, <1>3, <1>4 DEF HwNext

-----------------------------------------------------------------------------
(* Every step keeps the inductive invariant.                               *)

LEMMA ForceOffStep ==
  ASSUME IInv, NEW st \in Statuses, ForceOff(st), calm' \in BOOLEAN, UNCHANGED now
  PROVE  IInv'
<1>1. RegsTypeOK'
  BY ModuleResetType DEF IInv, TypeOK, ForceOff, RegsTypeOK
<1>2. call' \in Frames /\ call'.at = "rest"
  BY RestType DEF ForceOff, Rest
<1>3. NoConfig \in ConfigType
  BY ClockZero DEF NoConfig, ConfigType
<1>4. /\ g_initialized' = FALSE /\ g_cfg' = NoConfig
      /\ g_pending_state' = "NONE" /\ g_pending_start_ms' = 0 /\ age' = 0
  BY DEF ForceOff
<1>5. TypeOK'
  BY <1>1, <1>2, <1>3, <1>4, ClockZero DEF IInv, TypeOK, PendingStates
<1>6. PendingMatchesStage'
  BY <1>2, <1>4 DEF PendingMatchesStage, WriteStages, ReadStages
<1>. QED  BY <1>5, <1>6 DEF IInv

LEMMA CallStep ==
  ASSUME IInv, CallNext
  PROVE  IInv'
<1>. USE DEF IInv, TypeOK, Entry
<1>a. calm' \in BOOLEAN
  BY DEF CallNext, RejectArgs, nora_i2c_write, nora_i2c_read,
     nora_i2c_write_read, nora_i2c_master_write_no_stop, BeginIndependent,
     nora_i2c_master_read_after_restart, nora_i2c_master_stop, Continue,
     nora_i2c_init, nora_i2c_deinit, nora_i2c_set_bus_speed, Calm
<1>1. ASSUME NEW st \in Statuses, Refuse(st)
      PROVE  IInv'
  BY <1>1, <1>a, RestType
     DEF Refuse, Rest, regs, hal, RegsTypeOK, PendingMatchesStage,
         WriteStages, ReadStages
<1>2. ASSUME NEW op \in Ops, NEW stage \in Stages, NEW tx \in Nat, NEW rx \in Nat,
             Run(op, stage, tx, rx), g_initialized,
             \/ stage = "recover" /\ g_pending_state # "NONE"
             \/ /\ stage = "start" /\ g_pending_state = "NONE"
                /\ op \in Writes \cup {"read"}
             \/ /\ stage = "restart" /\ g_pending_state # "NONE"
                /\ op = "read_after_restart"
             \/ stage = "stop" /\ g_pending_state # "NONE" /\ op = "stop"
      PROVE  IInv'
  <2>1. call' \in Frames
    BY <1>2, EnterType DEF Run
  <2>2. call'.at = stage /\ call'.op = op
    BY <1>2 DEF Run, Enter, Rest
  <2>3. UNCHANGED <<regs, hal, now>>
    BY <1>2 DEF Run
  <2>. QED
    BY <1>2, <1>a, <2>1, <2>2, <2>3
       DEF regs, hal, RegsTypeOK, PendingMatchesStage, PendingStates,
           WriteStages, ReadStages, Writes
<1>3. ASSUME NEW op \in Writes \cup {"read"}, NEW tx \in Nat, NEW rx \in Nat,
             BeginIndependent(op, tx, rx)
      PROVE  IInv'
  <2>1. op \in Ops /\ "start" \in Stages /\ "recover" \in Stages /\ 0 \in Nat
    BY DEF Ops, Stages, WriteStages, StopStages
  <2>2. "ERR_NOT_INITIALIZED" \in Statuses /\ "ERR_BUSY" \in Statuses
    BY DEF Statuses
  <2>3. CASE Refuse("ERR_NOT_INITIALIZED") \/ Refuse("ERR_BUSY")
    BY <2>2, <2>3, <1>1
  <2>4. CASE g_initialized /\ pending_timeout_expired /\ Run(op, "recover", 0, 0)
    BY <2>1, <2>4, <1>2 DEF pending_timeout_expired
  <2>5. CASE g_initialized /\ g_pending_state = "NONE" /\ Run(op, "start", tx, rx)
    BY <2>1, <2>5, <1>2
  <2>. QED  BY <1>3, <2>3, <2>4, <2>5 DEF BeginIndependent
<1>4. ASSUME NEW rx \in Nat,
             NEW op, NEW stage,
             \/ op = "read_after_restart" /\ stage = "restart"
             \/ op = "stop" /\ stage = "stop",
             Continue(op, stage, rx)
      PROVE  IInv'
  <2>1. op \in Ops /\ stage \in Stages /\ "recover" \in Stages /\ 0 \in Nat
    BY <1>4 DEF Ops, Stages, StopStages
  <2>2. "ERR_NOT_INITIALIZED" \in Statuses /\ "ERR_SEQUENCE" \in Statuses
    BY DEF Statuses
  <2>3. CASE Refuse("ERR_NOT_INITIALIZED") \/ Refuse("ERR_SEQUENCE")
    BY <2>2, <2>3, <1>1
  <2>4. CASE g_initialized /\ pending_timeout_expired /\ Run(op, "recover", 0, 0)
    BY <2>1, <2>4, <1>2 DEF pending_timeout_expired
  <2>5. CASE g_initialized /\ g_pending_state # "NONE" /\ Run(op, stage, 0, rx)
    BY <2>1, <2>5, <1>2, <1>4
  <2>. QED  BY <1>4, <2>3, <2>4, <2>5 DEF Continue
<1>5. ASSUME NEW config \in Configs, nora_i2c_init(config)
      PROVE  IInv'
  <2>1. config \in ConfigType
    BY MasterAssumption
  <2>2. RegsTypeOK'
    BY <1>5, ModuleResetType DEF nora_i2c_init, RegsTypeOK, ConlBits
  <2>3. call' = Rest("OK") /\ call' \in Frames
    BY <1>5, RestType DEF nora_i2c_init, Statuses
  <2>. QED
    BY <1>5, <1>a, <2>1, <2>2, <2>3, ClockZero
       DEF nora_i2c_init, Rest, PendingStates, PendingMatchesStage,
           WriteStages, ReadStages
<1>6. CASE nora_i2c_deinit
  <2>1. "deinit" \in Ops /\ "recover" \in Stages /\ 0 \in Nat
    BY DEF Ops, Stages, StopStages
  <2>2. "ERR_NOT_INITIALIZED" \in Statuses /\ "ERR_BUSY" \in Statuses
    BY DEF Statuses
  <2>3. CASE Refuse("ERR_NOT_INITIALIZED") \/ Refuse("ERR_BUSY")
    BY <2>2, <2>3, <1>1
  <2>4. CASE g_initialized /\ pending_timeout_expired /\ Run("deinit", "recover", 0, 0)
    BY <2>1, <2>4, <1>2 DEF pending_timeout_expired
  <2>5. CASE ForceOff("OK") /\ UNCHANGED now
    BY <2>5, <1>a, ForceOffStep DEF Statuses
  <2>. QED  BY <1>6, <2>3, <2>4, <2>5 DEF nora_i2c_deinit
<1>7. CASE nora_i2c_set_bus_speed
  <2>1. "ERR_NOT_INITIALIZED" \in Statuses /\ "ERR_BUSY" \in Statuses
    BY DEF Statuses
  <2>2. CASE Refuse("ERR_NOT_INITIALIZED") \/ Refuse("ERR_BUSY")
    BY <2>1, <2>2, <1>1
  <2>3. CASE /\ ModuleReset({}) /\ call' = Rest("OK")
             /\ UNCHANGED <<conl, hal, now>>
    <3>1. RegsTypeOK'
      BY <2>3, ModuleResetType DEF RegsTypeOK
    <3>2. call' \in Frames /\ call'.at = "rest"
      BY <2>3, RestType DEF Statuses, Rest
    <3>. QED
      BY <2>3, <1>a, <3>1, <3>2
         DEF hal, PendingMatchesStage, WriteStages, ReadStages
  <2>. QED  BY <1>7, <2>2, <2>3 DEF nora_i2c_set_bus_speed
<1>8. CASE RejectArgs
  BY <1>8, <1>1 DEF RejectArgs, Statuses
<1>. QED
  BY <1>3, <1>4, <1>5, <1>6, <1>7, <1>8, MasterAssumption
     DEF CallNext, nora_i2c_write, nora_i2c_read, nora_i2c_write_read,
         nora_i2c_master_write_no_stop, nora_i2c_master_read_after_restart,
         nora_i2c_master_stop, Writes

(* Register accesses and the steps of wait_until() leave the pending state *)
(* and the stage alone.                                                    *)
LEMMA SameStage ==
  ASSUME IInv, RegsTypeOK', call' \in Frames, UNCHANGED <<hal, now, calm>>,
         call'.at = call.at, call'.op = call.op
  PROVE  IInv'
  BY DEF IInv, TypeOK, hal, PendingMatchesStage

LEMMA IssueStep ==
  ASSUME IInv, IssueNext
  PROVE  IInv'
<1>. USE DEF IInv, TypeOK
<1>1. timeout_start_ms \in 0 .. ClockMod - 1
  BY ClockZero DEF timeout_start_ms
<1>2. ASSUME NEW stages, Issue(stages), RegsTypeOK'
      PROVE  IInv'
  <2>1. call' \in Frames /\ call'.at = call.at /\ call'.op = call.op
    BY <1>1, <1>2 DEF Issue, Frames, Phases, WaitPhases
  <2>. QED  BY <1>2, <2>1, SameStage DEF Issue
<1>3. CASE nora_i2c_ll_start_issue
  BY <1>2, <1>3, RequestType DEF nora_i2c_ll_start_issue, RegsTypeOK, ReqBits
<1>4. CASE nora_i2c_ll_restart_issue
  BY <1>2, <1>4, RequestType DEF nora_i2c_ll_restart_issue, RegsTypeOK, ReqBits
<1>5. CASE AwaitReady
  BY <1>2, <1>5 DEF AwaitReady, RegsTypeOK, regs
<1>6. CASE nora_i2c_ll_write_byte_issue
  BY <1>2, <1>6, WriteTrnType
     DEF nora_i2c_ll_write_byte_issue, RegsTypeOK, TrnBytes
<1>7. CASE nora_i2c_ll_read_byte_issue
  BY <1>2, <1>7, RequestType
     DEF nora_i2c_ll_read_byte_issue, RegsTypeOK, ReqBits
<1>8. CASE nora_i2c_ll_ack_issue
  <2>1. Issue({"ack"}) /\ RequestAck(call.rx > 1) /\ UNCHANGED <<stat, trn, bus, drv>>
    BY <1>8 DEF nora_i2c_ll_ack_issue
  <2>2. conl' \subseteq ConlBits
    BY <2>1, RequestAckType
  <2>3. RegsTypeOK'
    BY <2>1, <2>2 DEF RegsTypeOK
  <2>. QED  BY <1>2, <2>1, <2>3
<1>9. CASE nora_i2c_ll_stop_issue
  BY <1>2, <1>9, RequestType DEF nora_i2c_ll_stop_issue, RegsTypeOK, ReqBits
<1>. QED
  BY <1>3, <1>4, <1>5, <1>6, <1>7, <1>8, <1>9 DEF IssueNext

LEMMA WaitStep ==
  ASSUME IInv, WaitNext
  PROVE  IInv'
<1>. USE DEF IInv, TypeOK
<1>1. UNCHANGED <<regs, hal, now, calm>>
  BY DEF WaitNext, Waiting, Poll, nora_i2c_ll_has_collision,
         nora_i2c_ll_has_error, PollTimer
<1>2. RegsTypeOK'
  BY <1>1 DEF RegsTypeOK, regs
<1>3. \/ \E ph \in Phases : GoOn(ph)
      \/ \E st \in WaitStatuses : ComeBack(st)
  <2>1. CASE Poll
    BY <2>1 DEF Poll, Phases, WaitPhases
  <2>2. CASE nora_i2c_ll_has_collision
    BY <2>2 DEF nora_i2c_ll_has_collision, Phases, WaitPhases, WaitStatuses
  <2>3. CASE nora_i2c_ll_has_error
    BY <2>3 DEF nora_i2c_ll_has_error, Phases, WaitPhases, WaitStatuses
  <2>4. CASE PollTimer
    BY <2>4 DEF PollTimer, Phases, WaitPhases, WaitStatuses
  <2>. QED  BY <2>1, <2>2, <2>3, <2>4 DEF WaitNext
<1>4. call' \in Frames /\ call'.at = call.at /\ call'.op = call.op
  BY <1>3, ClockZero
     DEF GoOn, ComeBack, Frames, Phases, WaitStatuses, Statuses
<1>. QED  BY <1>1, <1>2, <1>4, SameStage

(* A call returns and leaves the pending state alone.                      *)
LEMMA Returns ==
  ASSUME IInv, NEW st \in Statuses, call' = Rest(st),
         UNCHANGED <<hal, now, calm>>, RegsTypeOK'
  PROVE  IInv'
<1>1. call' \in Frames /\ call'.at = "rest"
  BY RestType DEF Rest
<1>2. TypeOK'
  BY <1>1 DEF IInv, TypeOK, hal
<1>3. PendingMatchesStage'
  BY <1>1 DEF IInv, hal, PendingMatchesStage, WriteStages, ReadStages
<1>. QED  BY <1>2, <1>3 DEF IInv

(* A call returns with nothing pending any more.                           *)
LEMMA ReturnsCleared ==
  ASSUME IInv, NEW st \in Statuses, call' = Rest(st), pending_clear,
         UNCHANGED <<regs, now, calm>>
  PROVE  IInv'
<1>1. call' \in Frames /\ call'.at = "rest"
  BY RestType DEF Rest
<1>2. TypeOK'
  BY <1>1, ClockZero
     DEF IInv, TypeOK, RegsTypeOK, regs, pending_clear, PendingStates
<1>3. PendingMatchesStage'
  BY <1>1 DEF IInv, pending_clear, PendingMatchesStage, WriteStages, ReadStages
<1>. QED  BY <1>2, <1>3 DEF IInv

(* A call goes on to a stage the pending state allows.                     *)
LEMMA GoesOn ==
  ASSUME IInv, NEW stage \in Stages, call' \in Frames,
         call'.at = stage, call'.op = call.op,
         RegsTypeOK', UNCHANGED <<hal, now, calm>>,
         call.at # "rest",
         stage \in WriteStages \cup {"quiet"} =>
           g_pending_state = "NONE" /\ call.op \in Writes \cup {"read"},
         stage \in {"w_ready", "w_sent"} => call.op # "read",
         stage \in {"restart", "abort"} =>
           /\ g_pending_state = "MASTER_WRITE"
           /\ call.op \in {"write_read", "read_after_restart"},
         stage \in ReadStages =>
           call.op \in {"read", "write_read", "read_after_restart"},
         stage \in ReadStages \cup {"stop"} =>
           (g_pending_state = "NONE" <=> call.op = "read"),
         stage # "recover"
  PROVE  IInv'
<1>1. TypeOK'
  BY DEF IInv, TypeOK, hal
<1>2. PendingMatchesStage'
  BY DEF IInv, hal, PendingMatchesStage
<1>. QED  BY <1>1, <1>2 DEF IInv

LEMMA FailStep ==
  ASSUME IInv, NEW st \in Statuses, Fail(st),
         call.at \in Stages \ StopStages,
         UNCHANGED <<regs, hal, now, calm>>
  PROVE  IInv'
<1>. DEFINE stage == IF call.at \in WriteStages \/ call.op = "read"
                     THEN "quiet" ELSE "abort"
<1>1. call' = [Next_stage(stage) EXCEPT !.orig = st]
  BY DEF Fail
<1>2. stage \in Stages
  BY DEF Stages, StopStages
<1>3. call' \in Frames /\ call'.at = stage /\ call'.op = call.op
  BY <1>1, <1>2, NextStageType DEF IInv, TypeOK, Next_stage, Frames
<1>4. RegsTypeOK'
  BY DEF IInv, TypeOK, RegsTypeOK, regs
<1>5. call.at # "rest"
  BY DEF Stages, WriteStages, ReadStages, StopStages
<1>6. stage = "quiet" =>
        g_pending_state = "NONE" /\ call.op \in Writes \cup {"read"}
  BY DEF IInv, PendingMatchesStage, Stages, WriteStages, ReadStages
<1>7. stage = "abort" =>
        /\ g_pending_state = "MASTER_WRITE"
        /\ call.op \in {"write_read", "read_after_restart"}
  BY DEF IInv, TypeOK, PendingMatchesStage, PendingStates, Stages,
         WriteStages, ReadStages, StopStages
<1>. HIDE DEF stage
<1>8. stage \in {"quiet", "abort"}
  BY DEF stage
<1>. QED
  BY <1>2, <1>3, <1>4, <1>5, <1>6, <1>7, <1>8, GoesOn
     DEF WriteStages, ReadStages

LEMMA BackStep ==
  ASSUME IInv, BackNext
  PROVE  IInv'
<1>. USE DEF Back
<1>a. call \in Frames /\ RegsTypeOK /\ call.orig \in Statuses
  BY DEF IInv, TypeOK, Frames
<1>b. ASSUME UNCHANGED regs  PROVE RegsTypeOK'
  BY <1>a, <1>b DEF RegsTypeOK, regs
<1>c. WaitStatuses \subseteq Statuses
  BY DEF WaitStatuses, Statuses
<1>1. CASE TransferFails
  BY <1>1, <1>c, FailStep DEF TransferFails
<1>2. CASE Started
  <2>. DEFINE stage == IF call.op = "read" THEN "r_ready" ELSE "w_ready"
  <2>1. call' = Next_stage(stage) /\ stage \in Stages
    BY <1>2 DEF Started, Stages, WriteStages, ReadStages
  <2>2. call' \in Frames /\ call'.at = stage /\ call'.op = call.op
    BY <2>1, <1>a, NextStageType DEF Next_stage, Frames
  <2>. QED
    BY <1>2, <1>b, <2>1, <2>2, GoesOn
       DEF Started, IInv, PendingMatchesStage, WriteStages, ReadStages, Writes
<1>3. CASE Restarted
  <2>1. call' = Next_stage("r_ready") /\ "r_ready" \in Stages
    BY <1>3 DEF Restarted, Stages, ReadStages
  <2>2. call' \in Frames /\ call'.at = "r_ready" /\ call'.op = call.op
    BY <2>1, <1>a, NextStageType DEF Next_stage, Frames
  <2>. QED
    BY <1>3, <1>b, <2>1, <2>2, GoesOn
       DEF Restarted, IInv, PendingMatchesStage, WriteStages, ReadStages
<1>4. CASE Ready
  <2>. DEFINE stage == IF call.at = "w_ready" THEN "w_sent" ELSE "r_sent"
  <2>1. call' = Next_stage(stage) /\ stage \in Stages
    BY <1>4 DEF Ready, Stages, WriteStages, ReadStages
  <2>2. call' \in Frames /\ call'.at = stage /\ call'.op = call.op
    BY <2>1, <1>a, NextStageType DEF Next_stage, Frames
  <2>. QED
    BY <1>4, <1>b, <2>1, <2>2, GoesOn
       DEF Ready, IInv, PendingMatchesStage, WriteStages, ReadStages
<1>5. CASE SentNacked
  <2>1. call.at \in Stages \ StopStages /\ "ERR_NACK" \in Statuses
    BY <1>5 DEF SentNacked, Stages, WriteStages, ReadStages, StopStages, Statuses
  <2>. QED  BY <1>5, <2>1, FailStep DEF SentNacked
<1>6. CASE SentMore
  <2>1. call.tx - 1 \in Nat
    BY <1>6, <1>a DEF SentMore, Frames
  <2>2. call' = [Next_stage("w_ready") EXCEPT !.tx = call.tx - 1]
        /\ "w_ready" \in Stages
    BY <1>6 DEF SentMore, Stages, WriteStages
  <2>3. call' \in Frames /\ call'.at = "w_ready" /\ call'.op = call.op
    BY <2>1, <2>2, <1>a, NextStageType DEF Next_stage, Frames
  <2>. QED
    BY <1>6, <1>b, <2>2, <2>3, GoesOn
       DEF SentMore, IInv, PendingMatchesStage, WriteStages, ReadStages
<1>7. CASE SentAll
  <2>1. /\ RegsTypeOK' /\ UNCHANGED <<now, calm, g_initialized, g_cfg>>
        /\ g_pending_state' = "MASTER_WRITE"
        /\ g_pending_start_ms' \in 0 .. ClockMod - 1 /\ age' = 0
    BY <1>7, <1>b, ClockZero DEF SentAll, pending_set, IInv, TypeOK
  <2>2. call.op \in Writes /\ g_initialized
    BY <1>7 DEF SentAll, IInv, PendingMatchesStage, WriteStages
  <2>3. /\ call' \in Frames
        /\ \/ call'.at = "stop" /\ call'.op = "write"
           \/ call'.at = "restart" /\ call'.op = "write_read"
           \/ call'.at = "rest"
    <3>1. CASE call.op = "write"
      <4>1. call' = Next_stage("stop") /\ "stop" \in Stages
        BY <1>7, <3>1 DEF SentAll, Stages, StopStages
      <4>. QED  BY <3>1, <4>1, <1>a, NextStageType DEF Next_stage, Frames
    <3>2. CASE call.op = "write_read"
      <4>1. call' = Next_stage("restart") /\ "restart" \in Stages
        BY <1>7, <3>2 DEF SentAll, Stages
      <4>. QED  BY <3>2, <4>1, <1>a, NextStageType DEF Next_stage, Frames
    <3>3. CASE call.op = "write_no_stop"
      <4>1. call' = Rest("OK")
        BY <1>7, <3>3 DEF SentAll
      <4>. QED  BY <4>1, RestType DEF Rest, Statuses
    <3>. QED  BY <2>2, <3>1, <3>2, <3>3 DEF Writes
  <2>4. TypeOK'
    BY <2>1, <2>3, ClockZero DEF IInv, TypeOK, PendingStates
  <2>5. PendingMatchesStage'
    BY <2>1, <2>2, <2>3 DEF PendingMatchesStage, WriteStages, ReadStages
  <2>. QED  BY <2>4, <2>5 DEF IInv
<1>8. CASE ReaderAddressed
  <2>1. call' = Next_stage("rx") /\ "rx" \in Stages
    BY <1>8 DEF ReaderAddressed, Stages, ReadStages
  <2>2. call' \in Frames /\ call'.at = "rx" /\ call'.op = call.op
    BY <2>1, <1>a, NextStageType DEF Next_stage, Frames
  <2>. QED
    BY <1>8, <1>b, <2>1, <2>2, GoesOn
       DEF ReaderAddressed, IInv, PendingMatchesStage, WriteStages, ReadStages
<1>9. CASE nora_i2c_ll_read_byte_get
  <2>1. call' = Next_stage("ack") /\ "ack" \in Stages
    BY <1>9 DEF nora_i2c_ll_read_byte_get, Stages, ReadStages
  <2>2. call' \in Frames /\ call'.at = "ack" /\ call'.op = call.op
    BY <2>1, <1>a, NextStageType DEF Next_stage, Frames
  <2>3. RegsTypeOK'
    BY <1>9, <1>a DEF nora_i2c_ll_read_byte_get, RegsTypeOK
  <2>. QED
    BY <1>9, <2>1, <2>2, <2>3, GoesOn
       DEF nora_i2c_ll_read_byte_get, IInv, PendingMatchesStage,
           WriteStages, ReadStages
<1>10. CASE Acked
  <2>1. CASE call.rx > 1
    <3>1. call.rx - 1 \in Nat
      BY <2>1, <1>a DEF Frames
    <3>2. call' = [Next_stage("rx") EXCEPT !.rx = call.rx - 1] /\ "rx" \in Stages
      BY <1>10, <2>1 DEF Acked, Stages, ReadStages
    <3>3. call' \in Frames /\ call'.at = "rx" /\ call'.op = call.op
      BY <3>1, <3>2, <1>a, NextStageType DEF Next_stage, Frames
    <3>. QED
      BY <1>10, <1>b, <3>2, <3>3, GoesOn
         DEF Acked, IInv, PendingMatchesStage, WriteStages, ReadStages
  <2>2. CASE ~(call.rx > 1)
    <3>1. call' = Next_stage("stop") /\ "stop" \in Stages
      BY <1>10, <2>2 DEF Acked, Stages, StopStages
    <3>2. call' \in Frames /\ call'.at = "stop" /\ call'.op = call.op
      BY <3>1, <1>a, NextStageType DEF Next_stage, Frames
    <3>. QED
      BY <1>10, <1>b, <3>1, <3>2, GoesOn
         DEF Acked, IInv, PendingMatchesStage, WriteStages, ReadStages
  <2>. QED  BY <2>1, <2>2
<1>11. CASE StopDone
  BY <1>11, ReturnsCleared DEF StopDone, Statuses
<1>12. CASE AbortDone
  BY <1>12, <1>a, ReturnsCleared DEF AbortDone
<1>13. CASE QuietDone
  BY <1>13, <1>a, <1>b, Returns DEF QuietDone
<1>14. CASE RecoverDone
  BY <1>14, ReturnsCleared DEF RecoverDone, Statuses
<1>15. CASE StopFails
  BY <1>15, <1>b, <1>c, Returns DEF StopFails
<1>16. CASE DeinitRecovered
  <2>1. PICK st \in Statuses : ForceOff(st)
    BY <1>16, <1>c DEF DeinitRecovered, Statuses
  <2>2. calm' \in BOOLEAN /\ UNCHANGED now
    BY <1>16 DEF DeinitRecovered, IInv, TypeOK
  <2>. QED  BY <2>1, <2>2, ForceOffStep
<1>. QED
  BY <1>1, <1>2, <1>3, <1>4, <1>5, <1>6, <1>7, <1>8, <1>9, <1>10, <1>11,
     <1>12, <1>13, <1>14, <1>15, <1>16
     DEF BackNext

LEMMA TickStep ==
  ASSUME IInv, Tick
  PROVE  IInv'
<1>1. now' \in 0 .. ClockMod - 1
  BY MasterAssumption DEF Tick, IInv, TypeOK
<1>a. age' \in 0 .. ClockMod
  BY MasterAssumption DEF Tick, IInv, TypeOK
<1>2. TypeOK'
  BY <1>1, <1>a DEF Tick, IInv, TypeOK, RegsTypeOK, regs
<1>3. PendingMatchesStage'
  BY DEF Tick, IInv, PendingMatchesStage
<1>. QED  BY <1>2, <1>3 DEF IInv

LEMMA HardwareStep ==
  ASSUME IInv, Hardware
  PROVE  IInv'
<1>1. RegsTypeOK'
  BY HardwareType DEF Hardware, IInv, TypeOK
<1>2. UNCHANGED <<hal, now, call, calm>>
  BY DEF Hardware
<1>. QED  BY <1>1, <1>2 DEF IInv, TypeOK, PendingMatchesStage, hal

-----------------------------------------------------------------------------
(* The inductive invariant holds in every reachable state.                 *)
THEOREM Invariance == Spec => []IInv
<1>1. Init => IInv
  <2>1. Init => TypeOK
    <3>. SUFFICES ASSUME Init PROVE TypeOK
      OBVIOUS
    <3>1. RegsTypeOK
      BY DEF Init, RegsInit, RegsTypeOK, TrnBytes
    <3>2. NoConfig \in ConfigType
      BY ClockZero DEF NoConfig, ConfigType
    <3>3. Rest("OK") \in Frames
      BY RestType DEF Statuses
    <3>. QED
      BY <3>1, <3>2, <3>3, ClockZero DEF Init, TypeOK, PendingStates
  <2>2. Init => PendingMatchesStage
    BY DEF Init, PendingMatchesStage, Rest, WriteStages, ReadStages
  <2>. QED  BY <2>1, <2>2 DEF IInv
<1>2. IInv /\ [Next]_vars => IInv'
  <2>. SUFFICES ASSUME IInv, [Next]_vars PROVE IInv'
    OBVIOUS
  <2>1. CASE CallNext
    BY <2>1, CallStep
  <2>2. CASE EngineNext
    BY <2>2, IssueStep, WaitStep, BackStep DEF EngineNext
  <2>3. CASE Tick
    BY <2>3, TickStep
  <2>4. CASE Hardware
    BY <2>4, HardwareStep
  <2>5. CASE UNCHANGED vars
    BY <2>5 DEF vars, IInv, TypeOK, RegsTypeOK, PendingMatchesStage, regs, hal
  <2>. QED  BY <2>1, <2>2, <2>3, <2>4, <2>5 DEF Next
<1>. QED  BY <1>1, <1>2, PTL DEF Spec

(* Every variable keeps to the values its C type and its use allow.        *)
THEOREM TypeCorrect == Spec => []TypeOK
  BY Invariance, PTL DEF IInv

(* The pending state agrees with the stage of the running call.            *)
THEOREM PendingAgrees == Spec => []PendingMatchesStage
  BY Invariance, PTL DEF IInv

-----------------------------------------------------------------------------
(* The only steps that set SEN and RSEN are the two issues that name them. *)
LEMMA ConditionsAreIssued ==
  ASSUME [Next]_vars
  PROVE  /\ ("SEN" \in conl' \ conl) => nora_i2c_ll_start_issue
         /\ ("RSEN" \in conl' \ conl) => nora_i2c_ll_restart_issue
<1>. DEFINE Neither == conl' \cap {"SEN", "RSEN"} \subseteq conl
<1>1. CASE CallNext
  <2>1. conl' = conl \/ conl' = {"I2CEN"} \/ conl' = conl \ {"I2CEN"}
    BY <1>1 DEF CallNext, RejectArgs, nora_i2c_write, nora_i2c_read,
       nora_i2c_write_read, nora_i2c_master_write_no_stop, BeginIndependent,
       nora_i2c_master_read_after_restart, nora_i2c_master_stop, Continue,
       nora_i2c_init, nora_i2c_deinit, nora_i2c_set_bus_speed, Refuse, Run,
       ForceOff, regs
  <2>. QED  BY <2>1
<1>2. CASE IssueNext
  <2>1. CASE nora_i2c_ll_start_issue
    BY <2>1 DEF nora_i2c_ll_start_issue, Request
  <2>2. CASE nora_i2c_ll_restart_issue
    BY <2>2 DEF nora_i2c_ll_restart_issue, Request
  <2>3. CASE AwaitReady \/ nora_i2c_ll_write_byte_issue
    BY <2>3 DEF AwaitReady, nora_i2c_ll_write_byte_issue, regs
  <2>4. CASE nora_i2c_ll_read_byte_issue \/ nora_i2c_ll_stop_issue
    BY <2>4 DEF nora_i2c_ll_read_byte_issue, nora_i2c_ll_stop_issue, Request
  <2>5. CASE nora_i2c_ll_ack_issue
    BY <2>5 DEF nora_i2c_ll_ack_issue, RequestAck
  <2>. QED  BY <1>2, <2>1, <2>2, <2>3, <2>4, <2>5 DEF IssueNext
<1>3. CASE WaitNext
  BY <1>3 DEF WaitNext, Poll, nora_i2c_ll_has_collision,
     nora_i2c_ll_has_error, PollTimer, Waiting, regs
<1>4. CASE BackNext
  <2>1. conl' = conl \/ conl' = conl \ {"I2CEN"}
    BY <1>4 DEF BackNext, TransferFails, Started, Restarted, Ready,
       SentNacked, SentMore, SentAll, ReaderAddressed,
       nora_i2c_ll_read_byte_get, Acked, StopDone, AbortDone, QuietDone,
       RecoverDone, StopFails, DeinitRecovered, ForceOff, regs
  <2>. QED  BY <2>1
<1>5. CASE Hardware
  BY <1>5 DEF Hardware, HwNext, HwFinish, HwShift, HwSent, HwCollide
<1>6. CASE Tick \/ UNCHANGED vars
  BY <1>6 DEF Tick, vars, regs
<1>. QED
  BY <1>1, <1>2, <1>3, <1>4, <1>5, <1>6 DEF Next, EngineNext

(* START is only ever requested with nothing pending, a repeated START     *)
(* only with the write half pending: whatever the peripheral does, however *)
(* a call went wrong before.                                               *)
THEOREM ConditionsAgree == Spec => ConditionsFollowPending
<1>. DEFINE A == /\ ("SEN" \in conl' \ conl) => g_pending_state = "NONE"
                 /\ ("RSEN" \in conl' \ conl)
                      => g_pending_state = "MASTER_WRITE"
<1>1. IInv /\ [Next]_vars => A
  <2>. SUFFICES ASSUME IInv, [Next]_vars PROVE A
    OBVIOUS
  <2>1. nora_i2c_ll_start_issue => g_pending_state = "NONE"
    BY DEF nora_i2c_ll_start_issue, Issue, IInv, PendingMatchesStage,
       WriteStages
  <2>2. nora_i2c_ll_restart_issue => g_pending_state = "MASTER_WRITE"
    BY DEF nora_i2c_ll_restart_issue, Issue, IInv, PendingMatchesStage
  <2>. QED  BY <2>1, <2>2, ConditionsAreIssued
<1>2. [][A]_vars <=> ConditionsFollowPending
  BY DEF ConditionsFollowPending
<1>. QED  BY <1>1, <1>2, Invariance, PTL DEF Spec

-----------------------------------------------------------------------------
(* The clock is ahead of the pending write's start by its age, until the   *)
(* age has seen the clock's whole range.                                   *)
AgeFollowsClock ==
  (/\ g_pending_state # "NONE" /\ pending_timeout_enabled
   /\ age < ClockMod) =>
     \/ now = g_pending_start_ms + age
     \/ now = g_pending_start_ms + age - ClockMod

(* The clock after one millisecond.                                        *)
LEMMA NextMs ==
  ASSUME NEW t \in 0 .. ClockMod - 1
  PROVE  (t + 1) % ClockMod = IF t = ClockMod - 1 THEN 0 ELSE t + 1
  BY MasterAssumption

(* The modular difference takes the wrap back.                             *)
LEMMA Difference ==
  ASSUME NEW a \in 0 .. ClockMod - 1
  PROVE  a % ClockMod = a /\ (a - ClockMod) % ClockMod = a
  BY MasterAssumption

LEMMA ElapsedIsAge ==
  ASSUME TypeOK, AgeFollowsClock, g_pending_state # "NONE",
         pending_timeout_enabled, age < ClockMod
  PROVE  Elapsed(g_pending_start_ms) = age
<1>1. age \in 0 .. ClockMod - 1
  BY MasterAssumption DEF TypeOK
<1>2. now - g_pending_start_ms = age \/ now - g_pending_start_ms = age - ClockMod
  BY MasterAssumption DEF TypeOK, AgeFollowsClock
<1>. QED  BY <1>1, <1>2, Difference DEF Elapsed

(* The configuration and the start only change with nothing pending.       *)
LEMMA AgeStep ==
  ASSUME IInv, AgeFollowsClock, [Next]_vars
  PROVE  AgeFollowsClock'
<1>1. CASE Tick
  <2>1. /\ UNCHANGED <<g_cfg, g_pending_state, g_pending_start_ms>>
        /\ now' = IF now = ClockMod - 1 THEN 0 ELSE now + 1
        /\ g_pending_state # "NONE" =>
             age' = IF age < ClockMod THEN age + 1 ELSE age
    BY <1>1, NextMs DEF Tick, IInv, TypeOK
  <2>. QED
    BY <2>1, MasterAssumption
       DEF AgeFollowsClock, pending_timeout_enabled, IInv, TypeOK
<1>2. CASE UNCHANGED <<hal, now>>
  BY <1>2 DEF hal, AgeFollowsClock, pending_timeout_enabled
<1>3. CASE g_pending_state' = "NONE"
  BY <1>3 DEF AgeFollowsClock
<1>4. CASE pending_set /\ UNCHANGED now
  BY <1>4, MasterAssumption
     DEF pending_set, AgeFollowsClock, pending_timeout_enabled, IInv, TypeOK
<1>5. CASE CallNext
  <2>1. g_pending_state' = "NONE" \/ UNCHANGED <<hal, now>>
    BY <1>5 DEF CallNext, RejectArgs, nora_i2c_write, nora_i2c_read,
       nora_i2c_write_read, nora_i2c_master_write_no_stop, BeginIndependent,
       nora_i2c_master_read_after_restart, nora_i2c_master_stop, Continue,
       nora_i2c_init, nora_i2c_deinit, nora_i2c_set_bus_speed, Refuse, Run,
       ForceOff, hal
  <2>. QED  BY <1>2, <1>3, <2>1
<1>6. CASE BackNext
  <2>1. \/ g_pending_state' = "NONE" \/ UNCHANGED <<hal, now>>
        \/ pending_set /\ UNCHANGED now
    BY <1>6 DEF BackNext, TransferFails, Started, Restarted, Ready,
       SentNacked, SentMore, SentAll, ReaderAddressed,
       nora_i2c_ll_read_byte_get, Acked, StopDone, AbortDone, QuietDone,
       RecoverDone, StopFails, DeinitRecovered, ForceOff, pending_clear
  <2>. QED  BY <1>2, <1>3, <1>4, <2>1
<1>7. CASE IssueNext \/ WaitNext \/ Hardware \/ UNCHANGED vars
  BY <1>2, <1>7 DEF IssueNext, Issue, nora_i2c_ll_start_issue,
     nora_i2c_ll_restart_issue, AwaitReady, nora_i2c_ll_write_byte_issue,
     nora_i2c_ll_read_byte_issue, nora_i2c_ll_ack_issue,
     nora_i2c_ll_stop_issue, WaitNext, Waiting, Poll,
     nora_i2c_ll_has_collision, nora_i2c_ll_has_error, PollTimer, Hardware, vars
<1>. QED  BY <1>1, <1>5, <1>6, <1>7 DEF Next, EngineNext

(* A stale write is recovered when it is due and not before, at every      *)
(* modulus of the clock and wherever it wrapped meanwhile.                 *)
THEOREM RecoveredWhenDue == Spec => RecoveryWhenDue
<1>. DEFINE A == (/\ call.at = "rest" /\ call'.at # "rest"
                  /\ g_pending_state # "NONE" /\ age < ClockMod) =>
                    (call'.at = "recover" <=>
                       pending_timeout_enabled /\ age >= g_cfg.pending_timeout_ms)
<1>1. Init => AgeFollowsClock
  BY DEF Init, AgeFollowsClock
<1>2. IInv /\ AgeFollowsClock /\ [Next]_vars => AgeFollowsClock'
  BY AgeStep
<1>3. IInv /\ AgeFollowsClock /\ [Next]_vars => A
  <2>. SUFFICES ASSUME IInv, AgeFollowsClock, [Next]_vars, call.at = "rest",
                       call'.at # "rest", g_pending_state # "NONE",
                       age < ClockMod
                PROVE  call'.at = "recover" <=>
                         /\ pending_timeout_enabled
                         /\ age >= g_cfg.pending_timeout_ms
    OBVIOUS
  <2>1. pending_timeout_expired <=>
          pending_timeout_enabled /\ age >= g_cfg.pending_timeout_ms
    BY ElapsedIsAge DEF IInv, pending_timeout_expired
  <2>2. CallNext
    BY DEF Next, EngineNext, IssueNext, Issue, nora_i2c_ll_start_issue,
       nora_i2c_ll_restart_issue, AwaitReady, nora_i2c_ll_write_byte_issue,
       nora_i2c_ll_read_byte_issue, nora_i2c_ll_ack_issue,
       nora_i2c_ll_stop_issue, WriteStages, ReadStages, StopStages, Stages,
       WaitNext, Waiting, Poll, nora_i2c_ll_has_collision,
       nora_i2c_ll_has_error, PollTimer, BackNext, TransferFails, Started,
       Restarted, Ready, SentNacked, SentMore, SentAll, ReaderAddressed,
       nora_i2c_ll_read_byte_get, Acked, StopDone, AbortDone, QuietDone,
       RecoverDone, StopFails, DeinitRecovered, ForceOff, Rest, Back, Tick,
       Hardware, vars
  <2>3. \/ pending_timeout_expired /\ \E op : Run(op, "recover", 0, 0)
        \/ /\ ~pending_timeout_expired
           /\ \E op, rx : Run(op, "restart", 0, rx) \/ Run(op, "stop", 0, rx)
        \/ \E st : call' = Rest(st)
    BY <2>2 DEF CallNext, RejectArgs, nora_i2c_write, nora_i2c_read,
       nora_i2c_write_read, nora_i2c_master_write_no_stop, BeginIndependent,
       nora_i2c_master_read_after_restart, nora_i2c_master_stop, Continue,
       nora_i2c_init, nora_i2c_deinit, nora_i2c_set_bus_speed, Refuse,
       ForceOff
  <2>4. ASSUME NEW op, NEW stage, NEW rx, Run(op, stage, 0, rx)
        PROVE  call'.at = stage
    BY <2>4 DEF Run, Enter, Rest
  <2>5. ~\E st : call' = Rest(st)
    BY DEF Rest
  <2>. QED  BY <2>1, <2>3, <2>4, <2>5
<1>4. [][A]_vars <=> RecoveryWhenDue
  BY DEF RecoveryWhenDue
<1>. QED  BY <1>1, <1>2, <1>3, <1>4, Invariance, PTL DEF Spec

=============================================================================
