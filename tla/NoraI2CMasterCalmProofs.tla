---------------------- MODULE NoraI2CMasterCalmProofs ----------------------
(***************************************************************************)
(* Proofs about NoraI2CMaster, of what a call that found the peripheral    *)
(* calm does with it, again for every value of the constants.  The         *)
(* invariant says for each stage which request is outstanding, whether the *)
(* wires are open and who drives SDA.                                      *)
(***************************************************************************)
EXTENDS NoraI2CMasterProofs

(* A fault bit is set; the stage has seen its answer; a call that found    *)
(* the peripheral calm and does not clean up after a timeout.              *)
Lost    == stat \cap FaultBits # {}
Done    == call.ph \in {"okcoll", "okerr"} \/ (call.ph = "back" /\ call.st = "OK")
InCall  == calm /\ call.at # "rest" /\ call.orig # "ERR_TIMEOUT"

(* What a clean-up restores is an error, and only a clean-up has one.      *)
OrigMatches ==
  /\ call.at \in Stages \ {"quiet", "abort"} => call.orig = "OK"
  /\ call.at \in {"quiet", "abort"} => call.orig # "OK"

(* A STOP that wait_until() has seen retire stays retired.                 *)
StopSettled == (call.at \in StopStages /\ Done) => "PEN" \notin conl

(* Nothing is outstanding but what the stage itself has asked for, and     *)
(* nothing at all before it asks and after it saw the answer.              *)
OneThing ==
  /\ "SEN" \in conl => call.at = "start"
  /\ "RSEN" \in conl => call.at = "restart"
  /\ "RCEN" \in conl => call.at = "rx"
  /\ "ACKEN" \in conl => call.at = "ack"
  /\ "PEN" \in conl => call.at \in StopStages
  /\ "TRSTAT" \in stat => call.at \in {"w_sent", "r_sent"}
  /\ "TBF" \in stat => "TRSTAT" \in stat
  /\ "RBF" \in stat => call.at = "rx" /\ call.ph # "issue" /\ "RCEN" \notin conl
  /\ (call.ph = "issue" \/ Done) => ~Busy

(* A fault is a bus lost in this call, and it stops everything.            *)
FaultIsLoss ==
  /\ (call.at \notin StopStages /\ Lost /\ ~(call.at = "start" /\ call.ph = "issue"))
       => ~Busy /\ ~bus /\ "RBF" \notin stat
  /\ (call.at \in StopStages /\ Lost) => ~bus
  /\ (call.ph = "issue" /\ call.at \notin StopStages \cup {"start"}) => ~Lost
  /\ (call.ph = "back" /\ call.st = "OK") => ~Lost
  /\ (call.at \notin StopStages /\ call.ph = "back"
      /\ call.st \in {"ERR_COLLISION", "ERR_BUS"}) => Lost

(* From its START on a call has the wires, to the STOP or the loss.        *)
BusFollows ==
  /\ call.at = "start" =>
       IF call.ph = "issue" \/ "SEN" \in conl THEN ~bus ELSE bus \/ Lost
  /\ call.at \in Stages \ (StopStages \cup {"start"}) => bus \/ Lost
  /\ (call.at \in StopStages /\ call.ph # "issue" /\ "PEN" \notin conl) => ~bus

(* SDA is the device's from its ACK of a read address to our NACK.         *)
DriveFollows ==
  /\ drv => bus
  /\ call.at \in {"start", "restart", "w_ready", "w_sent", "r_ready"} => ~drv
  /\ (call.at \in {"w_sent", "r_sent"} /\ "TRSTAT" \in stat)
       => trn = (IF call.at = "r_sent" THEN "read_addr" ELSE "plain")
  /\ (call.at = "r_sent" /\ call.ph # "issue" /\ "TRSTAT" \notin stat /\ ~Lost)
       => (drv <=> "ACKSTAT" \notin stat)
  /\ (call.at = "rx" /\ ~Lost) => drv
  /\ (call.at = "ack" /\ call.ph # "issue") => (call.rx > 1 <=> "ACKDT" \notin conl)
  /\ (call.at = "ack" /\ call.ph # "issue" /\ "ACKEN" \notin conl /\ ~Lost)
       => (drv <=> call.rx > 1)
  /\ (call.at = "stop" /\ call.ph = "issue") => ~drv

CalmCall == OneThing /\ FaultIsLoss /\ BusFollows /\ DriveFollows

CalmInv == /\ OkLeavesCalm /\ OrigMatches /\ StopSettled
           /\ InCall => CalmCall

-----------------------------------------------------------------------------
(* The three tests of a register, bit by bit.                              *)
LEMMA BitByBit ==
  /\ Busy <=> \/ "TRSTAT" \in stat
              \/ "SEN" \in conl \/ "RSEN" \in conl \/ "PEN" \in conl
              \/ "RCEN" \in conl \/ "ACKEN" \in conl
  /\ Lost <=> "IWCOL" \in stat \/ "I2COV" \in stat \/ "BCL" \in stat
  /\ Quiet <=> ~Busy /\ "TBF" \notin stat /\ "RBF" \notin stat
  BY DEF Busy, Lost, Quiet, idle_request_bits_clear, requests, ReqBits,
     FaultBits, MoveBits

(* The same of the next state.                                             *)
LEMMA BitByBitNext ==
  /\ Busy' <=> \/ "TRSTAT" \in stat'
               \/ "SEN" \in conl' \/ "RSEN" \in conl' \/ "PEN" \in conl'
               \/ "RCEN" \in conl' \/ "ACKEN" \in conl'
  /\ Lost' <=> "IWCOL" \in stat' \/ "I2COV" \in stat' \/ "BCL" \in stat'
  /\ Quiet' <=> ~Busy' /\ "TBF" \notin stat' /\ "RBF" \notin stat'
  BY DEF Busy, Lost, Quiet, idle_request_bits_clear, requests, ReqBits,
     FaultBits, MoveBits

-----------------------------------------------------------------------------
(* A register access comes when nothing else is outstanding, and is the    *)
(* one thing that is then.                                                 *)
LEMMA CalmIssue ==
  ASSUME IInv, CalmInv, IssueNext
  PROVE  CalmInv'
<1>0. /\ call'.at = call.at /\ call'.orig = call.orig /\ call'.rx = call.rx
      /\ call.ph = "issue" /\ call'.ph = "poll"
      /\ call.at \in Stages
      /\ UNCHANGED <<calm, g_pending_state>>
  BY DEF IInv, TypeOK, Frames, IssueNext, Issue, hal, nora_i2c_ll_start_issue,
     nora_i2c_ll_restart_issue, AwaitReady, nora_i2c_ll_write_byte_issue,
     nora_i2c_ll_read_byte_issue, nora_i2c_ll_ack_issue, nora_i2c_ll_stop_issue,
     Stages, StopStages, WriteStages, ReadStages
<1>1. OkLeavesCalm' /\ OrigMatches' /\ StopSettled'
  BY <1>0 DEF CalmInv, OkLeavesCalm, OrigMatches, StopSettled, Done, Stages,
     StopStages, WriteStages, ReadStages
<1>. SUFFICES ASSUME InCall, CalmCall PROVE CalmCall'
  BY <1>0, <1>1 DEF CalmInv, InCall
<1>. USE <1>0, BitByBit, BitByBitNext
     DEF CalmCall, OneThing, FaultIsLoss, BusFollows, DriveFollows, Done, Issue,
         Request, Accepts, regs, Stages, StopStages, WriteStages, ReadStages
<1>2. CASE nora_i2c_ll_start_issue
  BY <1>2 DEF nora_i2c_ll_start_issue, FaultBits
<1>3. CASE nora_i2c_ll_restart_issue
  BY <1>3 DEF nora_i2c_ll_restart_issue
<1>4. CASE AwaitReady
  BY <1>4 DEF AwaitReady
<1>5. CASE nora_i2c_ll_write_byte_issue
  BY <1>5 DEF nora_i2c_ll_write_byte_issue, WriteTrn
<1>6. CASE nora_i2c_ll_read_byte_issue
  BY <1>6 DEF nora_i2c_ll_read_byte_issue
<1>7. CASE nora_i2c_ll_ack_issue
  BY <1>7 DEF nora_i2c_ll_ack_issue, RequestAck
<1>8. CASE nora_i2c_ll_stop_issue
  BY <1>8 DEF nora_i2c_ll_stop_issue
<1>. QED
  BY ONLY IssueNext, <1>2, <1>3, <1>4, <1>5, <1>6, <1>7, <1>8 DEF IssueNext

(* wait_until() lets a stage go on only when its own bit has retired.      *)
LEMMA CalmWait ==
  ASSUME IInv, CalmInv, WaitNext
  PROVE  CalmInv'
<1>0. /\ call'.at = call.at /\ call'.orig = call.orig /\ call'.rx = call.rx
      /\ call.ph \in WaitPhases /\ call'.ph \in WaitPhases \cup {"back"}
      /\ call.at # "rest"
      /\ UNCHANGED <<regs, g_pending_state, calm>>
  BY DEF IInv, TypeOK, Frames, WaitNext, Waiting, GoOn, ComeBack, hal, Poll,
     nora_i2c_ll_has_collision, nora_i2c_ll_has_error, PollTimer, WaitPhases
<1>1. /\ (Done' /\ ~Done) => done
      /\ (call'.ph = "back" /\ call'.st = "OK") => Done /\ ~Lost
      /\ (call'.ph = "back" /\ call'.st \in {"ERR_COLLISION", "ERR_BUS"}) => Lost
  <2>. USE DEF IInv, TypeOK, Frames, Waiting, GoOn, ComeBack, Done, Lost,
           WaitPhases
  <2>1. CASE Poll
    BY <2>1 DEF Poll
  <2>2. CASE nora_i2c_ll_has_collision
    BY <2>2 DEF nora_i2c_ll_has_collision, FaultBits
  <2>3. CASE nora_i2c_ll_has_error
    BY <2>3 DEF nora_i2c_ll_has_error
  <2>4. CASE PollTimer
    BY <2>4 DEF PollTimer
  <2>. QED  BY ONLY WaitNext, <2>1, <2>2, <2>3, <2>4 DEF WaitNext
<1>2. done => ((call.at \in StopStages => "PEN" \notin conl)
              /\ (InCall /\ CalmCall => ~Busy))
  BY <1>0, BitByBit DEF done, CalmCall, OneThing, StopStages
<1>3. OkLeavesCalm' /\ OrigMatches' /\ StopSettled'
  BY <1>0, <1>1, <1>2
     DEF CalmInv, OkLeavesCalm, OrigMatches, StopSettled, Stages, StopStages,
         regs, WriteStages, ReadStages
<1>. SUFFICES ASSUME InCall, CalmCall PROVE CalmCall'
  BY <1>0, <1>3 DEF CalmInv, InCall
<1>4. OneThing'
  BY <1>0, <1>1, <1>2, BitByBit, BitByBitNext
     DEF CalmCall, OneThing, regs, WaitPhases
<1>5. FaultIsLoss'
  BY <1>0, <1>1, BitByBit, BitByBitNext
     DEF CalmCall, FaultIsLoss, regs, WaitPhases
<1>6. BusFollows'
  BY <1>0, BitByBit, BitByBitNext DEF CalmCall, BusFollows, regs, WaitPhases
<1>7. DriveFollows'
  BY <1>0, BitByBit, BitByBitNext DEF CalmCall, DriveFollows, regs, WaitPhases
<1>. QED  BY <1>4, <1>5, <1>6, <1>7 DEF CalmCall

(* The module only does what it was asked for.                             *)
LEMMA CalmHardware ==
  ASSUME IInv, CalmInv, Hardware
  PROVE  CalmInv'
<1>. USE BitByBit, BitByBitNext
     DEF IInv, TypeOK, CalmInv, OkLeavesCalm, Calm, OrigMatches, StopSettled,
         Done, InCall, CalmCall, OneThing, FaultIsLoss, BusFollows,
         DriveFollows, hal,
         Stages, StopStages, WriteStages, ReadStages
<1>0. UNCHANGED <<hal, now, call, calm>>
  BY DEF Hardware
<1>1. ASSUME NEW b \in ReqBits, HwFinish(b)
      PROVE  CalmInv'
  <2>1. CASE HwStarted(b)
    BY <1>0, <1>1, <2>1 DEF HwFinish, HwStarted, requests
  <2>2. CASE HwStopped(b)
    BY <1>0, <1>1, <2>2 DEF HwFinish, HwStopped, requests
  <2>3. CASE HwAcked(b)
    BY <1>0, <1>1, <2>3 DEF HwFinish, HwAcked, requests
  <2>4. CASE HwReceived(b)
    BY <1>0, <1>1, <2>4 DEF HwFinish, HwReceived, requests
  <2>. QED  BY ONLY <1>1, <2>1, <2>2, <2>3, <2>4 DEF HwFinish
<1>2. CASE HwShift
  BY <1>0, <1>2 DEF HwShift
<1>3. ASSUME NEW acked \in BOOLEAN, HwSent(acked)
      PROVE  CalmInv'
  BY <1>0, <1>3 DEF HwSent
<1>4. CASE HwCollide
  BY <1>0, <1>4 DEF HwCollide, ReqBits
<1>. QED
  BY ONLY Hardware, <1>1, <1>2, <1>3, <1>4 DEF Hardware, HwNext

-----------------------------------------------------------------------------
(* What comes back from wait_until() with OK has nothing outstanding, and  *)
(* what comes back with a fault has lost the bus.                          *)

(* Nothing is promised of a call that returns an error.                    *)
LEMMA CalmReturns ==
  ASSUME CalmInv, call'.at = "rest", call'.st # "OK"
  PROVE  CalmInv'
  BY DEF CalmInv, OkLeavesCalm, OrigMatches, StopSettled, InCall, Stages,
     StopStages, WriteStages, ReadStages

(* One that returns OK has to leave the peripheral calm.                   *)
LEMMA CalmReturnsOk ==
  ASSUME CalmInv, call'.at = "rest", calm' => Calm'
  PROVE  CalmInv'
  BY DEF CalmInv, OkLeavesCalm, OrigMatches, StopSettled, InCall, Stages,
     StopStages, WriteStages, ReadStages

(* One that goes on has to have nothing outstanding.                       *)
LEMMA CalmGoesOn ==
  ASSUME CalmInv, call'.at \in Stages, call'.ph = "issue", OrigMatches',
         InCall' => CalmCall'
  PROVE  CalmInv'
  BY DEF CalmInv, OkLeavesCalm, StopSettled, Done, Stages, StopStages,
     WriteStages, ReadStages

(* A failed step starts its clean-up with nothing outstanding, unless it   *)
(* gave up waiting.                                                        *)
LEMMA CalmFail ==
  ASSUME IInv, CalmInv, NEW st \in Statuses \ {"OK"}, Fail(st),
         call.at \in Stages \ StopStages, call.ph = "back",
         (st # "ERR_TIMEOUT" /\ InCall) => ~Busy /\ "RBF" \notin stat,
         UNCHANGED <<regs, hal, now, calm>>
  PROVE  CalmInv'
<1>1. /\ call'.at \in {"quiet", "abort"} /\ call'.ph = "issue"
      /\ call'.orig = st /\ call'.st = "OK"
  BY DEF IInv, TypeOK, Frames, Fail, Next_stage
<1>2. OrigMatches'
  BY <1>1 DEF OrigMatches
<1>3. InCall => CalmCall
  BY DEF CalmInv
<1>4. InCall' => InCall
  BY <1>1 DEF InCall, CalmInv, OrigMatches, Stages, StopStages, WriteStages,
     ReadStages
<1>5. InCall' => CalmCall'
  <2>. SUFFICES ASSUME InCall' PROVE CalmCall'
    OBVIOUS
  <2>1. st # "ERR_TIMEOUT" /\ CalmCall /\ ~Busy /\ "RBF" \notin stat
    BY <1>1, <1>3, <1>4 DEF InCall
  <2>. QED
    BY <1>1, <2>1, BitByBit, BitByBitNext
       DEF CalmCall, OneThing, FaultIsLoss, BusFollows, DriveFollows, Done,
           regs, Stages, StopStages, WriteStages, ReadStages
<1>. QED
  BY <1>1, <1>2, <1>5, CalmGoesOn DEF Stages, StopStages

(* What the callers of wait_until() make of its status keeps the invariant.*)
LEMMA CalmBack ==
  ASSUME IInv, CalmInv, BackNext
  PROVE  CalmInv'
<1>. USE DEF Back
<1>a. call \in Frames /\ call.ph = "back"
  BY DEF IInv, TypeOK, BackNext, TransferFails, Started, Restarted, Ready,
     SentNacked, SentMore, SentAll, ReaderAddressed, nora_i2c_ll_read_byte_get,
     Acked, StopDone, AbortDone, QuietDone, RecoverDone, StopFails,
     DeinitRecovered
<1>b. OrigMatches /\ (InCall => CalmCall)
  BY DEF CalmInv
<1>1. CASE TransferFails
  <2>1. PICK st \in WaitStatuses \ {"OK"} : Back(Stages \ StopStages, st) /\ Fail(st)
    BY <1>1 DEF TransferFails
  <2>2. (st # "ERR_TIMEOUT" /\ InCall) => ~Busy /\ "RBF" \notin stat
    BY <1>b, <2>1 DEF WaitStatuses, CalmCall, FaultIsLoss
  <2>. QED
    BY <1>1, <1>a, <2>1, <2>2, CalmFail
       DEF TransferFails, WaitStatuses, Statuses
<1>2. CASE SentNacked
  <2>1. call.at \in Stages \ StopStages
    BY <1>2 DEF SentNacked, Stages, WriteStages, ReadStages, StopStages
  <2>2. InCall => ~Busy /\ "RBF" \notin stat
    BY <1>2, <1>b DEF SentNacked, CalmCall, OneThing, Done
  <2>. QED
    BY <1>2, <1>a, <2>1, <2>2, CalmFail DEF SentNacked, Statuses
<1>3. CASE Started \/ Restarted \/ Ready \/ SentMore \/ ReaderAddressed \/ Acked
           \/ nora_i2c_ll_read_byte_get
  <2>1. /\ call'.ph = "issue" /\ call'.orig = call.orig /\ call.st = "OK"
        /\ call.at \in Stages /\ call'.at \in Stages
        /\ UNCHANGED <<calm, conl, trn, bus, drv>>
        /\ stat' = IF call.at = "rx" THEN stat \ {"RBF"} ELSE stat
        /\ \/ call.at = "start" /\ call'.at \in {"r_ready", "w_ready"}
           \/ call.at = "restart" /\ call'.at = "r_ready"
           \/ call.at = "w_ready" /\ call'.at = "w_sent"
           \/ call.at = "r_ready" /\ call'.at = "r_sent"
           \/ call.at = "w_sent" /\ call'.at = "w_ready"
           \/ call.at = "r_sent" /\ call'.at = "rx" /\ "ACKSTAT" \notin stat
           \/ call.at = "rx" /\ call'.at = "ack"
           \/ call.at = "ack" /\ call'.at = "rx" /\ call.rx > 1
           \/ call.at = "ack" /\ call'.at = "stop" /\ ~(call.rx > 1)
    BY <1>3, <1>a
       DEF Started, Restarted, Ready, SentMore, ReaderAddressed, Acked,
           nora_i2c_ll_read_byte_get, Next_stage, Frames, regs, Stages,
           StopStages, WriteStages, ReadStages
  <2>2. OrigMatches'
    BY <1>b, <2>1 DEF OrigMatches, Stages, StopStages, WriteStages, ReadStages
  <2>3. ASSUME InCall'
        PROVE  CalmCall'
    <3>1. CalmCall /\ Done
      BY <1>a, <1>b, <2>1, <2>3 DEF InCall, Done
    <3>. QED
      BY <1>a, <2>1, <3>1, BitByBit, BitByBitNext
         DEF CalmCall, OneThing, FaultIsLoss, BusFollows, DriveFollows, Done,
             Stages, StopStages, WriteStages, ReadStages
  <2>. QED  BY <2>1, <2>2, <2>3, CalmGoesOn
<1>4. CASE SentAll
  <2>1. /\ UNCHANGED <<regs, calm>> /\ g_pending_state' = "MASTER_WRITE"
        /\ call.at = "w_sent" /\ call.st = "OK"
        /\ call.op \in Writes
        /\ \/ call'.at = "stop" /\ call'.ph = "issue" /\ call'.orig = call.orig
           \/ call'.at = "restart" /\ call'.ph = "issue" /\ call'.orig = call.orig
           \/ call'.at = "rest"
    BY <1>4, <1>a
       DEF SentAll, pending_set, Next_stage, Rest, Frames, IInv,
           PendingMatchesStage, WriteStages, Writes
  <2>2. call.orig = "OK"
    BY <1>b, <2>1 DEF OrigMatches, Stages, WriteStages
  <2>3. calm => /\ ~Busy /\ ~Lost /\ bus /\ ~drv
                /\ "TBF" \notin stat /\ "RBF" \notin stat /\ CalmCall
    BY <1>a, <1>b, <2>1, <2>2, BitByBit
       DEF InCall, CalmCall, OneThing, FaultIsLoss, BusFollows, DriveFollows,
           Done, Stages, StopStages, WriteStages, ReadStages
  <2>4. CASE call'.at = "rest"
    <3>1. calm' => Calm'
      BY <2>1, <2>3, BitByBit, BitByBitNext DEF regs, Calm, Lost
    <3>. QED  BY <2>4, <3>1, CalmReturnsOk
  <2>5. CASE call'.at \in {"stop", "restart"}
    <3>1. OrigMatches'
      BY <2>1, <2>2, <2>5 DEF OrigMatches
    <3>2. InCall' => CalmCall'
      BY <2>1, <2>3, <2>5, BitByBit, BitByBitNext
         DEF InCall, CalmCall, OneThing, FaultIsLoss, BusFollows, DriveFollows,
             Done, regs, Stages, StopStages, WriteStages, ReadStages
    <3>. QED
      BY <2>1, <2>5, <3>1, <3>2, CalmGoesOn DEF Stages, StopStages
  <2>. QED  BY <2>1, <2>4, <2>5
<1>5. CASE StopDone
  <2>1. /\ UNCHANGED <<regs, calm>> /\ g_pending_state' = "NONE"
        /\ call.at = "stop" /\ call.st = "OK" /\ call'.at = "rest"
    BY <1>5 DEF StopDone, pending_clear, Rest
  <2>2. call.orig = "OK"
    BY <1>b, <2>1 DEF OrigMatches, Stages, StopStages
  <2>3. calm => /\ ~Busy /\ ~Lost /\ ~bus /\ ~drv
                /\ "TBF" \notin stat /\ "RBF" \notin stat
    BY <1>a, <1>b, <2>1, <2>2, BitByBit
       DEF InCall, CalmCall, OneThing, FaultIsLoss, BusFollows, DriveFollows,
           Done, StopStages
  <2>4. calm' => Calm'
    BY <2>1, <2>3, BitByBit, BitByBitNext DEF regs, Calm, Lost
  <2>. QED  BY <2>1, <2>4, CalmReturnsOk
<1>6. CASE AbortDone \/ QuietDone \/ RecoverDone \/ StopFails \/ DeinitRecovered
  <2>1. call'.at = "rest"
    BY <1>6 DEF AbortDone, QuietDone, RecoverDone, StopFails, DeinitRecovered,
       ForceOff, Rest
  <2>2. call'.st # "OK"
    BY <1>6, <1>b
       DEF AbortDone, QuietDone, RecoverDone, StopFails, DeinitRecovered,
           ForceOff, Rest, OrigMatches
  <2>. QED  BY <2>1, <2>2, CalmReturns
<1>. QED
  BY ONLY BackNext, <1>1, <1>2, <1>3, <1>4, <1>5, <1>6 DEF BackNext

(* A call starts from what it found, and the two that end at once leave    *)
(* nothing going on.                                                       *)
LEMMA CalmEntry ==
  ASSUME IInv, CalmInv, CallNext
  PROVE  CalmInv'
<1>a. call.at = "rest" /\ calm' = Calm
  BY DEF CallNext, RejectArgs, nora_i2c_write, nora_i2c_read,
     nora_i2c_write_read, nora_i2c_master_write_no_stop, BeginIndependent,
     nora_i2c_master_read_after_restart, nora_i2c_master_stop, Continue,
     nora_i2c_init, nora_i2c_deinit, nora_i2c_set_bus_speed, Entry
<1>1. ASSUME NEW st, Refuse(st), st # "OK"
      PROVE  CalmInv'
  BY <1>1, CalmReturns DEF Refuse, Rest
<1>2. ASSUME NEW op, NEW stage, NEW tx, NEW rx, Run(op, stage, tx, rx),
             \/ stage \in {"recover", "restart", "stop"} /\ g_pending_state # "NONE"
             \/ stage = "start" /\ g_pending_state = "NONE"
      PROVE  CalmInv'
  <2>1. /\ call'.at = stage /\ call'.ph = "issue" /\ call'.orig = "OK"
        /\ UNCHANGED regs
    BY <1>2 DEF Run, Enter, Rest
  <2>2. OrigMatches'
    BY <1>2, <2>1 DEF OrigMatches
  <2>3. calm' => /\ ~Busy /\ ~drv /\ "TBF" \notin stat /\ "RBF" \notin stat
                 /\ (bus <=> g_pending_state # "NONE") /\ (bus => ~Lost)
    BY <1>a, BitByBit DEF Calm, Lost
  <2>4. InCall' => CalmCall'
    BY <1>2, <2>1, <2>3, BitByBit, BitByBitNext
       DEF InCall, CalmCall, OneThing, FaultIsLoss, BusFollows, DriveFollows,
           Done, regs, Stages, StopStages, WriteStages, ReadStages
  <2>. QED
    BY <1>2, <2>1, <2>2, <2>4, CalmGoesOn DEF Stages, StopStages, WriteStages
<1>3. ASSUME NEW faults, ModuleReset(faults), call'.at = "rest",
             g_pending_state' = "NONE", conl' \cap ReqBits \subseteq conl
      PROVE  CalmInv'
  <2>1. calm' => Calm'
    BY <1>3, <1>a DEF ModuleReset, Calm, Quiet, requests, MoveBits
  <2>. QED  BY <1>3, <2>1, CalmReturnsOk
<1>4. ASSUME NEW op, NEW tx, NEW rx, BeginIndependent(op, tx, rx)
      PROVE  CalmInv'
  BY <1>1, <1>2, <1>4 DEF BeginIndependent, pending_timeout_expired
<1>5. ASSUME NEW op, NEW stage, NEW rx, Continue(op, stage, rx),
             stage \in {"restart", "stop"}
      PROVE  CalmInv'
  BY <1>1, <1>2, <1>5 DEF Continue, pending_timeout_expired
<1>6. ASSUME NEW config, nora_i2c_init(config)
      PROVE  CalmInv'
  <2>1. call'.at = "rest" /\ conl' \cap ReqBits \subseteq conl
    BY <1>6 DEF nora_i2c_init, Rest, ReqBits
  <2>. QED  BY <1>3, <1>6, <2>1 DEF nora_i2c_init
<1>7. CASE nora_i2c_deinit
  <2>1. ASSUME ForceOff("OK")  PROVE CalmInv'
    BY <1>3, <2>1 DEF ForceOff, Rest
  <2>. QED
    BY <1>1, <1>2, <1>7, <2>1 DEF nora_i2c_deinit, pending_timeout_expired
<1>8. CASE nora_i2c_set_bus_speed
  <2>1. ASSUME ModuleReset({}), call' = Rest("OK"), UNCHANGED <<conl, hal>>,
               g_pending_state = "NONE"
        PROVE  CalmInv'
    BY <1>3, <2>1 DEF hal, Rest
  <2>. QED  BY <1>1, <1>8, <2>1 DEF nora_i2c_set_bus_speed
<1>9. CASE RejectArgs
  BY <1>1, <1>9 DEF RejectArgs
<1>. QED
  BY <1>4, <1>5, <1>6, <1>7, <1>8, <1>9
     DEF CallNext, nora_i2c_write, nora_i2c_read, nora_i2c_write_read,
         nora_i2c_master_write_no_stop, nora_i2c_master_read_after_restart,
         nora_i2c_master_stop

-----------------------------------------------------------------------------
(* The invariant of calm calls holds in every reachable state.             *)
THEOREM CalmInvariance == Spec => []CalmInv
<1>1. Init => CalmInv
  BY DEF Init, RegsInit, CalmInv, OkLeavesCalm, Calm, Quiet, requests,
     OrigMatches, StopSettled, InCall, Rest, Stages, StopStages, WriteStages,
     ReadStages
<1>2. IInv /\ CalmInv /\ [Next]_vars => CalmInv'
  <2>. SUFFICES ASSUME IInv, CalmInv, [Next]_vars PROVE CalmInv'
    OBVIOUS
  <2>1. CASE Tick \/ UNCHANGED vars
    <3>1. UNCHANGED <<regs, call, calm, g_pending_state>>
      BY <2>1 DEF Tick, vars, hal
    <3>. QED
      BY <3>1, BitByBit, BitByBitNext
         DEF regs, CalmInv, OkLeavesCalm, Calm, OrigMatches, StopSettled, Done,
             InCall, CalmCall, OneThing, FaultIsLoss, BusFollows, DriveFollows
  <2>. QED
    BY <2>1, CalmEntry, CalmIssue, CalmWait, CalmBack, CalmHardware
       DEF Next, EngineNext
<1>. QED  BY <1>1, <1>2, Invariance, PTL DEF Spec

(* A successful call leaves the peripheral to the next one as that one is  *)
(* entitled to find it, under every fault on the way.                      *)
THEOREM OkStaysCalm == Spec => []OkLeavesCalm
  BY CalmInvariance, PTL DEF CalmInv

(* The device is given SCL for a byte only while SDA is its own, and the   *)
(* STOP of a good transfer only comes after the NACK that takes it back.   *)
THEOREM DeviceReleased == Spec => []DeviceReleasedBeforeStop
<1>1. CalmInv => DeviceReleasedBeforeStop
  BY DEF CalmInv, InCall, OrigMatches, CalmCall, FaultIsLoss, DriveFollows,
     DeviceReleasedBeforeStop, Stages, StopStages, ReadStages
<1>. QED  BY <1>1, CalmInvariance, PTL

(* A calm call asks for one thing at a time.                               *)
THEOREM OneRequestAtATime == Spec => RequestsDoNotOverlap
<1>. DEFINE A == (/\ calm
                  /\ call.ph = "issue" /\ call'.ph = "poll"
                  /\ call.at \notin {"w_ready", "r_ready"}
                  /\ call.orig # "ERR_TIMEOUT") => ~Busy
<1>1. IInv /\ CalmInv /\ [Next]_vars => A
  <2>. SUFFICES ASSUME IInv, CalmInv, [Next]_vars, call.ph = "issue",
                       call'.ph = "poll"
                PROVE  A
    OBVIOUS
  <2>1. call.at # "rest"
    <3>1. CASE CallNext
      <4>1. \/ \E st : call' = Rest(st)
            \/ \E op, stage, tx, rx : call' = Enter(op, stage, tx, rx)
        BY <3>1 DEF CallNext, RejectArgs, nora_i2c_write, nora_i2c_read,
           nora_i2c_write_read, nora_i2c_master_write_no_stop,
           BeginIndependent, nora_i2c_master_read_after_restart,
           nora_i2c_master_stop, Continue, nora_i2c_init, nora_i2c_deinit,
           nora_i2c_set_bus_speed, Refuse, Run, ForceOff
      <4>2. ASSUME NEW st  PROVE Rest(st).ph = "issue"
        BY DEF Rest
      <4>3. ASSUME NEW op, NEW stage, NEW tx, NEW rx
            PROVE  Enter(op, stage, tx, rx).ph = "issue"
        BY DEF Rest, Enter
      <4>. QED  BY <4>1, <4>2, <4>3
    <3>2. CASE IssueNext
      BY <3>2 DEF IssueNext, Issue, nora_i2c_ll_start_issue,
         nora_i2c_ll_restart_issue, AwaitReady, nora_i2c_ll_write_byte_issue,
         nora_i2c_ll_read_byte_issue, nora_i2c_ll_ack_issue,
         nora_i2c_ll_stop_issue, StopStages
    <3>3. CASE WaitNext
      BY <3>3 DEF WaitNext, Waiting, Poll, nora_i2c_ll_has_collision,
         nora_i2c_ll_has_error, PollTimer
    <3>4. CASE BackNext
      BY <3>4 DEF BackNext, TransferFails, Started, Restarted, Ready,
         SentNacked, SentMore, SentAll, ReaderAddressed,
         nora_i2c_ll_read_byte_get, Acked, StopDone, AbortDone, QuietDone,
         RecoverDone, StopFails, DeinitRecovered, Back
    <3>5. CASE Tick \/ Hardware \/ UNCHANGED vars
      BY <3>5 DEF Tick, Hardware, vars
    <3>. QED  BY <3>1, <3>2, <3>3, <3>4, <3>5 DEF Next, EngineNext
  <2>. QED  BY <2>1 DEF CalmInv, InCall, CalmCall, OneThing
<1>2. [][A]_vars <=> RequestsDoNotOverlap
  BY DEF RequestsDoNotOverlap
<1>. QED  BY <1>1, <1>2, Invariance, CalmInvariance, PTL DEF Spec

(* A pending write that a calm call ends leaves the wires free and no      *)
(* fault latched, or it was the clean-up of a timeout and says so.         *)
THEOREM PendingReleased == Spec => PendingEndsReleased
<1>. DEFINE A == (/\ calm /\ call.at # "rest" /\ call.op # "deinit"
                  /\ g_pending_state = "MASTER_WRITE" /\ g_pending_state' = "NONE") =>
                    \/ ~bus /\ stat \cap FaultBits = {}
                    \/ /\ call.at = "abort" /\ call.orig = "ERR_TIMEOUT"
                       /\ call'.st = "ERR_TIMEOUT"
<1>1. IInv /\ CalmInv /\ [Next]_vars => A
  <2>. SUFFICES ASSUME IInv, CalmInv, [Next]_vars, calm,
                       call.at # "rest", call.op # "deinit",
                       g_pending_state = "MASTER_WRITE",
                       g_pending_state' = "NONE"
                PROVE  \/ ~bus /\ stat \cap FaultBits = {}
                       \/ /\ call.at = "abort" /\ call.orig = "ERR_TIMEOUT"
                          /\ call'.st = "ERR_TIMEOUT"
    OBVIOUS
  <2>1. g_pending_state' # g_pending_state
    OBVIOUS
  <2>2. ~CallNext
    BY DEF CallNext, RejectArgs, nora_i2c_write, nora_i2c_read,
       nora_i2c_write_read, nora_i2c_master_write_no_stop, BeginIndependent,
       nora_i2c_master_read_after_restart, nora_i2c_master_stop, Continue,
       nora_i2c_init, nora_i2c_deinit, nora_i2c_set_bus_speed, Entry
  <2>3. ~IssueNext /\ ~WaitNext
    BY <2>1 DEF IssueNext, Issue, nora_i2c_ll_start_issue,
       nora_i2c_ll_restart_issue, AwaitReady, nora_i2c_ll_write_byte_issue,
       nora_i2c_ll_read_byte_issue, nora_i2c_ll_ack_issue,
       nora_i2c_ll_stop_issue, WaitNext, Waiting, Poll,
       nora_i2c_ll_has_collision, nora_i2c_ll_has_error, PollTimer, hal
  <2>4. ~Tick /\ ~Hardware /\ ~UNCHANGED vars
    BY <2>1 DEF Tick, Hardware, vars, hal
  <2>5. StopDone \/ AbortDone \/ RecoverDone
    BY <2>1, <2>2, <2>3, <2>4
       DEF Next, EngineNext, BackNext, TransferFails, Started, Restarted,
           Ready, SentNacked, SentMore, SentAll, pending_set, ReaderAddressed,
           nora_i2c_ll_read_byte_get, Acked, QuietDone, StopFails,
           DeinitRecovered, hal
  <2>6. call.at \in StopStages /\ call.ph = "back" /\ call.st = "OK"
    BY <2>5 DEF StopDone, AbortDone, RecoverDone, Back, StopStages
  <2>7. CASE call.orig = "ERR_TIMEOUT"
    <3>1. call.at = "abort"
      BY <2>5, <2>7
         DEF StopDone, AbortDone, RecoverDone, Back, CalmInv, OrigMatches,
             Stages, StopStages
    <3>2. call'.st = "ERR_TIMEOUT"
      BY <2>5, <2>7, <3>1 DEF StopDone, AbortDone, RecoverDone, Back, Rest
    <3>. QED  BY <2>7, <3>1, <3>2
  <2>8. CASE call.orig # "ERR_TIMEOUT"
    <3>1. "PEN" \notin conl
      BY <2>6 DEF CalmInv, StopSettled, Done
    <3>2. ~bus /\ ~Lost
      BY <2>6, <2>8, <3>1
         DEF CalmInv, InCall, CalmCall, FaultIsLoss, BusFollows
    <3>. QED  BY <3>2 DEF Lost
  <2>. QED  BY <2>7, <2>8
<1>2. [][A]_vars <=> PendingEndsReleased
  BY DEF PendingEndsReleased
<1>. QED  BY <1>1, <1>2, Invariance, CalmInvariance, PTL DEF Spec

-----------------------------------------------------------------------------
(* One master, and no call gives up waiting.                               *)
Undisturbed ==
  /\ Collisions = FALSE
  /\ \A config \in Configs : ~config.get_ms \/ config.timeout_ms = 0

(* Then no call meets a fault, and only a NACK sends it into its clean-up. *)
NoFault ==
  /\ calm /\ ~Lost /\ ~timeout_enabled
  /\ call.at = "rest" => Calm
  /\ call.ph = "back" => call.st = "OK"
  /\ call.orig # "ERR_TIMEOUT"

(* A call that starts meets no fault, nor does one that ends at once.      *)
LEMMA NoFaultCall ==
  ASSUME Undisturbed, IInv, NoFault, CallNext
  PROVE  NoFault'
<1>. USE DEF NoFault
<1>1. call.at = "rest" /\ calm'
  BY DEF CallNext, RejectArgs, nora_i2c_write, nora_i2c_read,
     nora_i2c_write_read, nora_i2c_master_write_no_stop, BeginIndependent,
     nora_i2c_master_read_after_restart, nora_i2c_master_stop, Continue,
     nora_i2c_init, nora_i2c_deinit, nora_i2c_set_bus_speed, Entry
<1>2. \/ \E st : Refuse(st)
      \/ \E op, tx, rx : \E stage \in Stages : Run(op, stage, tx, rx)
      \/ \E config \in Configs : nora_i2c_init(config)
      \/ ForceOff("OK")
      \/ /\ ModuleReset({}) /\ call' = Rest("OK") /\ UNCHANGED <<conl, hal>>
         /\ g_pending_state = "NONE"
  BY DEF CallNext, RejectArgs, nora_i2c_write, nora_i2c_read,
     nora_i2c_write_read, nora_i2c_master_write_no_stop, BeginIndependent,
     nora_i2c_master_read_after_restart, nora_i2c_master_stop, Continue,
     nora_i2c_deinit, nora_i2c_set_bus_speed, Stages, StopStages, WriteStages
<1>3. CASE \E st : Refuse(st)
  BY <1>1, <1>3, BitByBit, BitByBitNext
     DEF Refuse, Rest, Calm, Lost, regs, hal, timeout_enabled
<1>4. ASSUME NEW op, NEW tx, NEW rx, NEW stage \in Stages, Run(op, stage, tx, rx)
      PROVE  NoFault'
  BY <1>1, <1>4
     DEF Run, Enter, Rest, Lost, regs, hal, timeout_enabled, Stages, StopStages,
         WriteStages, ReadStages
<1>5. ASSUME NEW config \in Configs, nora_i2c_init(config)
      PROVE  NoFault'
  BY <1>1, <1>5
     DEF Undisturbed, nora_i2c_init, ModuleReset, Rest, Calm, Quiet, requests,
         ReqBits, MoveBits, FaultBits, Lost, timeout_enabled
<1>6. CASE ForceOff("OK")
  BY <1>1, <1>6
     DEF ForceOff, ModuleReset, NoConfig, Rest, Calm, Quiet, requests,
         MoveBits, FaultBits, Lost, timeout_enabled
<1>7. CASE /\ ModuleReset({}) /\ call' = Rest("OK") /\ UNCHANGED <<conl, hal>>
           /\ g_pending_state = "NONE"
  BY <1>1, <1>7
     DEF ModuleReset, hal, Rest, Calm, Quiet, requests, MoveBits, FaultBits,
         Lost, timeout_enabled
<1>. QED  BY ONLY <1>2, <1>3, <1>4, <1>5, <1>6, <1>7

(* And no later step does.                                                 *)
LEMMA NoFaultStep ==
  ASSUME Undisturbed, IInv, CalmInv, NoFault, [Next]_vars
  PROVE  NoFault'
<1>0. ASSUME call.at # "rest"
      PROVE  CalmCall
  BY <1>0 DEF CalmInv, InCall, NoFault
<1>1. CASE CallNext
  BY <1>1, NoFaultCall
<1>2. CASE IssueNext
  <2>1. /\ call.at \in Stages /\ call'.at = call.at /\ call.ph = "issue"
        /\ call'.ph = "poll" /\ call'.orig = call.orig
        /\ UNCHANGED <<g_cfg, calm>>
    BY <1>2
       DEF IInv, TypeOK, Frames, IssueNext, Issue, hal, nora_i2c_ll_start_issue,
           nora_i2c_ll_restart_issue, AwaitReady, nora_i2c_ll_write_byte_issue,
           nora_i2c_ll_read_byte_issue, nora_i2c_ll_ack_issue,
           nora_i2c_ll_stop_issue, Stages, StopStages, WriteStages, ReadStages
  <2>2. call.at # "rest" /\ ~Busy
    BY <1>0, <2>1
       DEF CalmCall, OneThing, Stages, StopStages, WriteStages, ReadStages
  <2>3. ~Lost'
    BY <1>2, <2>2, BitByBit, BitByBitNext
       DEF NoFault, IssueNext, nora_i2c_ll_start_issue, FaultBits,
           nora_i2c_ll_restart_issue, AwaitReady, nora_i2c_ll_write_byte_issue,
           nora_i2c_ll_read_byte_issue, nora_i2c_ll_ack_issue,
           nora_i2c_ll_stop_issue, WriteTrn, Accepts, regs
  <2>. QED  BY <2>1, <2>2, <2>3 DEF NoFault, timeout_enabled
<1>3. CASE WaitNext
  <2>1. /\ UNCHANGED <<regs, hal, calm>> /\ call.at # "rest"
        /\ call'.at = call.at /\ call'.orig = call.orig
    BY <1>3
       DEF IInv, TypeOK, Frames, WaitNext, Waiting, GoOn, ComeBack, Poll,
           nora_i2c_ll_has_collision, nora_i2c_ll_has_error, PollTimer
  <2>2. call'.ph = "back" => call'.st = "OK"
    BY <1>3, BitByBit
       DEF IInv, TypeOK, Frames, NoFault, Lost, FaultBits, WaitNext, Waiting,
           GoOn, ComeBack, Poll, nora_i2c_ll_has_collision,
           nora_i2c_ll_has_error, PollTimer, timeout_expired
  <2>. QED  BY <2>1, <2>2 DEF NoFault, regs, hal, Lost, timeout_enabled
<1>4. CASE BackNext
  <2>1. call.at # "rest" /\ call.ph = "back" /\ call.st = "OK" /\ call.at \in Stages
    BY <1>4
       DEF BackNext, TransferFails, Started, Restarted, Ready, SentNacked,
           SentMore, SentAll, ReaderAddressed, nora_i2c_ll_read_byte_get, Acked,
           StopDone, AbortDone, QuietDone, RecoverDone, StopFails,
           DeinitRecovered, Back, NoFault, Stages, StopStages, WriteStages,
           ReadStages
  <2>2. CalmCall /\ ~Busy /\ "TBF" \notin stat /\ ~Lost
    BY <1>0, <2>1, BitByBit DEF CalmCall, OneThing, Done, NoFault
  <2>3. CASE \/ SentNacked \/ Started \/ Restarted \/ Ready \/ SentMore
             \/ ReaderAddressed \/ Acked \/ nora_i2c_ll_read_byte_get
    <3>1. /\ call'.at # "rest" /\ call'.ph = "issue"
          /\ call'.orig # "ERR_TIMEOUT" /\ UNCHANGED <<g_cfg, calm>>
          /\ stat' \subseteq stat
      BY <2>3
         DEF SentNacked, Fail, Started, Restarted, Ready, SentMore,
             ReaderAddressed, Acked, nora_i2c_ll_read_byte_get, Next_stage,
             IInv, TypeOK, Frames, NoFault, hal, regs
    <3>. QED  BY <2>2, <3>1 DEF NoFault, Lost, timeout_enabled
  <2>4. CASE SentAll
    <3>1. /\ UNCHANGED <<regs, g_cfg, calm>> /\ g_pending_state' = "MASTER_WRITE"
          /\ call.at = "w_sent"
          /\ call'.ph = "issue" /\ call'.orig # "ERR_TIMEOUT"
      BY <2>4
         DEF SentAll, Back, pending_set, Next_stage, Rest, IInv, TypeOK, Frames,
             PendingMatchesStage, WriteStages, Writes, NoFault
    <3>2. bus /\ ~drv /\ "RBF" \notin stat
      BY <2>2, <3>1
         DEF CalmCall, OneThing, BusFollows, DriveFollows, Stages, StopStages,
             WriteStages
    <3>. QED
      BY <2>2, <3>1, <3>2, BitByBit, BitByBitNext
         DEF NoFault, Calm, Lost, regs, timeout_enabled
  <2>5. CASE StopDone \/ AbortDone \/ QuietDone \/ RecoverDone
    <3>1. /\ UNCHANGED <<regs, g_cfg, calm>> /\ g_pending_state' = "NONE"
          /\ call.at \in StopStages
          /\ call'.ph = "issue" /\ call'.orig # "ERR_TIMEOUT"
      BY <2>5
         DEF StopDone, AbortDone, QuietDone, RecoverDone, pending_clear, hal,
             Rest, Back, StopStages, IInv, PendingMatchesStage
    <3>2. ~bus /\ ~drv /\ "RBF" \notin stat
      BY <2>1, <2>2, <3>1, BitByBit
         DEF CalmCall, OneThing, BusFollows, DriveFollows, StopStages
    <3>. QED
      BY <2>2, <3>1, <3>2, BitByBit, BitByBitNext
         DEF NoFault, Calm, Lost, regs, timeout_enabled
  <2>6. CASE DeinitRecovered
    <3>1. PICK st : ForceOff(st)
      BY <2>6 DEF DeinitRecovered
    <3>2. call.at = "recover" /\ calm'
      BY <2>6 DEF DeinitRecovered, Back, NoFault
    <3>3. "RBF" \notin stat
      BY <2>2, <3>2 DEF CalmCall, OneThing
    <3>. QED
      BY <2>2, <3>1, <3>2, <3>3, BitByBit, BitByBitNext
         DEF ForceOff, ModuleReset, NoConfig, Rest, NoFault, Calm, Lost,
             FaultBits, MoveBits, timeout_enabled
  <2>7. ~TransferFails /\ ~StopFails
    BY <2>1 DEF TransferFails, StopFails, Back
  <2>. QED
    BY ONLY <1>4, <2>3, <2>4, <2>5, <2>6, <2>7 DEF BackNext
<1>5. CASE Hardware
  <2>1. UNCHANGED <<hal, call, calm>> /\ HwNext
    BY <1>5 DEF Hardware
  <2>2. call.at # "rest"
    <3>1. Busy \/ "TBF" \in stat
      BY <2>1, BitByBit
         DEF HwNext, HwFinish, HwStarted, HwStopped, HwAcked, HwReceived,
             HwShift, HwSent, HwCollide, requests
    <3>. QED  BY <3>1, BitByBit DEF NoFault, Calm
  <2>3. ~Lost'
    <3>1. "RBF" \in stat => "RCEN" \notin conl
      BY <1>0, <2>2 DEF CalmCall, OneThing
    <3>. QED
      BY <2>1, <3>1, BitByBit, BitByBitNext
         DEF Undisturbed, NoFault, HwNext, HwFinish, HwStarted, HwStopped,
             HwAcked, HwReceived, HwShift, HwSent, HwCollide, requests
  <2>. QED  BY <2>1, <2>2, <2>3 DEF NoFault, hal, timeout_enabled
<1>6. CASE Tick \/ UNCHANGED vars
  <2>1. UNCHANGED <<regs, g_cfg, g_pending_state, call, calm>>
    BY <1>6 DEF Tick, vars, hal
  <2>. QED
    BY <2>1, BitByBit, BitByBitNext
       DEF NoFault, Calm, Lost, regs, timeout_enabled
<1>. QED  BY <1>1, <1>2, <1>3, <1>4, <1>5, <1>6 DEF Next, EngineNext

(* With nobody else on the wires and no call that gives up waiting, no     *)
(* call meets a fault.                                                     *)
THEOREM FaultNeverMet ==
  ASSUME Undisturbed
  PROVE  Spec => []NoFault
<1>1. Init => NoFault
  BY DEF Init, RegsInit, NoFault, Lost, timeout_enabled, NoConfig, Calm, Quiet,
     requests, Rest
<1>2. IInv /\ CalmInv /\ NoFault /\ [Next]_vars => NoFault'
  BY NoFaultStep
<1>. QED  BY <1>1, <1>2, Invariance, CalmInvariance, PTL DEF Spec

(* Every return then leaves the peripheral calm, a NACK's included.        *)
THEOREM EveryReturnCalm ==
  ASSUME Undisturbed
  PROVE  Spec => []EveryReturnLeavesCalm
<1>1. NoFault => EveryReturnLeavesCalm
  BY DEF NoFault, EveryReturnLeavesCalm
<1>. QED  BY <1>1, FaultNeverMet, PTL
=============================================================================
