------------------------ MODULE NoraI2CSessionProofs ------------------------
(***************************************************************************)
(* NoraI2CMaster implements NoraI2CSession, for every value of its         *)
(* constants: every step of the engine is a step of the session or leaves  *)
(* it alone.                                                               *)
(***************************************************************************)
EXTENDS NoraI2CMasterProofs

(* What the mapping needs to know of a frame besides IInv: which function  *)
(* can be in which stage, and what error a clean-up STOP will report.      *)
FrameMatchesStage ==
  /\ call.at = "rest" <=> call.op = "none"
  /\ call.op = "deinit" => call.at = "recover"
  /\ call.op = "stop" => call.at \in {"stop", "recover"}
  /\ call.at = "stop" => call.op \notin {"write_no_stop", "deinit"}
  /\ call.at \in {"quiet", "abort"} =>
       call.orig \in Session!WireErrors \cup {"ERR_NACK"}

SInv == IInv /\ FrameMatchesStage

LEMMA InACall ==
  ASSUME IInv, FrameMatchesStage, call.at # "rest"
  PROVE  call.op \in Ops /\ g_initialized
  BY DEF IInv, TypeOK, PendingMatchesStage, FrameMatchesStage, Frames

LEMMA OpNone == "none" \notin Ops
  BY DEF Ops, Writes

(* Four ways to end in a STOP, and a stage is one of them or is not.       *)
LEMMA StopOrNot ==
  /\ call.at \in StopStages <=> call.at \in {"stop", "quiet", "abort", "recover"}
  /\ call.at \in Stages \ StopStages <=>
       call.at \in {"start", "w_ready", "w_sent", "restart", "r_ready",
                   "r_sent", "rx", "ack"}
  /\ "rest" \notin Stages
  BY DEF Stages, WriteStages, ReadStages, StopStages

-----------------------------------------------------------------------------
(* The steps inside a call that are not seen.                              *)
LEMMA Unseen ==
  ASSUME call.at # "rest", call'.at # "rest", call'.op = call.op,
         (call'.at = "recover") <=> (call.at = "recover"),
         UNCHANGED <<open_bar, failed_bar, release_bar>>
  PROVE  UNCHANGED Session!vars
  BY DEF Session!vars, Session!inside, session_bar, result_bar,
     session_called_in

(* A transfer goes on to a stage its function can be in.                   *)
LEMMA Proceeds ==
  ASSUME SInv, call.at \in Stages \ StopStages,
         NEW stage \in Stages \ {"quiet", "abort", "recover"},
         call'.at = stage, call'.op = call.op, call'.ph = "issue",
         stage = "stop" => call.op # "write_no_stop"
  PROVE  /\ FrameMatchesStage'
         /\ UNCHANGED <<session_bar, call.op, failed_bar, release_bar, result_bar>>
         /\ failed_bar = "OK" /\ release_bar = "none"
         /\ open_bar' = open_bar => UNCHANGED Session!vars
<1>1. call.op \notin {"deinit", "none", "stop"} /\ call.at # "rest"
      /\ call.at \notin {"quiet", "abort", "recover", "stop"}
  BY StopOrNot DEF SInv, FrameMatchesStage
<1>2. stage # "rest" /\ stage \notin {"quiet", "abort", "recover"}
  BY StopOrNot
<1>3. FrameMatchesStage'
  BY <1>1, <1>2 DEF FrameMatchesStage
<1>4. UNCHANGED <<session_bar, call.op, failed_bar, release_bar, result_bar>>
      /\ failed_bar = "OK" /\ release_bar = "none"
  BY <1>1, <1>2 DEF session_bar, session_called_in, failed_bar, release_bar,
     result_bar, StopStages
<1>. QED  BY <1>3, <1>4 DEF Session!vars, Session!inside

LEMMA SameFrame ==
  ASSUME SInv, call'.at = call.at, call'.op = call.op, call'.orig = call.orig,
         UNCHANGED <<g_initialized, g_pending_state>>,
         release_bar' = release_bar,
         call.at = "rest" => UNCHANGED call
  PROVE  FrameMatchesStage' /\ UNCHANGED Session!vars
  BY DEF SInv, FrameMatchesStage, Session!vars, Session!inside, session_bar,
         result_bar, session_called_in, session_now, open_bar, failed_bar

(* A call returns.                                                         *)
LEMMA RestFrame ==
  ASSUME NEW st, call' = Rest(st)
  PROVE  /\ call'.at = "rest" /\ call'.op = "none" /\ call'.st = st
         /\ FrameMatchesStage'
         /\ result_bar' = st /\ session_bar' = session_now'
         /\ open_bar' = FALSE /\ failed_bar' = "OK" /\ release_bar' = "none"
  BY DEF Rest, FrameMatchesStage, result_bar, session_bar, open_bar,
     failed_bar, release_bar, ReadStages, StopStages

(* Nothing is open between calls.                                          *)
LEMMA AtRest ==
  ASSUME call.at = "rest"
  PROVE  /\ session_bar = session_now /\ result_bar = call.st
         /\ open_bar = FALSE /\ failed_bar = "OK" /\ release_bar = "none"
  BY DEF session_bar, result_bar, open_bar, failed_bar, release_bar,
     ReadStages, StopStages

-----------------------------------------------------------------------------
LEMMA CallSimulates ==
  ASSUME SInv, CallNext
  PROVE  FrameMatchesStage' /\ [Session!Next]_(Session!vars)
<1>. USE DEF SInv
<1>1. call.at = "rest" /\ call.op = "none"
  BY DEF CallNext, RejectArgs, nora_i2c_write, nora_i2c_read,
     nora_i2c_write_read, nora_i2c_master_write_no_stop, BeginIndependent,
     nora_i2c_master_read_after_restart, nora_i2c_master_stop, Continue,
     nora_i2c_init, nora_i2c_deinit, nora_i2c_set_bus_speed, Entry,
     FrameMatchesStage
<1>2. /\ session_bar = session_now /\ result_bar = call.st
      /\ open_bar = FALSE /\ failed_bar = "OK" /\ release_bar = "none"
  BY <1>1, AtRest
<1>3. ASSUME NEW st, Refuse(st), st \in Session!Refusals
      PROVE  FrameMatchesStage' /\ [Session!Next]_(Session!vars)
  <2>1. UNCHANGED session_now
    BY <1>3 DEF Refuse, hal, session_now
  <2>. QED
    BY <1>1, <1>2, <1>3, <2>1, RestFrame
       DEF Refuse, Session!Next, Session!Call, Session!Refuse, Session!inside
<1>4. ASSUME NEW op \in Ops, NEW stage \in Stages, NEW tx, NEW rx,
             Run(op, stage, tx, rx), g_initialized,
             \/ stage = "recover" /\ g_pending_state # "NONE"
             \/ /\ stage = "start" /\ g_pending_state = "NONE"
                /\ op \in Writes \cup {"read"}
             \/ /\ op = "read_after_restart" /\ stage = "restart"
                /\ g_pending_state # "NONE"
             \/ op = "stop" /\ stage = "stop" /\ g_pending_state # "NONE"
      PROVE  FrameMatchesStage' /\ [Session!Next]_(Session!vars)
  <2>1. call'.at = stage /\ call'.op = op /\ call'.ph = "issue"
    BY <1>4 DEF Run, Enter, Rest
  <2>2. stage # "rest" /\ op # "none" /\ stage \notin {"quiet", "abort"}
    BY <1>4, OpNone DEF Stages, WriteStages, ReadStages, StopStages
  <2>3. FrameMatchesStage'
    BY <1>4, <2>1, <2>2 DEF FrameMatchesStage, Writes
  <2>4. session_bar' = session_bar /\ result_bar' = "none"
    BY <1>2, <1>4, <2>1, <2>2
       DEF session_bar, result_bar, session_called_in, session_now, Writes
  <2>5. /\ failed_bar' = IF stage = "recover" THEN "ERR_TIMEOUT" ELSE "OK"
        /\ release_bar' = release_bar
    BY <1>2, <2>1, <2>2 DEF failed_bar, release_bar
  <2>6. open_bar' = (session_bar = "held")
    BY <1>2, <1>4, <2>1
       DEF open_bar, session_now, Writes, ReadStages
  <2>7. IF stage = "recover" THEN session_bar = "held" ELSE Session!Entitled(op)
    BY <1>2, <1>4
       DEF session_now, Writes, Session!Entitled, Session!Opens,
           Session!Continues
  <2>8. op \in Session!Opens \cup Session!Continues \cup {"deinit"}
    BY DEF Ops, Writes, Session!Opens, Session!Continues
  <2>9. Session!Begin(op)
    BY <2>1, <2>4, <2>5, <2>6, <2>7 DEF Session!Begin
  <2>. QED  BY <1>1, <2>3, <2>8, <2>9 DEF Session!Next, Session!Call
<1>5. ASSUME NEW op \in Writes \cup {"read"}, NEW tx, NEW rx,
             BeginIndependent(op, tx, rx)
      PROVE  FrameMatchesStage' /\ [Session!Next]_(Session!vars)
  <2>1. op \in Ops /\ "start" \in Stages /\ "recover" \in Stages
    BY DEF Ops, Stages, WriteStages, StopStages
  <2>2. CASE ~g_initialized /\ Refuse("ERR_NOT_INITIALIZED")
    BY <1>2, <1>3, <2>2 DEF Session!Refusals, session_now
  <2>3. CASE g_pending_state # "NONE" /\ Refuse("ERR_BUSY") /\ g_initialized
    BY <1>2, <1>3, <2>3 DEF Session!Refusals, session_now
  <2>4. CASE g_initialized /\ pending_timeout_expired /\ Run(op, "recover", 0, 0)
    BY <1>4, <2>1, <2>4 DEF pending_timeout_expired
  <2>5. CASE g_initialized /\ g_pending_state = "NONE" /\ Run(op, "start", tx, rx)
    BY <1>4, <2>1, <2>5
  <2>. QED  BY <1>5, <2>2, <2>3, <2>4, <2>5 DEF BeginIndependent
<1>6. ASSUME NEW op, NEW stage, NEW rx,
             \/ op = "read_after_restart" /\ stage = "restart"
             \/ op = "stop" /\ stage = "stop",
             Continue(op, stage, rx)
      PROVE  FrameMatchesStage' /\ [Session!Next]_(Session!vars)
  <2>1. op \in Ops /\ stage \in Stages /\ "recover" \in Stages
    BY <1>6 DEF Ops, Stages, StopStages
  <2>2. CASE ~g_initialized /\ Refuse("ERR_NOT_INITIALIZED")
    BY <1>2, <1>3, <2>2 DEF Session!Refusals, session_now
  <2>3. CASE g_pending_state = "NONE" /\ Refuse("ERR_SEQUENCE") /\ g_initialized
    BY <1>2, <1>3, <2>3 DEF Session!Refusals, session_now
  <2>4. CASE g_initialized /\ pending_timeout_expired /\ Run(op, "recover", 0, 0)
    BY <1>4, <2>1, <2>4 DEF pending_timeout_expired
  <2>5. CASE g_initialized /\ g_pending_state # "NONE" /\ Run(op, stage, 0, rx)
    BY <1>4, <1>6, <2>1, <2>5
  <2>. QED  BY <1>6, <2>2, <2>3, <2>4, <2>5 DEF Continue
<1>7. ASSUME NEW config, nora_i2c_init(config)
      PROVE  FrameMatchesStage' /\ [Session!Next]_(Session!vars)
  <2>1. session_now' = "idle" /\ call' = Rest("OK")
    BY <1>7 DEF nora_i2c_init, session_now
  <2>. QED
    BY <1>1, <1>2, <2>1, RestFrame
       DEF Session!Next, Session!Call, Session!InitCall, Session!inside
<1>8. CASE nora_i2c_deinit
  <2>1. "deinit" \in Ops /\ "recover" \in Stages
    BY DEF Ops, Stages, StopStages
  <2>2. CASE ~g_initialized /\ Refuse("ERR_NOT_INITIALIZED")
    BY <1>2, <1>3, <2>2 DEF Session!Refusals, session_now
  <2>3. CASE Refuse("ERR_BUSY") /\ g_initialized
    BY <1>2, <1>3, <2>3 DEF Session!Refusals, session_now
  <2>4. CASE g_initialized /\ pending_timeout_expired /\ Run("deinit", "recover", 0, 0)
    BY <1>4, <2>1, <2>4 DEF pending_timeout_expired
  <2>5. CASE g_initialized /\ ForceOff("OK")
    <3>1. session_now' = "off" /\ session_bar # "off" /\ call' = Rest("OK")
      BY <1>2, <2>5 DEF ForceOff, session_now
    <3>. QED
      BY <1>1, <1>2, <3>1, RestFrame
         DEF Session!Next, Session!Call, Session!DeinitCall, Session!inside
  <2>. QED  BY <1>8, <2>2, <2>3, <2>4, <2>5 DEF nora_i2c_deinit
<1>9. CASE nora_i2c_set_bus_speed
  <2>1. CASE ~g_initialized /\ Refuse("ERR_NOT_INITIALIZED")
    BY <1>2, <1>3, <2>1 DEF Session!Refusals, session_now
  <2>2. CASE Refuse("ERR_BUSY") /\ g_initialized
    BY <1>2, <1>3, <2>2 DEF Session!Refusals, session_now
  <2>3. CASE /\ g_initialized /\ g_pending_state = "NONE"
             /\ call' = Rest("OK") /\ UNCHANGED hal
    <3>1. session_now' = "idle" /\ session_bar = "idle"
      BY <1>2, <2>3 DEF hal, session_now
    <3>. QED
      BY <1>1, <1>2, <2>3, <3>1, RestFrame
         DEF Session!Next, Session!Call, Session!SpeedCall, Session!inside
  <2>. QED  BY <1>9, <2>1, <2>2, <2>3 DEF nora_i2c_set_bus_speed
<1>10. CASE RejectArgs
  BY <1>3, <1>10 DEF RejectArgs, Session!Refusals
<1>. QED
  BY <1>5, <1>6, <1>7, <1>8, <1>9, <1>10
     DEF CallNext, nora_i2c_write, nora_i2c_read, nora_i2c_write_read,
         nora_i2c_master_write_no_stop, nora_i2c_master_read_after_restart,
         nora_i2c_master_stop, Writes

(* Register accesses are not seen.                                         *)
LEMMA IssuesUnseen ==
  ASSUME SInv, IssueNext
  PROVE  FrameMatchesStage' /\ UNCHANGED Session!vars
<1>1. ASSUME NEW stages, Issue(stages), "rest" \notin stages
      PROVE  FrameMatchesStage' /\ UNCHANGED Session!vars
  <2>1. call.at # "rest" /\ UNCHANGED hal
    BY <1>1 DEF Issue
  <2>2. /\ call'.at = call.at /\ call'.op = call.op /\ call'.orig = call.orig
        /\ call.ph = "issue" /\ call'.ph = "poll"
    BY <1>1 DEF Issue, SInv, IInv, TypeOK, Frames
  <2>3. release_bar' = release_bar
    BY <2>2 DEF release_bar
  <2>. QED  BY <2>1, <2>2, <2>3, SameFrame DEF hal
<1>. QED
  BY <1>1
     DEF IssueNext, nora_i2c_ll_start_issue, nora_i2c_ll_restart_issue,
         AwaitReady, nora_i2c_ll_write_byte_issue, nora_i2c_ll_read_byte_issue,
         nora_i2c_ll_ack_issue, nora_i2c_ll_stop_issue, StopStages

(* A poll is not seen, unless it is the one with which a STOP comes back.  *)
LEMMA WaitsSimulate ==
  ASSUME SInv, WaitNext
  PROVE  FrameMatchesStage' /\ [Session!Next]_(Session!vars)
<1>1. call.at # "rest" /\ UNCHANGED hal /\ call.ph \in WaitPhases
  BY DEF WaitNext, Poll, nora_i2c_ll_has_collision, nora_i2c_ll_has_error,
     PollTimer, Waiting, WaitPhases
<1>2. \/ \E ph \in WaitPhases : GoOn(ph)
      \/ \E st \in WaitStatuses : ComeBack(st)
  <2>1. CASE Poll
    BY <2>1 DEF Poll, WaitPhases
  <2>2. CASE nora_i2c_ll_has_collision
    BY <2>2 DEF nora_i2c_ll_has_collision, WaitPhases, WaitStatuses
  <2>3. CASE nora_i2c_ll_has_error
    BY <2>3 DEF nora_i2c_ll_has_error, WaitPhases, WaitStatuses
  <2>4. CASE PollTimer
    BY <2>4 DEF PollTimer, WaitPhases, WaitStatuses
  <2>. QED  BY <2>1, <2>2, <2>3, <2>4 DEF WaitNext
<1>3. /\ call'.at = call.at /\ call'.op = call.op /\ call'.orig = call.orig
      /\ \/ call'.ph \in WaitPhases
         \/ call'.ph = "back" /\ call'.st \in WaitStatuses
  BY <1>2 DEF GoOn, ComeBack, SInv, IInv, TypeOK, Frames
<1>4. release_bar = "none"
  BY <1>1 DEF release_bar, WaitPhases
<1>5. CASE call.at \notin StopStages \/ call'.ph \in WaitPhases
  <2>1. release_bar' = release_bar
    BY <1>3, <1>4, <1>5 DEF release_bar, WaitPhases
  <2>. QED  BY <1>1, <1>3, <2>1, SameFrame DEF hal
<1>6. CASE call.at \in StopStages /\ call'.ph = "back" /\ call'.st \in WaitStatuses
  <2>1. FrameMatchesStage' /\ UNCHANGED <<session_bar, result_bar>>
        /\ UNCHANGED <<open_bar, failed_bar>>
    BY <1>1, <1>3
       DEF SInv, FrameMatchesStage, session_bar, result_bar,
           session_called_in, open_bar, failed_bar
  <2>2. release_bar' \in Session!WireErrors \cup {"OK"}
    BY <1>3, <1>6 DEF release_bar, WaitStatuses, Session!WireErrors
  <2>3. failed_bar # "OK" \/ open_bar \/ call.op = "read"
    BY <1>6, StopOrNot
       DEF failed_bar, open_bar, SInv, FrameMatchesStage, Session!WireErrors
  <2>4. call.op # "none"
    BY <1>1 DEF SInv, FrameMatchesStage
  <2>. QED
    BY <1>3, <1>4, <2>1, <2>2, <2>3, <2>4
       DEF Session!Next, Session!Stop, Session!Running
<1>. QED  BY <1>3, <1>5, <1>6

(* A failed step goes to the clean-up STOP with the error it will report.  *)
LEMMA FailBreaks ==
  ASSUME SInv, NEW st \in Session!WireErrors \cup {"ERR_NACK"}, Fail(st),
         call.at \in Stages \ StopStages
  PROVE  FrameMatchesStage' /\ [Session!Next]_(Session!vars)
<1>. DEFINE stage == IF call.at \in WriteStages \/ call.op = "read"
                     THEN "quiet" ELSE "abort"
<1>1. /\ call'.at = stage /\ call'.op = call.op /\ call'.orig = st
      /\ call'.ph = "issue"
  BY DEF Fail, Next_stage, SInv, IInv, TypeOK, Frames
<1>2. /\ call.at # "rest" /\ call.at \notin {"stop", "quiet", "abort", "recover"}
      /\ call.op \notin {"none", "stop", "deinit"}
  BY StopOrNot DEF SInv, FrameMatchesStage
<1>3. FrameMatchesStage' /\ UNCHANGED <<session_bar, result_bar>>
  BY <1>1, <1>2
     DEF FrameMatchesStage, session_bar, result_bar, session_called_in
<1>4. /\ failed_bar = "OK" /\ failed_bar' = st
      /\ release_bar = "none" /\ release_bar' = "none"
  BY <1>1, <1>2 DEF failed_bar, release_bar, StopStages
<1>5. open_bar' = open_bar
  <2>1. open_bar' = (stage = "abort")
    BY <1>1 DEF open_bar, ReadStages
  <2>2. open_bar = (stage = "abort")
    BY <1>2, StopOrNot
       DEF open_bar, SInv, IInv, PendingMatchesStage, WriteStages, ReadStages
  <2>. QED  BY <2>1, <2>2
<1>. HIDE DEF stage
<1>. QED
  BY <1>1, <1>2, <1>3, <1>4, <1>5
     DEF Session!Next, Session!Break, Session!Running

(* The steps that only go on to another stage.                             *)
LEMMA StagesUnseen ==
  ASSUME SInv,
         \/ Started \/ Restarted \/ Ready \/ SentMore
         \/ ReaderAddressed \/ nora_i2c_ll_read_byte_get \/ Acked
  PROVE  FrameMatchesStage' /\ UNCHANGED Session!vars
<1>. USE DEF Back, Next_stage
<1>a. call \in Frames
  BY DEF SInv, IInv, TypeOK
<1>b. /\ call.at \in ReadStages => call.op # "write_no_stop"
      /\ call.at = "restart" => call.op # "read"
  BY DEF SInv, IInv, PendingMatchesStage
<1>c. /\ {"w_ready", "r_ready", "w_sent", "r_sent", "rx", "ack", "stop"}
           \subseteq Stages \ {"quiet", "abort", "recover"}
      /\ {"start", "restart", "w_ready", "r_ready", "w_sent", "r_sent", "rx",
          "ack"} \subseteq Stages \ StopStages
  BY DEF Stages, WriteStages, ReadStages, StopStages
<1>1. CASE Started
  <2>. DEFINE stage == IF call.op = "read" THEN "r_ready" ELSE "w_ready"
  <2>1. /\ call'.at = stage /\ call'.op = call.op /\ call.at = "start"
        /\ stage \in {"r_ready", "w_ready"} /\ call'.ph = "issue"
    BY <1>1, <1>a DEF Started, Frames
  <2>2. open_bar' = open_bar
    BY <2>1 DEF open_bar, ReadStages
  <2>. QED  BY <1>c, <2>1, <2>2, Proceeds
<1>2. CASE Restarted
  <2>1. /\ call'.at = "r_ready" /\ call'.op = call.op /\ call.at = "restart"
        /\ call'.ph = "issue"
    BY <1>2, <1>a DEF Restarted, Frames
  <2>2. open_bar' = open_bar
    BY <1>b, <2>1 DEF open_bar, ReadStages
  <2>. QED  BY <1>c, <2>1, <2>2, Proceeds
<1>3. CASE Ready
  <2>. DEFINE stage == IF call.at = "w_ready" THEN "w_sent" ELSE "r_sent"
  <2>1. /\ call'.at = stage /\ call'.op = call.op /\ call'.ph = "issue"
        /\ call.at \in {"w_ready", "r_ready"} /\ stage \in {"w_sent", "r_sent"}
    BY <1>3, <1>a DEF Ready, Frames
  <2>2. open_bar' = open_bar
    BY <2>1 DEF open_bar, ReadStages
  <2>. QED  BY <1>c, <2>1, <2>2, Proceeds
<1>4. CASE SentMore
  <2>1. /\ call'.at = "w_ready" /\ call'.op = call.op /\ call.at = "w_sent"
        /\ call'.ph = "issue"
    BY <1>4, <1>a DEF SentMore, Frames
  <2>2. open_bar' = open_bar
    BY <2>1 DEF open_bar, ReadStages
  <2>. QED  BY <1>c, <2>1, <2>2, Proceeds
<1>5. CASE ReaderAddressed
  <2>1. /\ call'.at = "rx" /\ call'.op = call.op /\ call.at = "r_sent"
        /\ call'.ph = "issue"
    BY <1>5, <1>a DEF ReaderAddressed, Frames
  <2>2. open_bar' = open_bar
    BY <2>1 DEF open_bar, ReadStages
  <2>. QED  BY <1>c, <2>1, <2>2, Proceeds
<1>6. CASE nora_i2c_ll_read_byte_get
  <2>1. /\ call'.at = "ack" /\ call'.op = call.op /\ call.at = "rx"
        /\ call'.ph = "issue"
    BY <1>6, <1>a DEF nora_i2c_ll_read_byte_get, Frames
  <2>2. open_bar' = open_bar
    BY <2>1 DEF open_bar, ReadStages
  <2>. QED  BY <1>c, <2>1, <2>2, Proceeds
<1>7. CASE Acked
  <2>1. /\ call'.at \in {"rx", "stop"} /\ call'.op = call.op
        /\ call.at = "ack" /\ call.op # "write_no_stop" /\ call'.ph = "issue"
    BY <1>7, <1>a, <1>b DEF Acked, Frames, ReadStages
  <2>2. open_bar' = open_bar
    BY <2>1 DEF open_bar, ReadStages
  <2>. QED  BY <1>c, <2>1, <2>2, Proceeds
<1>. QED  BY <1>1, <1>2, <1>3, <1>4, <1>5, <1>6, <1>7

-----------------------------------------------------------------------------
(* The steps that return.                                                  *)

LEMMA BackSimulates ==
  ASSUME SInv, BackNext
  PROVE  FrameMatchesStage' /\ [Session!Next]_(Session!vars)
<1>. USE DEF Back
<1>a. call.at # "rest" /\ call \in Frames
  BY DEF BackNext, TransferFails, Started, Restarted, Ready, SentNacked,
     SentMore, SentAll, ReaderAddressed, nora_i2c_ll_read_byte_get, Acked,
     StopDone, AbortDone, QuietDone, RecoverDone, StopFails, DeinitRecovered,
     Stages, WriteStages, ReadStages, StopStages, SInv, IInv, TypeOK
<1>b. ASSUME NEW st, NEW to, call' = Rest(st),
             session_now' = IF call.op = "deinit" THEN "off" ELSE to,
             \/ /\ release_bar = "none" /\ call.op = "write_no_stop"
                /\ failed_bar = "OK" /\ to = "held" /\ st = "OK"
             \/ release_bar = "OK" /\ to = "idle" /\ st = failed_bar
             \/ /\ open_bar /\ release_bar \in Session!WireErrors
                /\ to = "held" /\ st = release_bar
             \/ /\ ~open_bar /\ release_bar \in Session!WireErrors
                /\ to = "idle"
                /\ st = IF failed_bar = "OK" THEN release_bar ELSE failed_bar
      PROVE  FrameMatchesStage' /\ [Session!Next]_(Session!vars)
  <2>1. /\ FrameMatchesStage' /\ call'.op = "none"
        /\ result_bar' = st /\ session_bar' = session_now'
        /\ open_bar' = FALSE /\ failed_bar' = "OK" /\ release_bar' = "none"
    BY <1>b, RestFrame
  <2>2. call.op # "none"
    BY <1>a DEF SInv, FrameMatchesStage
  <2>3. Session!Result(to, st)
    BY <1>b, <2>1 DEF Session!Result
  <2>4. \/ Session!LeaveOpen \/ Session!Closed
        \/ Session!StaysOpen \/ Session!Forgotten
    BY <1>b, <2>2, <2>3
       DEF Session!LeaveOpen, Session!Closed, Session!StaysOpen,
           Session!Forgotten, Session!Running
  <2>. QED  BY <2>1, <2>2, <2>4 DEF Session!Next, Session!Return
<1>c. g_initialized
  BY <1>a, InACall DEF SInv
<1>d. ASSUME UNCHANGED hal
      PROVE  session_now' = IF g_pending_state = "NONE" THEN "idle" ELSE "held"
  BY <1>c, <1>d DEF hal, session_now
<1>e. ASSUME pending_clear
      PROVE  session_now' = "idle"
  BY <1>c, <1>e DEF pending_clear, session_now
<1>f. WaitStatuses \ {"OK"} = Session!WireErrors /\ "OK" \notin Session!WireErrors
  BY DEF WaitStatuses, Session!WireErrors
<1>g. ASSUME call.at \in StopStages, call.ph = "back"
      PROVE  release_bar = call.st
  BY <1>g DEF release_bar
<1>1. CASE TransferFails
  BY <1>1, <1>f, FailBreaks DEF TransferFails
<1>2. CASE SentNacked
  <2>1. call.at \in Stages \ StopStages
    BY <1>2 DEF SentNacked, Stages, WriteStages, ReadStages, StopStages
  <2>. QED  BY <1>2, <2>1, FailBreaks DEF SentNacked
<1>3. CASE \/ Started \/ Restarted \/ Ready \/ SentMore
           \/ ReaderAddressed \/ nora_i2c_ll_read_byte_get \/ Acked
  BY <1>3, StagesUnseen
<1>4. CASE SentAll
  <2>1. call.op \in Writes /\ call.at = "w_sent" /\ session_now' = "held"
    BY <1>4, <1>c
       DEF SentAll, pending_set, session_now, SInv, IInv,
           PendingMatchesStage, WriteStages
  <2>2. CASE call.op = "write_no_stop"
    <3>1. call' = Rest("OK")
      BY <1>4, <2>1, <2>2 DEF SentAll
    <3>2. release_bar = "none" /\ failed_bar = "OK"
      BY <2>1 DEF release_bar, failed_bar, StopStages
    <3>. QED  BY <1>b, <2>1, <2>2, <3>1, <3>2
  <2>3. CASE call.op # "write_no_stop"
    <3>1. /\ call'.at \in {"stop", "restart"} /\ call'.op = call.op
          /\ call'.ph = "issue" /\ call.op \in {"write", "write_read"}
      BY <1>4, <1>a, <2>1, <2>3 DEF SentAll, Next_stage, Frames, Writes
    <3>2. /\ {"stop", "restart"} \subseteq Stages \ {"quiet", "abort", "recover"}
          /\ call.at \in Stages \ StopStages
      BY <2>1 DEF Stages, WriteStages, StopStages
    <3>3. /\ FrameMatchesStage'
          /\ UNCHANGED <<session_bar, call.op, failed_bar, release_bar, result_bar>>
          /\ failed_bar = "OK" /\ release_bar = "none"
      BY <2>3, <3>1, <3>2, Proceeds
    <3>4. open_bar = FALSE /\ open_bar' = TRUE
      BY <2>1, <3>1 DEF open_bar, ReadStages
    <3>. QED
      BY <3>1, <3>3, <3>4 DEF Session!Next, Session!Written, Session!Running
  <2>. QED  BY <2>2, <2>3
<1>5. CASE StopDone
  <2>1. /\ call.at = "stop" /\ call.ph = "back" /\ call.st = "OK"
        /\ call' = Rest("OK") /\ session_now' = "idle"
    BY <1>5, <1>e DEF StopDone
  <2>2. call.op # "deinit"
    BY <2>1 DEF SInv, FrameMatchesStage
  <2>3. release_bar = "OK" /\ failed_bar = "OK"
    BY <1>g, <2>1 DEF StopStages, failed_bar
  <2>. QED  BY <1>b, <2>1, <2>2, <2>3
<1>6. CASE AbortDone
  <2>1. /\ call.at = "abort" /\ call.ph = "back" /\ call.st = "OK"
        /\ call' = Rest(call.orig) /\ session_now' = "idle"
    BY <1>6, <1>e DEF AbortDone
  <2>2. call.op # "deinit"
    BY <2>1 DEF SInv, FrameMatchesStage
  <2>3. release_bar = "OK" /\ failed_bar = call.orig
    BY <1>g, <2>1 DEF StopStages, failed_bar
  <2>. QED  BY <1>b, <2>1, <2>2, <2>3
<1>7. CASE QuietDone
  <2>1. /\ call.at = "quiet" /\ call.ph = "back" /\ call.st \in WaitStatuses
        /\ call' = Rest(call.orig) /\ session_now' = "idle"
    BY <1>7, <1>d DEF QuietDone, SInv, IInv, PendingMatchesStage
  <2>2. call.op # "deinit" /\ call.orig # "OK"
    BY <2>1 DEF SInv, FrameMatchesStage, Session!WireErrors
  <2>3. release_bar = call.st /\ failed_bar = call.orig /\ ~open_bar
    BY <1>g, <2>1 DEF StopStages, failed_bar, open_bar, ReadStages
  <2>4. release_bar = "OK" \/ release_bar \in Session!WireErrors
    BY <1>f, <2>1, <2>3
  <2>. QED  BY <1>b, <2>1, <2>2, <2>3, <2>4
<1>8. CASE RecoverDone
  <2>1. /\ call.at = "recover" /\ call.ph = "back" /\ call.st = "OK"
        /\ call.op # "deinit"
        /\ call' = Rest("ERR_TIMEOUT") /\ session_now' = "idle"
    BY <1>8, <1>e DEF RecoverDone
  <2>2. release_bar = "OK" /\ failed_bar = "ERR_TIMEOUT"
    BY <1>g, <2>1 DEF StopStages, failed_bar
  <2>. QED  BY <1>b, <2>1, <2>2
<1>9. CASE StopFails
  <2>1. PICK st \in Session!WireErrors :
          /\ call' = Rest(st) /\ UNCHANGED hal
          /\ call.ph = "back" /\ call.st = st
          /\ \/ call.at \in {"stop", "abort"}
             \/ call.at = "recover" /\ call.op # "deinit"
    BY <1>9, <1>f DEF StopFails
  <2>2. call.op # "deinit"
    BY <2>1 DEF SInv, FrameMatchesStage
  <2>3. release_bar = st
    BY <1>g, <2>1 DEF StopStages
  <2>4. CASE open_bar
    <3>1. g_pending_state # "NONE"
      BY <2>1, <2>4 DEF open_bar, ReadStages, SInv, IInv, PendingMatchesStage
    <3>2. session_now' = "held"
      BY <1>d, <2>1, <3>1
    <3>. QED  BY <1>b, <2>1, <2>2, <2>3, <2>4, <3>2
  <2>5. CASE ~open_bar
    <3>1. call.at = "stop" /\ call.op = "read"
      BY <2>1, <2>5 DEF open_bar
    <3>2. session_now' = "idle"
      BY <1>d, <2>1, <3>1 DEF SInv, IInv, PendingMatchesStage
    <3>3. failed_bar = "OK"
      BY <3>1 DEF failed_bar
    <3>. QED  BY <1>b, <2>1, <2>2, <2>3, <2>5, <3>2, <3>3
  <2>. QED  BY <2>4, <2>5
<1>10. CASE DeinitRecovered
  <2>1. PICK st \in WaitStatuses :
          /\ ForceOff(IF st = "OK" THEN "ERR_TIMEOUT" ELSE st)
          /\ call.at = "recover" /\ call.ph = "back" /\ call.st = st
    BY <1>10 DEF DeinitRecovered
  <2>. DEFINE res == IF st = "OK" THEN "ERR_TIMEOUT" ELSE st
              to  == IF st = "OK" THEN "idle" ELSE "held"
  <2>2. call.op = "deinit" /\ session_now' = "off" /\ call' = Rest(res)
    BY <1>10, <2>1 DEF DeinitRecovered, ForceOff, session_now
  <2>3. release_bar = st /\ failed_bar = "ERR_TIMEOUT" /\ open_bar
    BY <1>g, <2>1 DEF StopStages, failed_bar, open_bar
  <2>4. \/ st = "OK" /\ res = "ERR_TIMEOUT" /\ to = "idle"
        \/ st \in Session!WireErrors /\ res = st /\ to = "held"
    BY <1>f
  <2>. HIDE DEF res, to
  <2>. QED  BY <1>b, <2>2, <2>3, <2>4
<1>. QED
  BY <1>1, <1>2, <1>3, <1>4, <1>5, <1>6, <1>7, <1>8, <1>9, <1>10 DEF BackNext

-----------------------------------------------------------------------------
(* The blocking engine is an implementation of the session: whatever the   *)
(* wires do, what a public call returns and whether it leaves a write      *)
(* pending is determined by what its transfer and its STOP came back with, *)
(* in the way NoraI2CSession says, on every path of every call.            *)
THEOREM SessionRefinement == Spec => ImplementsSession
<1>1. Init => FrameMatchesStage /\ Session!Init
  <2>. SUFFICES ASSUME Init PROVE FrameMatchesStage /\ Session!Init
    OBVIOUS
  <2>1. call = Rest("OK") /\ g_initialized = FALSE
    BY DEF Init
  <2>2. call.at = "rest" /\ call.op = "none" /\ call.st = "OK"
    BY <2>1 DEF Rest
  <2>. QED
    BY <2>1, <2>2, AtRest DEF FrameMatchesStage, Session!Init, session_now
<1>2. SInv /\ [Next]_vars => FrameMatchesStage' /\ [Session!Next]_(Session!vars)
  <2>. SUFFICES ASSUME SInv, [Next]_vars
                PROVE  FrameMatchesStage' /\ [Session!Next]_(Session!vars)
    OBVIOUS
  <2>1. CASE CallNext
    BY <2>1, CallSimulates
  <2>2. CASE EngineNext
    BY <2>2, IssuesUnseen, WaitsSimulate, BackSimulates DEF EngineNext
  <2>3. CASE Tick \/ Hardware \/ UNCHANGED vars
    <3>1. UNCHANGED <<call, g_initialized, g_pending_state>>
      BY <2>3 DEF Tick, Hardware, vars, hal
    <3>2. release_bar' = release_bar
      BY <3>1 DEF release_bar
    <3>. QED  BY <3>1, <3>2, SameFrame
  <2>. QED  BY <2>1, <2>2, <2>3 DEF Next
<1>3. IInv /\ FrameMatchesStage => SInv
  BY DEF SInv
<1>. QED
  BY <1>1, <1>2, <1>3, Invariance, PTL DEF Spec, ImplementsSession, Session!Spec
=============================================================================
