--------------------------- MODULE NoraI2CMaster ---------------------------
(***************************************************************************)
(* The blocking master engine of one I2C instance                          *)
(* (nora_i2c_dspic33ck_master.c): the public transfers, the no-STOP        *)
(* (pending) protocol between them, the polling loop they all sit in and   *)
(* the clean-up each failure goes through, beside a peripheral that works  *)
(* on its own (NoraI2CRegs).                                               *)
(*                                                                         *)
(* A blocking call is a walk through stages.  In each stage the engine     *)
(* makes its register access (phase "issue"), polls in wait_until() (the   *)
(* phases of WaitPhases) and comes back with a status (phase "back"), on   *)
(* which the caller of wait_until() decides where to go next.              *)
(***************************************************************************)
EXTENDS NoraI2CRegs

CONSTANTS
  Configs,    \* the nora_i2c_config_t values nora_i2c_init() is called with
  TxLens,     \* the tx_len values of a write
  RxLens,     \* the rx_len values of a read
  ClockMod    \* get_ms() counts modulo this (2^32 in the code)

NoConfig == [get_ms |-> FALSE, timeout_ms |-> 0, pending_timeout_ms |-> 0]

ConfigType == [get_ms : BOOLEAN, timeout_ms : 0 .. ClockMod - 1,
               pending_timeout_ms : 0 .. ClockMod - 1]

ASSUME MasterAssumption ==
  /\ ClockMod \in Nat \ {0}
  /\ Configs \subseteq ConfigType
  /\ TxLens \subseteq Nat
  /\ RxLens \subseteq Nat \ {0}

VARIABLES
  g_initialized,
  g_cfg,                \* g_get_ms (is it set), g_timeout_ms, g_pending_timeout_ms
  g_pending_state,
  g_pending_start_ms,
  age,                  \* history: how long the write has been pending, in ms;
                        \* stays at ClockMod once that is reached
  now,                  \* what g_get_ms() returns
  call,                 \* the activation of the public function now running
  calm                  \* history: that call found the peripheral as Calm says

hal  == <<g_initialized, g_cfg, g_pending_state, g_pending_start_ms, age>>
vars == <<regs, hal, now, call, calm>>

Statuses == {"OK", "ERR_INVALID_ARG", "ERR_NOT_INITIALIZED", "ERR_BUSY",
             "ERR_TIMEOUT", "ERR_NACK", "ERR_BUS", "ERR_COLLISION",
             "ERR_SEQUENCE"}
WaitStatuses == {"OK", "ERR_COLLISION", "ERR_BUS", "ERR_TIMEOUT"}
PendingStates == {"NONE", "MASTER_WRITE"}

Writes == {"write", "write_read", "write_no_stop"}
Ops    == Writes \cup {"read", "read_after_restart", "stop", "deinit"}

(* "w_" and "r_" stages belong to a byte sent to a writer and to the       *)
(* address byte of a reader; "stop" is stop_pending_sequence(), "quiet" a  *)
(* stop_quiet() whose status is dropped, "abort" abort_pending_sequence(), *)
(* "recover" recover_stale_pending_if_needed().                            *)
WriteStages == {"start", "w_ready", "w_sent"}
ReadStages  == {"r_ready", "r_sent", "rx", "ack"}
StopStages  == {"stop", "quiet", "abort", "recover"}
Stages      == WriteStages \cup {"restart"} \cup ReadStages \cup StopStages
WaitPhases  == {"poll", "coll", "err", "timer", "okcoll", "okerr"}
Phases      == {"issue", "back"} \cup WaitPhases

Frames == [op : Ops \cup {"none"}, at : Stages \cup {"rest"}, ph : Phases,
           tx : Nat, rx : Nat, st : Statuses, orig : Statuses,
           start_ms : 0 .. ClockMod - 1]

(* No call is running and the last one returned st.                        *)
Rest(st) == [op |-> "none", at |-> "rest", ph |-> "issue", tx |-> 0, rx |-> 0,
             st |-> st, orig |-> "OK", start_ms |-> 0]

(* A call in the given stage, with tx and rx bytes still to transfer.      *)
Enter(op, stage, tx, rx) ==
  [Rest("OK") EXCEPT !.op = op, !.at = stage, !.tx = tx, !.rx = rx]

(* The type invariant; every finer claim about a frame is a property.      *)
TypeOK ==
  /\ RegsTypeOK
  /\ g_initialized \in BOOLEAN
  /\ g_cfg \in ConfigType
  /\ g_pending_state \in PendingStates
  /\ g_pending_start_ms \in 0 .. ClockMod - 1
  /\ age \in 0 .. ClockMod
  /\ now \in 0 .. ClockMod - 1
  /\ call \in Frames
  /\ calm \in BOOLEAN

Init ==
  /\ RegsInit
  /\ g_initialized = FALSE
  /\ g_cfg = NoConfig
  /\ g_pending_state = "NONE"
  /\ g_pending_start_ms = 0
  /\ age = 0
  /\ now = 0
  /\ call = Rest("OK")
  /\ calm = TRUE

-----------------------------------------------------------------------------
(* Time.                                                                   *)

Elapsed(start_ms) == (now - start_ms) % ClockMod

timeout_enabled == g_cfg.get_ms /\ g_cfg.timeout_ms # 0
timeout_start_ms == IF timeout_enabled THEN now ELSE 0
(* Mutant: the comparison that breaks when get_ms() wraps.                 *)
Mut_timeout_no_wrap ==
  timeout_enabled /\ now >= call.start_ms + g_cfg.timeout_ms

timeout_expired ==
  timeout_enabled /\ Elapsed(call.start_ms) >= g_cfg.timeout_ms

pending_timeout_enabled == g_cfg.get_ms /\ g_cfg.pending_timeout_ms # 0

(* Mutant: the same of the pending age.                                    *)
Mut_pending_no_wrap ==
  /\ g_pending_state # "NONE"
  /\ pending_timeout_enabled
  /\ now >= g_pending_start_ms + g_cfg.pending_timeout_ms

pending_timeout_expired ==
  /\ g_pending_state # "NONE"
  /\ pending_timeout_enabled
  /\ Elapsed(g_pending_start_ms) >= g_cfg.pending_timeout_ms

(* A polling loop looks at the clock more than once per turn of it.        *)
Tick ==
  /\ g_cfg.get_ms
  /\ (timeout_enabled /\ call.ph \in WaitPhases)
       => Elapsed(call.start_ms) < ClockMod - 1
  /\ now' = (now + 1) % ClockMod
  /\ age' = IF g_pending_state # "NONE" /\ age < ClockMod THEN age + 1 ELSE age
  /\ UNCHANGED <<regs, g_initialized, g_cfg, g_pending_state,
                 g_pending_start_ms, call, calm>>

-----------------------------------------------------------------------------
(* The pending protocol's state.                                           *)

pending_set ==
  /\ g_pending_state' = "MASTER_WRITE"
  /\ g_pending_start_ms' = IF pending_timeout_enabled THEN now ELSE 0
  /\ age' = 0
  /\ UNCHANGED <<g_initialized, g_cfg>>

pending_clear ==
  /\ g_pending_state' = "NONE"
  /\ g_pending_start_ms' = 0
  /\ age' = 0
  /\ UNCHANGED <<g_initialized, g_cfg>>

(* The tail of nora_i2c_deinit(): everything off, whatever was going on.   *)
ForceOff(st) ==
  /\ conl' = conl \ {"I2CEN"}
  /\ ModuleReset({})
  /\ g_initialized' = FALSE
  /\ g_cfg' = NoConfig
  /\ g_pending_state' = "NONE"
  /\ g_pending_start_ms' = 0
  /\ age' = 0
  /\ call' = Rest(st)

-----------------------------------------------------------------------------
(* Calls.  All of them start while no other call runs: the API is blocking *)
(* and one instance has one caller.                                        *)

(* What the blocking calls are entitled to: nothing left over from an      *)
(* earlier call, the wires open exactly when a write is pending.           *)
Calm ==
  /\ Quiet
  /\ ~drv
  /\ bus <=> g_pending_state # "NONE"
  /\ bus => stat \cap FaultBits = {}

Entry == call.at = "rest" /\ calm' = Calm

Refuse(st) ==
  /\ call' = Rest(st)
  /\ UNCHANGED <<regs, hal, now>>

Run(op, stage, tx, rx) ==
  /\ call' = Enter(op, stage, tx, rx)
  /\ UNCHANGED <<regs, hal, now>>

RejectArgs == Entry /\ Refuse("ERR_INVALID_ARG")

(* Mutant: the pending transaction is not looked at.                       *)
Mut_begin_ignores_pending(op, tx, rx) ==
  /\ Entry
  /\ IF g_initialized
     THEN Run(op, "start", tx, rx)
     ELSE Refuse("ERR_NOT_INITIALIZED")

(* begin_independent_transaction() and its first steps.                    *)
BeginIndependent(op, tx, rx) ==
  /\ Entry
  /\ \/ ~g_initialized /\ Refuse("ERR_NOT_INITIALIZED")
     \/ g_initialized /\ pending_timeout_expired /\ Run(op, "recover", 0, 0)
     \/ /\ g_initialized /\ ~pending_timeout_expired
        /\ IF g_pending_state # "NONE"
           THEN Refuse("ERR_BUSY")
           ELSE Run(op, "start", tx, rx)

nora_i2c_write(tx) == BeginIndependent("write", tx, 0)
nora_i2c_read(rx) == BeginIndependent("read", 0, rx)
nora_i2c_write_read(tx, rx) == BeginIndependent("write_read", tx, rx)
nora_i2c_master_write_no_stop(tx) == BeginIndependent("write_no_stop", tx, 0)

(* The two calls that continue a pending write.                            *)
Continue(op, stage, rx) ==
  /\ Entry
  /\ \/ ~g_initialized /\ Refuse("ERR_NOT_INITIALIZED")
     \/ g_initialized /\ pending_timeout_expired /\ Run(op, "recover", 0, 0)
     \/ /\ g_initialized /\ ~pending_timeout_expired
        /\ IF g_pending_state = "NONE"
           THEN Refuse("ERR_SEQUENCE")
           ELSE Run(op, stage, 0, rx)

nora_i2c_master_read_after_restart(rx) ==
  Continue("read_after_restart", "restart", rx)
nora_i2c_master_stop == Continue("stop", "stop", 0)

(* Refuses nothing: called on a live master it starts over.  (The guard    *)
(* against a live slave is in NoraI2CLifecycle.)                           *)
nora_i2c_init(config) ==
  /\ Entry
  /\ conl' = {"I2CEN"}
  /\ ModuleReset(FaultBits)
  /\ g_initialized' = TRUE
  /\ g_cfg' = config
  /\ g_pending_state' = "NONE"
  /\ g_pending_start_ms' = 0
  /\ age' = 0
  /\ call' = Rest("OK")
  /\ UNCHANGED now

nora_i2c_deinit ==
  /\ Entry
  /\ \/ ~g_initialized /\ Refuse("ERR_NOT_INITIALIZED")
     \/ /\ g_initialized /\ pending_timeout_expired
        /\ Run("deinit", "recover", 0, 0)
     \/ /\ g_initialized /\ ~pending_timeout_expired
        /\ IF g_pending_state = "NONE" /\ Busy
           THEN Refuse("ERR_BUSY")
           ELSE ForceOff("OK") /\ UNCHANGED now

nora_i2c_set_bus_speed ==
  /\ Entry
  /\ \/ ~g_initialized /\ Refuse("ERR_NOT_INITIALIZED")
     \/ g_initialized /\ g_pending_state # "NONE" /\ Refuse("ERR_BUSY")
     \/ /\ g_initialized /\ g_pending_state = "NONE"
        /\ IF Busy
           THEN Refuse("ERR_BUSY")
           ELSE /\ ModuleReset({})
                /\ call' = Rest("OK")
                /\ UNCHANGED <<conl, hal, now>>

CallNext ==
  \/ RejectArgs
  \/ \E tx \in TxLens : nora_i2c_write(tx)
  \/ \E rx \in RxLens : nora_i2c_read(rx)
  \/ \E tx \in TxLens, rx \in RxLens : nora_i2c_write_read(tx, rx)
  \/ \E tx \in TxLens : nora_i2c_master_write_no_stop(tx)
  \/ \E rx \in RxLens : nora_i2c_master_read_after_restart(rx)
  \/ nora_i2c_master_stop
  \/ \E config \in Configs : nora_i2c_init(config)
  \/ nora_i2c_deinit
  \/ nora_i2c_set_bus_speed

-----------------------------------------------------------------------------
(* Register accesses of a running call; each one opens a wait_until().     *)

Issue(stages) ==
  /\ call.at \in stages /\ call.ph = "issue"
  /\ call' = [call EXCEPT !.ph = "poll", !.start_ms = timeout_start_ms]
  /\ UNCHANGED <<hal, now, calm>>

nora_i2c_ll_start_issue ==
  /\ Issue({"start"})
  /\ Request("SEN")
  /\ stat' = stat \ FaultBits
  /\ UNCHANGED <<trn, bus, drv>>

nora_i2c_ll_restart_issue ==
  /\ Issue({"restart"})
  /\ Request("RSEN")
  /\ UNCHANGED <<stat, trn, bus, drv>>

(* Nothing is written yet: write_byte_blocking() first waits for TBF.      *)
AwaitReady ==
  /\ Issue({"w_ready", "r_ready"})
  /\ UNCHANGED regs

nora_i2c_ll_write_byte_issue ==
  /\ Issue({"w_sent", "r_sent"})
  /\ WriteTrn(IF call.at = "r_sent" THEN "read_addr" ELSE "plain")
  /\ UNCHANGED <<conl, bus, drv>>

nora_i2c_ll_read_byte_issue ==
  /\ Issue({"rx"})
  /\ Request("RCEN")
  /\ UNCHANGED <<stat, trn, bus, drv>>

(* Mutant: off by one, the last byte is ACKed as well.                     *)
Mut_ack_last ==
  /\ Issue({"ack"})
  /\ RequestAck(call.rx >= 1)
  /\ UNCHANGED <<stat, trn, bus, drv>>

(* Every byte but the last is ACKed.                                       *)
nora_i2c_ll_ack_issue ==
  /\ Issue({"ack"})
  /\ RequestAck(call.rx > 1)
  /\ UNCHANGED <<stat, trn, bus, drv>>

nora_i2c_ll_stop_issue ==
  /\ Issue(StopStages)
  /\ Request("PEN")
  /\ UNCHANGED <<stat, trn, bus, drv>>

IssueNext ==
  \/ nora_i2c_ll_start_issue
  \/ nora_i2c_ll_restart_issue
  \/ AwaitReady
  \/ nora_i2c_ll_write_byte_issue
  \/ nora_i2c_ll_read_byte_issue
  \/ nora_i2c_ll_ack_issue
  \/ nora_i2c_ll_stop_issue

-----------------------------------------------------------------------------
(* wait_until(): one register read per step.                               *)

(* Mutants: a byte counts as sent once the transmit buffer is empty; a     *)
(* STOP counts as done as soon as it was asked for.                        *)
Mut_done_sent_by_TBF ==
  \/ call.at = "start" /\ "SEN" \notin conl
  \/ call.at = "restart" /\ "RSEN" \notin conl
  \/ call.at \in {"w_ready", "r_ready", "w_sent", "r_sent"} /\ "TBF" \notin stat
  \/ call.at = "rx" /\ "RBF" \in stat
  \/ call.at = "ack" /\ "ACKEN" \notin conl
  \/ call.at \in StopStages /\ "PEN" \notin conl

Mut_done_stop_at_once ==
  \/ Mut_done_sent_by_TBF /\ call.at \notin {"w_sent", "r_sent"}
  \/ call.at \in {"w_sent", "r_sent"} /\ "TRSTAT" \notin stat
  \/ call.at \in StopStages

(* done_fn of the stage.                                                   *)
done ==
  \/ call.at = "start" /\ "SEN" \notin conl
  \/ call.at = "restart" /\ "RSEN" \notin conl
  \/ call.at \in {"w_ready", "r_ready"} /\ "TBF" \notin stat
  \/ call.at \in {"w_sent", "r_sent"} /\ "TRSTAT" \notin stat
  \/ call.at = "rx" /\ "RBF" \in stat
  \/ call.at = "ack" /\ "ACKEN" \notin conl
  \/ call.at \in StopStages /\ "PEN" \notin conl

Waiting(phases) ==
  /\ call.at # "rest" /\ call.ph \in phases
  /\ UNCHANGED <<regs, hal, now, calm>>

GoOn(ph) == call' = [call EXCEPT !.ph = ph]
ComeBack(st) == call' = [call EXCEPT !.ph = "back", !.st = st, !.start_ms = 0]

Poll ==
  /\ Waiting({"poll"})
  /\ GoOn(IF done THEN "okcoll" ELSE "coll")

nora_i2c_ll_has_collision ==
  /\ Waiting({"coll", "okcoll"})
  /\ IF stat \cap {"IWCOL", "BCL"} # {}
     THEN ComeBack("ERR_COLLISION")
     ELSE GoOn(IF call.ph = "coll" THEN "err" ELSE "okerr")

nora_i2c_ll_has_error ==
  /\ Waiting({"err", "okerr"})
  /\ IF stat \cap FaultBits # {} THEN ComeBack("ERR_BUS")
     ELSE IF call.ph = "err" THEN GoOn("timer") ELSE ComeBack("OK")

PollTimer ==
  /\ Waiting({"timer"})
  /\ IF timeout_expired THEN ComeBack("ERR_TIMEOUT") ELSE GoOn("poll")

WaitNext ==
  \/ Poll
  \/ nora_i2c_ll_has_collision
  \/ nora_i2c_ll_has_error
  \/ PollTimer

-----------------------------------------------------------------------------
(* What the callers of wait_until() make of its status.                    *)

Back(stages, st) == call.at \in stages /\ call.ph = "back" /\ call.st = st

Next_stage(stage) == [call EXCEPT !.at = stage, !.ph = "issue", !.st = "OK"]

(* A failed step: nora_i2c_read() and the write sequence drop the status   *)
(* of their STOP, the repeated-START sequence goes by it.                  *)
Fail(st) ==
  LET stage == IF call.at \in WriteStages \/ call.op = "read"
               THEN "quiet" ELSE "abort"
  IN  call' = [Next_stage(stage) EXCEPT !.orig = st]

TransferFails ==
  /\ \E st \in WaitStatuses \ {"OK"} :
        Back(Stages \ StopStages, st) /\ Fail(st)
  /\ UNCHANGED <<regs, hal, now, calm>>

Started ==
  /\ Back({"start"}, "OK")
  /\ call' = Next_stage(IF call.op = "read" THEN "r_ready" ELSE "w_ready")
  /\ UNCHANGED <<regs, hal, now, calm>>

Restarted ==
  /\ Back({"restart"}, "OK")
  /\ call' = Next_stage("r_ready")
  /\ UNCHANGED <<regs, hal, now, calm>>

Ready ==
  /\ Back({"w_ready", "r_ready"}, "OK")
  /\ call' = Next_stage(IF call.at = "w_ready" THEN "w_sent" ELSE "r_sent")
  /\ UNCHANGED <<regs, hal, now, calm>>

(* Mutant: a NACK is reported without a STOP.                              *)
Mut_nack_no_stop ==
  /\ Back({"w_sent", "r_sent"}, "OK")
  /\ "ACKSTAT" \in stat
  /\ call' = Rest("ERR_NACK")
  /\ UNCHANGED <<regs, hal, now, calm>>

SentNacked ==
  /\ Back({"w_sent", "r_sent"}, "OK")
  /\ "ACKSTAT" \in stat
  /\ Fail("ERR_NACK")
  /\ UNCHANGED <<regs, hal, now, calm>>

(* Mutant: the count is tested after it is taken down.                     *)
Mut_sent_more_no_guard ==
  /\ Back({"w_sent"}, "OK")
  /\ "ACKSTAT" \notin stat
  /\ call' = [Next_stage("w_ready") EXCEPT !.tx = call.tx - 1]
  /\ UNCHANGED <<regs, hal, now, calm>>

SentMore ==
  /\ Back({"w_sent"}, "OK")
  /\ "ACKSTAT" \notin stat
  /\ call.tx > 0
  /\ call' = [Next_stage("w_ready") EXCEPT !.tx = call.tx - 1]
  /\ UNCHANGED <<regs, hal, now, calm>>

(* The write phase is over: its transaction is pending until a STOP.       *)
SentAll ==
  /\ Back({"w_sent"}, "OK")
  /\ "ACKSTAT" \notin stat
  /\ call.tx = 0
  /\ pending_set
  /\ call' = CASE call.op = "write" -> Next_stage("stop")
               [] call.op = "write_read" -> Next_stage("restart")
               [] OTHER -> Rest("OK")
  /\ UNCHANGED <<regs, now, calm>>

ReaderAddressed ==
  /\ Back({"r_sent"}, "OK")
  /\ "ACKSTAT" \notin stat
  /\ call' = Next_stage("rx")
  /\ UNCHANGED <<regs, hal, now, calm>>

(* Reading I2CxRCV clears RBF.                                             *)
nora_i2c_ll_read_byte_get ==
  /\ Back({"rx"}, "OK")
  /\ stat' = stat \ {"RBF"}
  /\ call' = Next_stage("ack")
  /\ UNCHANGED <<conl, trn, bus, drv, hal, now, calm>>

Acked ==
  /\ Back({"ack"}, "OK")
  /\ call' = IF call.rx > 1
             THEN [Next_stage("rx") EXCEPT !.rx = call.rx - 1]
             ELSE Next_stage("stop")
  /\ UNCHANGED <<regs, hal, now, calm>>

(* nora_i2c_read() has nothing pending to clear: there pending_clear()     *)
(* changes nothing.                                                        *)
StopDone ==
  /\ Back({"stop"}, "OK")
  /\ pending_clear
  /\ call' = Rest("OK")
  /\ UNCHANGED <<regs, now, calm>>

AbortDone ==
  /\ Back({"abort"}, "OK")
  /\ pending_clear
  /\ call' = Rest(call.orig)
  /\ UNCHANGED <<regs, now, calm>>

QuietDone ==
  /\ \E st \in WaitStatuses : Back({"quiet"}, st)
  /\ call' = Rest(call.orig)
  /\ UNCHANGED <<regs, hal, now, calm>>

RecoverDone ==
  /\ Back({"recover"}, "OK")
  /\ call.op # "deinit"
  /\ pending_clear
  /\ call' = Rest("ERR_TIMEOUT")
  /\ UNCHANGED <<regs, now, calm>>

(* Mutant: the pending state goes whatever became of the STOP.             *)
Mut_stop_fails_clears ==
  /\ \E st \in WaitStatuses \ {"OK"} :
        /\ \/ Back({"stop", "abort"}, st)
           \/ Back({"recover"}, st) /\ call.op # "deinit"
        /\ call' = Rest(st)
  /\ pending_clear
  /\ UNCHANGED <<regs, now, calm>>

(* Mutant: a STOP that fails after a failed transfer clears it as well.    *)
Mut_abort_clears ==
  /\ \E st \in WaitStatuses \ {"OK"} :
        /\ \/ Back({"stop", "abort"}, st)
           \/ Back({"recover"}, st) /\ call.op # "deinit"
        /\ call' = Rest(st)
  /\ IF call.at = "abort" THEN pending_clear ELSE UNCHANGED hal
  /\ UNCHANGED <<regs, now, calm>>

(* The transaction stays pending and the STOP's own status is the result.  *)
StopFails ==
  /\ \E st \in WaitStatuses \ {"OK"} :
        /\ \/ Back({"stop", "abort"}, st)
           \/ Back({"recover"}, st) /\ call.op # "deinit"
        /\ call' = Rest(st)
  /\ UNCHANGED <<regs, hal, now, calm>>

(* nora_i2c_deinit() goes on whatever its recovery returned.               *)
DeinitRecovered ==
  /\ call.op = "deinit"
  /\ \E st \in WaitStatuses :
        /\ Back({"recover"}, st)
        /\ ForceOff(IF st = "OK" THEN "ERR_TIMEOUT" ELSE st)
  /\ UNCHANGED <<now, calm>>

BackNext ==
  \/ TransferFails \/ Started \/ Restarted \/ Ready
  \/ SentNacked \/ SentMore \/ SentAll
  \/ ReaderAddressed \/ nora_i2c_ll_read_byte_get \/ Acked
  \/ StopDone \/ AbortDone \/ QuietDone \/ RecoverDone
  \/ StopFails \/ DeinitRecovered

-----------------------------------------------------------------------------
EngineNext == IssueNext \/ WaitNext \/ BackNext

Hardware == HwNext /\ UNCHANGED <<hal, now, call, calm>>

Next == CallNext \/ EngineNext \/ Tick \/ Hardware

Spec == Init /\ [][Next]_vars

(* The processor runs the call it is in.  Nobody has to make a call.       *)
EngineFairness == WF_vars(EngineNext)

(* The wires work: every request and every byte completes.                 *)
HealthySpec == Spec /\ EngineFairness /\ HwFairness

(* The wires may be dead, but the caller's millisecond tick goes on.       *)
TickingSpec == Spec /\ EngineFairness /\ WF_vars(Tick)

-----------------------------------------------------------------------------
(* What the engine promises.                                               *)

(* The pending state agrees with the place the running call has got to:    *)
(* the write half of a transfer and its clean-up STOP run with nothing     *)
(* pending, everything from the repeated START on with the write half      *)
(* pending, and nora_i2c_read() never touches it.  It is what makes the    *)
(* order of pending_set(), stop_quiet() and pending_clear() in the code    *)
(* safe, and it is inductive.                                              *)
PendingMatchesStage ==
  /\ call.at # "rest" => g_initialized
  /\ ~g_initialized => g_pending_state = "NONE"
  /\ call.at \in WriteStages \cup {"quiet"} =>
       g_pending_state = "NONE" /\ call.op \in Writes \cup {"read"}
  /\ call.at \in {"w_ready", "w_sent"} => call.op # "read"
  /\ call.at \in {"restart", "abort"} =>
       /\ g_pending_state = "MASTER_WRITE"
       /\ call.op \in {"write_read", "read_after_restart"}
  /\ call.at \in ReadStages =>
       call.op \in {"read", "write_read", "read_after_restart"}
  /\ call.at \in ReadStages \cup {"stop"} =>
       (g_pending_state = "NONE" <=> call.op = "read")
  /\ call.at = "recover" => g_pending_state = "MASTER_WRITE"

(* One successful call leaves the next one what it is entitled to: nothing *)
(* requested, moving or unread, no device driving SDA, and the bus held    *)
(* open exactly when g_pending_state says so.  So calls that all return OK *)
(* can follow each other for ever (README, "safe back-to-back").           *)
OkLeavesCalm ==
  (call.at = "rest" /\ calm /\ call.st = "OK") => Calm

(* A call that found the peripheral calm asks for one thing at a time: no  *)
(* request bit is set and no byte written while another one is outstanding *)
(* (the polling between the primitives), unless it gave up waiting.        *)
RequestsDoNotOverlap ==
  [][(/\ calm
      /\ call.ph = "issue" /\ call'.ph = "poll"
      /\ call.at \notin {"w_ready", "r_ready"}
      /\ call.orig # "ERR_TIMEOUT") => ~Busy]_vars

(* START is for an instance with nothing pending, a repeated START for one *)
(* whose write phase is pending (begin_independent_transaction(), the      *)
(* guard of nora_i2c_master_read_after_restart(), write_read's order).     *)
ConditionsFollowPending ==
  [][/\ ("SEN" \in conl' \ conl) => g_pending_state = "NONE"
     /\ ("RSEN" \in conl' \ conl) => g_pending_state = "MASTER_WRITE"]_vars

(* In a call that found the peripheral calm a pending transaction ends     *)
(* with the wires free and faultless ("keep the transaction pending ...    *)
(* instead of starting a new transfer on a stuck bus", the comment of      *)
(* stop_pending_sequence()).  The one exception is the clean-up of a step  *)
(* that timed out: the module may drop a PEN written beside the request    *)
(* that is still set, and stop_fully_done() takes that for a STOP that     *)
(* completed; the call then returns ERR_TIMEOUT.  nora_i2c_deinit() and    *)
(* nora_i2c_init() end it too.                                             *)
PendingEndsReleased ==
  [][(/\ calm /\ call.at # "rest" /\ call.op # "deinit"
      /\ g_pending_state = "MASTER_WRITE" /\ g_pending_state' = "NONE") =>
        \/ ~bus /\ stat \cap FaultBits = {}
        \/ /\ call.at = "abort" /\ call.orig = "ERR_TIMEOUT"
           /\ call'.st = "ERR_TIMEOUT"]_vars

(* A call recovers a pending transaction exactly when it is as old as      *)
(* pending_timeout_ms says, wherever the clock wrapped meanwhile, and a    *)
(* stale one is never continued; nothing is claimed of one that has been   *)
(* left for the whole range of the clock (pending_timeout_expired()).      *)
RecoveryWhenDue ==
  [][(/\ call.at = "rest" /\ call'.at # "rest"
      /\ g_pending_state # "NONE" /\ age < ClockMod) =>
        (call'.at = "recover" <=>
           pending_timeout_enabled /\ age >= g_cfg.pending_timeout_ms)]_vars

(* A byte is only asked of a device that was told to go on, and a transfer *)
(* that went well never asks for its STOP while a device drives SDA: the   *)
(* last byte is NACKed (read_byte_blocking()'s ack argument).              *)
DeviceReleasedBeforeStop ==
  (calm /\ call.ph = "issue") =>
     /\ call.at = "rx" => drv
     /\ call.at = "stop" => ~drv

(* With working wires and nobody else on them, every call leaves the       *)
(* peripheral calm whatever it returns, ERR_NACK included (the clean-up    *)
(* STOPs).                                                                 *)
EveryReturnLeavesCalm == call.at = "rest" => Calm

(* Every blocking call returns.                                            *)
CallsReturn == (call.at # "rest") ~> (call.at = "rest")

(* A call with a timeout of its own returns on dead wires too, the stages  *)
(* of its clean-up or recovery included.  (With timeout_ms = 0 the STOP of *)
(* a recovery polls for as long as the wires are dead.)                    *)
TimedCallsReturn ==
  (call.at # "rest" /\ timeout_enabled) ~> (call.at = "rest")

(* nora_i2c_deinit() on a pending instance is a way out (its comment),     *)
(* dead wires or not, whatever pending timeout is set.                     *)
DeinitGetsOut ==
  (call.op = "deinit" /\ timeout_enabled) ~> ~g_initialized

-----------------------------------------------------------------------------
(* The abstract specification it implements.  A call takes effect when it  *)
(* returns, so while it runs the session is the one it was called in.      *)

session_now ==
  IF ~g_initialized THEN "off"
  ELSE IF g_pending_state = "NONE" THEN "idle" ELSE "held"

session_called_in ==
  IF call.at = "recover" \/ call.op \in {"read_after_restart", "stop"}
  THEN "held" ELSE "idle"

session_bar == IF call.at = "rest" THEN session_now ELSE session_called_in
result_bar  == IF call.at = "rest" THEN call.st ELSE "none"

(* From the end of the write phase on a write is open.                     *)
open_bar ==
  \/ call.at \in {"restart", "abort", "recover"}
  \/ call.at \in ReadStages \cup {"stop"} /\ call.op # "read"

failed_bar ==
  CASE call.at = "recover"             -> "ERR_TIMEOUT"
    [] call.at \in {"quiet", "abort"} -> call.orig
    [] OTHER                           -> "OK"

release_bar ==
  IF call.at \in StopStages /\ call.ph = "back" THEN call.st ELSE "none"

Session == INSTANCE NoraI2CSession WITH
  session <- session_bar, doing <- call.op, open <- open_bar,
  failed <- failed_bar, release <- release_bar, result <- result_bar

(* What the transfer ran into and what wait_until() said of the STOP       *)
(* determine, on each of the failure paths, what a call returns and        *)
(* whether it leaves a transaction pending (the ordering of pending_set(), *)
(* stop_quiet() and pending_clear(), and whose status each of them         *)
(* returns): pending exactly if a write had gone out and its STOP failed.  *)
(* It is about the record g_pending_state; how far that can be trusted of  *)
(* the wires is said by OkLeavesCalm and PendingEndsReleased.              *)
ImplementsSession == Session!Spec

-----------------------------------------------------------------------------
(* What comments and documentation say of it and the code does not do.     *)

(* "starting a new transfer on a stuck bus" is what the comment of         *)
(* stop_pending_sequence() wants to rule out, "waiting for the request bit *)
(* to retire before starting the next transfer" what stop_fully_done() is  *)
(* for: no START is requested while a STOP is outstanding.                 *)
NoStartDuringStop ==
  [][(call.at = "start" /\ call.ph = "issue" /\ call'.ph = "poll")
       => "PEN" \notin conl]_vars

(* "a later public call detects an expired pending transaction, attempts   *)
(* STOP, clears the pending state and returns ERR_TIMEOUT" (README): a     *)
(* recovery that has seen its STOP complete goes on to do so, and is not   *)
(* put off by a fault the stale transaction left latched.                  *)
CompletedRecoveryReported ==
  [][(call.at = "recover" /\ call.ph \in {"okcoll", "okerr"} /\ call'.ph = "back")
       => call'.st = "OK"]_vars

(* "safe back-to-back transactions" (README): when a call asks for a byte, *)
(* no byte of an earlier call is still there to be taken for it.           *)
NoStaleByte ==
  [][(call.at = "rx" /\ call.ph = "issue" /\ call'.ph = "poll")
       => "RBF" \notin stat]_vars

=============================================================================
