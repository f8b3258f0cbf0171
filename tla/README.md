# Verification of nora-hal-dspic33ck-i2c

TLA+ models of the I2C HAL in `src/src/`, TLC runs that check them on small
instances, and TLAPS proofs of the results that matter most. `PROJECT.json`
lists the runs, the source lines of every definition, the mutants that show
each property can fail, the findings and the hazards.

    tlc -config MasterFaults.cfg MCMaster      # any run: <name>.cfg with its MC module
    tlapm NoraI2CMasterProofs.tla              # any proof module

Paths below are relative to `src/src/`; the prefix `nora_i2c_dspic33ck_` of
file names is left out (`master.c`, `slave.c`, `common.c`, `device.c`, `reg.h`).

## 1. The system

The HAL drives up to three I2C instances of a dsPIC33CK. Instances share
nothing (every array is indexed by the instance), so one is modelled.

| part | state | operations | modelled in |
|---|---|---|---|
| blocking master engine (`master.c`) | `g_initialized`, `g_get_ms`, `g_timeout_ms`, locals of the running call | `nora_i2c_init`, `_deinit`, `_set_bus_speed`, `_write`, `_read`, `_write_read`, `_master_write_no_stop`, `_master_read_after_restart`, `_master_stop`; the `_ll_` primitives below them | `NoraI2CMaster` |
| pending protocol (`master.c`) | `g_pending_state`, `g_pending_start_ms`, `g_pending_timeout_ms` | `pending_set`, `pending_clear`, recovery of a stale transaction | `NoraI2CMaster` |
| roles and lifecycle (`common.c`, `master.c`, `slave.c`) | `g_role`, `g_initialized`, `g_active`, `g_cfg`, I2CEN, I2CxBRG, `_SI2CxIE`, `_SI2CxIF` | both inits, both deinits, speed change, entry of the vector | `NoraI2CLifecycle` |
| slave engine (`slave.c`) | `g_reading`, the snapshot of I2CxSTAT, SCL held or not | `_SI2CxInterrupt` -> `nora_i2c_slave_event_irq` -> `slave_service`, four callbacks | `NoraI2CSlave` |
| register layer (`reg.h`) | I2CxCONL, I2CxSTAT, I2CxTRN, I2CxRCV | set / clear / write one bit | `NoraI2CRegs` |
| the I2C module and the wires | - | external: clears request bits, sets flags, answers ACK or NACK, loses arbitration | `Hw*` in `NoraI2CRegs`, `Bus*` in `NoraI2CSlave` |
| I2CxBRG (`common.c:81-111`) | none | `nora_i2c_calc_brg` | `NoraI2CBrg` |
| both engines on one bus | - | the master of one instance against the slave of another | `NoraI2CLink` |
| priority setters, presence, register tables, status names, `irq_*` stubs | none the driver depends on | look-ups and argument checks | not modelled |

Interaction: the public master calls are blocking and made by one caller; they
share the peripheral with nobody but the module itself, which works between any
two register accesses. The slave vector preempts the lifecycle calls. Callbacks
are the application's; they do not call back into the HAL in the models.

What is hard here:

- **The module moves on its own.** A request bit retires, a byte arrives or a
  fault latches between any two reads of a polling loop.
- **Failure inside a failure path.** A transfer fails, its STOP fails, the
  recovery of that STOP fails; each path keeps or drops the pending state.
- **Time.** Two timeouts over a clock that wraps and that may be absent.
- **Left-overs.** Sticky faults, an unread byte, a request bit still set.
- **The vector against the bus.** The slave clears its flag, takes one snapshot
  and acts on it while the bus goes on as soon as SCL is released.
- **Five records of one fact.** Role, two engine flags, I2CEN and the interrupt
  enable are written one after the other with the vector in between.
- **Two slow ends.** A master that polls and a slave that is interrupted hold
  each other up through SCL alone.

What makes each component correct: the master never starts on a bus it holds
open, never asks for two things at once, keeps a transaction pending until the
bus is released, leaves nothing behind for the next call, returns and records
what its transfer and its STOP came back with, and always returns if it has a
tick; the
lifecycle never lets both engines own the instance, never shows the vector half
a configuration, and runs the master at the rate asked for; the slave loses no
ACKed byte, never lets the master run ahead of it when it stretches, calls back
in an order an application can rely on, and never keeps SCL; together they
agree on the bytes of a transfer and on whether it is over.

## 2. Modules

```
 abstract            detailed          proofs (of the module above or beside)

 NoraI2CSession <--- NoraI2CMaster --- NoraI2CMasterProofs
                       |   |             ^ NoraI2CMasterCalmProofs
             NoraI2CRegs   |             ^ NoraI2CSessionProofs
                           |
                      NoraI2CLink ---- NoraI2CLinkProofs
                           |             (uses MasterCalm- and CallbacksProofs)
 NoraI2CCallbacks <- NoraI2CSlave ---- NoraI2CSlaveProofs
                                         ^ NoraI2CCallbacksProofs
 NoraI2CBrg <------- NoraI2CLifecycle  NoraI2CBrgProofs
                                         ^ NoraI2CLifecycleProofs
```

The detailed modules are specifications by themselves; each has an MC module
(`MCMaster`, `MCLifecycle`, `MCSlave`, `MCLink`) with the values of its constants.

### NoraI2CRegs
`conl` and `stat` are the sets of bits set in I2CxCONL and I2CxSTAT. `bus` (a
START of ours without a STOP) and `drv` (an ACKed device drives SDA) are what
the wires know and no register shows. `Request`, `RequestAck` and `WriteTrn` are
the driver's accesses. What a request does while another is outstanding is not
said in the repository: `Overlap` lets the module take both or drop the second.
`Hw*` is the module: a request bit clears when its condition is on the wires
(`master.c:22-31`), TBF clears before TRSTAT, TRSTAT with the device's answer in
ACKSTAT, a byte that finds RBF set makes I2COV. Nothing forces any of it to
happen, so dead wires and a stretched clock are in every run without
`HwFairness`. Fault bits stay until START or init clears them.

### NoraI2CMaster
`call` is the activation of the public function in progress: `op`, the stage
`at` it has got to, the phase `ph` inside `wait_until()`, bytes left, the status
on its way back, the status the clean-up will restore (`orig`), and `start_ms`.

- A *call* action does what the function does up to its first register access:
  argument check, initialized check, pending timeout, pending state.
- An *issue* action is one `_ll_*_issue` and the `timeout_start_ms()` of the
  `wait_until()` it opens.
- `Poll`, `nora_i2c_ll_has_collision`, `nora_i2c_ll_has_error`, `PollTimer` are
  the register reads of `wait_until()` in their order, one per step, the two
  that follow a true `done_fn` included (`okcoll`, `okerr`).
- A *back* action is what the caller makes of the status: `SentNacked`,
  `TransferFails`, `StopFails` and so on. `check_nack` is `false` at every call
  of `wait_until()`, so `check_bus_fault()` is never reached.

`StopStages` are the four ways `stop_quiet()` is used: its status returned and
the pending state cleared on success (`stop`), dropped (`quiet`), surfaced over
the original error (`abort`), turned into ERR_TIMEOUT (`recover`). The STOP of
`nora_i2c_read()` is a `stop` with nothing pending.

Abstractions: payload bytes are not modelled, the address byte only by its
direction; invalid arguments and absent instances are `RejectArgs`; `deinit` and
`set_bus_speed` read TRSTAT and then CONL, one step here: the module never sets
either on its own, so the later read decides. `init` and `deinit` are one step
each, since nothing but the module runs beside them (their inner steps, with the
vector in between, are in `NoraI2CLifecycle`). The order of a request and a
clear of the same register inside one accessor is not split (`reg.h:79-87`);
`RequestsDoNotOverlap` is the condition under which it does not matter.

### NoraI2CSession
What the API makes of its calls: an instance is off, idle or held, that is,
recorded as held open by a write without STOP, and a call moves it when it
returns. Two outcomes decide where to: what the transfer ran into (`failed`) and
what became of the STOP (`release`). `Written`, `Break` and `Stop` let them be
anything; once they are known, and with them whether a write had gone out
(`open`), `Return` leaves no choice: `Closed` after a good STOP, with the first
error as the result; `StaysOpen` after a bad one, with the STOP's error instead;
`Forgotten` if no write was open, where nothing is recorded and the STOP's error
is only reported if there is no other; `LeaveOpen` for the write without STOP. A
recovery is a call that counts as timed out from the start. So ERR_TIMEOUT,
ERR_BUS and ERR_COLLISION alone do not tell a caller whether the instance is
idle or held; ERR_NACK and OK do.

`NoraI2CMaster` implements it with the mapping at its end: while a call runs the
session is the one it was made in (`session_called_in`), `open` follows from the
stage, `failed` is `orig` or the recovery, `release` the status with which
`wait_until()` came back from the STOP. `pending_set()` in the middle of a write
is not seen as a change of the session; a failure path that cleared or kept the
pending state against the outcome of its STOP, or returned the other one of two
errors, would be a step the session does not have. All of it is about the record
`g_pending_state` and not about the wires: that the two agree is
`OkLeavesCalm` and `PendingEndsReleased`, and where they do not, finding 4.

### NoraI2CLifecycle
One step per write that another party can see: CONL cleared and set up,
I2CxBRG, the engine's flag, the role, the line's flag and enable bit, I2CEN.
`EnterVector` preempts any of them when the line is enabled and its flag set;
`HwEvent` raises the flag whenever I2CEN is set, in either role. `AsksFirst`
says whether the application only calls `nora_i2c_slave_deinit()` on an instance
that is a slave or that no master holds. Writing the enable bit takes effect at
once. A slave may be initialized again while it is one: `g_cfg` is then copied
(`sinit_copy`, `torn` until the last word) with its line still enabled.
`prompt` is the assumption that an enabled interrupt is taken before the next
write of the code it interrupts; it is checked both ways, and the two
properties about a re-initialization that need it say so. `asked` is history:
the rate of the last initialization or speed change that was not refused.

### NoraI2CBrg
`nora_i2c_calc_brg()` over the integers, which is exact: its products and
differences stay within 64 bits, and what the proofs show of its subtraction is
that it never goes below zero. `ClosestRate` says what the value is good for in
terms of the SCL period of the repository's README, not of the formula.
`NoraI2CLifecycle` writes it where `init` and `set_bus_speed` do.

### NoraI2CSlave
`isr` is the next statement of the vector. `snap` is the local `stat` of
`slave_service()`. The bus steps only while SCL is not held; it is held after an
address match, after each data byte if `stretch`, and after each byte sent that
the master ACKed (`slave.c:27-30`). ACKSTAT keeps its value until the next byte
is sent, P until the next START. `owed` and `ahead` are history: bytes ACKed and
not given to `on_rx_byte()`, bytes taken from `on_tx_byte()` and not sent. They
saturate at `MaxAhead`.

`prompt` is a timing assumption and is checked both ways: the vector reads
I2CxSTAT before the next bus event once it has cleared its flag. Those are a few
instructions against a bit time of 2.5 us, but a higher-priority interrupt can
sit between them. Properties that need it, or `clock_stretch`, say so (`Paced`).
Only transactions addressed to this slave are modelled: other traffic raises
nothing but its STOP.

### NoraI2CCallbacks
What the application behind the slave can rely on, in terms of the callbacks
alone: `on_rx_byte()` only in a transaction the master writes in,
`on_tx_byte()` only in one it reads in and right after its `on_addr_match()`,
`on_stop()` once per open transaction unless the bus is `loose`. It does not
promise an `on_stop()` for every transaction (a repeated START, or a vector
slower than a STOP and a START, skips it). `NoraI2CSlave` implements it; the
callback being made is the step `isr` has got to.

### NoraI2CLink
`NoraI2CMaster`, which it extends, and an instance of `NoraI2CSlave` on one bus:
two instances of the HAL or two devices. Neither environment is free any more: each `Hw*` action
of the master's module is joined with the `Bus*` action it is on the wires
(`Condition`, `ByteTaken`, `ByteRefused`, `Answer`, `Stop`), and only happens
while the slave does not hold SCL. The bits of a byte read are clocked before
its ninth clock, so `ByteRead` and `Answer` are two steps. `got` and `taken`
count callbacks; `job` is what was asked of the master. Neither count saturates:
a callback too many would make its property false, at any length.

`NoStandoff` is the state behind `LinkCallsReturn`: a call waits, its module has
something to do (`Outstanding`), and either nobody holds SCL and the wires are
where that can happen (`WiresFit`), or the vector still has to run. It says so
with the guards of the steps and not with ENABLED, which the prover does not
handle.

## 3. Runs

| run | properties | states | what it shows |
|---|---|---|---|
| MasterFaults | TypeOK, PendingMatchesStage, OkLeavesCalm, DeviceReleasedBeforeStop, RequestsDoNotOverlap, ConditionsFollowPending, PendingEndsReleased, ImplementsSession | 2.4 million | all call sequences under every fault |
| MasterHealthy | EveryReturnLeavesCalm, CallsReturn | 2 706 | working wires, no tick, longer transfers |
| MasterDead | TimedCallsReturn, DeinitGetsOut, RecoveryWhenDue | 424 890 | a tick, dead wires, two timeouts over a clock that wraps |
| LifecycleAsks | OneEngine, RecordsAgree, ServesSlaveOnly, FreshSlaveUndisturbed, ServesWholeConfig, RunsAtAskedRate, ClockChangesOff | 1 704 | every interleaving of the lifecycle with the vector |
| Slave | AckedBytesDelivered, LoadedBeforeRelease, OneByteAhead, StretchPreventsOverflow, SclHeldForService, CallbacksInOrder, SclReleased, OverflowCleared | 23 881 | the vector against every master |
| Link | TransfersMatch, AppFollowsPending, StretchingSlaveAccepts, NoStandoff, ReadsLoadedBytes, LinkCallsReturn | 163 583 | the two engines against each other |
| MasterStuckBus, MasterRecovery, MasterStaleByte, LifecycleAny, SlaveStopTwice, SlaveHang | one each | | findings, section 5 |

**Bounds.** `ClockMod = 2` is the smallest clock that advances and wraps; every
difference of two readings occurs, and a timeout of 1 is both met and missed.
MasterDead has `ClockMod = 3` and two configurations: one whose pending timeout
is the longer, and one with no call timeout, where `TimedCallsReturn` and
`DeinitGetsOut` claim nothing (a recovery's STOP may poll for ever there).
`age` is history that does not wrap, for `RecoveryWhenDue`.
Transfers are short because the engine's loops carry nothing from one byte to
the next but the count: `RxLens = {2}` has a byte that is ACKed and one that is
NACKed, `{1, 3}` a single byte and a middle one; `TxLens = {0}` is the bus-scan
probe, `{1}` and `{2}` a first, middle and last byte. The calls themselves are
unbounded in number. The lifecycle is finite as it is; `AllRates` has a usual
rate, one too slow for the register and two around the fastest it can express.
In the slave the counters saturate at 2; the properties say that they stay at 0
or 1. In Link the slave stretches. Both values of `stretch` take too long for a
routine run; for them `NoStandoff` and the inductive invariant of
`NoraI2CLinkProofs`, from which the other properties follow, were checked with
`TxLens = {0, 1}` and `RxLens = {2}` (1.7 million states). In MasterDead and the master's finding runs overlapping requests
are taken one way only and collisions are off, to keep the liveness graph and
the traces small; MasterFaults has all of them.

**Fairness.** `EngineFairness`: the processor runs the call it is in, and
nothing else is claimed of the application (no call is ever forced).
`HwFairness` (MasterHealthy only): each condition and each byte completes, a
STOP only once no device drives SDA. `WF(Tick)` (MasterDead): the application's
tick goes on; a tick is not taken while the elapsed time of a wait is at its
largest value, which stands for a loop turn being much shorter than 2^32 ms. The
slave's `WF(VectorNext)`: an enabled interrupt is taken and its vector ends. The
bus master owes nobody a step. Link has weak fairness of the engine, the vector
and the wires: both processors run, and a module goes on when nobody holds SCL.

**Deadlock** is checked in every run but Slave and SlaveHang, where without
`prompt` the bus really can stop (finding 8).

## 4. Proofs

Each proof module holds for every value of the constants, under the assumptions
of the module it is about, which TLC evaluates in the runs.

- **NoraI2CMasterProofs.** `IInv == TypeOK /\ PendingMatchesStage` is inductive:
  Init, ten calls, seven issues, four reads, sixteen returns, the tick and the
  module, one lemma per group. `PendingMatchesStage` is inductive by itself
  because it ties the pending state to the stage *and* the public function: a
  `stop` may be reached with nothing pending from `nora_i2c_read()` only, a
  `quiet` never with a pending write, so each of the failure paths finds what
  its code takes for granted. `ConditionsFollowPending` follows: only two
  actions set SEN or RSEN, in stages where the invariant fixes the pending
  state. `RecoveryWhenDue` needs `AgeFollowsClock`: the clock is ahead of the
  start of the pending write by its age, or by its age less one modulus.
- **NoraI2CMasterCalmProofs.** `CalmInv` is what `OkLeavesCalm` lacks to be
  inductive: inside a call that found the peripheral calm, and outside the
  clean-up after a timeout, for each stage which request may be outstanding
  (`OneThing`), that a fault bit means the bus is lost and everything stopped
  (`FaultIsLoss`), when the wires are open (`BusFollows`) and when a device
  drives SDA (`DriveFollows`). Its core is that a stage goes on only after its
  own bit retired, and that a register access with nothing outstanding is taken
  whatever `Overlap` says. `OkLeavesCalm`, `DeviceReleasedBeforeStop`,
  `RequestsDoNotOverlap` and `PendingEndsReleased` follow. Without
  collisions and without a timeout (`Undisturbed`) no call ever meets a fault
  (`FaultNeverMet`), and every return leaves the peripheral calm
  (`EveryReturnCalm`).
- **NoraI2CSessionProofs.** `NoraI2CMaster` implements `NoraI2CSession`: each
  group of actions is a step of the session or a stutter under the mapping. A
  poll with which a STOP comes back is `Stop`, a failed step is `Break`, the end
  of a write phase is `Written`; every way out of a call is one of the four
  returns with the values the mapping has there.
  Besides `IInv` it needs to know which function can be in which stage and what
  error a clean-up will report (`FrameMatchesStage`).
- **NoraI2CBrgProofs.** For every pair of frequencies the result is in
  1..0xFFFF, the subtraction does not wrap (`BrgInRange`), and the rate is the
  slowest not below the one asked for, or the nearest the register can express
  (`BrgIsClosest`). The facts about integer division it rests on are proved
  there (`Quotient`, `Monotone`, `DelayNat`).
- **NoraI2CLifecycleProofs.** `LInv` adds to the properties what is left of each
  role at every step of a call (`MasterHalf`, `SlaveHalf`), that an enabled line
  belongs to a slave (`LineHalf`) and what I2CxBRG holds at each step
  (`RateHalf`): between the write of an engine's flag and that of the role the
  records disagree, and the proof has to say how. Its theorems assume
  `AsksFirst`; run LifecycleAny shows they need it. `RunsAtAskedRate` uses
  `BrgIsClosest`. Type correctness is a conjunct of `LInv`.
- **NoraI2CSlaveProofs.** Three invariants, each under stronger assumptions than
  the one before. `SInv` relates the flags to what I2CxRCV holds (`FlagsMatch`)
  and says that while data is coming or unread the engine does not take itself
  to be read from, or an address that will put that right is still on its way
  (`DirectionLatched`). It gives `AckedBytesDelivered` with no assumption on the
  timing or on stretching; `SlaveTypeCorrect` is proved first. With `prompt` and
  any stretching, `HeldShape`: while SCL is held the byte or the answer it is
  held for is still due for service, past whatever the present entry of the
  vector decides (`HeldIsDue`), a master that reads meets an engine that knows
  (`ReadIsKnown`), and the flags a snapshot will see are not left over from an
  earlier transaction (`FlagsFresh`, which is where finding 8 breaks it without
  `prompt`). It gives `SclHeldForService`. With both (`Paced`): a byte is unread
  only while SCL is held (`BusWaits`), the vector that serves it still has SCL
  (`VectorServes`), and I2CxTRN is loaded exactly when the master may clock
  (`ReadFollows`). `StretchPreventsOverflow`, `LoadedBeforeRelease` and
  `OneByteAhead` follow.
- **NoraI2CCallbacksProofs.** `NoraI2CSlave` implements `NoraI2CCallbacks`. What
  the callbacks have told the application is the direction the engine has
  latched (`AppFollows`), a vector about to end a transaction has not read the
  next address (`StopAhead`), and on a paced bus a STOP not yet served belongs
  to a transaction the application is in (`StopOnce`).

- **NoraI2CLinkProofs.** `BothEnds`: a behaviour of the link is one of the master
  against any bus and one of the slave under any master. So the master's half of
  the invariant is cited (`IInv`, `CalmInv`, and `NoFault` from `FaultNeverMet`:
  one master and no timeouts). The slave's half is proved again over the
  definitions of its proof modules, because a theorem cannot be cited through
  INSTANCE; it adds that an unread byte and an unheard STOP are still to be
  served (`UnreadServed`, `StopServed`). `Joint` is what the two know of each
  other: the frame agrees with the job (`JobMatches`); each stage of the master
  finds the wires where it takes them to be (`Place`); and two counts, of what
  has gone over the wires in each direction and not of what the callbacks have
  counted so far (`Seen`, `Clocked`), agree with what is left of the job at each
  stage (`WriteTally`, `ReadTally`). The counts are what makes it inductive: the
  vector moves bytes from I2CxRCV through its hands into `got`, and out of
  `taken` into I2CxTRN, without changing them. A stretching slave never NACKs
  (`NoNack`). `TransfersMatch` and `AppFollowsPending` hold once the vector has
  caught up, because then `Seen` is `got` and `Clocked` is `taken`;
  `StretchingSlaveAccepts`, `ReadsLoadedBytes` and `NoStandoff` hold throughout.
  The lemmas `CallsMove`, `IssuesMove`, `WaitsMove` and `BacksMove` say once what
  each group of the master's steps does to a stage, so that `Joint` is proved
  over four kinds of step and not over thirty.

So every invariant, action property and refinement of every passing run is
proved. Model-checked only are the liveness properties: `CallsReturn`,
`TimedCallsReturn`, `DeinitGetsOut`, `SclReleased`, `OverflowCleared` and
`LinkCallsReturn`, since the prover does not do liveness under fairness. Two of
them have their safety half proved: `SclHeldForService` rules out the state in
which `SclReleased` would fail for good, `NoStandoff` that of `LinkCallsReturn`.

## 5. Findings

1. **MasterStuckBus** `NoStartDuringStop`: the clean-up STOP of a transfer with
   nothing pending drops its status (`master.c:1013`, `327`); when it times out,
   the next call asks for START with PEN still set. `master.c:1077-1080` and
   `1253-1256` want to rule that out.
2. **MasterRecovery** `CompletedRecoveryReported`: a latched fault makes the
   recovery of a stale transaction fail although its STOP completed
   (`master.c:1197`), and it stays pending. README 227-229 says it is cleared.
3. ERR_TIMEOUT from the recovery means both "recovered" and "my STOP timed out,
   still pending" (`master.c:965`; comment `982-985`). No run of its own:
   `NoraI2CSession`, which `ImplementsSession` and its proof show to be what the
   code does, has `Closed` and `StaysOpen` with that result.
4. `stop_fully_done()` cannot tell a STOP the module dropped from one that
   completed: both leave PEN clear (`master.c:1267`). After a repeated START that
   timed out, RSEN is still set when the clean-up writes PEN; a module that drops
   it lets `stop_quiet()` return OK at once, and the pending state goes with the
   bus held and no STOP made. `master.c:1077-1080` and `1101-1104` say that it
   only goes with a completed STOP. No run of its own: it is the exception in
   `PendingEndsReleased`. That property without its exception, in the place of
   `NoStartDuringStop` and with `Overlap = {"ignored"}`, is violated in 45 states
   (write phase, RSEN, timeout, `AbortDone`).
5. **MasterStaleByte** `NoStaleByte`: a byte that arrives after a read gave up
   is returned as the first byte of the next read (`master.c:1365`).
6. **LifecycleAny** `OneEngine`: `nora_i2c_slave_deinit()` on a live master
   releases the role but not the engine (`slave.c:165`); both engines can then
   own the instance. README 181: "only one role at a time".
7. **SlaveStopTwice** `ReentryRepeatsNoStop`: a STOP between the clearing of the
   flag and the snapshot calls `on_stop()` twice (`slave.c:233`).
8. **SlaveHang** `ReentryHoldsNoClock`: the same window at an address match: the
   re-entry takes a stale ACKSTAT for the master's NACK, and SCL is held for
   ever (`slave.c:222`). With a stale ACK it takes one byte too many from
   `on_tx_byte()` instead. `slave.c:250-251` calls a re-entry harmless.

1, 4 and 5 need a timeout or a fault first, 4 also a module that drops a request
made beside another; 7 and 8 need a bus event inside the window `prompt` excludes.

## 6. Plan

Done: the components, the two abstract specifications and their refinements,
the composition of both ends, and proofs of what is not temporal for each of
them. What is left, in order of importance:

1. The read-modify-write of `reg.h` split in two, to check what
   `RequestsDoNotOverlap` is the condition for.
2. Link with the master's timeouts: a call that gives up while the slave holds
   SCL, and what the slave's application then knows.
3. A ranking argument for `CallsReturn` as action properties (what each stage
   leaves strictly less of), the part of liveness the prover can check.

## 7. Not modelled

Payload bytes and addresses (no control depends on them beyond the direction and
the range check); the device tables and the priority setters (fixed at compile
time; argument checks and one register write each, and the vector preempts at
any point in the models whatever its priority); 10-bit and general-call
addressing (not handled by the code); the bus while another slave is addressed;
an application's own engine over the `_ll_` primitives, for which the repository
leaves the sequencing to the application; two callers on one instance, which the
blocking API does not support; `nora_i2c_status_str()` (a table) and the `irq_*`
stubs (they return ERR_UNSUPPORTED).
