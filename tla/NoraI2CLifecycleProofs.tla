----------------------- MODULE NoraI2CLifecycleProofs -----------------------
(***************************************************************************)
(* Proofs about NoraI2CLifecycle: the roles of an instance stay apart and  *)
(* each engine finds the peripheral as it left it, for an application that *)
(* asks before it releases the slave role.                                 *)
(***************************************************************************)
EXTENDS NoraI2CLifecycle, NoraI2CBrgProofs

MasterSteps == InitSteps \cup DeinitSteps \cup SpeedSteps
SlaveSteps  == SInitSteps \cup SDeinitSteps

(* While a call works on the master role nothing of the slave's is left.   *)
MasterHalf ==
  main \in MasterSteps =>
     /\ ~g_active /\ ~ie /\ g_role # "SLAVE"
     /\ main \notin {"init_off", "init_brg", "init_state", "deinit_role"} =>
          g_initialized
     /\ main \notin InitSteps \cup {"deinit_role"} => g_role = "MASTER"
     /\ main \in SpeedSteps \cup {"init_on"} =>
          shape = "MASTER" /\ g_role = "MASTER"
     /\ main \in InitSteps \ {"init_off"} => shape = "MASTER" /\ ~i2cen
     /\ main \in {"deinit_state", "deinit_role", "speed_brg", "speed_on"} =>
          ~i2cen
     /\ main = "deinit_role" => ~g_initialized
     /\ main # "speed_only"

(* While a call works on the slave role nothing of the master's is left.   *)
SlaveHalf ==
  main \in SlaveSteps =>
     /\ ~g_initialized /\ g_role # "MASTER"
     /\ main \in SInitSteps \ {"sinit_off"} => shape = "SLAVE" /\ ~i2cen
     /\ main \in {"sinit_role", "sinit_clear", "sinit_enable", "sinit_on"} =>
          g_active
     /\ main \in {"sinit_clear", "sinit_enable", "sinit_on"} => g_role = "SLAVE"
     /\ main = "sinit_on" => ie
     /\ (main \in SInitSteps \ {"sinit_on"} /\ ~again) => ~ie
     /\ main \in {"sinit_enable", "sinit_on"} => ~iflag
     /\ main \in SDeinitSteps \ {"sdeinit_mask"} => ~ie
     /\ main \in {"sdeinit_state", "sdeinit_role"} => ~i2cen
     /\ main = "sdeinit_role" => ~g_active

(* The vector runs with the line enabled, the line is enabled for a slave, *)
(* and no interrupt is left for a slave that is being set up again.        *)
LineHalf ==
  /\ ie => g_active /\ shape = "SLAVE"
  /\ vector # "idle" => ie
  /\ (main \in SInitSteps /\ ~again) => vector = "idle"
  /\ (main \in SInitSteps \ {"sinit_off"} /\ prompt) =>
       vector = "idle" /\ ~(ie /\ iflag)
  /\ g_cfg # "whole" => main = "sinit_state"

(* From the write of I2CxBRG to the next one it suits what was asked.      *)
RateHalf ==
  (\/ main = "rest" /\ g_initialized
   \/ main \in {"init_state", "init_role", "init_on", "deinit_off",
                "deinit_state", "speed_on"})
  => ClosestRate(brg, asked.fcy_hz, asked.bus_hz)

LInv ==
  TypeOK /\ RecordsAgree /\ MasterHalf /\ SlaveHalf /\ LineHalf /\ RateHalf

(* The register's range holds its reset value.                             *)
LEMMA MaxBrgNat == MaxBrg \in Nat /\ 0 \in 0 .. MaxBrg
<1>1. MaxBrg \in Nat
  BY DEF MaxBrg
<1>. QED  BY <1>1

(* What a write of I2CxBRG leaves.                                         *)
LEMMA BrgWritten ==
  ASSUME asked \in Rates, WriteBrg
  PROVE  brg' \in 0 .. MaxBrg /\ ClosestRate(brg', asked.fcy_hz, asked.bus_hz)
<1>1. asked.fcy_hz \in Nat \ {0} /\ asked.bus_hz \in Nat \ {0}
  BY LifecycleAssumption
<1>2. brg' \in 1 .. MaxBrg
  BY <1>1, BrgInRange DEF WriteBrg
<1>3. ClosestRate(brg', asked.fcy_hz, asked.bus_hz)
  BY <1>1, BrgIsClosest DEF WriteBrg
<1>4. brg' \in 0 .. MaxBrg
  BY <1>2, MaxBrgNat
<1>. QED  BY <1>3, <1>4

-----------------------------------------------------------------------------
(* Every step keeps the inductive invariant.                               *)

(* nora_i2c_init() finds nothing of a slave and leaves a master.           *)
LEMMA InitKeeps ==
  ASSUME LInv, nora_i2c_init
  PROVE  LInv'
<1>. USE DEF LInv, TypeOK, RecordsAgree, MasterHalf, SlaveHalf, LineHalf,
     RateHalf, MasterSteps, SlaveSteps, Steps, InitSteps, DeinitSteps,
     SpeedSteps, SInitSteps, SDeinitSteps, Roles, Preempted, Call, Step,
     engines, device, irq, args
<1>1. TypeOK'
  BY BrgWritten DEF nora_i2c_init, InitFrom
<1>2. RecordsAgree'
  BY DEF nora_i2c_init, InitFrom
<1>3. MasterHalf'
  BY DEF nora_i2c_init, InitFrom
<1>4. SlaveHalf'
  BY DEF nora_i2c_init, InitFrom
<1>5. LineHalf'
  BY DEF nora_i2c_init, InitFrom
<1>6. RateHalf'
  BY BrgWritten DEF nora_i2c_init, InitFrom
<1>. QED  BY ONLY <1>1, <1>2, <1>3, <1>4, <1>5, <1>6 DEF LInv

(* nora_i2c_deinit() leaves the instance to nobody.                        *)
LEMMA DeinitKeeps ==
  ASSUME LInv, nora_i2c_deinit
  PROVE  LInv'
<1>. USE DEF LInv, TypeOK, RecordsAgree, MasterHalf, SlaveHalf, LineHalf,
     RateHalf, MasterSteps, SlaveSteps, Steps, InitSteps, DeinitSteps,
     SpeedSteps, SInitSteps, SDeinitSteps, Roles, Preempted, Call, Step,
     engines, device, irq, args
<1>1. TypeOK'
  BY DEF nora_i2c_deinit
<1>2. RecordsAgree'
  BY DEF nora_i2c_deinit
<1>3. MasterHalf'
  BY DEF nora_i2c_deinit
<1>4. SlaveHalf'
  BY DEF nora_i2c_deinit
<1>5. LineHalf'
  BY DEF nora_i2c_deinit
<1>6. RateHalf'
  BY DEF nora_i2c_deinit
<1>. QED  BY ONLY <1>1, <1>2, <1>3, <1>4, <1>5, <1>6 DEF LInv

(* nora_i2c_set_bus_speed() ends with I2CEN as it found it.                *)
LEMMA SpeedKeeps ==
  ASSUME LInv, nora_i2c_set_bus_speed
  PROVE  LInv'
<1>. USE DEF LInv, TypeOK, RecordsAgree, MasterHalf, SlaveHalf, LineHalf,
     RateHalf, MasterSteps, SlaveSteps, Steps, InitSteps, DeinitSteps,
     SpeedSteps, SInitSteps, SDeinitSteps, Roles, Preempted, Call, Step,
     engines, device, irq, args
<1>1. TypeOK'
  BY BrgWritten DEF nora_i2c_set_bus_speed, SpeedFrom
<1>2. RecordsAgree'
  BY DEF nora_i2c_set_bus_speed, SpeedFrom
<1>3. MasterHalf'
  BY DEF nora_i2c_set_bus_speed, SpeedFrom
<1>4. SlaveHalf'
  BY DEF nora_i2c_set_bus_speed, SpeedFrom
<1>5. LineHalf'
  BY DEF nora_i2c_set_bus_speed, SpeedFrom
<1>6. RateHalf'
  BY BrgWritten DEF nora_i2c_set_bus_speed, SpeedFrom
<1>. QED  BY ONLY <1>1, <1>2, <1>3, <1>4, <1>5, <1>6 DEF LInv

(* nora_i2c_slave_init() finds nothing of a master and leaves a slave.     *)
LEMMA SlaveInitKeeps ==
  ASSUME LInv, nora_i2c_slave_init
  PROVE  LInv'
<1>. USE DEF LInv, TypeOK, RecordsAgree, MasterHalf, SlaveHalf, LineHalf,
     RateHalf, MasterSteps, SlaveSteps, Steps, InitSteps, DeinitSteps,
     SpeedSteps, SInitSteps, SDeinitSteps, Roles, Preempted, Call, Step,
     engines, device, irq, args
<1>1. TypeOK'
  <2>1. g_role' \in Roles /\ g_cfg' \in {"whole", "torn"} /\ shape' \in Roles
    BY DEF nora_i2c_slave_init, SlaveInitFrom
  <2>2. g_initialized' \in BOOLEAN /\ g_active' \in BOOLEAN
    BY DEF nora_i2c_slave_init, SlaveInitFrom
  <2>3. i2cen' \in BOOLEAN /\ ie' \in BOOLEAN /\ iflag' \in BOOLEAN
    BY DEF nora_i2c_slave_init, SlaveInitFrom
  <2>4. main' \in Steps
    BY DEF nora_i2c_slave_init, SlaveInitFrom
  <2>5. again' \in BOOLEAN
    BY DEF nora_i2c_slave_init, SlaveInitFrom
  <2>6. /\ brg' \in 0 .. MaxBrg /\ prompt' \in BOOLEAN /\ asked' \in Rates
       /\ vector' \in {"idle", "clear", "check", "service"}
    BY DEF nora_i2c_slave_init, SlaveInitFrom
  <2>. QED  BY <2>1, <2>2, <2>3, <2>4, <2>5, <2>6
<1>2. RecordsAgree'
  BY DEF nora_i2c_slave_init, SlaveInitFrom
<1>3. MasterHalf'
  BY DEF nora_i2c_slave_init, SlaveInitFrom
<1>4. SlaveHalf'
  BY DEF nora_i2c_slave_init, SlaveInitFrom
<1>5. LineHalf'
  BY DEF nora_i2c_slave_init, SlaveInitFrom
<1>6. RateHalf'
  BY DEF nora_i2c_slave_init, SlaveInitFrom
<1>. QED  BY ONLY <1>1, <1>2, <1>3, <1>4, <1>5, <1>6 DEF LInv

(* nora_i2c_slave_deinit() leaves it to nobody when it finds no master.    *)
LEMMA SlaveDeinitKeeps ==
  ASSUME LInv, AsksFirst, nora_i2c_slave_deinit
  PROVE  LInv'
<1>. USE DEF LInv, TypeOK, RecordsAgree, MasterHalf, SlaveHalf, LineHalf,
     RateHalf, MasterSteps, SlaveSteps, Steps, InitSteps, DeinitSteps,
     SpeedSteps, SInitSteps, SDeinitSteps, Roles, Preempted, Call, Step,
     engines, device, irq, args
<1>1. TypeOK'
  <2>1. g_role' \in Roles /\ g_cfg' \in {"whole", "torn"} /\ shape' \in Roles
    BY DEF nora_i2c_slave_deinit, SlaveDeinitFrom
  <2>2. g_initialized' \in BOOLEAN /\ g_active' \in BOOLEAN
    BY DEF nora_i2c_slave_deinit, SlaveDeinitFrom
  <2>3. i2cen' \in BOOLEAN /\ ie' \in BOOLEAN /\ iflag' \in BOOLEAN
    BY DEF nora_i2c_slave_deinit, SlaveDeinitFrom
  <2>4. main' \in Steps
    BY DEF nora_i2c_slave_deinit, SlaveDeinitFrom
  <2>5. again' \in BOOLEAN
    BY DEF nora_i2c_slave_deinit, SlaveDeinitFrom
  <2>6. /\ brg' \in 0 .. MaxBrg /\ prompt' \in BOOLEAN /\ asked' \in Rates
       /\ vector' \in {"idle", "clear", "check", "service"}
    BY DEF nora_i2c_slave_deinit, SlaveDeinitFrom
  <2>. QED  BY <2>1, <2>2, <2>3, <2>4, <2>5, <2>6
<1>2. RecordsAgree'
  BY DEF nora_i2c_slave_deinit, SlaveDeinitFrom, MayRelease
<1>3. MasterHalf'
  BY DEF nora_i2c_slave_deinit, SlaveDeinitFrom, MayRelease
<1>4. SlaveHalf'
  BY DEF nora_i2c_slave_deinit, SlaveDeinitFrom, MayRelease
<1>5. LineHalf'
  BY DEF nora_i2c_slave_deinit, SlaveDeinitFrom, MayRelease
<1>6. RateHalf'
  BY DEF nora_i2c_slave_deinit, SlaveDeinitFrom, MayRelease
<1>. QED  BY ONLY <1>1, <1>2, <1>3, <1>4, <1>5, <1>6 DEF LInv

(* Events only come to a peripheral that is on.                            *)
LEMMA HwEventKeeps ==
  ASSUME LInv, HwEvent
  PROVE  LInv'
<1>. USE DEF LInv, TypeOK, RecordsAgree, MasterHalf, SlaveHalf, LineHalf,
     RateHalf, MasterSteps, SlaveSteps, Steps, InitSteps, DeinitSteps,
     SpeedSteps, SInitSteps, SDeinitSteps, Roles, Preempted, Call, Step,
     engines, device, irq, args
<1>1. TypeOK'
  BY DEF HwEvent
<1>2. RecordsAgree'
  BY DEF HwEvent
<1>3. MasterHalf'
  BY DEF HwEvent
<1>4. SlaveHalf'
  BY DEF HwEvent
<1>5. LineHalf'
  BY DEF HwEvent
<1>6. RateHalf'
  BY DEF HwEvent
<1>. QED  BY ONLY <1>1, <1>2, <1>3, <1>4, <1>5, <1>6 DEF LInv

(* The vector only runs with its line enabled.                             *)
LEMMA EnterVectorKeeps ==
  ASSUME LInv, EnterVector
  PROVE  LInv'
<1>. USE DEF LInv, TypeOK, RecordsAgree, MasterHalf, SlaveHalf, LineHalf,
     RateHalf, MasterSteps, SlaveSteps, Steps, InitSteps, DeinitSteps,
     SpeedSteps, SInitSteps, SDeinitSteps, Roles, Preempted, Call, Step,
     engines, device, irq, args
<1>1. TypeOK'
  BY DEF EnterVector
<1>2. RecordsAgree'
  BY DEF EnterVector
<1>3. MasterHalf'
  BY DEF EnterVector
<1>4. SlaveHalf'
  BY DEF EnterVector
<1>5. LineHalf'
  BY DEF EnterVector
<1>6. RateHalf'
  BY DEF EnterVector
<1>. QED  BY ONLY <1>1, <1>2, <1>3, <1>4, <1>5, <1>6 DEF LInv

(* It changes nothing but its own flag.                                    *)
LEMMA VectorKeeps ==
  ASSUME LInv, nora_i2c_slave_event_irq
  PROVE  LInv'
<1>. USE DEF LInv, TypeOK, RecordsAgree, MasterHalf, SlaveHalf, LineHalf,
     RateHalf, MasterSteps, SlaveSteps, Steps, InitSteps, DeinitSteps,
     SpeedSteps, SInitSteps, SDeinitSteps, Roles, Preempted, Call, Step,
     engines, device, irq, args
<1>1. TypeOK'
  BY DEF nora_i2c_slave_event_irq
<1>2. RecordsAgree'
  BY DEF nora_i2c_slave_event_irq
<1>3. MasterHalf'
  BY DEF nora_i2c_slave_event_irq
<1>4. SlaveHalf'
  BY DEF nora_i2c_slave_event_irq
<1>5. LineHalf'
  BY DEF nora_i2c_slave_event_irq
<1>6. RateHalf'
  BY DEF nora_i2c_slave_event_irq
<1>. QED  BY ONLY <1>1, <1>2, <1>3, <1>4, <1>5, <1>6 DEF LInv

(* The inductive invariant holds in every reachable state.                 *)
THEOREM LifecycleInvariance == ASSUME AsksFirst PROVE Spec => []LInv
<1>1. Init => LInv
  BY LifecycleAssumption, MaxBrgNat
     DEF Init, LInv, TypeOK, RecordsAgree, MasterHalf, SlaveHalf, LineHalf,
     RateHalf, MasterSteps, SlaveSteps, Steps, InitSteps, DeinitSteps,
     SpeedSteps, SInitSteps, SDeinitSteps, Roles
<1>2. LInv /\ [Next]_vars => LInv'
  <2>. SUFFICES ASSUME LInv, [Next]_vars PROVE LInv'
    OBVIOUS
  <2>1. CASE UNCHANGED vars
    BY <2>1 DEF vars, engines, device, irq, args, LInv, TypeOK, RecordsAgree,
       MasterHalf, SlaveHalf, LineHalf, RateHalf
  <2>. QED
    BY <2>1, AsksFirst, InitKeeps, DeinitKeeps, SpeedKeeps,
       SlaveInitKeeps, SlaveDeinitKeeps, HwEventKeeps,
       EnterVectorKeeps, VectorKeeps
       DEF Next
<1>. QED  BY <1>1, <1>2, PTL DEF Spec

-----------------------------------------------------------------------------
(* What follows from it.                                                   *)

(* At no step of any call do both engines hold the instance.               *)
THEOREM OneEngineHolds == ASSUME AsksFirst PROVE Spec => []OneEngine
<1>1. LInv => OneEngine
  BY DEF LInv, TypeOK, RecordsAgree, MasterHalf, SlaveHalf, OneEngine,
     MasterSteps, SlaveSteps, Steps
<1>. QED  BY <1>1, LifecycleInvariance, AsksFirst, PTL

(* Between calls everybody agrees on who holds the instance.               *)
THEOREM RecordsAlwaysAgree == ASSUME AsksFirst PROVE Spec => []RecordsAgree
<1>1. LInv => RecordsAgree
  BY DEF LInv
<1>. QED  BY <1>1, LifecycleInvariance, AsksFirst, PTL

(* The vector serves a slave's.                                            *)
THEOREM VectorServesSlave == ASSUME AsksFirst PROVE Spec => []ServesSlaveOnly
<1>1. LInv => ServesSlaveOnly
  BY DEF LInv, LineHalf, ServesSlaveOnly
<1>. QED  BY <1>1, LifecycleInvariance, AsksFirst, PTL

(* Nothing old reaches a slave that is being set up.                       *)
THEOREM FreshSlaveIsUndisturbed ==
  ASSUME AsksFirst
  PROVE  Spec => []FreshSlaveUndisturbed
<1>1. LInv => FreshSlaveUndisturbed
  BY DEF LInv, LineHalf, FreshSlaveUndisturbed
<1>. QED  BY <1>1, LifecycleInvariance, AsksFirst, PTL

(* No callback is taken from half a configuration.                         *)
THEOREM ConfigServedWhole ==
  ASSUME AsksFirst
  PROVE  Spec => []ServesWholeConfig
<1>1. LInv => ServesWholeConfig
  BY DEF LInv, LineHalf, ServesWholeConfig, SInitSteps
<1>. QED  BY <1>1, LifecycleInvariance, AsksFirst, PTL

(* The master's clock is the one asked for, whatever the frequencies.      *)
THEOREM MasterRunsAtAskedRate ==
  ASSUME AsksFirst
  PROVE  Spec => []RunsAtAskedRate
<1>1. LInv => RunsAtAskedRate
  BY DEF LInv, RateHalf, RunsAtAskedRate
<1>. QED  BY <1>1, LifecycleInvariance, AsksFirst, PTL

(* A running module keeps its clock.                                       *)
THEOREM ClockOnlyChangesOff ==
  ASSUME AsksFirst
  PROVE  Spec => ClockChangesOff
<1>1. LInv /\ [Next]_vars => [brg' # brg => ~i2cen /\ ~i2cen']_vars
  <2>. SUFFICES ASSUME LInv, Next, brg' # brg PROVE ~i2cen /\ ~i2cen'
    BY DEF vars
  <2>. USE DEF Call, Step, engines, device, irq, args
  <2>1. main \in {"init_brg", "speed_brg", "speed_only"} /\ i2cen' = i2cen
    <3>1. CASE nora_i2c_init
      BY <3>1 DEF nora_i2c_init, InitFrom
    <3>2. CASE nora_i2c_set_bus_speed
      BY <3>2 DEF nora_i2c_set_bus_speed, SpeedFrom
    <3>. QED
      BY <3>1, <3>2 DEF Next, nora_i2c_deinit,
         nora_i2c_slave_init, SlaveInitFrom, nora_i2c_slave_deinit,
         SlaveDeinitFrom, HwEvent, EnterVector, nora_i2c_slave_event_irq
  <2>. QED
    BY <2>1 DEF LInv, MasterHalf, MasterSteps, InitSteps, SpeedSteps
<1>. QED  BY <1>1, LifecycleInvariance, AsksFirst, PTL DEF Spec, ClockChangesOff
=============================================================================
