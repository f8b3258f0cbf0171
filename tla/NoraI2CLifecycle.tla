-------------------------- MODULE NoraI2CLifecycle --------------------------
(***************************************************************************)
(* Who owns an I2C instance.  The master engine keeps g_initialized, the   *)
(* slave engine g_active, the common layer g_role, and the peripheral and  *)
(* the interrupt controller keep bits of their own.  The lifecycle calls   *)
(* change them one after the other, and while the slave line is enabled    *)
(* the SI2Cx vector can run between any two of those steps.                *)
(*                                                                         *)
(* Instances share nothing: every array of the code is indexed by the      *)
(* instance, so one instance is modelled.  Transfers change nothing of     *)
(* what is modelled here; they are in NoraI2CMaster.                       *)
(***************************************************************************)
EXTENDS NoraI2CBrg

CONSTANTS
  AsksFirst,  \* the application only calls nora_i2c_slave_deinit() while
              \* nora_i2c_slave_is_active() or while nothing holds the instance
  Prompts,    \* whether an enabled interrupt is sure to be taken before the
              \* next write of the code it interrupts
  Rates       \* the [fcy_hz, bus_hz] an initialization or speed change asks for

ASSUME LifecycleAssumption ==
  /\ AsksFirst \in BOOLEAN
  /\ Prompts \subseteq BOOLEAN
  /\ Rates \subseteq [fcy_hz : Nat \ {0}, bus_hz : Nat \ {0}]

VARIABLES
  prompt,         \* fixed: one of Prompts
  g_role,         \* NORA_I2C_ROLE_*: the common layer's
  g_initialized,  \* the master engine's
  g_active,       \* the slave engine's
  g_cfg,          \* the slave engine's callbacks: "whole", or "torn" between
                  \* an old and a new configuration
  i2cen,          \* I2CxCONL.I2CEN
  shape,          \* the role I2CxCONL, I2CxCONH and I2CxADD are set up for
  brg,            \* I2CxBRG
  ie, iflag,      \* _SI2CxIE, _SI2CxIF
  main,           \* the next step of the lifecycle call in progress
  again,          \* that call found its own role live already
  asked,          \* the rate of the last init or speed change not refused
  vector          \* the next step of _SI2CxInterrupt

engines == <<g_role, g_initialized, g_active, g_cfg>>
device  == <<i2cen, shape, brg>>
irq     == <<ie, iflag>>
args    == <<prompt, asked>>
vars    == <<engines, device, irq, main, again, vector, args>>

Roles == {"NONE", "MASTER", "SLAVE"}

InitSteps    == {"init_off", "init_brg", "init_state", "init_role", "init_on"}
DeinitSteps  == {"deinit_off", "deinit_state", "deinit_role"}
SpeedSteps   == {"speed_off", "speed_brg", "speed_on", "speed_only"}
SInitSteps   == {"sinit_off", "sinit_copy", "sinit_state", "sinit_role",
                 "sinit_clear", "sinit_enable", "sinit_on"}
SDeinitSteps == {"sdeinit_mask", "sdeinit_off", "sdeinit_state", "sdeinit_role"}
Steps == {"rest"} \cup InitSteps \cup DeinitSteps \cup SpeedSteps
           \cup SInitSteps \cup SDeinitSteps

(* The type invariant.                                                     *)
TypeOK ==
  /\ g_role \in Roles
  /\ g_initialized \in BOOLEAN /\ g_active \in BOOLEAN
  /\ g_cfg \in {"whole", "torn"}
  /\ i2cen \in BOOLEAN /\ shape \in Roles /\ brg \in 0 .. MaxBrg
  /\ ie \in BOOLEAN /\ iflag \in BOOLEAN
  /\ main \in Steps /\ again \in BOOLEAN
  /\ vector \in {"idle", "clear", "check", "service"}
  /\ prompt \in BOOLEAN /\ asked \in Rates

Init ==
  /\ g_role = "NONE" /\ g_initialized = FALSE /\ g_active = FALSE
  /\ g_cfg = "whole"
  /\ i2cen = FALSE /\ shape = "NONE" /\ brg = 0
  /\ ie = FALSE /\ iflag = FALSE
  /\ main = "rest" /\ again = FALSE
  /\ vector = "idle"
  /\ prompt \in Prompts /\ asked \in Rates

-----------------------------------------------------------------------------
(* The lifecycle calls.  The vector preempts them.                         *)

Preempted == vector # "idle" \/ (prompt /\ ie /\ iflag)

Call(step, live, rate) ==
  /\ main = "rest" /\ ~Preempted
  /\ main' = step /\ again' = live /\ asked' = rate
  /\ UNCHANGED <<engines, device, irq, vector, prompt>>

Step(from, to) ==
  /\ main = from /\ ~Preempted
  /\ main' = to /\ again' = (again /\ to # "rest")
  /\ UNCHANGED <<vector, args>>

WriteBrg == brg' = nora_i2c_calc_brg(asked.fcy_hz, asked.bus_hz)

(* CONL, CONH and BRG are rewritten, the engine's state and the role       *)
(* follow, I2CEN comes last.                                               *)
InitFrom(guard) ==
  \/ guard /\ \E rate \in Rates : Call("init_off", g_initialized, rate)
  \/ /\ Step("init_off", "init_brg")
     /\ i2cen' = FALSE /\ shape' = "MASTER"
     /\ UNCHANGED <<engines, brg, irq>>
  \/ /\ Step("init_brg", "init_state")
     /\ WriteBrg
     /\ UNCHANGED <<engines, i2cen, shape, irq>>
  \/ /\ Step("init_state", "init_role")
     /\ g_initialized' = TRUE
     /\ UNCHANGED <<g_role, g_active, g_cfg, device, irq>>
  \/ /\ Step("init_role", "init_on")
     /\ g_role' = "MASTER"
     /\ UNCHANGED <<g_initialized, g_active, g_cfg, device, irq>>
  \/ /\ Step("init_on", "rest")
     /\ i2cen' = TRUE
     /\ UNCHANGED <<engines, shape, brg, irq>>

(* Mutant: the guard against a live slave is missing.                      *)
Mut_init_unguarded == InitFrom(TRUE)

(* ERR_BUSY on a live slave.                                               *)
nora_i2c_init == InitFrom(g_role # "SLAVE")

(* ERR_NOT_INITIALIZED unless the master engine is; an ERR_BUSY or a       *)
(* failing recovery is NoraI2CMaster's.                                    *)
nora_i2c_deinit ==
  \/ g_initialized /\ Call("deinit_off", TRUE, asked)
  \/ /\ Step("deinit_off", "deinit_state")
     /\ i2cen' = FALSE
     /\ UNCHANGED <<engines, shape, brg, irq>>
  \/ /\ Step("deinit_state", "deinit_role")
     /\ g_initialized' = FALSE
     /\ UNCHANGED <<g_role, g_active, g_cfg, device, irq>>
  \/ /\ Step("deinit_role", "rest")
     /\ g_role' = "NONE"
     /\ UNCHANGED <<g_initialized, g_active, g_cfg, device, irq>>

SpeedFrom(first) ==
  \/ g_initialized /\ \E rate \in Rates : Call(first, TRUE, rate)
  \/ /\ Step("speed_off", "speed_brg")
     /\ i2cen' = FALSE
     /\ UNCHANGED <<engines, shape, brg, irq>>
  \/ /\ main \in {"speed_brg", "speed_only"}
     /\ Step(main, IF main = "speed_brg" THEN "speed_on" ELSE "rest")
     /\ WriteBrg
     /\ UNCHANGED <<engines, i2cen, shape, irq>>
  \/ /\ Step("speed_on", "rest")
     /\ i2cen' = TRUE
     /\ UNCHANGED <<engines, shape, brg, irq>>

(* Mutant: the module stays on while its clock changes.                    *)
Mut_speed_stays_on == SpeedFrom("speed_only")

(* Off while I2CxBRG changes, and on again if it was on (was_on); an       *)
(* ERR_BUSY is NoraI2CMaster's.                                            *)
nora_i2c_set_bus_speed ==
  SpeedFrom(IF i2cen THEN "speed_off" ELSE "speed_only")

(* As in InitFrom; the old event flag goes before the line is enabled.  A  *)
(* configuration is several words, and a slave that is initialized again   *)
(* has its line enabled while they are copied.                             *)
SlaveInitFrom(guard, i2cen_left, iflag_left) ==
  \/ guard /\ Call("sinit_off", g_active, asked)
  \/ /\ Step("sinit_off", "sinit_copy")
     /\ i2cen' = i2cen_left /\ shape' = "SLAVE"
     /\ UNCHANGED <<engines, brg, irq>>
  \/ /\ Step("sinit_copy", "sinit_state")
     /\ g_cfg' = "torn"
     /\ UNCHANGED <<g_role, g_initialized, g_active, device, irq>>
  \/ /\ Step("sinit_state", "sinit_role")
     /\ g_cfg' = "whole"
     /\ g_active' = TRUE
     /\ UNCHANGED <<g_role, g_initialized, device, irq>>
  \/ /\ Step("sinit_role", "sinit_clear")
     /\ g_role' = "SLAVE"
     /\ UNCHANGED <<g_initialized, g_active, g_cfg, device, irq>>
  \/ /\ Step("sinit_clear", "sinit_enable")
     /\ iflag' = iflag_left
     /\ UNCHANGED <<engines, device, ie>>
  \/ /\ Step("sinit_enable", "sinit_on")
     /\ ie' = TRUE
     /\ UNCHANGED <<engines, device, iflag>>
  \/ /\ Step("sinit_on", "rest")
     /\ i2cen' = TRUE
     /\ UNCHANGED <<engines, shape, brg, irq>>

(* Mutants: the guard against a live master is missing; the module is not  *)
(* switched off first; an event flag from an earlier session is kept.      *)
Mut_slave_init_unguarded  == SlaveInitFrom(TRUE, FALSE, FALSE)
Mut_slave_init_stays_on   == SlaveInitFrom(g_role # "MASTER", i2cen, FALSE)
Mut_slave_init_keeps_flag == SlaveInitFrom(g_role # "MASTER", FALSE, iflag)

(* ERR_BUSY on a live master.                                              *)
nora_i2c_slave_init == SlaveInitFrom(g_role # "MASTER", FALSE, FALSE)

(* What the application makes sure of before it releases the slave role.   *)
MayRelease == AsksFirst => (g_active \/ ~g_initialized)

SlaveDeinitFrom(first) ==
  \/ MayRelease /\ Call(first, g_active, asked)
  \/ /\ Step("sdeinit_mask", "sdeinit_off")
     /\ ie' = FALSE
     /\ UNCHANGED <<engines, device, iflag>>
  \/ /\ Step("sdeinit_off", "sdeinit_state")
     /\ i2cen' = FALSE
     /\ UNCHANGED <<engines, shape, brg, irq>>
  \/ /\ Step("sdeinit_state", "sdeinit_role")
     /\ g_active' = FALSE
     /\ UNCHANGED <<g_role, g_initialized, g_cfg, device, irq>>
  \/ /\ Step("sdeinit_role", "rest")
     /\ g_role' = "NONE"
     /\ UNCHANGED <<g_initialized, g_active, g_cfg, device, irq>>

(* Mutant: the slave line stays enabled.                                   *)
Mut_slave_deinit_unmasked == SlaveDeinitFrom("sdeinit_off")

(* The line is masked first; the function itself looks at no role.         *)
nora_i2c_slave_deinit == SlaveDeinitFrom("sdeinit_mask")

-----------------------------------------------------------------------------
(* The slave interrupt.                                                    *)

(* The classic module raises SI2Cx from its address match on, in whatever  *)
(* role it is used.                                                        *)
HwEvent ==
  /\ i2cen
  /\ iflag' = TRUE
  /\ UNCHANGED <<engines, device, ie, main, again, vector, args>>

EnterVector ==
  /\ vector = "idle" /\ ie /\ iflag
  /\ vector' = "clear"
  /\ UNCHANGED <<engines, device, irq, main, again, args>>

(* The flag is cleared before the service routine, which runs for an       *)
(* active slave only.                                                      *)
nora_i2c_slave_event_irq ==
  \/ /\ vector = "clear"
     /\ iflag' = FALSE
     /\ vector' = "check"
     /\ UNCHANGED <<engines, device, ie, main, again, args>>
  \/ /\ vector = "check"
     /\ vector' = IF g_active THEN "service" ELSE "idle"
     /\ UNCHANGED <<engines, device, irq, main, again, args>>
  \/ /\ vector = "service"
     /\ vector' = "idle"
     /\ UNCHANGED <<engines, device, irq, main, again, args>>

Next ==
  \/ nora_i2c_init \/ nora_i2c_deinit \/ nora_i2c_set_bus_speed
  \/ nora_i2c_slave_init \/ nora_i2c_slave_deinit
  \/ HwEvent \/ EnterVector \/ nora_i2c_slave_event_irq

Spec == Init /\ [][Next]_vars

-----------------------------------------------------------------------------
(* "An instance can hold only one role at a time" (README): at no step of  *)
(* any call do both engines hold it.                                       *)
OneEngine == ~(g_initialized /\ g_active)

(* Between calls the five records of who owns the instance agree: the role *)
(* kept by the common layer, the two engines' flags, I2CEN with the way    *)
(* the registers are set up, and the enable bit of the slave line.  So no  *)
(* later master call acts "on a peripheral this engine has reprogrammed"   *)
(* (nora_i2c_slave_init()): a call only looks at g_initialized.            *)
RecordsAgree ==
  main = "rest" =>
     /\ g_role = "MASTER" <=> g_initialized
     /\ g_role = "SLAVE" <=> g_active
     /\ g_role # "NONE" <=> i2cen
     /\ i2cen => shape = g_role
     /\ ie <=> g_active

(* The slave service routine never runs on an instance the master engine   *)
(* has set up ("a master-configured peripheral with an armed slave         *)
(* vector", nora_i2c_init()).                                              *)
ServesSlaveOnly == vector # "idle" => shape = "SLAVE" /\ g_active

(* Nothing that happened before reaches a slave that is being set up: its  *)
(* vector does not run before I2CEN is set.  (An instance initialized      *)
(* again as a slave keeps its line enabled; there it takes an interrupt    *)
(* that is not put off past the write that switches the module off.)       *)
FreshSlaveUndisturbed ==
  \/ main \in SInitSteps /\ ~again
  \/ main \in SInitSteps \ {"sinit_off"} /\ prompt
  => vector = "idle"

(* The vector never calls back through half of an old configuration and    *)
(* half of a new one ("Re-initializing the slave role itself stays         *)
(* allowed", nora_i2c_slave_init()).                                       *)
ServesWholeConfig == (prompt /\ vector = "service") => g_cfg = "whole"

(* The master runs at the rate the last successful call asked for, or at   *)
(* the nearest the register can express ("a request the divider cannot     *)
(* express is CLAMPED", nora_i2c_master.h): never at a wrapped divider,    *)
(* and never at one a slave session left.                                  *)
RunsAtAskedRate ==
  (main = "rest" /\ g_initialized) => ClosestRate(brg, asked.fcy_hz, asked.bus_hz)

(* The clock of a module that is on does not change ("turn the peripheral  *)
(* off while BRG changes, then restore the previous ON state").            *)
ClockChangesOff == [][brg' # brg => ~i2cen /\ ~i2cen']_vars
=============================================================================
