---------------------------- MODULE MCLifecycle ----------------------------
(***************************************************************************)
(* Small instances of NoraI2CLifecycle; the .cfg files differ in what the  *)
(* application checks before it calls nora_i2c_slave_deinit().             *)
(***************************************************************************)
EXTENDS NoraI2CLifecycle

Rate(fcy, bus) == [fcy_hz |-> fcy, bus_hz |-> bus]

(* The README's rate, one too slow for the register, and around the        *)
(* fastest it can express: one and two cycles more than the delay.         *)
AllRates == {Rate(100000000, 400000), Rate(100000000, 1000),
             Rate(8000000, 4000000), Rate(8000000, 2500000)}
OneRate  == {Rate(100000000, 400000)}
=============================================================================
