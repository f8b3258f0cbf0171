----------------------------- MODULE NoraI2CBrg -----------------------------
(***************************************************************************)
(* The I2CxBRG reload value of a bus rate (nora_i2c_calc_brg()), and what  *)
(* makes it the right one.  Frequencies are in Hz.  The code computes in   *)
(* 64 bits, where none of its products and differences can leave the       *)
(* range, so they are those of the integers here.                          *)
(***************************************************************************)
EXTENDS Integers

MaxBrg == 65535   \* 0xFFFF

(* Fcy * TDELAY in cycles: 130 ns of 10^9, both divided by 10 (the         *)
(* quotient is the same, and TLC's integers have 32 bits).                 *)
TDelay(fcy_hz) == (fcy_hz * 13) \div 100000000

(* Mutant: the test for a divider the register cannot express is one off.  *)
Mut_calc_brg_off_by_one(fcy_hz, bus_hz) ==
  LET base == fcy_hz \div bus_hz
      brg  == base - TDelay(fcy_hz) - 1
  IN  IF base <= TDelay(fcy_hz) THEN 1
      ELSE IF brg > MaxBrg THEN MaxBrg ELSE brg

(* No caller passes a zero frequency: both refuse it.                      *)
nora_i2c_calc_brg(fcy_hz, bus_hz) ==
  LET base == fcy_hz \div bus_hz
      brg  == base - TDelay(fcy_hz) - 1
  IN  IF base <= TDelay(fcy_hz) + 1 THEN 1
      ELSE IF brg > MaxBrg THEN MaxBrg ELSE brg

(* Cycles of Fcy that one SCL period takes with a reload value (README).   *)
Period(brg, fcy_hz) == brg + 1 + TDelay(fcy_hz)

(* The slowest SCL that is not slower than asked; at the ends of the       *)
(* register, the nearest it can express.                                   *)
ClosestRate(brg, fcy_hz, bus_hz) ==
  /\ brg \in 1 .. MaxBrg
  /\ brg > 1 => Period(brg, fcy_hz) * bus_hz <= fcy_hz
  /\ brg < MaxBrg => (Period(brg, fcy_hz) + 1) * bus_hz > fcy_hz
=============================================================================
