-------------------------- MODULE NoraI2CBrgProofs --------------------------
(***************************************************************************)
(* Proofs about NoraI2CBrg: the reload value is right for every pair of    *)
(* frequencies.                                                            *)
(***************************************************************************)
EXTENDS NoraI2CBrg, TLAPS

(* What an integer quotient is.                                            *)
LEMMA Quotient ==
  ASSUME NEW a \in Nat, NEW b \in Nat \ {0}
  PROVE  /\ a \div b \in Nat
         /\ (a \div b) * b <= a
         /\ a < (a \div b + 1) * b
<1>1. a = b * (a \div b) + (a % b) /\ a % b \in 0 .. b - 1 /\ a \div b \in Int
  OBVIOUS
<1>2. (a \div b) * b <= a /\ a < (a \div b + 1) * b
  BY <1>1
<1>3. a \div b >= 0
  <2>. SUFFICES ASSUME a \div b <= -1 PROVE FALSE
    BY <1>1
  <2>1. (a \div b + 1) * b <= 0
    BY <1>1
  <2>. QED  BY <2>1, <1>2
<1>. QED  BY <1>1, <1>2, <1>3

(* A larger factor makes a larger product.                                 *)
LEMMA Monotone ==
  ASSUME NEW x \in Int, NEW y \in Int, NEW b \in Nat \ {0}, x <= y
  PROVE  x * b <= y * b
OBVIOUS

(* The delay is a number of cycles.                                        *)
LEMMA DelayNat ==
  ASSUME NEW fcy_hz \in Nat
  PROVE  TDelay(fcy_hz) \in Nat
BY Quotient DEF TDelay

(* Clamping a number to a register's range.                                *)
LEMMA Clamp ==
  ASSUME NEW base \in Nat, NEW delay \in Nat, NEW max \in Nat \ {0}
  PROVE  (IF base <= delay + 1 THEN 1
          ELSE IF base - delay - 1 > max THEN max
          ELSE base - delay - 1) \in 1 .. max
OBVIOUS

(* nora_i2c_calc_brg() never leaves the register's range and never wraps.  *)
THEOREM BrgInRange ==
  ASSUME NEW fcy_hz \in Nat, NEW bus_hz \in Nat \ {0}
  PROVE  nora_i2c_calc_brg(fcy_hz, bus_hz) \in 1 .. MaxBrg
<1>1. fcy_hz \div bus_hz \in Nat /\ TDelay(fcy_hz) \in Nat
  BY Quotient, DelayNat
<1>2. MaxBrg \in Nat \ {0}
  BY DEF MaxBrg
<1>. QED  BY <1>1, <1>2, Clamp, Zenon DEF nora_i2c_calc_brg

(* It is the closest the register can express to the rate asked for.       *)
THEOREM BrgIsClosest ==
  ASSUME NEW fcy_hz \in Nat, NEW bus_hz \in Nat \ {0}
  PROVE  ClosestRate(nora_i2c_calc_brg(fcy_hz, bus_hz), fcy_hz, bus_hz)
<1>. DEFINE base == fcy_hz \div bus_hz
            delay == TDelay(fcy_hz)
            brg == nora_i2c_calc_brg(fcy_hz, bus_hz)
<1>1. base \in Nat /\ base * bus_hz <= fcy_hz /\ fcy_hz < (base + 1) * bus_hz
  BY Quotient
<1>2. delay \in Nat
  BY DelayNat
<1>3. brg \in 1 .. MaxBrg
  BY BrgInRange
<1>4. /\ brg > 1 => brg + 1 + delay <= base
      /\ brg < MaxBrg => base <= brg + 1 + delay
  BY <1>1, <1>2 DEF nora_i2c_calc_brg, MaxBrg
<1>. HIDE DEF base, delay, brg
<1>5. ASSUME brg > 1
      PROVE  (brg + 1 + delay) * bus_hz <= fcy_hz
  <2>1. (brg + 1 + delay) * bus_hz <= base * bus_hz
    BY <1>1, <1>2, <1>3, <1>4, <1>5, Monotone DEF MaxBrg
  <2>. QED  BY <2>1, <1>1, <1>2, <1>3 DEF MaxBrg
<1>6. ASSUME brg < MaxBrg
      PROVE  (brg + 1 + delay + 1) * bus_hz > fcy_hz
  <2>1. (base + 1) * bus_hz <= (brg + 1 + delay + 1) * bus_hz
    BY <1>1, <1>2, <1>3, <1>4, <1>6, Monotone DEF MaxBrg
  <2>. QED  BY <2>1, <1>1, <1>2, <1>3 DEF MaxBrg
<1>. QED  BY <1>3, <1>5, <1>6 DEF ClosestRate, Period, brg, delay
=============================================================================
