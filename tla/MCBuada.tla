------------------------------ MODULE MCBuada ------------------------------
(* The instance of Buada that TLC checks: four parties, F = 1.             *)
EXTENDS Buada

CONSTANTS a, b, c, d

(* Each proposal reaches three parties in time, that of d not a.           *)
ThreeReached == ({a, b, c} \X {a, b, c}) \cup ({b, c, d} \X {d})

(* Two of the three that echo the proposal of a may be overtaken.          *)
TwoSlow == {a, b} \X {a}
=============================================================================
