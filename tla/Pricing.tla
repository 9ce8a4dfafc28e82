------------------------------- MODULE Pricing -------------------------------
(***************************************************************************)
(* Fares and surge multipliers (app/pricing/service.py, surge.py) without   *)
(* loss: distances in tenths of a km, multipliers in hundredths, fares in   *)
(* cents, and a duration as the fraction num/den of minutes, so that        *)
(* nothing is rounded but the fare.  No state.                              *)
(***************************************************************************)
EXTENDS Integers

CONSTANT None  \* Python's None

AtLeast(low, n) == IF n < low THEN low ELSE n

(* round(x, 2) of x = n/d cents.  On an exact half the float may round      *)
(* either way; no property depends on which.                                *)
RoundHalfEven(n, d) ==
  LET q == n \div d
      up == 2 * (n % d) > d \/ (2 * (n % d) = d /\ q % 2 = 1) IN
  IF up THEN q + 1 ELSE q

(* A speed of nought or less gives no duration. *)
EstimateDuration(dist, kmh) ==
  IF kmh <= 0 THEN [num |-> 0, den |-> 1] ELSE [num |-> 6 * dist, den |-> kmh]

AverageKmh == 22

(* 2.5 + 1.15 per km + 0.35 per minute, not less than nothing: a cent is    *)
(* 10 * dur.den of these units.                                             *)
CoreFare(dist, dur) == AtLeast(0, (2500 + 115 * dist) * dur.den + 350 * dur.num)

(* Seeded fault: the multiplier is used as it is. *)
UnclampedFare(dist, dur, surge) == RoundHalfEven(CoreFare(dist, dur) * surge, 1000 * dur.den)

ComputeFare(dist, dur, surge) ==
  RoundHalfEven(CoreFare(dist, dur) * AtLeast(100, surge), 1000 * dur.den)

(* The fare of a ride over dist, as /pricing/estimate and end_trip both     *)
(* compute it.                                                              *)
FareOf(dist, surge) == ComputeFare(dist, EstimateDuration(dist, AverageKmh), surge)

(* HGET of the zone.  hash[z] is None for a field that is missing or that   *)
(* float() cannot parse.                                                    *)
GetSurge(hash, zone, default) ==
  IF zone = None \/ hash[zone] = None THEN default ELSE hash[zone]
==============================================================================
