--------------------------- MODULE BillingTheorems ---------------------------
(***************************************************************************)
(* Proofs about Billing, for any sets of trips, zones, multipliers, calls   *)
(* and keys.                                                               *)
(***************************************************************************)
EXTENDS Billing, TLAPS

------------------------------------------------------------------------------
(* What the type invariant needs to be inductive: the arguments a call or   *)
(* an end has at each step.                                                 *)
ArgsOK ==
  /\ \A e \in Enders : /\ ender[e].at # "idle" => ender[e].trip \in Trips
                       /\ ender[e].at = "commit" => ender[e].mult \in Nat
  /\ \A c \in Calls : Pending(c) => call[c].trip \in Trips /\ call[c].amount \in Amounts

(* A completed trip has its fare, a trip to come has none, and an end works *)
(* on a trip that exists.                                                   *)
FareInv ==
  /\ \A t \in Trips : /\ trip[t].status = "COMPLETED" => trip[t].fare # None
                      /\ trip[t].status = NoRow => trip[t].fare = None
  /\ \A e \in Enders : ender[e].at # "idle" => trip[ender[e].trip].status # NoRow

(* A call past its check of the trip works on a trip with a fare; it has a  *)
(* payment exactly once it has committed; what it announces or answers is a *)
(* payment with its key.                                                    *)
CallInv ==
  \A c \in Calls :
    /\ call[c].at \in {"insert", "commit", "retry", "announce"}
         => trip[call[c].trip].fare # None
    /\ call[c].at \in {"new", "lookup", "trip", "insert", "commit"} => payment[c] = NoPayment
    /\ call[c].at \in {"retry", "announce"} => payment[c] # NoPayment /\ payment[c].key = call[c].key
    /\ call[c].at = "answered" => /\ call[c].answer \in Calls
                                  /\ payment[call[c].answer] # NoPayment
                                  /\ payment[call[c].answer].key = call[c].key

(* The unique index: among committed rows and the rows inserted but not yet *)
(* committed, a key occurs once.                                            *)
KeyInv ==
  /\ \A i, j \in Calls : payment[i] # NoPayment /\ payment[j] # NoPayment
       /\ payment[i].key = payment[j].key /\ payment[i].key # None => i = j
  /\ \A c, d \in Calls : call[c].at = "commit" /\ call[d].at = "commit"
       /\ call[c].key = call[d].key /\ call[c].key # None => c = d
  /\ \A c, i \in Calls : call[c].at = "commit" /\ call[c].key # None
       /\ payment[i] # NoPayment => payment[i].key # call[c].key

BillInv == TypeOK /\ ArgsOK /\ FareInv /\ CallInv /\ KeyInv /\ DeclineRetried

------------------------------------------------------------------------------
(* Arithmetic of fares. *)

LEMMA RoundBounds ==
  ASSUME NEW n \in Nat
  PROVE  /\ RoundHalfEven(n, 22000) \in Nat
         /\ 22000 * RoundHalfEven(n, 22000) >= n - 11000
         /\ 22000 * RoundHalfEven(n, 22000) <= n + 11000
BY SMT DEF RoundHalfEven

(* Rounding keeps the order. *)
LEMMA RoundMonotone ==
  ASSUME NEW m \in Nat, NEW n \in Nat, m <= n
  PROVE  RoundHalfEven(m, 22000) <= RoundHalfEven(n, 22000)
<1>1. CASE m \div 22000 = n \div 22000
  BY <1>1, SMT DEF RoundHalfEven
<1>2. CASE m \div 22000 < n \div 22000
  BY <1>2, SMT DEF RoundHalfEven
<1> QED
  BY <1>1, <1>2, SMT

(* The fare before the multiplier, 55000 + 4630 for each tenth of a km in   *)
(* units of 1/220 of a cent: no division is left in it.                     *)
CoreOf(dist) == CoreFare(dist, EstimateDuration(dist, AverageKmh))

LEMMA CoreLinear ==
  ASSUME NEW dist \in Nat
  PROVE  CoreOf(dist) = 55000 + 4630 * dist /\ CoreOf(dist) \in Nat
<1>1. EstimateDuration(dist, AverageKmh) = [num |-> 6 * dist, den |-> 22]
  BY SMT DEF EstimateDuration, AverageKmh
<1>2. CoreOf(dist) = AtLeast(0, (2500 + 115 * dist) * 22 + 350 * (6 * dist))
  BY <1>1 DEF CoreOf, CoreFare
<1> QED
  BY <1>2, SMT DEF AtLeast

LEMMA FareRounds ==
  ASSUME NEW dist \in Nat, NEW m \in Nat
  PROVE  FareOf(dist, m) = RoundHalfEven(CoreOf(dist) * AtLeast(100, m), 22000)
<1>1. EstimateDuration(dist, AverageKmh).den = 22
  BY SMT DEF EstimateDuration, AverageKmh
<1>2. 1000 * 22 = 22000
  BY SMT
<1> QED
  BY <1>1, <1>2 DEF FareOf, ComputeFare, CoreOf

LEMMA ProductMonotone ==
  ASSUME NEW a \in Nat, NEW b \in Nat, b >= 100
  PROVE  a * b \in Nat /\ a * 100 <= a * b
BY SMT

LEMMA FareOfType ==
  ASSUME NEW dist \in Nat, NEW m \in Nat
  PROVE  FareOf(dist, m) \in Nat
<1>1. CoreOf(dist) \in Nat
  BY CoreLinear
<1>2. AtLeast(100, m) \in Nat /\ AtLeast(100, m) >= 100
  BY SMT DEF AtLeast
<1>3. CoreOf(dist) * AtLeast(100, m) \in Nat
  BY <1>1, <1>2, ProductMonotone
<1> QED
  BY <1>3, RoundBounds, FareRounds

(* Both factors of the fare, and rounding, keep the order. *)
LEMMA OrderKept ==
  ASSUME NEW a \in Nat, NEW b \in Nat, NEW c \in Nat, NEW d \in Nat, a <= c, b <= d
  PROVE  a * b \in Nat /\ c * d \in Nat /\ a * b <= c * d
<1>1. a * b \in Nat /\ c * b \in Nat /\ c * d \in Nat
  BY SMT
<1>2. a * b <= c * b
  BY SMT
<1>3. c * b <= c * d
  BY SMT
<1> QED
  BY <1>1, <1>2, <1>3, SMT

LEMMA FareOrder ==
  ASSUME NEW near \in Nat, NEW far \in Nat, near <= far,
         NEW m \in Nat, NEW n \in Nat, AtLeast(100, m) <= AtLeast(100, n)
  PROVE  FareOf(near, m) <= FareOf(far, n)
<1>1. CoreOf(near) \in Nat /\ CoreOf(far) \in Nat /\ CoreOf(near) <= CoreOf(far)
  BY CoreLinear, SMT
<1>2. AtLeast(100, m) \in Nat /\ AtLeast(100, n) \in Nat
  BY SMT DEF AtLeast
<1>3. /\ CoreOf(near) * AtLeast(100, m) \in Nat /\ CoreOf(far) * AtLeast(100, n) \in Nat
      /\ CoreOf(near) * AtLeast(100, m) <= CoreOf(far) * AtLeast(100, n)
  BY <1>1, <1>2, OrderKept
<1>4. RoundHalfEven(CoreOf(near) * AtLeast(100, m), 22000)
        <= RoundHalfEven(CoreOf(far) * AtLeast(100, n), 22000)
  BY <1>3, RoundMonotone
<1> QED
  BY <1>4, FareRounds

(* Who rides farther, or under a higher multiplier, pays no less: neither   *)
(* max(1.0, ...) nor the rounding of compute_fare turns two fares around.   *)
THEOREM FareMonotone ==
  ASSUME NEW near \in Nat, NEW far \in Nat, near <= far, NEW m \in Nat, NEW n \in Nat, m <= n
  PROVE  FareOf(near, m) <= FareOf(far, n)
<1>1. AtLeast(100, m) <= AtLeast(100, n)
  BY SMT DEF AtLeast
<1> QED
  BY <1>1, FareOrder

(* Surge never makes a ride cheaper: max(1.0, ...) in compute_fare. *)
LEMMA SurgeNeverCheaper ==
  ASSUME NEW dist \in Nat, NEW m \in Nat
  PROVE  FareOf(dist, 100) <= FareOf(dist, m)
<1>1. AtLeast(100, 100) <= AtLeast(100, m) /\ dist <= dist
  BY SMT DEF AtLeast
<1> QED
  BY <1>1, FareOrder

------------------------------------------------------------------------------
(* Bookings, other services and ends. *)

LEMMA SurgeType ==
  ASSUME TypeOK, NEW z \in Zones \cup {None}, NEW default \in Nat
  PROVE  GetSurge(surge, z, default) \in Nat
BY FaresAssumption DEF TypeOK, GetSurge

LEMMA BillInit == Init => BillInv
<1> SUFFICES ASSUME Init PROVE BillInv
  OBVIOUS
<1> USE FaresAssumption, PaymentsAssumption
    DEF Init, FaresInit, PaymentsInit, NoTrip, NoEnd, NoPayment, NoCall
<1>1. TypeOK
  BY DEF TypeOK, TripRow, CallSteps, NoRow
<1>2. ArgsOK /\ FareInv
  BY DEF ArgsOK, FareInv, Pending, NoRow
<1>3. CallInv /\ KeyInv /\ DeclineRetried
  BY DEF CallInv, KeyInv, DeclineRetried, NoRow
<1> QED
  BY <1>1, <1>2, <1>3 DEF BillInv

(* What every step of this part leaves intact: types, and no trip loses its *)
(* fare.                                                                    *)
FareStepOK ==
  /\ trip' \in [Trips -> TripRow]
  /\ \A t \in Trips : trip'[t].status # NoRow => trip'[t].booked \in Nat
  /\ surge' \in [Zones -> Multipliers \cup {None}]
  /\ ender' \in [Enders -> [at: {"idle", "price", "commit"}, trip: Trips \cup {None},
                            mult: Nat \cup {None}]]
  /\ \A e \in Enders : /\ ender'[e].at # "idle" => ender'[e].trip \in Trips
                       /\ ender'[e].at = "commit" => ender'[e].mult \in Nat
  /\ FareInv'
  /\ \A t \in Trips : trip[t].fare # None => trip'[t].fare # None

LEMMA FareSteps == BillInv /\ FaresNext => FareStepOK
<1> SUFFICES ASSUME BillInv, FaresNext PROVE FareStepOK
  OBVIOUS
<1> USE FaresAssumption DEF BillInv, TypeOK, ArgsOK, FareInv, TripRow
<1>1. ASSUME NEW t \in Trips, NEW z \in Zones \cup {None}, NEW d \in Distances, Book(t, z, d)
      PROVE  FareStepOK
  <2>1. BookedSurge(z) \in Nat
    BY SurgeType DEF BookedSurge
  <2>2. "MATCHING" \in TripStatus /\ NoRow # "MATCHING" /\ d \in Nat
    BY DEF TripStatus, NoRow
  <2> QED
    BY <1>1, <2>1, <2>2 DEF Book, FareStepOK
<1>2. ASSUME NEW t \in Trips, NEW s \in OtherStatuses, OtherMove(t, s)
      PROVE  FareStepOK
  <2>1. s \in TripStatus /\ s # "COMPLETED" /\ s # NoRow
    BY DEF TripStatus, NoRow
  <2> QED
    BY <1>2, <2>1, SMTT(90) DEF OtherMove, FareStepOK
<1>3. ASSUME NEW z \in Zones, NEW m \in Multipliers \cup {None}, SetSurge(z, m)
      PROVE  FareStepOK
  BY <1>3 DEF SetSurge, FareStepOK
<1>4. ASSUME NEW e \in Enders, NEW t \in Trips, EndBegin(e, t)
      PROVE  FareStepOK
  BY <1>4 DEF EndBegin, FareStepOK
<1>5. ASSUME NEW e \in Enders, EndPrice(e)
      PROVE  FareStepOK
  <2> DEFINE row == trip[ender[e].trip]
  <2>1. ender[e].trip \in Trips /\ row.zone \in Zones \cup {None} /\ row.booked \in Nat
    BY <1>5 DEF EndPrice
  <2>2. BookedOrOne(row.booked) \in Nat
    BY <2>1 DEF BookedOrOne
  <2> HIDE DEF row
  <2>3. GetSurge(surge, row.zone, BookedOrOne(row.booked)) \in Nat
    BY <2>1, <2>2 DEF GetSurge
  <2> QED
    BY <1>5, <2>1, <2>3 DEF EndPrice, FareStepOK, row
<1>6. ASSUME NEW e \in Enders, EndCommit(e)
      PROVE  FareStepOK
  <2>1. ender[e].trip \in Trips /\ ender[e].mult \in Nat /\ trip[ender[e].trip].dist \in Nat
    BY <1>6 DEF EndCommit
  <2>2. FareOf(trip[ender[e].trip].dist, ender[e].mult) \in Nat
    BY <2>1, FareOfType
  <2>3. "COMPLETED" \in TripStatus /\ "COMPLETED" # NoRow
    BY DEF TripStatus, NoRow
  <2> QED
    BY <1>6, <2>1, <2>2, <2>3 DEF EndCommit, FareStepOK, NoEnd
<1>7. ASSUME NEW e \in Enders, EndFail(e)
      PROVE  FareStepOK
  BY <1>7 DEF EndFail, FareStepOK, NoEnd
<1> QED
  BY <1>1, <1>2, <1>3, <1>4, <1>5, <1>6, <1>7 DEF FaresNext

------------------------------------------------------------------------------
(* Payment calls. *)

LEMMA PayTypes ==
  ASSUME BillInv, UNCHANGED fareVars, PaymentsNext
  PROVE  TypeOK' /\ ArgsOK' /\ FareInv'
<1> USE PaymentsAssumption
    DEF BillInv, TypeOK, ArgsOK, FareInv, Pending, CallSteps, At, Goto, Answer, End, NoCall, fareVars
<1>1. ASSUME NEW c \in Calls, NEW t \in Trips, NEW k \in Keys \cup {None}, NEW a \in Amounts,
             PayBegin(c, t, k, a)
      PROVE  TypeOK' /\ ArgsOK' /\ FareInv'
  BY <1>1 DEF PayBegin
<1>2. ASSUME NEW c \in Calls, PayStep(c)
      PROVE  TypeOK' /\ ArgsOK' /\ FareInv'
  <2>1. CASE PayReplay(c)
    BY <2>1 DEF PayReplay, Rows
  <2>2. CASE PayNoReplay(c)
    BY <2>2 DEF PayNoReplay
  <2>3. CASE PayTripCompleted(c)
    BY <2>3, SMTT(90) DEF PayTripCompleted
  <2>4. CASE PayRefused(c)
    BY <2>4 DEF PayRefused
  <2>5. CASE PayInsert(c)
    BY <2>5 DEF PayInsert
  <2>6. CASE PayIntegrityError(c)
    BY <2>6 DEF PayIntegrityError
  <2>7. CASE PayCommit(c)
    BY <2>7 DEF PayCommit, AfterPay, PaymentRow
  <2>8. CASE PayQueueRetry(c)
    <3>1. ArgsOK' /\ FareInv'
      BY <2>8 DEF PayQueueRetry
    <3>2. call' \in [Calls -> [at: CallSteps, trip: Trips \cup {None}, key: Keys \cup {None},
                              amount: Amounts \cup {0}, answer: Calls \cup {None}]]
      BY <2>8 DEF PayQueueRetry
    <3>3. retries' \subseteq Calls
      BY <2>8 DEF PayQueueRetry
    <3> QED
      BY <2>8, <3>1, <3>2, <3>3 DEF PayQueueRetry
  <2>9. CASE PayAnnounce(c)
    BY <2>9 DEF PayAnnounce
  <2> QED
    BY <1>2, <2>1, <2>2, <2>3, <2>4, <2>5, <2>6, <2>7, <2>8, <2>9 DEF PayStep
<1>3. ASSUME NEW c \in Calls, PayFail(c)
      PROVE  TypeOK' /\ ArgsOK' /\ FareInv'
  BY <1>3 DEF PayFail
<1>4. ASSUME NEW c \in Calls, RetryPayment(c)
      PROVE  TypeOK' /\ ArgsOK' /\ FareInv'
  BY <1>4 DEF RetryPayment
<1> QED
  BY <1>1, <1>2, <1>3, <1>4 DEF PaymentsNext

LEMMA PaySteps ==
  ASSUME BillInv, UNCHANGED fareVars, PaymentsNext
  PROVE  CallInv' /\ KeyInv' /\ DeclineRetried'
<1> USE PaymentsAssumption
    DEF BillInv, TypeOK, ArgsOK, FareInv, CallInv, KeyInv, DeclineRetried, Pending, CallSteps,
        At, Goto, Answer, End, NoCall, fareVars
<1>1. ASSUME NEW c \in Calls, NEW t \in Trips, NEW k \in Keys \cup {None}, NEW a \in Amounts,
             PayBegin(c, t, k, a)
      PROVE  CallInv' /\ KeyInv' /\ DeclineRetried'
  BY <1>1 DEF PayBegin, NoPayment, NoRow
<1>2. ASSUME NEW c \in Calls, PayStep(c)
      PROVE  CallInv' /\ KeyInv' /\ DeclineRetried'
  <2>1. CASE PayReplay(c)
    BY <2>1 DEF PayReplay, Rows
  <2>2. CASE PayNoReplay(c)
    BY <2>2 DEF PayNoReplay
  <2>3. CASE PayTripCompleted(c)
    BY <2>3 DEF PayTripCompleted, Payable
  <2>4. CASE PayRefused(c)
    BY <2>4 DEF PayRefused
  <2>5. CASE PayInsert(c)
    BY <2>5 DEF PayInsert, KeyHeld, KeyTaken, Rows
  <2>6. CASE PayIntegrityError(c)
    BY <2>6 DEF PayIntegrityError
  <2>7. CASE PayCommit(c)
    BY <2>7 DEF PayCommit, AfterPay, NoPayment, NoRow
  <2>8. CASE PayQueueRetry(c)
    BY <2>8 DEF PayQueueRetry
  <2>9. CASE PayAnnounce(c)
    BY <2>9 DEF PayAnnounce
  <2> QED
    BY <1>2, <2>1, <2>2, <2>3, <2>4, <2>5, <2>6, <2>7, <2>8, <2>9 DEF PayStep
<1>3. ASSUME NEW c \in Calls, PayFail(c)
      PROVE  CallInv' /\ KeyInv' /\ DeclineRetried'
  BY <1>3 DEF PayFail
<1>4. ASSUME NEW c \in Calls, RetryPayment(c)
      PROVE  CallInv' /\ KeyInv' /\ DeclineRetried'
  BY <1>4 DEF RetryPayment
<1> QED
  BY <1>1, <1>2, <1>3, <1>4 DEF PaymentsNext

LEMMA BillingStep == BillInv /\ [Next]_billVars => BillInv'
<1> SUFFICES ASSUME BillInv, [Next]_billVars PROVE BillInv'
  OBVIOUS
<1>1. CASE FaresNext /\ UNCHANGED payVars
  <2>1. FareStepOK
    BY <1>1, FareSteps
  <2>2. TypeOK' /\ ArgsOK'
    <3>1. UNCHANGED <<payment, call, retries, retried>>
      BY <1>1 DEF payVars
    <3>2. TypeOK'
      BY <2>1, <3>1 DEF BillInv, TypeOK, FareStepOK
    <3>3. ArgsOK'
      BY <2>1, <3>1 DEF BillInv, ArgsOK, FareStepOK, Pending
    <3> QED
      BY <3>2, <3>3
  <2>3. CallInv'
    BY <1>1, <2>1 DEF BillInv, ArgsOK, CallInv, FareStepOK, payVars, Pending
  <2>4. FareInv' /\ KeyInv' /\ DeclineRetried'
    BY <1>1, <2>1 DEF BillInv, KeyInv, DeclineRetried, FareStepOK, payVars, At
  <2> QED
    BY <2>2, <2>3, <2>4 DEF BillInv
<1>2. CASE PaymentsNext /\ UNCHANGED fareVars
  BY <1>2, PayTypes, PaySteps DEF BillInv
<1>3. CASE UNCHANGED billVars
  BY <1>3 DEF BillInv, TypeOK, ArgsOK, FareInv, CallInv, KeyInv, DeclineRetried, billVars,
              fareVars, payVars, Pending, At
<1> QED
  BY <1>1, <1>2, <1>3 DEF Next

LEMMA BillingInvariant == Spec => []BillInv
BY BillInit, BillingStep, PTL DEF Spec

------------------------------------------------------------------------------
(* Rows, calls and queues keep to their domains; a booked multiplier is a   *)
(* number whatever the zone hash holds.                                     *)
THEOREM TypeCorrect == Spec => []TypeOK
<1>1. BillInv => TypeOK
  BY DEF BillInv
<1> QED
  BY <1>1, BillingInvariant, PTL

(* Calls with one idempotency key that are answered are answered with one   *)
(* payment.                                                                 *)
THEOREM SameAnswerCorrect == Spec => []SameAnswer
<1>1. BillInv => SameAnswer
  BY DEF BillInv, CallInv, KeyInv, SameAnswer, At
<1> QED
  BY <1>1, BillingInvariant, PTL

(* A declined payment has its retry unless its call failed. *)
THEOREM DeclineRetriedCorrect == Spec => []DeclineRetried
<1>1. BillInv => DeclineRetried
  BY DEF BillInv
<1> QED
  BY <1>1, BillingInvariant, PTL

(* No fare is below the one without surge.  A fare is written by EndCommit  *)
(* only, from a multiplier that is a number (ArgsOK), and SurgeNeverCheaper *)
(* bounds it.                                                               *)
THEOREM NeverBelowPlainFareCorrect == Spec => []NeverBelowPlainFare
<1>1. Init => NeverBelowPlainFare
  BY DEF Init, FaresInit, NoTrip, NeverBelowPlainFare
<1>2. BillInv /\ NeverBelowPlainFare /\ [Next]_billVars => NeverBelowPlainFare'
  <2> SUFFICES ASSUME BillInv, NeverBelowPlainFare, [Next]_billVars,
                      NEW t \in Trips, trip'[t].fare # None
               PROVE  trip'[t].fare >= FareOf(trip'[t].dist, 100)
    BY DEF NeverBelowPlainFare
  <2> USE DEF BillInv, TypeOK, NeverBelowPlainFare
  <2>1. CASE trip' = trip
    BY <2>1
  <2>2. ASSUME NEW u \in Trips, NEW z \in Zones \cup {None}, NEW d \in Distances, Book(u, z, d)
        PROVE  trip'[t].fare >= FareOf(trip'[t].dist, 100)
    BY <2>2 DEF Book
  <2>3. ASSUME NEW u \in Trips, NEW s \in OtherStatuses, OtherMove(u, s)
        PROVE  trip'[t].fare >= FareOf(trip'[t].dist, 100)
    BY <2>3 DEF OtherMove, TripRow
  <2>4. ASSUME NEW e \in Enders, EndCommit(e)
        PROVE  trip'[t].fare >= FareOf(trip'[t].dist, 100)
    <3>1. CASE t = ender[e].trip
      <4>1. trip[t].dist \in Nat /\ ender[e].mult \in Nat
        BY <2>4 DEF ArgsOK, TripRow, EndCommit
      <4>2. /\ trip'[t].dist = trip[t].dist
            /\ trip'[t].fare = FareOf(trip[t].dist, ender[e].mult)
        BY <2>4, <3>1 DEF EndCommit
      <4>3. /\ FareOf(trip[t].dist, 100) <= FareOf(trip[t].dist, ender[e].mult)
            /\ FareOf(trip[t].dist, 100) \in Nat /\ FareOf(trip[t].dist, ender[e].mult) \in Nat
        BY <4>1, SurgeNeverCheaper, FareOfType
      <4> QED
        BY <4>2, <4>3
    <3>2. CASE t # ender[e].trip
      BY <2>4, <3>2 DEF EndCommit
    <3> QED
      BY <3>1, <3>2
  <2>5. FaresNext => trip' = trip \/ (\E e \in Enders : EndCommit(e))
          \/ (\E u \in Trips, z \in Zones \cup {None}, d \in Distances : Book(u, z, d))
          \/ (\E u \in Trips, s \in OtherStatuses : OtherMove(u, s))
    BY DEF FaresNext, SetSurge, EndBegin, EndPrice, EndFail
  <2> QED
    BY <2>1, <2>2, <2>3, <2>4, <2>5 DEF Next, billVars, fareVars
<1> QED
  BY <1>1, <1>2, BillingInvariant, PTL DEF Spec

------------------------------------------------------------------------------
(* The payments table implements PaymentLedger.  The trip was found         *)
(* completed, and the key free, several awaits before the entry is made:    *)
(* CallInv and KeyInv say that both still hold then.                        *)
THEOREM LedgerCorrect == Spec => LedgerSpec
<1> DEFINE priced == {t \in Trips : trip[t].fare # None}
<1>1. Init => Ledger!Init
  BY DEF Init, FaresInit, PaymentsInit, NoTrip, Ledger!Init
<1>2. BillInv /\ [Next]_billVars => [Ledger!Next]_<<payment, priced>>
  <2> SUFFICES ASSUME BillInv, [Next]_billVars
               PROVE  Ledger!Next \/ (payment' = payment /\ priced' = priced)
    OBVIOUS
  <2>1. CASE FaresNext /\ UNCHANGED payVars
    <3>1. payment' = payment
      BY <2>1 DEF payVars
    <3>2. \A t \in Trips : trip[t].fare # None => trip'[t].fare # None
      BY <2>1, FareSteps DEF FareStepOK
    <3>3. trip' = trip \/ \E t \in Trips : \A u \in Trips \ {t} : trip'[u] = trip[u]
      <4> USE DEF BillInv, TypeOK, ArgsOK
      <4>1. ASSUME NEW e \in Enders, EndCommit(e)
            PROVE  \E t \in Trips : \A u \in Trips \ {t} : trip'[u] = trip[u]
        <5>1. ender[e].trip \in Trips
          BY <4>1 DEF EndCommit
        <5> QED
          BY <4>1, <5>1 DEF EndCommit
      <4>2. ASSUME NEW t \in Trips, NEW z \in Zones \cup {None}, NEW d \in Distances, Book(t, z, d)
            PROVE  \A u \in Trips \ {t} : trip'[u] = trip[u]
        BY <4>2 DEF Book
      <4>3. ASSUME NEW t \in Trips, NEW s \in OtherStatuses, OtherMove(t, s)
            PROVE  \A u \in Trips \ {t} : trip'[u] = trip[u]
        BY <4>3 DEF OtherMove
      <4> QED
        BY <2>1, <4>1, <4>2, <4>3 DEF FaresNext, SetSurge, EndBegin, EndPrice, EndFail
    <3>4. ASSUME NEW t \in Trips, \A u \in Trips \ {t} : trip'[u] = trip[u]
          PROVE  priced' = priced \/ priced' = priced \cup {t}
      BY <3>2, <3>4
    <3> QED
      BY <3>1, <3>3, <3>4 DEF Ledger!Next, Ledger!Price
  <2>2. CASE PaymentsNext /\ UNCHANGED fareVars
    <3>1. priced' = priced
      BY <2>2 DEF fareVars
    <3>2. ASSUME NEW c \in Calls, PayCommit(c)
          PROVE  Ledger!Enter(c, payment'[c])
      <4>1. /\ payment'[c] = [trip |-> call[c].trip, key |-> call[c].key,
                               amount |-> call[c].amount,
                               status |-> IF Declined(call[c].amount) THEN "FAILED"
                                                                      ELSE "SUCCEEDED"]
            /\ payment' = [payment EXCEPT ![c] = payment'[c]]
        BY <3>2 DEF PayCommit, BillInv, TypeOK
      <4>2. /\ payment[c] = NoPayment
            /\ call[c].trip \in Trips /\ trip[call[c].trip].fare # None
        BY <3>2 DEF PayCommit, At, BillInv, CallInv, ArgsOK, Pending
      <4>3. \A j \in Calls : call[c].key # None =>
              payment[j] = NoPayment \/ payment[j].key # call[c].key
        BY <3>2 DEF PayCommit, At, BillInv, KeyInv
      <4>4. payment'[c] # NoPayment
        BY <4>1 DEF NoPayment, NoRow
      <4> QED
        BY <3>1, <4>1, <4>2, <4>3, <4>4 DEF Ledger!Enter, Ledger!Vacant, Declined
    <3>3. payment' = payment \/ \E c \in Calls : PayCommit(c)
      BY <2>2 DEF PaymentsNext, PayStep, PayBegin, PayReplay, PayNoReplay, PayTripCompleted,
                  PayRefused, PayInsert, PayIntegrityError, PayQueueRetry, PayAnnounce,
                  PayFail, RetryPayment
    <3> QED
      BY <3>1, <3>2, <3>3 DEF Ledger!Next
  <2>3. CASE UNCHANGED billVars
    BY <2>3 DEF billVars, fareVars, payVars
  <2> QED
    BY <2>1, <2>2, <2>3 DEF Next
<1> QED
  BY <1>1, <1>2, BillingInvariant, PTL DEF Spec, LedgerSpec, Ledger!Spec
==============================================================================
