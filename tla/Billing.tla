------------------------------- MODULE Billing -------------------------------
(***************************************************************************)
(* Fares and payments of trips: bookings, ends, the other writers of       *)
(* trips.status and the calls of POST /payments, interleaved at every await. *)
(***************************************************************************)
EXTENDS Payments

billVars == <<fareVars, payVars>>

Init == FaresInit /\ PaymentsInit

Next == \/ FaresNext /\ UNCHANGED payVars
        \/ PaymentsNext /\ UNCHANGED fareVars

Spec == Init /\ [][Next]_billVars

(* A request runs on; nothing is assumed of clients, operators, failures.   *)
FairSpec == Spec /\ \A c \in Calls : WF_billVars(PayStep(c) /\ UNCHANGED fareVars)

------------------------------------------------------------------------------
(* Rows, calls and queues keep to their domains; in particular a booking    *)
(* always has a multiplier, whatever the zone hash holds.                   *)
TypeOK ==
  /\ trip \in [Trips -> TripRow]
  /\ \A t \in Trips : trip[t].status # NoRow => trip[t].booked \in Nat
  /\ surge \in [Zones -> Multipliers \cup {None}]
  /\ ender \in [Enders -> [at: {"idle", "price", "commit"}, trip: Trips \cup {None},
                           mult: Nat \cup {None}]]
  /\ payment \in [Calls -> PaymentRow \cup {NoPayment}]
  /\ call \in [Calls -> [at: CallSteps, trip: Trips \cup {None}, key: Keys \cup {None},
                         amount: Amounts \cup {0}, answer: Calls \cup {None}]]
  /\ retries \subseteq Calls /\ retried \subseteq Calls

(* Replaying a key: all calls with one key that get a payment get the same  *)
(* payment, whichever of them inserted it, however they overlap or crash.   *)
SameAnswer ==
  \A c, d \in Calls :
    At(c, "answered") /\ At(d, "answered") /\ call[c].key = call[d].key
      /\ call[c].key # None
    => call[c].answer = call[d].answer

(* A client that is told of its declined payment by the call that made it   *)
(* has a retry queued or run; only a failure between the commit and         *)
(* apply_async (a 500) loses one.                                           *)
DeclineRetried ==
  \A c \in Calls :
    payment[c].status = "FAILED" =>
      c \in retries \cup retried \/ call[c].at \in {"retry", "failed"}

(* No trip is billed below the fare without surge, whatever an operator     *)
(* stores for its zone, before the booking or during the trip.              *)
NeverBelowPlainFare ==
  \A t \in Trips : trip[t].fare # None => trip[t].fare >= FareOf(trip[t].dist, 100)

Ledger == INSTANCE PaymentLedger WITH
  Ids <- Calls, Empty <- NoPayment, ledger <- payment,
  priced <- {t \in Trips : trip[t].fare # None}

(* The table implements PaymentLedger: a key names one payment, a payment   *)
(* never changes, and none is taken for a trip without a fare, although the *)
(* key, the trip and the decision are read and made several awaits apart.   *)
LedgerSpec == Ledger!Spec

(* Every call is answered, also one that waits for another one's key. *)
PaymentsEnd == \A c \in Calls : Pending(c) ~> ~Pending(c)
==============================================================================
