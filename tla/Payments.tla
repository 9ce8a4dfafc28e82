------------------------------ MODULE Payments -------------------------------
(***************************************************************************)
(* POST /payments: initiate_payment (app/services/payments_service.py), one *)
(* action per await.  A call inserts at most one row, so a payment is named *)
(* by the call that inserted it.                                           *)
(***************************************************************************)
EXTENDS Fares

CONSTANTS
  Calls,     \* requests POST /payments
  Keys,      \* Idempotency-Key header values
  EmptyKey,  \* the value of an empty header: falsy, and not None
  Amounts    \* in cents

ASSUME PaymentsAssumption ==
  /\ None \notin Calls \cup Keys
  /\ Amounts \subseteq Nat

VARIABLES
  payment,  \* committed rows of "payments"
  call,     \* the calls' progress and answers
  retries,  \* retry_payment tasks in the broker (countdown 30 s)
  retried   \* retry_payment tasks that have run

payVars == <<payment, call, retries, retried>>

PaymentRow == [trip: Trips, key: Keys \cup {None}, amount: Amounts,
               status: {"SUCCEEDED", "FAILED"}]
NoPayment  == [trip |-> None, key |-> None, amount |-> 0, status |-> NoRow]

CallSteps == {"new", "lookup", "trip", "insert", "commit", "retry", "announce",
              "answered", "refused", "failed"}
Pending(c) == call[c].at \notin {"new", "answered", "refused", "failed"}

NoCall == [at |-> "new", trip |-> None, key |-> None, amount |-> 0, answer |-> None]

PaymentsInit == /\ payment = [c \in Calls |-> NoPayment]
                /\ call = [c \in Calls |-> NoCall]
                /\ retries = {} /\ retried = {}

At(c, step) == call[c].at = step
Goto(c, step) == call' = [call EXCEPT ![c].at = step]

(* The request ends; of an answer, what it was asked for matters then.      *)
Answer(c, id) ==
  call' = [call EXCEPT ![c] =
    [at |-> "answered", trip |-> None, key |-> call[c].key, amount |-> 0, answer |-> id]]
End(c, how) == call' = [call EXCEPT ![c] = [NoCall EXCEPT !.at = how]]

Rows(k) == {i \in Calls : payment[i] # NoPayment /\ payment[i].key = k}

PayBegin(c, t, k, a) ==
  /\ At(c, "new")
  /\ call' = [call EXCEPT ![c] =
       [at |-> IF k \in {None, EmptyKey} THEN "trip" ELSE "lookup",
        trip |-> t, key |-> k, amount |-> a, answer |-> None]]
  /\ UNCHANGED <<payment, retries, retried>>

(* A payment has the key: it is the answer, whatever this call asks for. *)
PayReplay(c) ==
  /\ At(c, "lookup")
  /\ \E i \in Rows(call[c].key) : Answer(c, i)
  /\ UNCHANGED <<payment, retries, retried>>

PayNoReplay(c) ==
  /\ At(c, "lookup") /\ Rows(call[c].key) = {}
  /\ Goto(c, "trip")
  /\ UNCHANGED <<payment, retries, retried>>

(* Seeded fault: any trip may be paid. *)
KnownTrip(t) == trip[t].status # NoRow

Payable(t) == trip[t].status = "COMPLETED"

PayTripCompleted(c) ==
  /\ At(c, "trip") /\ Payable(call[c].trip)
  /\ Goto(c, "insert")
  /\ UNCHANGED <<payment, retries, retried>>

(* 404 and 409. *)
PayRefused(c) ==
  /\ At(c, "trip") /\ ~Payable(call[c].trip)
  /\ End(c, "refused")
  /\ UNCHANGED <<payment, retries, retried>>

(* Seeded fault: the key is still held when its transaction has ended. *)
KeyKept(c) == call[c].key # None /\ \E d \in Calls : call[d].at \in {"commit", "answered"} /\ call[d].key = call[c].key

(* The unique index: an insert waits for another transaction that has       *)
(* inserted its key, and fails if a committed row has it.                   *)
KeyHeld(c) == call[c].key # None /\ \E d \in Calls : At(d, "commit") /\ call[d].key = call[c].key

(* Seeded fault: no unique index. *)
NoIndex(c) == FALSE

KeyTaken(c) == call[c].key # None /\ Rows(call[c].key) # {}

PayInsert(c) ==
  /\ At(c, "insert") /\ ~KeyHeld(c) /\ ~KeyTaken(c)
  /\ Goto(c, "commit")
  /\ UNCHANGED <<payment, retries, retried>>

(* IntegrityError: 500. *)
PayIntegrityError(c) ==
  /\ At(c, "insert") /\ ~KeyHeld(c) /\ KeyTaken(c)
  /\ End(c, "failed")
  /\ UNCHANGED <<payment, retries, retried>>

(* The mock provider declines amounts of .99. *)
Declined(amount) == amount % 100 = 99

(* Seeded fault: a declined payment is announced and forgotten. *)
AnnounceOnly(c) == "announce"

AfterPay(c) == IF Declined(call[c].amount) THEN "retry" ELSE "announce"

(* The row becomes visible with its final status: PROCESSING is only flushed. *)
PayCommit(c) ==
  /\ At(c, "commit")
  /\ payment' = [payment EXCEPT ![c] =
       [trip |-> call[c].trip, key |-> call[c].key, amount |-> call[c].amount,
        status |-> IF Declined(call[c].amount) THEN "FAILED" ELSE "SUCCEEDED"]]
  /\ Goto(c, AfterPay(c))
  /\ UNCHANGED <<retries, retried>>

PayQueueRetry(c) ==
  /\ At(c, "retry")
  /\ retries' = retries \cup {c}
  /\ Goto(c, "announce")
  /\ UNCHANGED <<payment, retried>>

(* The broadcast, then the response. *)
PayAnnounce(c) ==
  /\ At(c, "announce")
  /\ Answer(c, c)
  /\ UNCHANGED <<payment, retries, retried>>

(* A store call raises or the process dies; an open transaction is lost. *)
PayFail(c) ==
  /\ Faults /\ Pending(c)
  /\ End(c, "failed")
  /\ UNCHANGED <<payment, retries, retried>>

(* The task retry_payment: a log line.  The payment stays as it is. *)
RetryPayment(c) ==
  /\ c \in retries
  /\ retries' = retries \ {c} /\ retried' = retried \cup {c}
  /\ UNCHANGED <<payment, call>>

PayStep(c) ==
  \/ PayReplay(c) \/ PayNoReplay(c) \/ PayTripCompleted(c) \/ PayRefused(c)
  \/ PayInsert(c) \/ PayIntegrityError(c) \/ PayCommit(c) \/ PayQueueRetry(c)
  \/ PayAnnounce(c)

PaymentsNext ==
  \E c \in Calls :
    \/ \E t \in Trips, k \in Keys \cup {None}, a \in Amounts : PayBegin(c, t, k, a)
    \/ PayStep(c) \/ PayFail(c) \/ RetryPayment(c)
==============================================================================
