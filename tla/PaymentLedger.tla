---------------------------- MODULE PaymentLedger ----------------------------
(***************************************************************************)
(* What the payments table promises: an entry is made once, in its final   *)
(* state, for a trip that has its fare, and no key is used by two entries. *)
(***************************************************************************)
EXTENDS Integers

CONSTANTS Ids, Trips, Keys, None, Empty  \* Empty: no entry yet

VARIABLES
  ledger,  \* the entries
  priced   \* trips that have a fare

Vacant(i) == ledger[i] = Empty

Init == /\ ledger = [i \in Ids |-> Empty]
        /\ priced = {}

Price(t) == /\ priced' = priced \cup {t}
            /\ UNCHANGED ledger

Enter(i, entry) ==
  /\ Vacant(i) /\ entry # Empty
  /\ entry.trip \in priced
  /\ entry.key # None => \A j \in Ids : Vacant(j) \/ ledger[j].key # entry.key
  /\ entry.status = IF entry.amount % 100 = 99 THEN "FAILED" ELSE "SUCCEEDED"
  /\ ledger' = [ledger EXCEPT ![i] = entry]
  /\ UNCHANGED priced

Next == \/ \E t \in Trips : Price(t)
        \/ \E i \in Ids : Enter(i, ledger'[i])

Spec == Init /\ [][Next]_<<ledger, priced>>
==============================================================================
