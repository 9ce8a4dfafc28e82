----------------------------- MODULE MatchWorker -----------------------------
(***************************************************************************)
(* The Celery task comet.match_ride (app/workers/tasks.py).  Where drivers *)
(* are, and how rank_drivers orders them, is abstracted: any subset of the *)
(* GEO set may be near the pickup, and any online one may be ranked first. *)
(***************************************************************************)
EXTENDS CometState

matchFrame == <<book, rstatus, rdriver, tstatus, dstatus, driverLock, geo, throttle,
                inbox>>

(* A worker process takes a task off the queue and acknowledges it (Celery *)
(* acknowledges early unless told otherwise).                              *)
MatchTake(w, r) ==
  /\ MayBegin(w) /\ queue[r] > 0
  /\ queue' = [queue EXCEPT ![r] = @ - 1]
  /\ Begin(w, "match_lock", [NoLocals EXCEPT !.ride = r])
  /\ UNCHANGED <<matchFrame, rideLock, offer, index, assignLock>>

(* SELECT ... FOR UPDATE of the ride, then the trip. *)
MatchLockRide(w) ==
  LET r == lv[w].ride IN
  /\ At(w, "match_lock")
  /\ RideFree(r)
  /\ rstatus[r] = "matching" /\ tstatus[r] = "MATCHING"
  /\ LockRide(w, r)
  /\ Goto(w, "match_geo")
  /\ UNCHANGED <<matchFrame, queue, offer, index, assignLock, lv>>

MatchNotWanted(w) ==
  LET r == lv[w].ride IN
  /\ At(w, "match_lock")
  /\ RideFree(r)
  /\ ~(rstatus[r] = "matching" /\ tstatus[r] = "MATCHING")
  /\ Finish(w)
  /\ UNCHANGED <<matchFrame, queue, rideLock, offer, index, assignLock>>

(* Seeded fault: a return that leaves the transaction open. *)
MatchReturnOpen(w) == UNCHANGED rideLock /\ Finish(w)

(* The task returns: sync_session_scope commits, which frees the ride. *)
MatchReturn(w) == rideLock' = [rideLock EXCEPT ![lv[w].ride] = None] /\ Finish(w)

MatchGeoSearch(w, near) ==
  /\ At(w, "match_geo")
  /\ near # {} /\ near \subseteq geo
  /\ Begin(w, "match_rank", [lv[w] EXCEPT !.near = near])
  /\ UNCHANGED <<matchFrame, queue, rideLock, offer, index, assignLock>>

(* "matching_no_candidates": nobody within the radius. *)
MatchNoCandidates(w) ==
  /\ At(w, "match_geo")
  /\ MatchReturn(w)
  /\ UNCHANGED <<matchFrame, queue, offer, index, assignLock>>

(* The drivers' rows are read without a lock. *)
MatchChoose(w, d) ==
  /\ At(w, "match_rank")
  /\ d \in lv[w].near /\ dstatus[d] = "online"
  /\ Begin(w, "match_setnx", [lv[w] EXCEPT !.driver = d, !.near = {}])
  /\ UNCHANGED <<matchFrame, queue, rideLock, offer, index, assignLock>>

(* "matching_no_online_ranked". *)
MatchNoneOnline(w) ==
  /\ At(w, "match_rank")
  /\ \A d \in lv[w].near : dstatus[d] # "online"
  /\ MatchReturn(w)
  /\ UNCHANGED <<matchFrame, queue, offer, index, assignLock>>

(* SET assign_lock NX EX 15. *)
MatchAssignLock(w) ==
  LET r == lv[w].ride IN
  /\ At(w, "match_setnx")
  /\ ~assignLock[r]
  /\ assignLock' = [assignLock EXCEPT ![r] = TRUE]
  /\ Goto(w, "match_store")
  /\ UNCHANGED <<matchFrame, queue, rideLock, offer, index, lv>>

(* "matching_assign_lock_busy". *)
MatchAssignBusy(w) ==
  /\ At(w, "match_setnx")
  /\ assignLock[lv[w].ride]
  /\ MatchReturn(w)
  /\ UNCHANGED <<matchFrame, queue, offer, index, assignLock>>

(* uuid4: a token no driver's app, and no accept on its way, holds for this *)
(* ride.  A token is only ever compared with the one of the ride's offer,   *)
(* which the new offer replaces.                                            *)
FreshToken(r, t) == /\ \A d \in Drivers : inbox[d] # [ride |-> r, token |-> t]
                    /\ \A p \in Procs : lv[p].ride = r => lv[p].token # t

MatchStore(w, t) ==
  LET r == lv[w].ride IN
  /\ At(w, "match_store")
  /\ FreshToken(r, t)
  /\ StoreOffer(r, lv[w].driver, t)
  /\ Goto(w, "match_release")
  /\ UNCHANGED <<matchFrame, queue, rideLock, assignLock, lv>>

(* DEL assign_lock, then the end of the task. *)
MatchRelease(w) ==
  /\ At(w, "match_release")
  /\ assignLock' = [assignLock EXCEPT ![lv[w].ride] = FALSE]
  /\ MatchReturn(w)
  /\ UNCHANGED <<matchFrame, queue, offer, index>>

MatchStep(w) ==
  \/ MatchLockRide(w) \/ MatchNotWanted(w)
  \/ (\E near \in SUBSET Drivers : MatchGeoSearch(w, near)) \/ MatchNoCandidates(w)
  \/ (\E d \in Drivers : MatchChoose(w, d)) \/ MatchNoneOnline(w)
  \/ MatchAssignLock(w) \/ MatchAssignBusy(w)
  \/ (\E t \in Tokens : MatchStore(w, t)) \/ MatchRelease(w)

MatchCall(w) == \E r \in Rides : MatchTake(w, r)
==============================================================================
