------------------------------- MODULE Ranking -------------------------------
(***************************************************************************)
(* Whom match_ride offers a ride to: the GEO search around the pickup       *)
(* (_geo_candidates_sync), the score of each candidate and the order they   *)
(* are tried in (app/matching/engine.py), against drivers who move and go   *)
(* on and off duty meanwhile.  MatchWorker has the task's locks and stores  *)
(* and leaves this choice open.                                            *)
(*                                                                         *)
(* Distances and scores are in tenths of a meter, the resolution of         *)
(* GEOSEARCH; ratings are in hundredths, as numeric(3, 2).  One point of    *)
(* rating is worth 0.15 km, so every score is a whole number.               *)
(***************************************************************************)
EXTENDS Integers, FiniteSets

CONSTANTS
  Drivers,
  Positions,  \* distances from the pickup that drivers may be at
  Ratings,    \* of the drivers table; NoRating for NULL
  Radius,     \* radius_km
  Count,      \* GEOSEARCH COUNT
  Away,       \* not a member of the GEO set
  NoRating, None

ASSUME RankingAssumption ==
  /\ IsFiniteSet(Drivers) /\ None \notin Drivers
  /\ Positions \subseteq Nat /\ Away \notin Int
  /\ Ratings \subseteq Int \cup {NoRating} /\ NoRating \notin Int
  /\ Radius \in Nat /\ Count \in Nat \ {0}

Tiers == {"standard", "premium"}
Statuses == {"online", "other"}  \* busy and offline are passed over alike

VARIABLES
  pos,     \* the GEO set, as the distance from the pickup
  status, tier, rating,  \* the rows
  task,    \* match_ride: "idle", or "rank" between the search and the choice
  wanted,  \* the ride's tier
  seen,    \* pos when the search ran
  found,   \* its answer
  chosen   \* whom the last task offered the ride to

rows == <<status, tier, rating>>
vars == <<pos, rows, task, wanted, seen, found, chosen>>

Nowhere == [d \in Drivers |-> Away]

(* Nobody is on duty yet; tiers and ratings are the operator's.             *)
Init == /\ pos = Nowhere
        /\ status = [d \in Drivers |-> "other"]
        /\ tier \in [Drivers -> Tiers] /\ rating \in [Drivers -> Ratings]
        /\ task = "idle" /\ wanted \in Tiers
        /\ seen = Nowhere /\ found = {} /\ chosen = None

------------------------------------------------------------------------------
(* GEOADD of a driver whose row said online when the ping was served; the   *)
(* row may say something else by now.                                      *)
Ping(d, x) == /\ pos' = [pos EXCEPT ![d] = x]
              /\ UNCHANGED <<rows, task, wanted, seen, found, chosen>>

(* ZREM, when the driver goes off duty: the commit is a step of its own. *)
GeoRem(d) == /\ pos[d] # Away
             /\ pos' = [pos EXCEPT ![d] = Away]
             /\ UNCHANGED <<rows, task, wanted, seen, found, chosen>>

(* Availability, accept, and the end of a trip. *)
SetStatus(d, s) == /\ status' = [status EXCEPT ![d] = s]
                   /\ UNCHANGED <<pos, tier, rating, task, wanted, seen, found, chosen>>

------------------------------------------------------------------------------
(* score_candidate; lower is better. *)
Clamp(r) == IF r < 0 THEN 0 ELSE IF r > 500 THEN 500 ELSE r

(* Seeded fault: the rating is not clamped. *)
RawRatingTerm(d) == (500 - (IF rating[d] = NoRating THEN 300 ELSE rating[d])) * 15

RatingTerm(d) == (500 - Clamp(IF rating[d] = NoRating THEN 300 ELSE rating[d])) * 15

TierPenalty(d) == IF tier[d] = wanted THEN 0 ELSE 25000

Score(d) == seen[d] + TierPenalty(d) + RatingTerm(d)

(* rank_drivers: sorted by score, and the sort is stable, so that equal     *)
(* scores keep the order of the search, which is by distance.               *)
Ahead(d, e) == \/ Score(d) < Score(e)
               \/ Score(d) = Score(e) /\ seen[d] < seen[e]

(* GEOSEARCH BYRADIUS COUNT ASC: the nearest ones, ties broken by Redis. *)
Within(at) == {d \in Drivers : at[d] # Away /\ at[d] <= Radius}

Nearest(near, at) ==
  /\ near \subseteq Within(at)
  /\ IF Cardinality(Within(at)) <= Count THEN near = Within(at) ELSE Cardinality(near) = Count
  /\ \A d \in near, e \in Within(at) \ near : at[d] <= at[e]

(* Seeded fault: "if not ordered: return" is missing. *)
RankAnyway(near, t) == /\ task' = "rank" /\ wanted' = t
                       /\ seen' = pos /\ found' = near /\ chosen' = None

(* After the search: the task goes on if anybody was found. *)
AfterSearch(near, t) ==
  /\ chosen' = None
  /\ IF near = {} THEN UNCHANGED <<task, wanted, seen, found>>
     ELSE task' = "rank" /\ wanted' = t /\ seen' = pos /\ found' = near

Search(near, t) ==
  /\ task = "idle" /\ Nearest(near, pos)
  /\ AfterSearch(near, t)
  /\ UNCHANGED <<pos, rows>>

(* The loop over the ranking passes over whoever is not online.             *)
Passes(d) == status[d] # "online"

Return(d) == /\ task' = "idle" /\ chosen' = d
             /\ seen' = Nowhere /\ found' = {}
             /\ UNCHANGED <<pos, rows, wanted>>

(* "chosen": the first of the ranking who is online when the rows are read. *)
Choose(d) == /\ task = "rank" /\ d \in found /\ ~Passes(d)
             /\ \A e \in found : Ahead(e, d) => Passes(e)
             /\ Return(d)

(* Seeded fault: only the first of the ranking is looked at. *)
FirstNotOnline == \E d \in found : Passes(d) /\ \A e \in found : ~Ahead(e, d)

NobodyToOffer == \A d \in found : Passes(d)

(* "matching_no_online_ranked". *)
NoneOnline == task = "rank" /\ NobodyToOffer /\ Return(None)

Next ==
  \/ \E d \in Drivers : \/ \E x \in Positions : Ping(d, x)
                        \/ GeoRem(d)
                        \/ \E s \in Statuses : SetStatus(d, s)
                        \/ Choose(d)
  \/ \E near \in SUBSET Drivers, t \in Tiers : Search(near, t)
  \/ NoneOnline

Spec == Init /\ [][Next]_vars

------------------------------------------------------------------------------
TypeOK ==
  /\ pos \in [Drivers -> Positions \cup {Away}] /\ seen \in [Drivers -> Positions \cup {Away}]
  /\ status \in [Drivers -> Statuses]
  /\ tier \in [Drivers -> Tiers] /\ rating \in [Drivers -> Ratings]
  /\ task \in {"idle", "rank"} /\ wanted \in Tiers
  /\ found \subseteq Drivers /\ chosen \in Drivers \cup {None}
  /\ task = "rank" <=> found # {}

Decides == task = "rank" /\ task' = "idle"
Online(d) == status[d] = "online"

(* A ride is left without an offer only if nobody who was within the radius *)
(* is online, or if the radius holds more members than the search returns:  *)
(* busy drivers and stale members can then crowd out every free one.        *)
NobodyMissed ==
  [][Decides /\ chosen' = None =>
       \/ Cardinality(Within(seen)) > Count
       \/ \A d \in Within(seen) : ~Online(d)]_vars

(* What ranking costs the rider: nobody found and online was more than      *)
(* 3.25 km nearer than the one chosen, and one of another tier is chosen    *)
(* only if every one of the tier asked for was at least 1.75 km farther.    *)
DetourBounded ==
  [][Decides /\ chosen' # None =>
       \A e \in found : Online(e) =>
         /\ seen[chosen'] - seen[e] <= 25000 + 7500
         /\ tier[chosen'] # wanted /\ tier[e] = wanted => seen[e] - seen[chosen'] >= 25000 - 7500]_vars
==============================================================================
