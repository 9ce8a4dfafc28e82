--------------------------- MODULE RankingTheorems ---------------------------
(***************************************************************************)
(* Proofs about Ranking, for any number of drivers, any positions and       *)
(* ratings, any radius and any COUNT.                                      *)
(***************************************************************************)
EXTENDS Ranking, FiniteSetTheorems, WellFoundedInduction, TLAPS

(* What the choice knows of the search: everybody it found was in reach,    *)
(* and nobody in reach was left out unless there were too many.             *)
SearchOK ==
  task = "rank" =>
    /\ found \subseteq Within(seen)
    /\ Cardinality(Within(seen)) <= Count => found = Within(seen)

RankInv == TypeOK /\ SearchOK

LEMMA InitRank == Init => RankInv
BY RankingAssumption DEF Init, RankInv, TypeOK, SearchOK, Nowhere, rows, Statuses, Tiers

(* A step of a driver leaves the task alone. *)
LEMMA DriverStepRank ==
  ASSUME RankInv, NEW d \in Drivers,
         \/ \E x \in Positions : Ping(d, x)
         \/ GeoRem(d)
         \/ \E s \in Statuses : SetStatus(d, s)
  PROVE  RankInv'
<1>1. TypeOK'
  <2>1. CASE \E x \in Positions : Ping(d, x)
    BY <2>1 DEF RankInv, TypeOK, Ping, rows
  <2>2. CASE GeoRem(d)
    BY <2>2 DEF RankInv, TypeOK, GeoRem, rows
  <2>3. CASE \E s \in Statuses : SetStatus(d, s)
    BY <2>3 DEF RankInv, TypeOK, SetStatus
  <2> QED BY <2>1, <2>2, <2>3
<1>2. UNCHANGED <<task, seen, found>>
  BY DEF Ping, GeoRem, SetStatus
<1>3. SearchOK'
  BY <1>2 DEF RankInv, SearchOK, Within
<1> QED BY <1>1, <1>3 DEF RankInv

LEMMA SearchRank ==
  ASSUME RankInv, NEW near \in SUBSET Drivers, NEW t \in Tiers, Search(near, t)
  PROVE  RankInv'
<1>1. CASE near = {}
  <2>1. UNCHANGED <<pos, rows, task, wanted, seen, found>> /\ chosen' = None
    BY <1>1 DEF Search, AfterSearch, rows
  <2> QED BY <2>1 DEF RankInv, TypeOK, SearchOK, Within, rows
<1>2. CASE near # {}
  <2>1. /\ task' = "rank" /\ wanted' = t /\ seen' = pos /\ found' = near /\ chosen' = None
        /\ UNCHANGED <<pos, status, tier, rating>>
    BY <1>2 DEF Search, AfterSearch, rows
  <2>2. TypeOK'
    BY <1>2, <2>1 DEF RankInv, TypeOK
  <2>3. Within(seen)' = Within(pos)
    BY <2>1 DEF Within
  <2>4. SearchOK'
    BY <2>1, <2>3 DEF Search, Nearest, SearchOK
  <2> QED BY <2>2, <2>4 DEF RankInv
<1> QED BY <1>1, <1>2

LEMMA ReturnRank ==
  ASSUME RankInv, NEW d \in Drivers \cup {None}, Return(d)
  PROVE  RankInv'
BY DEF RankInv, TypeOK, SearchOK, Return, Nowhere, rows

LEMMA RankInductive == RankInv /\ [Next]_vars => RankInv'
<1> SUFFICES ASSUME RankInv, [Next]_vars PROVE RankInv'
  OBVIOUS
<1>1. ASSUME NEW d \in Drivers, Choose(d) PROVE RankInv'
  BY <1>1, ReturnRank DEF Choose
<1>2. CASE NoneOnline
  BY <1>2, ReturnRank DEF NoneOnline
<1>3. CASE UNCHANGED vars
  BY <1>3 DEF RankInv, TypeOK, SearchOK, Within, vars, rows
<1> QED BY <1>1, <1>2, <1>3, DriverStepRank, SearchRank DEF Next

(* Ranking is well typed: the task goes on after a search exactly when      *)
(* somebody was found.                                                     *)
THEOREM RankTypeCorrect == Spec => []TypeOK
<1>1. RankInv => TypeOK
  BY DEF RankInv
<1> QED BY InitRank, RankInductive, <1>1, PTL DEF Spec

------------------------------------------------------------------------------
LEMMA TermArithmetic ==
  ASSUME NEW r \in Int
  PROVE  /\ (500 - Clamp(r)) * 15 \in Int
         /\ 0 <= (500 - Clamp(r)) * 15 /\ (500 - Clamp(r)) * 15 <= 7500
BY DEF Clamp

(* The rating is worth at most 0.75 km. *)
LEMMA RatingTermBounded ==
  ASSUME TypeOK, NEW d \in Drivers
  PROVE  RatingTerm(d) \in Int /\ 0 <= RatingTerm(d) /\ RatingTerm(d) <= 7500
<1>1. rating[d] \in Int \/ rating[d] = NoRating
  <2>1. rating[d] \in Ratings
    BY DEF TypeOK
  <2> QED BY <2>1, RankingAssumption
<1>2. CASE rating[d] = NoRating
  <2>1. RatingTerm(d) = (500 - Clamp(300)) * 15
    BY <1>2 DEF RatingTerm
  <2> QED BY <2>1, TermArithmetic
<1>3. CASE rating[d] # NoRating
  <2>1. RatingTerm(d) = (500 - Clamp(rating[d])) * 15
    BY <1>3 DEF RatingTerm
  <2> QED BY <1>1, <1>3, <2>1, TermArithmetic
<1> QED BY <1>2, <1>3

LEMMA ScoreArithmetic ==
  ASSUME NEW m \in Int, NEW n \in Int, NEW p \in Int, NEW q \in Int, NEW a \in Int, NEW b \in Int,
         0 <= p, p <= 25000, 0 <= q, q <= 25000, 0 <= a, a <= 7500, 0 <= b, b <= 7500,
         m + p + a <= n + q + b
  PROVE  /\ m - n <= 25000 + 7500
         /\ p = 25000 /\ q = 0 => n - m >= 25000 - 7500
OBVIOUS

(* Of two candidates, the one tried first is not much farther. *)
LEMMA ChoiceBounded ==
  ASSUME TypeOK, NEW d \in Within(seen), NEW e \in Within(seen), ~Ahead(e, d)
  PROVE  /\ seen[d] - seen[e] <= 25000 + 7500
         /\ tier[d] # wanted /\ tier[e] = wanted => seen[e] - seen[d] >= 25000 - 7500
<1>1. /\ d \in Drivers /\ seen[d] \in Positions \cup {Away} /\ seen[d] # Away
      /\ e \in Drivers /\ seen[e] \in Positions \cup {Away} /\ seen[e] # Away
  BY DEF TypeOK, Within
<1>2. seen[d] \in Int /\ seen[e] \in Int
  <2>1. seen[d] \in Positions /\ seen[e] \in Positions
    BY <1>1
  <2>2. Positions \subseteq Int
    BY RankingAssumption
  <2> QED BY <2>1, <2>2
<1>3. /\ RatingTerm(d) \in Int /\ 0 <= RatingTerm(d) /\ RatingTerm(d) <= 7500
      /\ RatingTerm(e) \in Int /\ 0 <= RatingTerm(e) /\ RatingTerm(e) <= 7500
  BY <1>1, RatingTermBounded
<1>4. /\ TierPenalty(d) \in Int /\ 0 <= TierPenalty(d) /\ TierPenalty(d) <= 25000
      /\ TierPenalty(e) \in Int /\ 0 <= TierPenalty(e) /\ TierPenalty(e) <= 25000
      /\ tier[d] # wanted /\ tier[e] = wanted => TierPenalty(d) = 25000 /\ TierPenalty(e) = 0
  BY DEF TierPenalty
<1>5. ~(Score(e) < Score(d))
  BY DEF Ahead
<1>6. seen[d] + TierPenalty(d) + RatingTerm(d) <= seen[e] + TierPenalty(e) + RatingTerm(e)
  <2>1. Score(d) \in Int /\ Score(e) \in Int
    BY <1>2, <1>3, <1>4 DEF Score
  <2>2. Score(d) <= Score(e)
    BY <1>5, <2>1
  <2> QED BY <2>2 DEF Score
<1> QED BY <1>2, <1>3, <1>4, <1>6, ScoreArithmetic

(* The decision is a choice among what the search found, or the report that *)
(* none of it is online.                                                   *)
LEMMA DecisionStep ==
  ASSUME Decides, [Next]_vars
  PROVE  NoneOnline \/ \E d \in Drivers : Choose(d)
BY DEF Decides, Next, Ping, GeoRem, SetStatus, Search, vars

(* A ride is left without an offer only if nobody in reach is online or the *)
(* search was crowded, for every COUNT and every crowd.                     *)
THEOREM NobodyMissedCorrect == Spec => NobodyMissed
<1> DEFINE Missed == Decides /\ chosen' = None =>
                       \/ Cardinality(Within(seen)) > Count
                       \/ \A d \in Within(seen) : ~Online(d)
<1>1. ASSUME RankInv, [Next]_vars, Decides, chosen' = None, ~(Cardinality(Within(seen)) > Count)
      PROVE  \A d \in Within(seen) : ~Online(d)
  <2>1. NoneOnline
    <3>1. ASSUME NEW d \in Drivers, Choose(d) PROVE FALSE
      BY <1>1, <3>1, RankingAssumption DEF Choose, Return
    <3> QED BY <1>1, <3>1, DecisionStep
  <2>2. found = Within(seen)
    <3>1. Cardinality(Within(seen)) <= Count => found = Within(seen)
      BY <1>1 DEF RankInv, SearchOK, Decides
    <3>2. found \subseteq Within(seen)
      BY <1>1 DEF RankInv, SearchOK, Decides
    <3>3. Cardinality(Within(seen)) \in Nat
      <4>1. IsFiniteSet(Within(seen))
        BY RankingAssumption, FS_Subset DEF Within
      <4> QED BY <4>1, FS_CardinalityType
    <3> QED BY <1>1, <3>1, <3>3, RankingAssumption
  <2> QED BY <2>1, <2>2 DEF NoneOnline, NobodyToOffer, Passes, Online
<1>2. RankInv /\ [Next]_vars => [Missed]_vars
  BY <1>1
<1> QED BY InitRank, RankInductive, <1>2, PTL DEF Spec, NobodyMissed

(* Ranking never costs the rider more than 3.25 km, and crosses tiers only  *)
(* to save 1.75 km or more, for any ratings the table may hold.             *)
THEOREM DetourCorrect == Spec => DetourBounded
<1> DEFINE Bounded == Decides /\ chosen' # None =>
      \A e \in found : Online(e) =>
        /\ seen[chosen'] - seen[e] <= 25000 + 7500
        /\ tier[chosen'] # wanted /\ tier[e] = wanted => seen[e] - seen[chosen'] >= 25000 - 7500
<1>1. ASSUME RankInv, [Next]_vars, Decides, chosen' # None, NEW e \in found, Online(e)
      PROVE  /\ seen[chosen'] - seen[e] <= 25000 + 7500
             /\ tier[chosen'] # wanted /\ tier[e] = wanted => seen[e] - seen[chosen'] >= 25000 - 7500
  <2>1. PICK d \in Drivers : Choose(d)
    BY <1>1, DecisionStep DEF NoneOnline, Return
  <2>2. chosen' = d /\ d \in found /\ ~Ahead(e, d)
    BY <1>1, <2>1 DEF Choose, Return, Passes, Online
  <2>3. d \in Within(seen) /\ e \in Within(seen)
    BY <1>1, <2>2 DEF RankInv, SearchOK, Decides
  <2> QED BY <1>1, <2>2, <2>3, ChoiceBounded DEF RankInv
<1>2. RankInv /\ [Next]_vars => [Bounded]_vars
  BY <1>1
<1> QED BY InitRank, RankInductive, <1>2, PTL DEF Spec, DetourBounded

------------------------------------------------------------------------------
(* The ranking decides. *)
LEMMA ScoreType ==
  ASSUME TypeOK, NEW d \in Within(seen)
  PROVE  seen[d] \in Nat /\ Score(d) \in Nat
<1>1. d \in Drivers /\ seen[d] \in Positions \cup {Away} /\ seen[d] # Away
  BY DEF TypeOK, Within
<1>2. seen[d] \in Nat
  BY <1>1, RankingAssumption
<1>3. TierPenalty(d) \in Nat
  BY DEF TierPenalty
<1>4. RatingTerm(d) \in Int /\ 0 <= RatingTerm(d)
  BY <1>1, RatingTermBounded
<1> QED BY <1>2, <1>3, <1>4 DEF Score

LEMMA LeastOf ==
  ASSUME NEW S \in SUBSET Nat, S # {}
  PROVE  \E m \in S : \A n \in S : m <= n
<1> DEFINE Less == {ss \in Nat \X Nat : ss[1] < ss[2]}
<1>1. IsWellFoundedOn(Less, Nat)
  BY NatLessThanWellFounded DEF OpToRel
<1>2. \A m, n \in Nat : <<m, n>> \in Less <=> m < n
  OBVIOUS
<1> HIDE DEF Less
<1>3. PICK m \in S : \A n \in S : <<n, m>> \notin Less
  BY <1>1, WFMin
<1>4. ASSUME NEW n \in S PROVE m <= n
  <2>1. m \in Nat /\ n \in Nat /\ ~(n < m)
    BY <1>2, <1>3
  <2> QED BY <2>1
<1> QED BY <1>4

(* Somebody of any crowd has nobody of it ahead: the least distance among   *)
(* the least scores.                                                       *)
LEMMA Foremost ==
  ASSUME TypeOK, NEW S \in SUBSET Within(seen), S # {}
  PROVE  \E d \in S : \A e \in S : ~Ahead(e, d)
<1> DEFINE scores == {Score(d) : d \in S}
<1>1. scores \in SUBSET Nat /\ scores # {}
  BY ScoreType
<1>2. PICK s \in scores : \A n \in scores : s <= n
  BY <1>1, LeastOf
<1> DEFINE best == {d \in S : Score(d) = s}
           distances == {seen[d] : d \in best}
<1>3. distances \in SUBSET Nat /\ distances # {}
  BY <1>2, ScoreType
<1>4. PICK x \in distances : \A n \in distances : x <= n
  BY <1>3, LeastOf
<1>5. PICK d \in best : seen[d] = x
  BY <1>4
<1>6. ASSUME NEW e \in S PROVE ~Ahead(e, d)
  <2>1. Score(e) \in Nat /\ Score(d) \in Nat /\ seen[e] \in Nat /\ seen[d] \in Nat
    BY ScoreType
  <2>2. Score(d) <= Score(e)
    BY <1>2
  <2>3. Score(e) = Score(d) => seen[d] <= seen[e]
    BY <1>4, <1>5
  <2> QED BY <2>1, <2>2, <2>3 DEF Ahead
<1> QED BY <1>5, <1>6

(* The guard of Choose. *)
FirstOnline(d) == d \in found /\ ~Passes(d) /\ \A e \in found : Ahead(e, d) => Passes(e)

(* A task that has searched can always choose or report that nobody is      *)
(* online, and two it could choose have one score and one distance: the     *)
(* ranking leaves open nothing but exact ties.                             *)
ChoiceSettled ==
  task = "rank" =>
    /\ NobodyToOffer \/ \E d \in Drivers : FirstOnline(d)
    /\ \A d, e \in Drivers : FirstOnline(d) /\ FirstOnline(e) =>
         Score(d) = Score(e) /\ seen[d] = seen[e]

(* rank_drivers and the loop over it always decide, and only one way,       *)
(* whoever goes on or off duty between the search and the choice.          *)
THEOREM ChoiceSettledCorrect == Spec => []ChoiceSettled
<1>1. RankInv => ChoiceSettled
  <2> SUFFICES ASSUME RankInv, task = "rank"
               PROVE  /\ NobodyToOffer \/ \E d \in Drivers : FirstOnline(d)
                      /\ \A d, e \in Drivers : FirstOnline(d) /\ FirstOnline(e) =>
                           Score(d) = Score(e) /\ seen[d] = seen[e]
    BY DEF ChoiceSettled
  <2>1. TypeOK /\ found \subseteq Within(seen)
    BY DEF RankInv, SearchOK
  <2>2. ASSUME ~NobodyToOffer PROVE \E d \in Drivers : FirstOnline(d)
    <3> DEFINE free == {d \in found : ~Passes(d)}
    <3>1. free \in SUBSET Within(seen) /\ free # {}
      BY <2>1, <2>2 DEF NobodyToOffer
    <3>2. PICK d \in free : \A e \in free : ~Ahead(e, d)
      BY <2>1, <3>1, Foremost
    <3>3. d \in Drivers
      BY <3>1 DEF Within
    <3> QED BY <3>2, <3>3 DEF FirstOnline
  <2>3. ASSUME NEW d \in Drivers, NEW e \in Drivers, FirstOnline(d), FirstOnline(e)
        PROVE  Score(d) = Score(e) /\ seen[d] = seen[e]
    <3>1. d \in Within(seen) /\ e \in Within(seen) /\ ~Ahead(d, e) /\ ~Ahead(e, d)
      BY <2>1, <2>3 DEF FirstOnline
    <3>2. Score(d) \in Nat /\ Score(e) \in Nat /\ seen[d] \in Nat /\ seen[e] \in Nat
      BY <2>1, <3>1, ScoreType
    <3> QED BY <3>1, <3>2 DEF Ahead
  <2> QED BY <2>2, <2>3
<1> QED BY InitRank, RankInductive, <1>1, PTL DEF Spec

(* What MatchWorker lets a task do: find any members of the GEO set, and    *)
(* choose any of them who is online, or nobody if none of them is.          *)
ChoicesAsInMatchWorker ==
  [][/\ task = "idle" /\ task' = "rank" =>
          found' # {} /\ \A d \in found' : d \in Drivers /\ pos[d] # Away
     /\ Decides => \/ chosen' \in found /\ Online(chosen')
                   \/ chosen' = None /\ \A d \in found : ~Online(d)]_vars

(* The ranking makes no choice that the task of Comet could not make.       *)
THEOREM ChoicesCorrect == Spec => ChoicesAsInMatchWorker
<1>1. ASSUME [Next]_vars, task = "idle", task' = "rank"
      PROVE  found' # {} /\ \A d \in found' : d \in Drivers /\ pos[d] # Away
  <2>1. PICK near \in SUBSET Drivers, t \in Tiers : Search(near, t)
    BY <1>1 DEF Next, Ping, GeoRem, SetStatus, Choose, NoneOnline, vars
  <2> QED BY <1>1, <2>1 DEF Search, AfterSearch, Nearest, Within
<1>2. ASSUME [Next]_vars, Decides
      PROVE  \/ chosen' \in found /\ Online(chosen')
             \/ chosen' = None /\ \A d \in found : ~Online(d)
  BY <1>2, DecisionStep DEF Choose, NoneOnline, NobodyToOffer, Passes, Online, Return
<1>3. [Next]_vars =>
        [/\ task = "idle" /\ task' = "rank" =>
              found' # {} /\ \A d \in found' : d \in Drivers /\ pos[d] # Away
         /\ Decides => \/ chosen' \in found /\ Online(chosen')
                       \/ chosen' = None /\ \A d \in found : ~Online(d)]_vars
  BY <1>1, <1>2
<1> QED BY <1>3, PTL DEF Spec, ChoicesAsInMatchWorker
==============================================================================
