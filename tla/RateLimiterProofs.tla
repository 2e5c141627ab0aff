-------------------------- MODULE RateLimiterProofs --------------------------
(***************************************************************************)
(* For every number of callers, every limit and every window length:       *)
(* RateLimiter keeps its types, counts exactly, and keeps the minute and   *)
(* the hour limit.                                                         *)
(***************************************************************************)
EXTENDS RateLimiter, FiniteSetTheorems, TLAPS

-----------------------------------------------------------------------------
(* Windows *)

\* The windows of every tier have a positive length, at most an hour, and
\* every tier has a limit (MFAPIConfig).
LEMMA TierFacts ==
  ASSUME NEW k \in Tier
  PROVE  /\ Length[k] \in Nat \ {0}
         /\ Length[k] <= HourLen
         /\ Limit[k] \in Nat \ {0}
<1>1. CASE k = "second"
  BY <1>1, LimitsAssumption, LengthsAssumption DEF Tier, Length, Limit
<1>2. CASE k = "minute"
  BY <1>2, LimitsAssumption, LengthsAssumption DEF Tier, Length, Limit
<1>3. CASE k = "hour"
  BY <1>3, LimitsAssumption, LengthsAssumption DEF Tier, Length, Limit
<1>4. QED BY <1>1, <1>2, <1>3 DEF Tier

\* A number and its remainder.
LEMMA Euclid ==
  ASSUME NEW t \in Nat, NEW n \in Nat \ {0}
  PROVE  /\ t % n \in 0..(n - 1)
         /\ t \div n \in Nat
         /\ t - (t % n) = n * (t \div n)
         /\ t - (t % n) \in Nat
         /\ (t - (t % n)) % n = 0
OBVIOUS

\* Rounding down to a multiple is monotone.
LEMMA RoundingMonotone ==
  ASSUME NEW s \in Nat, NEW t \in Nat, NEW n \in Nat \ {0}, s <= t
  PROVE  s - (s % n) <= t - (t % n)
OBVIOUS

\* time.Truncate gives the start of the window a moment lies in.
LEMMA TruncateFacts ==
  ASSUME NEW k \in Tier, NEW t \in Nat
  PROVE  /\ Truncate(k, t) \in Nat
         /\ Truncate(k, t) <= t
         /\ t < Truncate(k, t) + Length[k]
         /\ Truncate(k, t) % Length[k] = 0
<1>1. Length[k] \in Nat \ {0} BY TierFacts
<1>2. /\ t % Length[k] \in 0..(Length[k] - 1)
      /\ t - (t % Length[k]) \in Nat
      /\ (t - (t % Length[k])) % Length[k] = 0
  BY <1>1, Euclid
<1>3. QED BY <1>1, <1>2 DEF Truncate

\* Truncation is monotone in time.
LEMMA TruncateMonotone ==
  ASSUME NEW k \in Tier, NEW s \in Nat, NEW t \in Nat, s <= t
  PROVE  Truncate(k, s) <= Truncate(k, t)
BY TierFacts, RoundingMonotone DEF Truncate

\* The clock shows a time in Time, and its windows are in Time as well.
LEMMA WindowsOfNow ==
  ASSUME NEW k \in Tier, NEW t \in Time
  PROVE  /\ Truncate(k, t) \in Time
         /\ Truncate(k, t) \in Windows(k)
<1>1. t \in Nat /\ t <= MaxTime /\ MaxTime \in Nat BY BoundsAssumption DEF Time
<1>2. Truncate(k, t) \in Nat /\ Truncate(k, t) <= t /\ Truncate(k, t) % Length[k] = 0
  BY <1>1, TruncateFacts
<1>3. QED BY <1>1, <1>2 DEF Time, Windows

-----------------------------------------------------------------------------
(* Types *)

\* What resetWindowsIfNeeded computes has its type.
LEMMA FreshTyped ==
  ASSUME TypeOK, NEW k \in Tier
  PROVE  Latest(k) \in Windows(k) /\ Latest(k) \in Time /\ Fresh(k) \in Nat
BY WindowsOfNow DEF TypeOK, Latest, Fresh

\* A goroutine that goes on to the next tier is still a job.
LEMMA FollowingTyped ==
  ASSUME NEW j \in Job
  PROVE  Following(j) \subseteq Job /\ [j EXCEPT !.step = "insert"] \in Job
BY DEF Following, Job, NextTier, Tier

\* Setting the row of a job keeps the table typed.
LEMMA SetRowTyped ==
  ASSUME stored \in [Tier -> [Time -> Nat]], NEW j \in Job, NEW n \in Nat, SetRow(j, n)
  PROVE  stored' \in [Tier -> [Time -> Nat]]
BY DEF SetRow, Job

\* The type invariant holds at every step of every instance.
THEOREM TypeCorrect == Spec => []TypeOK
<1>1. Init => TypeOK
  <2> SUFFICES ASSUME Init PROVE TypeOK
    OBVIOUS
  <2>1. 0 \in Time /\ \A k \in Tier : 0 \in Windows(k)
    BY TierFacts, BoundsAssumption DEF Windows, Time
  <2>2. now \in Time /\ phase \in {"down", "loading", "up"} /\ loadNow \in Time
    BY <2>1 DEF Init
  <2>3. last \in [Tier -> Time] /\ (\A k \in Tier : last[k] \in Windows(k)) /\ cnt \in [Tier -> Nat]
    BY <2>1 DEF Init
  <2>4. pc \in [Callers -> {"idle", "second", "block"}] /\ deadline \in [Callers -> Time]
    BY <2>1 DEF Init
  <2>5. stored \in [Tier -> [Time -> Nat]] /\ sent \in [Tier -> [Time -> Nat]]
    BY DEF Init
  <2>6. jobs \subseteq Job /\ blockJobs \subseteq Time /\ blockedAt \subseteq Time
    BY DEF Init
  <2>7. /\ crashes \in 0..MaxCrashes /\ grants \in Nat /\ forgot \in BOOLEAN
        /\ blockedUntil \in Nat /\ promisedUntil \in Nat
    <3>1. 0 \in 0..MaxCrashes
      BY BoundsAssumption
    <3>2. QED BY <3>1 DEF Init
  <2>8. QED BY <2>2, <2>3, <2>4, <2>5, <2>6, <2>7 DEF TypeOK
<1>2. TypeOK /\ [Next]_vars => TypeOK'
  <2> SUFFICES ASSUME TypeOK, [Next]_vars PROVE TypeOK'
    OBVIOUS
  <2> USE BoundsAssumption
  <2>0. 0 \in Time /\ now \in Nat
    BY DEF TypeOK, Time
  <2>1. ASSUME NEW c \in Callers, Throttle(c) PROVE TypeOK'
    <3>1. Latest("second") + SecondLen \in Time
      <4>1. Latest("second") \in Nat
        BY FreshTyped DEF Tier, Time
      <4>2. QED BY <2>1, <4>1, LengthsAssumption DEF Throttle, Time
    <3>2. deadline' \in [Callers -> Time]
      BY <2>1, <3>1 DEF Throttle, TypeOK
    <3>3. QED BY <2>1, <3>2, FreshTyped
              DEF Throttle, ResetWindowsIfNeeded, TypeOK, clock, disk, history
  <2>2. ASSUME NEW c \in Callers, Exceed(c) PROVE TypeOK'
    <3>1. pc' \in [Callers -> {"idle", "second", "block"}] /\ deadline' \in [Callers -> Time]
      BY <2>2, <2>0 DEF Exceed, Return, TypeOK
    <3>2. last' \in [Tier -> Time] /\ (\A k \in Tier : last'[k] \in Windows(k)) /\ cnt' \in [Tier -> Nat]
      BY <2>2, FreshTyped DEF Exceed, ResetWindowsIfNeeded
    <3>3. blockedUntil' \in Nat /\ promisedUntil' \in Nat /\ blockJobs' \subseteq Time
      BY <2>2, <2>0 DEF Exceed, TypeOK
    <3>4. QED BY <2>2, <3>1, <3>2, <3>3 DEF Exceed, TypeOK, clock, disk, history
  <2>3. ASSUME NEW c \in Callers, Grant(c) PROVE TypeOK'
    <3>1. jobs' \subseteq Job
      BY <2>3 DEF Grant, TypeOK, Job, Tier, clock
    <3>2. sent' \in [Tier -> [Time -> Nat]]
      <4>1. ASSUME NEW k \in Tier
            PROVE  [sent[k] EXCEPT ![Truncate(k, now)] = @ + 1] \in [Time -> Nat]
        BY <4>1, WindowsOfNow DEF TypeOK
      <4>2. QED BY <2>3, <4>1 DEF Grant
    <3>5. pc' \in [Callers -> {"idle", "second", "block"}] /\ deadline' \in [Callers -> Time]
      BY <2>3, <2>0 DEF Grant, Return, TypeOK
    <3>3. last' \in [Tier -> Time] /\ (\A k \in Tier : last'[k] \in Windows(k)) /\ cnt' \in [Tier -> Nat]
      BY <2>3, FreshTyped DEF Grant, TypeOK
    <3>4. QED BY <2>3, <3>1, <3>2, <3>3, <3>5 DEF Grant, TypeOK, clock, disk
  <2>4. ASSUME NEW c \in Callers, BlockedAgain(c) \/ StopWaiting(c) PROVE TypeOK'
    BY <2>4, <2>0 DEF BlockedAgain, StopWaiting, Return, TypeOK, clock, memory, disk, history
  <2>5. ASSUME NEW c \in Callers, WaitUntilAvailable(c) PROVE TypeOK'
    <3>1. blockedUntil \in Time
      BY <2>5 DEF WaitUntilAvailable, TypeOK, Time
    <3>2. pc' \in [Callers -> {"idle", "second", "block"}] /\ deadline' \in [Callers -> Time]
      BY <2>5, <3>1 DEF WaitUntilAvailable, TypeOK
    <3>3. QED BY <2>5, <3>2 DEF WaitUntilAvailable, TypeOK, clock, memory, disk, history
  <2>6. ASSUME NEW j \in jobs, PersistCounts(j) PROVE TypeOK'
    <3>1. j \in Job /\ RowOf(j) \in Nat
      BY <2>6, WindowsOfNow DEF TypeOK, Job, RowOf
    <3>2. jobs' \subseteq Job
      BY <2>6, <3>1, FollowingTyped
      DEF TypeOK, PersistCounts, UpdateRow, UpdateNothing, InsertRow, InsertRejected, StatementFails
    <3>3. stored' \in [Tier -> [Time -> Nat]]
      <4>1. stored \in [Tier -> [Time -> Nat]] /\ 1 \in Nat /\ RowOf(j) + 1 \in Nat
        BY <3>1 DEF TypeOK
      <4>2. QED BY <2>6, <3>1, <4>1, SetRowTyped
      DEF PersistCounts, UpdateRow, UpdateNothing, InsertRow, InsertRejected, StatementFails
    <3>4. forgot' \in BOOLEAN
      BY <2>6
      DEF TypeOK, PersistCounts, UpdateRow, UpdateNothing, InsertRow, InsertRejected, StatementFails
    <3>5. QED BY <2>6, <3>2, <3>3, <3>4
              DEF PersistCounts, TypeOK, clock, memory, sleepers, history
  <2>7. ASSUME NEW t \in blockJobs, SetBlocked(t) PROVE TypeOK'
    BY <2>7 DEF SetBlocked, TypeOK, clock, memory, sleepers, history
  <2>8. CASE GetStatus
    BY <2>8, FreshTyped
    DEF GetStatus, ResetWindowsIfNeeded, TypeOK, clock, sleepers, disk, history
  <2>9. CASE Cleanup
    <3>1. stored' \in [Tier -> [Time -> Nat]]
      <4>1. stored \in [Tier -> [Time -> Nat]]
        BY DEF TypeOK
      <4>2. ASSUME NEW k \in Tier, NEW w \in Time
            PROVE  (IF w < now - 2 * HourLen THEN 0 ELSE stored[k][w]) \in Nat
        BY <4>1, <4>2
      <4>3. QED BY <2>9, <4>2 DEF Cleanup
    <3>2. QED BY <2>9, <3>1 DEF Cleanup, TypeOK, clock, memory, sleepers, history
  <2>10. CASE Tick
    <3>1. now' \in Time
      BY <2>10 DEF Tick, TypeOK, Time
    <3>2. QED BY <2>10, <3>1 DEF Tick, TypeOK, memory, sleepers, disk, history
  <2>11. CASE Crash
    <3>1. 0 \in Time /\ \A k \in Tier : 0 \in Windows(k)
      BY TierFacts DEF Windows, Time
    <3>2. QED BY <2>11, <3>1 DEF Crash, TypeOK, clock, disk, history
  <2>12. CASE Start
    BY <2>12 DEF Start, TypeOK, clock, sleepers, disk, history
  <2>13. CASE LoadState
    <3>1. \A k \in Tier : /\ Truncate(k, loadNow) \in Windows(k)
                           /\ Truncate(k, loadNow) \in Time
                           /\ stored[k][Truncate(k, now)] \in Nat
      BY WindowsOfNow DEF TypeOK
    <3>2. blockedUntil' \in Nat
      <4>1. blockedAt \subseteq Nat
        BY DEF TypeOK, Time
      <4>2. CASE \E t \in blockedAt : t > loadNow
        <5>1. (CHOOSE t \in blockedAt : TRUE) \in Nat
          BY <4>1, <4>2
        <5>2. QED BY <2>13, <4>2, <5>1 DEF LoadState
      <4>3. CASE ~\E t \in blockedAt : t > loadNow
        BY <2>13, <4>3 DEF LoadState, TypeOK
      <4>4. QED BY <4>2, <4>3
    <3>3. QED BY <2>13, <3>1, <3>2
              DEF LoadState, TypeOK, clock, sleepers, disk, history
  <2>14. CASE LoadFails
    BY <2>14 DEF LoadFails, TypeOK, clock, sleepers, disk, history
  <2>15. CASE UNCHANGED vars
    BY <2>15 DEF vars, TypeOK
  <2>16. QED
    BY <2>1, <2>2, <2>3, <2>4, <2>5, <2>6, <2>7, <2>8, <2>9, <2>10, <2>11, <2>12,
       <2>13, <2>14, <2>15 DEF Next, Caller, Acquire
<1>3. QED BY <1>1, <1>2, PTL DEF Spec

-----------------------------------------------------------------------------
(* The inductive invariant *)

JobsAreDistinct ==
  /\ IsFiniteSet(jobs)
  /\ \A j \in jobs : j.id < grants
  /\ \A i, j \in jobs : i.id = j.id => i = j
  /\ phase # "up" => jobs = {}

\* No window start lies in the future, and nothing is sent there.
Causal ==
  /\ loadNow <= now
  /\ \A k \in Tier : last[k] <= Truncate(k, now)
  /\ \A k \in Tier, w \in Time : w > Truncate(k, now) => sent[k][w] = 0
  /\ phase = "loading" =>
       \A k \in Tier, w \in Time : w > Truncate(k, loadNow) => sent[k][w] = 0

\* Before a limiter is up its counters are zero; before the first one is,
\* nothing has been sent.
FirstStart ==
  phase # "up" =>
    /\ \A k \in Tier : cnt[k] = 0
    /\ crashes = 0 => \A k \in Tier, w \in Time : sent[k][w] = 0

\* Every request is in the database or about to be written by a goroutine,
\* unless a count was lost; and it is in one of the two at most once.
Accounted ==
  \A k \in Tier, w \in Time :
    /\ stored[k][w] + Cardinality(NotYet(k, w)) <= sent[k][w]
    /\ ~forgot /\ Recent(w) => stored[k][w] + Cardinality(NotYet(k, w)) = sent[k][w]

IInv == /\ TypeOK
        /\ JobsAreDistinct
        /\ Causal
        /\ FirstStart
        /\ Accounted
        /\ CountsAreExact
        /\ MinuteHourQuota

-----------------------------------------------------------------------------
(* Goroutines and what they have yet to count *)

\* A finite set of goroutines has a finite part in any window.
LEMMA NotYetFinite ==
  ASSUME IsFiniteSet(jobs), NEW k, NEW w
  PROVE  IsFiniteSet(NotYet(k, w)) /\ Cardinality(NotYet(k, w)) \in Nat
BY FS_Subset, FS_CardinalityType DEF NotYet

\* Replacing one element of a finite set by a new one keeps its size.
LEMMA Replacement ==
  ASSUME NEW S, IsFiniteSet(S), NEW x \in S, NEW y, y \notin S
  PROVE  Cardinality((S \ {x}) \union {y}) = Cardinality(S)
<1>1. /\ IsFiniteSet(S \ {x})
      /\ Cardinality(S \ {x}) = Cardinality(S) - 1
      /\ Cardinality(S) \in Nat
  BY FS_RemoveElement, FS_CardinalityType
<1>2. Cardinality((S \ {x}) \union {y}) = Cardinality(S \ {x}) + 1
  BY <1>1, FS_AddElement
<1>3. QED BY <1>1, <1>2

\* A goroutine that is done with its tier leaves the count of that tier's
\* window and stays in those of the tiers to come (persistCounts).
LEMMA NotYetAdvance ==
  ASSUME TypeOK, JobsAreDistinct, NEW j \in jobs,
         jobs' = (jobs \ {j}) \union Following(j),
         NEW k \in Tier, NEW w
  PROVE  Cardinality(NotYet(k, w)') =
           IF k = j.tier /\ w = Truncate(k, j.at)
           THEN Cardinality(NotYet(k, w)) - 1
           ELSE Cardinality(NotYet(k, w))
<1> DEFINE S == NotYet(k, w)
           n == [j EXCEPT !.tier = NextTier(j.tier), !.step = "update"]
<1>1. IsFiniteSet(S) /\ Cardinality(S) \in Nat
  BY NotYetFinite DEF JobsAreDistinct
<1>2. j \in Job /\ jobs \subseteq Job
  BY DEF TypeOK
<1>3. n.id = j.id /\ n.at = j.at /\ n.tier = NextTier(j.tier) /\ n.step = "update"
  BY <1>2 DEF Job
<1>4. CASE k = j.tier /\ w = Truncate(k, j.at)
  <2>1. j \in S
    BY <1>4 DEF NotYet, Reaches
  <2>2. \A i \in Following(j) : ~Reaches(i.tier, k)
    BY <1>2, <1>3, <1>4 DEF Following, Reaches, NextTier, Job, Tier
  <2>3. NotYet(k, w)' = S \ {j}
    BY <2>2 DEF NotYet
  <2>4. QED BY <1>1, <1>4, <2>1, <2>3, FS_RemoveElement
<1>5. CASE ~(k = j.tier /\ w = Truncate(k, j.at)) /\ j \notin S
  <2>1. ~Reaches(j.tier, k) \/ Truncate(k, j.at) # w
    BY <1>5 DEF NotYet
  <2>2. \A i \in Following(j) : ~Reaches(i.tier, k) \/ Truncate(k, i.at) # w
    BY <1>2, <1>3, <2>1 DEF Following, Reaches, NextTier, Job, Tier
  <2>3. NotYet(k, w)' = S
    BY <1>5, <2>2 DEF NotYet
  <2>4. QED BY <1>5, <2>3
<1>6. CASE ~(k = j.tier /\ w = Truncate(k, j.at)) /\ j \in S
  <2>1. Reaches(j.tier, k) /\ Truncate(k, j.at) = w /\ k # j.tier
    BY <1>6 DEF NotYet
  <2>2. Following(j) = {n} /\ Reaches(n.tier, k)
    BY <1>2, <1>3, <2>1 DEF Following, Reaches, NextTier, Job, Tier
  <2>3. n \notin jobs
    <3>1. n.tier # j.tier
      BY <1>2, <1>3, <2>1 DEF Reaches, NextTier, Job, Tier
    <3>2. QED BY <1>3, <3>1 DEF JobsAreDistinct
  <2>4. NotYet(k, w)' = (S \ {j}) \union {n}
    BY <1>3, <2>1, <2>2 DEF NotYet
  <2>5. n \notin S
    BY <2>3 DEF NotYet
  <2>6. Cardinality((S \ {j}) \union {n}) = Cardinality(S)
    BY <1>1, <1>6, <2>5, Replacement
  <2> HIDE DEF n
  <2>7. QED BY <1>6, <2>4, <2>6
<1>7. QED BY <1>4, <1>5, <1>6

\* A goroutine that goes from UPDATE to INSERT has counted nothing yet.
LEMMA NotYetInsert ==
  ASSUME TypeOK, JobsAreDistinct, NEW j \in jobs, j.step = "update",
         jobs' = (jobs \ {j}) \union {[j EXCEPT !.step = "insert"]},
         NEW k \in Tier, NEW w
  PROVE  Cardinality(NotYet(k, w)') = Cardinality(NotYet(k, w))
<1> DEFINE S == NotYet(k, w)
           n == [j EXCEPT !.step = "insert"]
<1>1. IsFiniteSet(S)
  BY NotYetFinite DEF JobsAreDistinct
<1>2. j \in Job /\ n.id = j.id /\ n.at = j.at /\ n.tier = j.tier /\ n.step = "insert"
  BY DEF TypeOK, Job
<1>3. n \notin jobs
  BY <1>2 DEF JobsAreDistinct
<1>4. CASE j \in S
  <2>1. NotYet(k, w)' = (S \ {j}) \union {n}
    BY <1>2, <1>4 DEF NotYet
  <2>2. QED BY <1>1, <1>3, <1>4, <2>1, Replacement DEF NotYet
<1>5. CASE j \notin S
  <2>1. NotYet(k, w)' = S
    BY <1>2, <1>5 DEF NotYet
  <2>2. QED BY <2>1
<1>6. QED BY <1>4, <1>5

\* A granted call starts a goroutine that has yet to count it in the current
\* window of every tier (Acquire).
LEMMA NotYetGrant ==
  ASSUME TypeOK, JobsAreDistinct, NEW k \in Tier, NEW w,
         jobs' = jobs \union {[id |-> grants, at |-> now, tier |-> "second", step |-> "update"]}
  PROVE  Cardinality(NotYet(k, w)') =
           IF w = Truncate(k, now) THEN Cardinality(NotYet(k, w)) + 1
                                   ELSE Cardinality(NotYet(k, w))
<1> DEFINE S == NotYet(k, w)
           n == [id |-> grants, at |-> now, tier |-> "second", step |-> "update"]
<1>1. IsFiniteSet(S) /\ Cardinality(S) \in Nat
  BY NotYetFinite DEF JobsAreDistinct
<1>2. n \notin S
  <2>1. \A j \in jobs : j.id # grants
    BY DEF JobsAreDistinct, TypeOK, Job
  <2>2. QED BY <2>1 DEF NotYet
<1>3. CASE w = Truncate(k, now)
  <2>1. NotYet(k, w)' = S \union {n}
    BY <1>3 DEF NotYet, Reaches
  <2>2. Cardinality(S \union {n}) = Cardinality(S) + 1
    BY <1>1, <1>2, FS_AddElement
  <2> HIDE DEF n
  <2>3. QED BY <1>3, <2>1, <2>2
<1>4. CASE w # Truncate(k, now)
  <2>1. NotYet(k, w)' = S
    BY <1>4 DEF NotYet
  <2>2. QED BY <1>4, <2>1
<1>5. QED BY <1>3, <1>4

\* The goroutines stay a finite set with distinct ids (persistCounts).
LEMMA JobsStayDistinct ==
  ASSUME TypeOK, JobsAreDistinct, NEW j \in jobs, NEW F,
         jobs' = (jobs \ {j}) \union F,
         F = {} \/ \E n \in Job : F = {n} /\ n.id = j.id,
         UNCHANGED <<grants, phase>>
  PROVE  JobsAreDistinct'
<1>1. IsFiniteSet(F)
  BY FS_EmptySet, FS_Singleton
<1>2. IsFiniteSet(jobs')
  BY <1>1, FS_Subset, FS_Union DEF JobsAreDistinct
<1>3. \A i \in F : i.id = j.id
  OBVIOUS
<1>4. QED BY <1>2, <1>3 DEF JobsAreDistinct

-----------------------------------------------------------------------------
(* The counters *)

\* Looking at the windows again changes no count (resetWindowsIfNeeded).
LEMMA ResetKeepsFresh ==
  ASSUME TypeOK, Causal, ResetWindowsIfNeeded, now' = now, NEW k \in Tier
  PROVE  Fresh(k)' = Fresh(k) /\ last'[k] <= Truncate(k, now)
<1>1. last[k] <= Truncate(k, now) /\ last'[k] = Latest(k) /\ cnt'[k] = Fresh(k)
  BY DEF Causal, ResetWindowsIfNeeded
<1>2. last[k] \in Nat /\ Truncate(k, now) \in Nat
  BY TruncateFacts DEF TypeOK, Time
<1>3. CASE Truncate(k, now) > last[k]
  BY <1>1, <1>2, <1>3 DEF Latest, Fresh
<1>4. CASE ~(Truncate(k, now) > last[k])
  BY <1>1, <1>2, <1>4 DEF Latest, Fresh
<1>5. QED BY <1>3, <1>4

\* The window a call is counted in is recent, so Cleanup has kept it.
LEMMA CurrentIsRecent ==
  ASSUME TypeOK, NEW k \in Tier
  PROVE  Truncate(k, now) \in Time /\ Recent(Truncate(k, now))
<1>1. now \in Nat /\ HourLen \in Nat
  BY LengthsAssumption DEF TypeOK, Time
<1>2. Truncate(k, now) \in Nat /\ now < Truncate(k, now) + Length[k]
  BY <1>1, TruncateFacts
<1>3. Length[k] \in Nat /\ Length[k] <= HourLen
  BY TierFacts
<1>4. Recent(Truncate(k, now))
  BY <1>1, <1>2, <1>3 DEF Recent
<1>5. QED BY <1>4, WindowsOfNow DEF TypeOK

\* A step that changes neither the clock nor what is sent, stored or in
\* flight keeps the invariant, if the counters stand for the same counts.
LEMMA Unaffected ==
  ASSUME IInv, TypeOK',
         UNCHANGED <<now, phase, loadNow, jobs, stored, crashes, grants, sent, forgot>>,
         cnt' = cnt \/ phase = "up",
         \A k \in Tier : Fresh(k)' = Fresh(k) /\ last'[k] <= Truncate(k, now)
  PROVE  IInv'
<1> USE DEF IInv
<1>1. JobsAreDistinct'
  BY DEF JobsAreDistinct
<1>2. Causal'
  BY DEF Causal
<1>3. FirstStart'
  BY DEF FirstStart
<1>4. Accounted'
  BY DEF Accounted, NotYet, Recent
<1>5. CountsAreExact'
  BY DEF CountsAreExact, Remembered
<1>6. MinuteHourQuota'
  BY DEF MinuteHourQuota, Remembered, WithinLimit
<1>7. QED BY <1>1, <1>2, <1>3, <1>4, <1>5, <1>6

\* A granted call is below both limits, and is accounted for (Acquire).
LEMMA GrantKeeps ==
  ASSUME IInv, TypeOK', NEW c \in Callers, Grant(c)
  PROVE  IInv'
<1> USE DEF IInv
<1> DEFINE n == [id |-> grants, at |-> now, tier |-> "second", step |-> "update"]
           W(k) == Truncate(k, now)
<1>0. /\ phase = "up" /\ UNCHANGED <<now, phase, loadNow, stored, crashes, forgot>>
      /\ jobs' = jobs \union {n}
      /\ grants' = grants + 1
      /\ grants \in Nat
  BY DEF Grant, clock, disk, TypeOK
<1>1. ASSUME NEW k \in Tier, NEW w \in Time
      PROVE  sent'[k][w] = IF w = W(k) THEN sent[k][w] + 1 ELSE sent[k][w]
  BY CurrentIsRecent DEF Grant, TypeOK
<1>2. ASSUME NEW k \in Tier
      PROVE  /\ W(k) \in Time /\ Recent(W(k)) /\ W(k) \in Nat
             /\ last[k] <= W(k)
             /\ last'[k] = W(k)
             /\ cnt'[k] = Fresh(k) + 1
  <2>1. W(k) \in Time /\ Recent(W(k))
    BY CurrentIsRecent
  <2>2. last[k] \in Nat /\ W(k) \in Nat /\ last[k] <= W(k)
    BY TruncateFacts DEF TypeOK, Time, Causal
  <2>3. Latest(k) = W(k)
    BY <2>2 DEF Latest
  <2>4. QED BY <2>1, <2>2, <2>3 DEF Grant
<1>3. JobsAreDistinct'
  <2>1. IsFiniteSet(jobs')
    BY <1>0, FS_AddElement DEF JobsAreDistinct
  <2>2. \A j \in jobs : j.id \in Nat /\ j.id < grants
    BY DEF JobsAreDistinct, TypeOK, Job
  <2>3. QED BY <1>0, <2>1, <2>2 DEF JobsAreDistinct
<1>4. Causal'
  <2>1. ASSUME NEW k \in Tier, NEW w \in Time, w > Truncate(k, now)
        PROVE  sent'[k][w] = 0
    <3>1. w # W(k) /\ sent[k][w] = 0
      BY <2>1, <1>2 DEF Causal, Time
    <3>2. QED BY <1>1, <3>1
  <2>2. \A k \in Tier : last'[k] <= Truncate(k, now)
    BY <1>2
  <2>3. loadNow' <= now' /\ phase' # "loading"
    BY <1>0 DEF Causal
  <2>4. QED BY <1>0, <2>1, <2>2, <2>3 DEF Causal
<1>5. FirstStart'
  BY <1>0 DEF FirstStart
<1>6. Accounted'
  <2> SUFFICES ASSUME NEW k \in Tier, NEW w \in Time
               PROVE  /\ stored'[k][w] + Cardinality(NotYet(k, w)') <= sent'[k][w]
                      /\ ~forgot' /\ Recent(w)' =>
                           stored'[k][w] + Cardinality(NotYet(k, w)') = sent'[k][w]
    BY DEF Accounted
  <2>1. Cardinality(NotYet(k, w)') =
          IF w = W(k) THEN Cardinality(NotYet(k, w)) + 1 ELSE Cardinality(NotYet(k, w))
    BY <1>0, NotYetGrant
  <2>2. /\ Cardinality(NotYet(k, w)) \in Nat
        /\ stored[k][w] \in Nat /\ sent[k][w] \in Nat
    BY NotYetFinite DEF JobsAreDistinct, TypeOK
  <2>3. Recent(w)' <=> Recent(w)
    BY <1>0 DEF Recent
  <2>4. QED BY <1>0, <1>1, <2>1, <2>2, <2>3 DEF Accounted
<1>7. CountsAreExact'
  <2> SUFFICES ASSUME Remembered', NEW k \in Tier
               PROVE  Fresh(k)' = sent'[k][Truncate(k, now)]
    BY <1>0 DEF CountsAreExact
  <2>1. Fresh(k) = sent[k][W(k)]
    BY <1>0 DEF CountsAreExact, Remembered
  <2>2. Fresh(k)' = cnt'[k]
    BY <1>0, <1>2 DEF Fresh
  <2>3. QED BY <1>1, <1>2, <2>1, <2>2
<1>8. MinuteHourQuota'
  <2> SUFFICES ASSUME Remembered', NEW k \in {"minute", "hour"}, NEW w \in Time
               PROVE  sent'[k][w] <= Limit[k]
    BY DEF MinuteHourQuota, WithinLimit
  <2>1. k \in Tier /\ Limit[k] \in Nat /\ sent[k][w] \in Nat /\ sent[k][W(k)] \in Nat
    BY TierFacts, CurrentIsRecent DEF Tier, TypeOK
  <2>2. Fresh(k) = sent[k][W(k)] /\ sent[k][w] <= Limit[k]
    BY <1>0, <2>1 DEF CountsAreExact, Remembered, MinuteHourQuota, WithinLimit
  <2>3. ~(Fresh(k) >= Limit[k])
    BY DEF Grant, Exhausted
  <2>4. QED BY <1>1, <2>1, <2>2, <2>3
<1>9. QED BY <1>3, <1>4, <1>5, <1>6, <1>7, <1>8

\* Each statement of persistCounts moves one request from a goroutine to the
\* database, or loses it and says so (IncrementCount).
LEMMA PersistKeeps ==
  ASSUME IInv, TypeOK', NEW j \in jobs, PersistCounts(j)
  PROVE  IInv'
<1> USE DEF IInv
<1> DEFINE T == j.tier
           W == Truncate(j.tier, j.at)
<1>0. /\ UNCHANGED <<now, phase, loadNow, last, cnt, crashes, grants, sent>>
      /\ j \in Job /\ T \in Tier /\ W \in Time
      /\ forgot \in BOOLEAN
  BY WindowsOfNow DEF PersistCounts, clock, memory, history, TypeOK, Job
<1>1. Remembered' => Remembered
  BY <1>0 DEF PersistCounts, UpdateRow, UpdateNothing, InsertRow, InsertRejected,
              StatementFails, Remembered
<1>2. JobsAreDistinct'
  <2>1. CASE jobs' = (jobs \ {j}) \union Following(j)
    <3>1. Following(j) = {} \/ \E n \in Job : Following(j) = {n} /\ n.id = j.id
      <4>1. CASE j.tier = "hour"
        BY <4>1 DEF Following
      <4>2. CASE j.tier # "hour"
        <5> DEFINE n == [j EXCEPT !.tier = NextTier(j.tier), !.step = "update"]
        <5>1. Following(j) = {n}
          BY <4>2 DEF Following
        <5>2. n \in Job /\ n.id = j.id
          BY <1>0, <5>1, FollowingTyped DEF Job
        <5>3. QED BY <5>1, <5>2
      <4>3. QED BY <4>1, <4>2
    <3>2. QED BY <1>0, <2>1, <3>1, JobsStayDistinct
  <2>2. CASE jobs' = (jobs \ {j}) \union {[j EXCEPT !.step = "insert"]}
    <3>1. [j EXCEPT !.step = "insert"] \in Job /\ [j EXCEPT !.step = "insert"].id = j.id
      BY <1>0, FollowingTyped DEF Job
    <3>2. QED BY <1>0, <2>2, <3>1, JobsStayDistinct
  <2>3. QED BY <2>1, <2>2 DEF PersistCounts, UpdateRow, UpdateNothing, InsertRow,
                              InsertRejected, StatementFails
<1>3. Causal'
  BY <1>0 DEF Causal
<1>4. FirstStart'
  BY <1>0 DEF FirstStart
<1>5. Accounted'
  <2> SUFFICES ASSUME NEW k \in Tier, NEW w \in Time
               PROVE  /\ stored'[k][w] + Cardinality(NotYet(k, w)') <= sent'[k][w]
                      /\ ~forgot' /\ Recent(w)' =>
                           stored'[k][w] + Cardinality(NotYet(k, w)') = sent'[k][w]
    BY DEF Accounted
  <2>1. /\ Cardinality(NotYet(k, w)) \in Nat
        /\ stored[k][w] \in Nat /\ sent[k][w] \in Nat
        /\ stored[k][w] + Cardinality(NotYet(k, w)) <= sent[k][w]
        /\ ~forgot /\ Recent(w) => stored[k][w] + Cardinality(NotYet(k, w)) = sent[k][w]
    BY NotYetFinite DEF JobsAreDistinct, TypeOK, Accounted
  <2>2. (Recent(w)' <=> Recent(w)) /\ sent'[k][w] = sent[k][w]
    BY <1>0 DEF Recent
  <2>3. CASE UpdateRow(j) \/ InsertRow(j)
    <3>1. SetRow(j, RowOf(j) + 1)
      BY <2>3 DEF UpdateRow, InsertRow
    <3>2. stored'[k][w] = IF k = T /\ w = W THEN stored[k][w] + 1 ELSE stored[k][w]
      BY <1>0, <3>1 DEF SetRow, RowOf, TypeOK
    <3>3. Cardinality(NotYet(k, w)') =
            IF k = T /\ w = W THEN Cardinality(NotYet(k, w)) - 1
                              ELSE Cardinality(NotYet(k, w))
      BY <2>3, NotYetAdvance DEF UpdateRow, InsertRow
    <3>4. forgot' = forgot
      BY <2>3 DEF UpdateRow, InsertRow
    <3>5. QED BY <2>1, <2>2, <3>2, <3>3, <3>4
  <2>4. CASE UpdateNothing(j)
    <3>1. Cardinality(NotYet(k, w)') = Cardinality(NotYet(k, w))
      BY <2>4, NotYetInsert DEF UpdateNothing
    <3>2. QED BY <2>1, <2>2, <2>4, <3>1 DEF UpdateNothing
  <2>5. CASE InsertRejected(j) \/ StatementFails(j)
    <3>1. Cardinality(NotYet(k, w)') =
            IF k = T /\ w = W THEN Cardinality(NotYet(k, w)) - 1
                              ELSE Cardinality(NotYet(k, w))
      BY <2>5, NotYetAdvance DEF InsertRejected, StatementFails
    <3>2. forgot' /\ stored' = stored
      BY <2>5 DEF InsertRejected, StatementFails
    <3>3. QED BY <2>1, <2>2, <3>1, <3>2
  <2>6. QED BY <2>3, <2>4, <2>5 DEF PersistCounts
<1>6. CountsAreExact'
  BY <1>0, <1>1 DEF CountsAreExact, Fresh
<1>7. MinuteHourQuota'
  BY <1>0, <1>1 DEF MinuteHourQuota, WithinLimit
<1>8. QED BY <1>2, <1>3, <1>4, <1>5, <1>6, <1>7

\* When the clock moves into a new window, nothing is sent there yet and the
\* counter of the old one is not taken for the new one.
LEMMA TickKeeps ==
  ASSUME IInv, TypeOK', Tick
  PROVE  IInv'
<1> USE DEF IInv
<1>0. /\ now \in Nat /\ now' = now + 1 /\ now' \in Nat
      /\ UNCHANGED <<phase, loadNow, last, cnt, jobs, stored, crashes, grants, sent, forgot>>
  BY DEF Tick, memory, disk, history, TypeOK, Time
<1>1. ASSUME NEW k \in Tier
      PROVE  /\ Truncate(k, now) \in Nat /\ Truncate(k, now') \in Nat
             /\ Truncate(k, now) <= Truncate(k, now')
             /\ Truncate(k, now') \in Time
             /\ last[k] \in Nat /\ last[k] <= Truncate(k, now)
  <2>1. now <= now'
    BY <1>0
  <2>2. Truncate(k, now') \in Time
    BY WindowsOfNow DEF TypeOK
  <2>3. QED BY <1>0, <2>1, <2>2, TruncateFacts, TruncateMonotone DEF TypeOK, Time, Causal
<1>2. JobsAreDistinct'
  BY <1>0 DEF JobsAreDistinct
<1>3. Causal'
  <2>1. ASSUME NEW k \in Tier, NEW w \in Time, w > Truncate(k, now')
        PROVE  sent'[k][w] = 0
    <3>1. w > Truncate(k, now)
      BY <1>1, <2>1 DEF Time
    <3>2. QED BY <1>0, <3>1 DEF Causal
  <2>2. loadNow' <= now'
    BY <1>0 DEF Causal, TypeOK, Time
  <2>3. \A k \in Tier : last'[k] <= Truncate(k, now')
    BY <1>0, <1>1
  <2>4. QED BY <1>0, <2>1, <2>2, <2>3 DEF Causal
<1>4. FirstStart'
  BY <1>0 DEF FirstStart
<1>5. Accounted'
  <2>1. ASSUME NEW w \in Time, Recent(w)'
        PROVE  Recent(w)
    BY <1>0, <2>1, LengthsAssumption DEF Recent, Time
  <2>2. QED BY <1>0, <2>1 DEF Accounted, NotYet
<1>6. CountsAreExact'
  <2> SUFFICES ASSUME phase = "up", Remembered, NEW k \in Tier
               PROVE  Fresh(k)' = sent[k][Truncate(k, now')]
    BY <1>0 DEF CountsAreExact, Remembered
  <2>1. Fresh(k) = sent[k][Truncate(k, now)]
    BY DEF CountsAreExact
  <2>2. CASE Truncate(k, now') = Truncate(k, now)
    BY <1>0, <2>1, <2>2 DEF Fresh
  <2>3. CASE Truncate(k, now') # Truncate(k, now)
    <3>1. Truncate(k, now') > Truncate(k, now) /\ Truncate(k, now') > last[k]
      BY <1>1, <2>3
    <3>2. sent[k][Truncate(k, now')] = 0
      BY <1>1, <3>1 DEF Causal
    <3>3. QED BY <1>0, <3>1, <3>2 DEF Fresh
  <2>4. QED BY <2>2, <2>3
<1>7. MinuteHourQuota'
  BY <1>0 DEF MinuteHourQuota, Remembered, WithinLimit
<1>8. QED BY <1>2, <1>3, <1>4, <1>5, <1>6, <1>7

\* Cleanup deletes no row that a restart could still need.
LEMMA CleanupKeeps ==
  ASSUME IInv, TypeOK', Cleanup
  PROVE  IInv'
<1> USE DEF IInv
<1>0. UNCHANGED <<now, phase, loadNow, last, cnt, jobs, crashes, grants, sent, forgot>>
  BY DEF Cleanup, clock, memory, history
<1>1. JobsAreDistinct' /\ Causal' /\ FirstStart'
  BY <1>0 DEF JobsAreDistinct, Causal, FirstStart
<1>2. Accounted'
  <2> SUFFICES ASSUME NEW k \in Tier, NEW w \in Time
               PROVE  /\ stored'[k][w] + Cardinality(NotYet(k, w)') <= sent'[k][w]
                      /\ ~forgot' /\ Recent(w)' =>
                           stored'[k][w] + Cardinality(NotYet(k, w)') = sent'[k][w]
    BY DEF Accounted
  <2>0. NotYet(k, w)' = NotYet(k, w) /\ Cardinality(NotYet(k, w)) \in Nat
    BY <1>0, NotYetFinite DEF JobsAreDistinct, NotYet
  <2>1. stored[k][w] \in Nat /\ sent[k][w] \in Nat /\ now \in Nat /\ HourLen \in Nat
    <3>1. stored[k][w] \in Nat /\ sent[k][w] \in Nat
      BY DEF TypeOK
    <3>2. QED BY <3>1, LengthsAssumption DEF TypeOK, Time
  <2>2. stored'[k][w] = IF w < now - 2 * HourLen THEN 0 ELSE stored[k][w]
    BY DEF Cleanup
  <2>3. (Recent(w)' <=> Recent(w)) /\ (Recent(w) <=> w >= now - 2 * HourLen)
    BY <1>0 DEF Recent
  <2>4. /\ stored[k][w] + Cardinality(NotYet(k, w)) <= sent[k][w]
        /\ ~forgot /\ Recent(w) => stored[k][w] + Cardinality(NotYet(k, w)) = sent[k][w]
    BY DEF Accounted
  <2>5. Cardinality(NotYet(k, w)') = Cardinality(NotYet(k, w))
    BY <2>0
  <2>6. stored'[k][w] <= stored[k][w] /\ (Recent(w) => stored'[k][w] = stored[k][w])
    <3>1. CASE w < now - 2 * HourLen
      <4>1. w \in Nat
        BY DEF Time
      <4>2. ~(w >= now - 2 * HourLen)
        BY <2>1, <3>1, <4>1
      <4>3. QED BY <2>1, <2>2, <2>3, <3>1, <4>2
    <3>2. CASE ~(w < now - 2 * HourLen)
      BY <2>1, <2>2, <3>2
    <3>3. QED BY <3>1, <3>2
  <2>7. stored'[k][w] \in Nat
    BY <2>1, <2>2
  <2>8. QED BY <1>0, <2>0, <2>1, <2>3, <2>4, <2>5, <2>6, <2>7
<1>3. CountsAreExact' /\ MinuteHourQuota'
  BY <1>0 DEF CountsAreExact, MinuteHourQuota, Remembered, WithinLimit, Fresh
<1>4. QED BY <1>1, <1>2, <1>3

\* A restart that loses no goroutine loses no count.
LEMMA CrashKeeps ==
  ASSUME IInv, TypeOK', Crash
  PROVE  IInv'
<1> USE DEF IInv
<1>0. /\ UNCHANGED <<now, stored, grants, sent>> /\ now \in Nat
      /\ phase' = "down" /\ loadNow' = 0 /\ jobs' = {}
      /\ crashes' = crashes + 1 /\ crashes \in Nat
      /\ last' = [k \in Tier |-> 0] /\ cnt' = [k \in Tier |-> 0]
      /\ (~forgot' => ~forgot /\ jobs = {})
  <2>1. now \in Nat /\ crashes \in Nat
    BY BoundsAssumption DEF TypeOK, Time
  <2>2. ~forgot' => ~forgot /\ jobs = {}
    BY DEF Crash
  <2>3. QED BY <2>1, <2>2 DEF Crash, clock, disk, history
<1>1. JobsAreDistinct'
  BY <1>0, FS_EmptySet DEF JobsAreDistinct
<1>2. Causal'
  <2>1. \A k \in Tier : last'[k] <= Truncate(k, now)
    BY <1>0, TruncateFacts
  <2>2. QED BY <1>0, <2>1 DEF Causal
<1>3. FirstStart'
  BY <1>0 DEF FirstStart
<1>4. Accounted'
  <2> SUFFICES ASSUME NEW k \in Tier, NEW w \in Time
               PROVE  /\ stored'[k][w] + Cardinality(NotYet(k, w)') <= sent'[k][w]
                      /\ ~forgot' /\ Recent(w)' =>
                           stored'[k][w] + Cardinality(NotYet(k, w)') = sent'[k][w]
    BY DEF Accounted
  <2>1. NotYet(k, w)' = {} /\ Cardinality({}) = 0
    BY <1>0, FS_EmptySet DEF NotYet
  <2>2. /\ Cardinality(NotYet(k, w)) \in Nat
        /\ stored[k][w] \in Nat /\ sent[k][w] \in Nat
    BY NotYetFinite DEF JobsAreDistinct, TypeOK
  <2>3. jobs = {} => NotYet(k, w) = {}
    BY DEF NotYet
  <2>4. (Recent(w)' <=> Recent(w)) /\ stored' = stored /\ sent' = sent
    BY <1>0 DEF Recent
  <2>5. /\ stored[k][w] + Cardinality(NotYet(k, w)) <= sent[k][w]
        /\ ~forgot /\ Recent(w) => stored[k][w] + Cardinality(NotYet(k, w)) = sent[k][w]
    BY DEF Accounted
  <2>6. Cardinality(NotYet(k, w)') = 0 /\ (jobs = {} => Cardinality(NotYet(k, w)) = 0)
    BY <2>1, <2>3
  <2>7. QED BY <1>0, <2>2, <2>4, <2>5, <2>6
<1>5. CountsAreExact'
  BY <1>0 DEF CountsAreExact
<1>6. MinuteHourQuota'
  BY <1>0 DEF MinuteHourQuota, Remembered, WithinLimit
<1>7. QED BY <1>1, <1>2, <1>3, <1>4, <1>5, <1>6

\* loadState takes its now before it reads anything (NewRateLimiter).
LEMMA StartKeeps ==
  ASSUME IInv, TypeOK', Start
  PROVE  IInv'
<1> USE DEF IInv
<1>0. /\ UNCHANGED <<now, last, cnt, jobs, stored, crashes, grants, sent, forgot>>
      /\ phase = "down" /\ phase' = "loading" /\ loadNow' = now /\ now \in Nat
  BY DEF Start, clock, disk, history, TypeOK, Time
<1>1. JobsAreDistinct' /\ FirstStart'
  BY <1>0 DEF JobsAreDistinct, FirstStart
<1>2. Causal'
  BY <1>0 DEF Causal
<1>3. Accounted' /\ CountsAreExact' /\ MinuteHourQuota'
  BY <1>0 DEF Accounted, NotYet, Recent, CountsAreExact, MinuteHourQuota, Remembered, WithinLimit
<1>4. QED BY <1>1, <1>2, <1>3

\* The counts loadState reads are those of the requests sent in the current
\* windows; if the clock moved on since its now, those windows are empty.
LEMMA LoadStateKeeps ==
  ASSUME IInv, TypeOK', LoadState
  PROVE  IInv'
<1> USE DEF IInv
<1>0. /\ UNCHANGED <<now, loadNow, jobs, stored, crashes, grants, sent, forgot>>
      /\ phase = "loading" /\ phase' = "up" /\ jobs = {}
      /\ now \in Nat /\ loadNow \in Nat /\ loadNow <= now
  BY DEF LoadState, clock, disk, history, TypeOK, Time, JobsAreDistinct, Causal
<1>1. ASSUME NEW k \in Tier
      PROVE  /\ last'[k] = Truncate(k, loadNow) /\ cnt'[k] = stored[k][Truncate(k, now)]
             /\ Truncate(k, loadNow) \in Nat /\ Truncate(k, now) \in Nat
             /\ Truncate(k, loadNow) <= Truncate(k, now)
             /\ Truncate(k, now) \in Time /\ Recent(Truncate(k, now))
  BY <1>0, TruncateFacts, TruncateMonotone, CurrentIsRecent DEF LoadState
<1>2. JobsAreDistinct' /\ FirstStart'
  BY <1>0 DEF JobsAreDistinct, FirstStart
<1>3. Causal'
  BY <1>0, <1>1 DEF Causal
<1>4. Accounted' /\ MinuteHourQuota'
  BY <1>0 DEF Accounted, NotYet, Recent, MinuteHourQuota, Remembered, WithinLimit
<1>5. CountsAreExact'
  <2> SUFFICES ASSUME Remembered, NEW k \in Tier
               PROVE  Fresh(k)' = sent[k][Truncate(k, now)]
    BY <1>0 DEF CountsAreExact, Remembered
  <2> DEFINE W == Truncate(k, now)
  <2>1. stored[k][W] \in Nat /\ sent[k][W] \in Nat
    BY <1>1 DEF TypeOK
  <2>2. NotYet(k, W) = {} /\ Cardinality({}) = 0
    BY <1>0, FS_EmptySet DEF NotYet
  <2>3. /\ stored[k][W] <= sent[k][W]
        /\ ~forgot => stored[k][W] = sent[k][W]
    <3>1. /\ stored[k][W] + Cardinality(NotYet(k, W)) <= sent[k][W]
          /\ ~forgot => stored[k][W] + Cardinality(NotYet(k, W)) = sent[k][W]
      BY <1>1 DEF Accounted
    <3>2. Cardinality(NotYet(k, W)) = 0
      BY <2>2
    <3>3. QED BY <2>1, <3>1, <3>2
  <2>4. crashes = 0 => sent[k][W] = 0
    BY <1>0, <1>1 DEF FirstStart
  <2>5. stored[k][W] = sent[k][W]
    BY <2>1, <2>3, <2>4 DEF Remembered
  <2>6. CASE W > Truncate(k, loadNow)
    <3>1. sent[k][W] = 0
      BY <1>0, <1>1, <2>6 DEF Causal
    <3>2. QED BY <1>0, <1>1, <2>6, <3>1 DEF Fresh
  <2>7. CASE ~(W > Truncate(k, loadNow))
    BY <1>0, <1>1, <2>5, <2>7 DEF Fresh
  <2>8. QED BY <2>6, <2>7
<1>6. QED BY <1>2, <1>3, <1>4, <1>5

\* A limiter that could not load its state starts from zero, which is right
\* for the first process only (loadState).
LEMMA LoadFailsKeeps ==
  ASSUME IInv, TypeOK', LoadFails
  PROVE  IInv'
<1> USE DEF IInv
<1>0. /\ UNCHANGED <<now, loadNow, last, cnt, jobs, stored, crashes, grants, sent>>
      /\ phase = "loading" /\ phase' = "up" /\ forgot' = TRUE
  BY DEF LoadFails, clock, disk, history
<1>1. JobsAreDistinct' /\ Causal' /\ FirstStart'
  BY <1>0 DEF JobsAreDistinct, Causal, FirstStart
<1>2. Accounted'
  BY <1>0 DEF Accounted, NotYet
<1>3. MinuteHourQuota'
  BY <1>0 DEF MinuteHourQuota, Remembered, WithinLimit
<1>4. CountsAreExact'
  <2> SUFFICES ASSUME crashes = 0, NEW k \in Tier
               PROVE  Fresh(k)' = sent[k][Truncate(k, now)]
    BY <1>0 DEF CountsAreExact, Remembered
  <2>1. cnt[k] = 0 /\ sent[k][Truncate(k, now)] = 0
    BY <1>0, CurrentIsRecent DEF FirstStart
  <2>2. QED BY <1>0, <2>1 DEF Fresh
<1>5. QED BY <1>1, <1>2, <1>3, <1>4

-----------------------------------------------------------------------------
(* The theorems *)

\* The invariant holds in the first state, with an empty database.
LEMMA InitInvariant == Init /\ TypeOK => IInv
<1> SUFFICES ASSUME Init, TypeOK PROVE IInv
  OBVIOUS
<1>1. JobsAreDistinct
  BY FS_EmptySet DEF Init, JobsAreDistinct
<1>2. \A k \in Tier : Truncate(k, 0) \in Nat /\ Truncate(k, now) \in Time
  BY TruncateFacts, CurrentIsRecent
<1>3. Causal /\ FirstStart
  BY <1>2 DEF Init, Causal, FirstStart
<1>4. Accounted
  <2>1. \A k \in Tier, w \in Time : NotYet(k, w) = {}
    BY DEF Init, NotYet
  <2>2. Cardinality({}) = 0
    BY FS_EmptySet
  <2>3. \A k \in Tier, w \in Time : stored[k][w] = 0 /\ sent[k][w] = 0
    BY DEF Init
  <2>4. QED BY <2>1, <2>2, <2>3 DEF Accounted
<1>5. CountsAreExact
  BY DEF Init, CountsAreExact
<1>6. MinuteHourQuota
  <2>1. \A k \in Tier : Limit[k] >= 0 /\ \A w \in Time : sent[k][w] = 0
    BY TierFacts DEF Init
  <2>2. QED BY <2>1 DEF MinuteHourQuota, WithinLimit, Tier
<1>7. QED BY <1>1, <1>3, <1>4, <1>5, <1>6 DEF IInv

\* Every step of the limiter keeps the invariant.
LEMMA StepInvariant == IInv /\ TypeOK' /\ [Next]_vars => IInv'
<1> SUFFICES ASSUME IInv, TypeOK', [Next]_vars PROVE IInv'
  OBVIOUS
<1>0. TypeOK /\ Causal
  BY DEF IInv
<1>1. \A k \in Tier : last[k] <= Truncate(k, now)
  BY <1>0 DEF Causal
<1>2. ASSUME NEW c \in Callers, Throttle(c) \/ Exceed(c) PROVE IInv'
  <2>1. \A k \in Tier : Fresh(k)' = Fresh(k) /\ last'[k] <= Truncate(k, now)
    BY <1>0, <1>2, ResetKeepsFresh DEF Throttle, Exceed, clock
  <2>2. /\ UNCHANGED <<now, phase, loadNow, jobs, stored, crashes, grants, sent, forgot>>
        /\ phase = "up"
    BY <1>2 DEF Throttle, Exceed, clock, disk, history
  <2>3. QED BY <2>1, <2>2, Unaffected
<1>3. ASSUME NEW c \in Callers, Grant(c) PROVE IInv'
  BY <1>3, GrantKeeps
<1>4. ASSUME NEW c \in Callers, BlockedAgain(c) \/ StopWaiting(c) \/ WaitUntilAvailable(c)
      PROVE  IInv'
  <2>1. UNCHANGED <<now, phase, loadNow, last, cnt, jobs, stored, crashes, grants, sent, forgot>>
    BY <1>4 DEF BlockedAgain, StopWaiting, WaitUntilAvailable, clock, memory, disk, history
  <2>2. \A k \in Tier : Fresh(k)' = Fresh(k) /\ last'[k] <= Truncate(k, now)
    BY <1>1, <2>1 DEF Fresh
  <2>3. QED BY <2>1, <2>2, Unaffected
<1>5. ASSUME NEW j \in jobs, PersistCounts(j) PROVE IInv'
  BY <1>5, PersistKeeps
<1>6. ASSUME NEW t \in blockJobs, SetBlocked(t) PROVE IInv'
  <2>1. UNCHANGED <<now, phase, loadNow, last, cnt, jobs, stored, crashes, grants, sent, forgot>>
    BY <1>6 DEF SetBlocked, clock, memory, history
  <2>2. \A k \in Tier : Fresh(k)' = Fresh(k) /\ last'[k] <= Truncate(k, now)
    BY <1>1, <2>1 DEF Fresh
  <2>3. QED BY <2>1, <2>2, Unaffected
<1>7. CASE GetStatus
  <2>1. \A k \in Tier : Fresh(k)' = Fresh(k) /\ last'[k] <= Truncate(k, now)
    BY <1>0, <1>7, ResetKeepsFresh DEF GetStatus, clock
  <2>2. /\ UNCHANGED <<now, phase, loadNow, jobs, stored, crashes, grants, sent, forgot>>
        /\ phase = "up"
    BY <1>7 DEF GetStatus, clock, disk, history
  <2>3. QED BY <2>1, <2>2, Unaffected
<1>8. CASE Cleanup
  BY <1>8, CleanupKeeps
<1>9. CASE Tick
  BY <1>9, TickKeeps
<1>10. CASE Crash
  BY <1>10, CrashKeeps
<1>11. CASE Start
  BY <1>11, StartKeeps
<1>12. CASE LoadState
  BY <1>12, LoadStateKeeps
<1>13. CASE LoadFails
  BY <1>13, LoadFailsKeeps
<1>14. CASE UNCHANGED vars
  <2>1. UNCHANGED <<now, phase, loadNow, last, cnt, jobs, stored, crashes, grants, sent, forgot>>
    BY <1>14 DEF vars
  <2>2. \A k \in Tier : Fresh(k)' = Fresh(k) /\ last'[k] <= Truncate(k, now)
    BY <1>1, <2>1 DEF Fresh
  <2>3. QED BY <2>1, <2>2, Unaffected
<1>15. QED
  BY <1>2, <1>3, <1>4, <1>5, <1>6, <1>7, <1>8, <1>9, <1>10, <1>11, <1>12, <1>13, <1>14
  DEF Next, Caller, Acquire

\* The strengthened invariant holds in every behaviour.
LEMMA Invariant == Spec => []IInv
<1>1. Init /\ [](TypeOK) /\ [][Next]_vars => []IInv
  BY InitInvariant, StepInvariant, PTL
<1>2. QED BY <1>1, TypeCorrect, PTL DEF Spec

\* However many goroutines call Acquire, whatever the limits and windows, and
\* across restarts that lose no count, no minute and no hour sees more
\* requests than its limit (Acquire, persistCounts, loadState).
THEOREM MinuteHourLimit == Spec => []MinuteHourQuota
<1>1. IInv => MinuteHourQuota
  BY DEF IInv
<1>2. QED BY <1>1, Invariant, PTL

\* The counts that Acquire compares with the limits are exact.
THEOREM ExactCounts == Spec => []CountsAreExact
<1>1. IInv => CountsAreExact
  BY DEF IInv
<1>2. QED BY <1>1, Invariant, PTL

\* The database never holds more requests than were sent (IncrementCount).
THEOREM NoOvercount == Spec => []NeverOvercounts
<1>1. IInv => NeverOvercounts
  <2> SUFFICES ASSUME IInv, NEW k \in Tier, NEW w \in Time
               PROVE  stored[k][w] <= sent[k][w]
    BY DEF NeverOvercounts
  <2>1. Cardinality(NotYet(k, w)) \in Nat
    BY NotYetFinite DEF IInv, JobsAreDistinct
  <2>2. stored[k][w] \in Nat /\ sent[k][w] \in Nat
    BY DEF IInv, TypeOK
  <2>3. QED BY <2>1, <2>2 DEF IInv, Accounted
<1>2. QED BY <1>1, Invariant, PTL

\* Once all goroutines are done the database is exact for the windows that
\* Cleanup keeps, unless a count was lost (persistCounts, Cleanup).
THEOREM DrainedExact == Spec => []DrainedIsExact
<1>1. IInv => DrainedIsExact
  <2> SUFFICES ASSUME IInv, ~forgot, jobs = {}, NEW k \in Tier, NEW w \in Time, Recent(w)
               PROVE  stored[k][w] = sent[k][w]
    BY DEF DrainedIsExact
  <2>1. NotYet(k, w) = {} /\ Cardinality({}) = 0
    BY FS_EmptySet DEF NotYet
  <2>2. stored[k][w] \in Nat /\ sent[k][w] \in Nat
    BY DEF IInv, TypeOK
  <2>3. QED BY <2>1, <2>2 DEF IInv, Accounted
<1>2. QED BY <1>1, Invariant, PTL
-----------------------------------------------------------------------------
(* Overruns *)

\* The requests of a window that are in the table or in a goroutine's hand.
InHand(k, w) == stored[k][w] + Cardinality(NotYet(k, w))

\* What Acquire compares with a limit covers what the table and the goroutines
\* have of the current window, also after counts were lost.
FreshCovers == phase = "up" => \A k \in Tier : InHand(k, Truncate(k, now)) <= Fresh(k)

\* No request is in hand that was not sent.
LEMMA InHandIsSent ==
  ASSUME IInv, NEW k \in Tier, NEW w \in Time
  PROVE  InHand(k, w) \in Nat /\ InHand(k, w) <= sent[k][w] /\ sent[k][w] \in Nat
<1>1. Cardinality(NotYet(k, w)) \in Nat /\ stored[k][w] \in Nat /\ sent[k][w] \in Nat
  BY NotYetFinite DEF IInv, JobsAreDistinct, TypeOK
<1>2. QED BY <1>1 DEF IInv, Accounted, InHand

\* Only a granted call adds a request: persistCounts moves it from a goroutine
\* to the table or loses it, Cleanup deletes rows, a restart forgets goroutines.
LEMMA OnlyGrantAdds ==
  ASSUME IInv, IInv', [Next]_vars, \A c \in Callers : ~Grant(c),
         NEW k \in Tier, NEW w \in Time
  PROVE  InHand(k, w)' <= InHand(k, w)
<1>0. /\ stored[k][w] \in Nat /\ stored'[k][w] \in Nat
      /\ Cardinality(NotYet(k, w)) \in Nat /\ Cardinality(NotYet(k, w)') \in Nat
      /\ JobsAreDistinct /\ TypeOK
  <2>1. IsFiniteSet(jobs) /\ IsFiniteSet(jobs')
    BY DEF IInv, JobsAreDistinct
  <2>2. IsFiniteSet(NotYet(k, w)) /\ IsFiniteSet(NotYet(k, w)')
    BY <2>1, FS_Subset DEF NotYet
  <2>3. QED BY <2>2, FS_CardinalityType DEF IInv, TypeOK
<1>1. CASE UNCHANGED <<jobs, stored>>
  <2>1. NotYet(k, w)' = NotYet(k, w)
    BY <1>1 DEF NotYet
  <2>2. Cardinality(NotYet(k, w)') = Cardinality(NotYet(k, w))
    BY <2>1
  <2>3. QED BY <1>0, <1>1, <2>2 DEF InHand
<1>2. ASSUME NEW j \in jobs, PersistCounts(j) PROVE InHand(k, w)' <= InHand(k, w)
  <2> DEFINE T == j.tier
             W == Truncate(j.tier, j.at)
  <2>0. T \in Tier /\ W \in Time
    BY <1>0, WindowsOfNow DEF TypeOK, Job
  <2>1. CASE UpdateRow(j) \/ InsertRow(j)
    <3>1. SetRow(j, RowOf(j) + 1)
      BY <2>1 DEF UpdateRow, InsertRow
    <3>2. stored'[k][w] = IF k = T /\ w = W THEN stored[k][w] + 1 ELSE stored[k][w]
      BY <1>0, <2>0, <3>1 DEF SetRow, RowOf, TypeOK
    <3>3. Cardinality(NotYet(k, w)') =
            IF k = T /\ w = W THEN Cardinality(NotYet(k, w)) - 1
                              ELSE Cardinality(NotYet(k, w))
      BY <1>0, <2>1, NotYetAdvance DEF UpdateRow, InsertRow
    <3>4. QED BY <1>0, <3>2, <3>3 DEF InHand
  <2>2. CASE UpdateNothing(j)
    <3>1. Cardinality(NotYet(k, w)') = Cardinality(NotYet(k, w))
      BY <1>0, <2>2, NotYetInsert DEF UpdateNothing
    <3>2. QED BY <1>0, <2>2, <3>1 DEF UpdateNothing, InHand
  <2>3. CASE InsertRejected(j) \/ StatementFails(j)
    <3>1. Cardinality(NotYet(k, w)') <= Cardinality(NotYet(k, w))
      <4>1. Cardinality(NotYet(k, w)') =
              IF k = T /\ w = W THEN Cardinality(NotYet(k, w)) - 1
                                ELSE Cardinality(NotYet(k, w))
        BY <1>0, <2>3, NotYetAdvance DEF InsertRejected, StatementFails
      <4>2. QED BY <1>0, <4>1
    <3>2. stored' = stored
      BY <2>3 DEF InsertRejected, StatementFails
    <3>3. QED BY <1>0, <3>1, <3>2 DEF InHand
  <2>4. QED BY <1>2, <2>1, <2>2, <2>3 DEF PersistCounts
<1>3. CASE Cleanup
  <2>1. jobs' = jobs /\ stored'[k][w] = IF w < now - 2 * HourLen THEN 0 ELSE stored[k][w]
    BY <1>3 DEF Cleanup
  <2>2. NotYet(k, w)' = NotYet(k, w)
    BY <2>1 DEF NotYet
  <2>3. stored'[k][w] <= stored[k][w]
    BY <1>0, <2>1
  <2>4. Cardinality(NotYet(k, w)') = Cardinality(NotYet(k, w))
    BY <2>2
  <2>5. QED BY <1>0, <2>3, <2>4 DEF InHand
<1>4. CASE Crash
  <2>1. jobs' = {} /\ stored' = stored
    BY <1>4 DEF Crash, disk
  <2>2. NotYet(k, w)' = {} /\ Cardinality({}) = 0
    BY <2>1, FS_EmptySet DEF NotYet
  <2>3. Cardinality(NotYet(k, w)') = 0
    BY <2>2
  <2>4. QED BY <1>0, <2>1, <2>3 DEF InHand
<1>5. QED
  <2>1. ASSUME NEW c \in Callers, Caller(c) PROVE UNCHANGED <<jobs, stored>>
    BY <2>1 DEF Caller, Acquire, Throttle, Exceed, BlockedAgain, StopWaiting,
                WaitUntilAvailable, disk
  <2>2. (\E t \in blockJobs : SetBlocked(t)) => UNCHANGED <<jobs, stored>>
    BY DEF SetBlocked
  <2>3. GetStatus \/ Tick \/ Start \/ LoadState \/ LoadFails \/ UNCHANGED vars
          => UNCHANGED <<jobs, stored>>
    BY DEF GetStatus, Tick, Start, LoadState, LoadFails, vars, disk
  <2>4. QED BY <1>1, <1>2, <1>3, <1>4, <2>1, <2>2, <2>3 DEF Next

\* A granted call is one more in hand and one more in the counter, and below
\* both limits (Acquire).
LEMMA GrantIsCovered ==
  ASSUME IInv, IInv', FreshCovers, OverrunOnlyByLoss, NEW c \in Callers, Grant(c)
  PROVE  FreshCovers' /\ OverrunOnlyByLoss'
<1>0. /\ TypeOK /\ JobsAreDistinct /\ phase = "up" /\ phase' = "up"
      /\ now' = now /\ stored' = stored
      /\ jobs' = jobs \union {[id |-> grants, at |-> now, tier |-> "second", step |-> "update"]}
  BY DEF Grant, clock, disk, IInv
<1>1. ASSUME NEW k \in Tier, NEW w \in Time
      PROVE  InHand(k, w)' = IF w = Truncate(k, now) THEN InHand(k, w) + 1 ELSE InHand(k, w)
  <2>1. Cardinality(NotYet(k, w)') =
          IF w = Truncate(k, now) THEN Cardinality(NotYet(k, w)) + 1
                                  ELSE Cardinality(NotYet(k, w))
    BY <1>0, NotYetGrant
  <2>2. Cardinality(NotYet(k, w)) \in Nat /\ stored[k][w] \in Nat
    BY <1>0, NotYetFinite DEF JobsAreDistinct, TypeOK
  <2>3. QED BY <1>0, <2>1, <2>2 DEF InHand
<1>2. ASSUME NEW k \in Tier
      PROVE  Fresh(k)' = Fresh(k) + 1 /\ Truncate(k, now) \in Time
  <2>1. last[k] \in Nat /\ Truncate(k, now) \in Nat /\ last[k] <= Truncate(k, now)
    BY TruncateFacts DEF IInv, TypeOK, Time, Causal
  <2>2. Latest(k) = Truncate(k, now)
    BY <2>1 DEF Latest
  <2>3. last'[k] = Truncate(k, now) /\ cnt'[k] = Fresh(k) + 1
    BY <2>2 DEF Grant
  <2>4. QED BY <1>0, <2>1, <2>3, CurrentIsRecent DEF Fresh
<1>3. FreshCovers'
  <2> SUFFICES ASSUME NEW k \in Tier
               PROVE  InHand(k, Truncate(k, now))' <= Fresh(k)'
    BY <1>0 DEF FreshCovers
  <2>1. InHand(k, Truncate(k, now)) <= Fresh(k) /\ Truncate(k, now) \in Time
    BY <1>0, <1>2 DEF FreshCovers
  <2>2. InHand(k, Truncate(k, now))' = InHand(k, Truncate(k, now)) + 1
    <3>1. ASSUME NEW w \in Time, w = Truncate(k, now)
          PROVE  InHand(k, w)' = InHand(k, w) + 1
      BY <1>1, <3>1
    <3>2. PICK w \in Time : w = Truncate(k, now)
      BY <2>1
    <3>3. w = Truncate(k, now)' 
      BY <1>0, <3>2 DEF Truncate
    <3>4. QED BY <3>1, <3>2, <3>3 DEF InHand, NotYet
  <2>3. InHand(k, Truncate(k, now)) \in Nat /\ Fresh(k) \in Nat
    BY <2>1, InHandIsSent, FreshTyped, <1>0
  <2>4. QED BY <1>2, <2>1, <2>2, <2>3
<1>4. OverrunOnlyByLoss'
  <2> SUFFICES ASSUME NEW k \in {"minute", "hour"}, NEW w \in Time
               PROVE  InHand(k, w)' <= Limit[k]
    BY DEF OverrunOnlyByLoss, InHand
  <2>1. k \in Tier /\ Limit[k] \in Nat /\ Fresh(k) \in Nat /\ InHand(k, w) \in Nat
    BY <1>0, TierFacts, FreshTyped, InHandIsSent DEF Tier
  <2>2. InHand(k, w) <= Limit[k]
    BY DEF OverrunOnlyByLoss, InHand
  <2>3. ~(Fresh(k) >= Limit[k])
    BY DEF Grant, Exhausted
  <2>4. CASE w = Truncate(k, now)
    <3>1. InHand(k, w) <= Fresh(k)
      BY <1>0, <2>1, <2>4 DEF FreshCovers
    <3>2. InHand(k, w)' = InHand(k, w) + 1
      BY <1>1, <2>1, <2>4
    <3>3. QED BY <2>1, <2>3, <3>1, <3>2
  <2>5. CASE w # Truncate(k, now)
    BY <1>1, <2>1, <2>2, <2>5
  <2>6. QED BY <2>4, <2>5
<1>5. QED BY <1>3, <1>4

\* In a new window nothing is in hand, and in the old one nothing has changed.
LEMMA TickIsCovered ==
  ASSUME IInv, IInv', FreshCovers, Tick
  PROVE  FreshCovers'
<1>0. /\ now \in Nat /\ now' = now + 1 /\ UNCHANGED <<phase, last, cnt, jobs, stored, sent>>
      /\ now' \in Time
  BY DEF Tick, memory, disk, history, IInv, TypeOK, Time
<1> SUFFICES ASSUME phase = "up", NEW k \in Tier
             PROVE  InHand(k, Truncate(k, now))' <= Fresh(k)'
  BY <1>0 DEF FreshCovers
<1> DEFINE V == Truncate(k, now)
           W == Truncate(k, now')
<1>1. /\ V \in Nat /\ W \in Nat /\ V <= W /\ W \in Time
      /\ last[k] \in Nat /\ last[k] <= V
  <2>1. now <= now' /\ now' \in Nat
    BY <1>0
  <2>2. QED BY <1>0, <2>1, TruncateFacts, TruncateMonotone, WindowsOfNow
            DEF IInv, TypeOK, Time, Causal
<1>2. InHand(k, Truncate(k, now))' = InHand(k, W)
  BY <1>0 DEF InHand, NotYet, Truncate
<1>3. CASE W = V
  <2>1. Fresh(k)' = Fresh(k)
    BY <1>0, <1>3 DEF Fresh
  <2>2. InHand(k, V) <= Fresh(k)
    BY DEF FreshCovers
  <2>3. QED BY <1>2, <1>3, <2>1, <2>2
<1>4. CASE W # V
  <2>1. W > V
    BY <1>1, <1>4
  <2>2. sent[k][W] = 0
    BY <1>1, <2>1 DEF IInv, Causal
  <2>3. InHand(k, W) = 0
    BY <1>1, <2>2, InHandIsSent
  <2>4. Fresh(k)' = 0
    BY <1>0, <1>1, <2>1 DEF Fresh
  <2>5. QED BY <1>2, <2>3, <2>4
<1>5. QED BY <1>3, <1>4

\* loadState reads all that is in hand of the current window, or nothing is
\* (loadState).
LEMMA LoadIsCovered ==
  ASSUME IInv, IInv', LoadState
  PROVE  FreshCovers'
<1>0. /\ UNCHANGED <<now, jobs, stored, sent>> /\ jobs = {} /\ phase = "loading"
      /\ now \in Nat /\ loadNow \in Nat /\ loadNow <= now
  BY DEF LoadState, clock, disk, history, IInv, TypeOK, Time, JobsAreDistinct, Causal
<1> SUFFICES ASSUME NEW k \in Tier
             PROVE  InHand(k, Truncate(k, now))' <= Fresh(k)'
  BY <1>0 DEF FreshCovers
<1> DEFINE W == Truncate(k, now)
<1>1. /\ last'[k] = Truncate(k, loadNow) /\ cnt'[k] = stored[k][W]
      /\ W \in Time /\ W \in Nat /\ Truncate(k, loadNow) \in Nat
  BY <1>0, TruncateFacts, CurrentIsRecent DEF LoadState, IInv
<1>2. InHand(k, Truncate(k, now))' = InHand(k, W)
  BY <1>0 DEF InHand, NotYet, Truncate
<1>3. CASE W > Truncate(k, loadNow)
  <2>1. sent[k][W] = 0
    BY <1>0, <1>1, <1>3 DEF IInv, Causal
  <2>2. InHand(k, W) = 0
    BY <1>1, <2>1, InHandIsSent
  <2>3. Fresh(k)' = 0
    BY <1>0, <1>1, <1>3 DEF Fresh
  <2>4. QED BY <1>2, <2>2, <2>3
<1>4. CASE ~(W > Truncate(k, loadNow))
  <2>1. Fresh(k)' = stored[k][W]
    BY <1>0, <1>1, <1>4 DEF Fresh
  <2>2. NotYet(k, W) = {} /\ Cardinality({}) = 0
    BY <1>0, FS_EmptySet DEF NotYet
  <2>3. stored[k][W] \in Nat
    BY <1>1 DEF IInv, TypeOK
  <2>4. InHand(k, W) = stored[k][W]
    <3>1. Cardinality(NotYet(k, W)) = 0
      BY <2>2
    <3>2. QED BY <2>3, <3>1 DEF InHand
  <2>5. QED BY <1>2, <2>1, <2>3, <2>4
<1>5. QED BY <1>3, <1>4

\* A step that leaves the clock alone and the counters with the same meaning.
LEMMA CoverStays ==
  ASSUME IInv, IInv', FreshCovers, now' = now, phase' = "up" => phase = "up",
         \A k \in Tier : Fresh(k)' = Fresh(k),
         \A k \in Tier, w \in Time : InHand(k, w)' <= InHand(k, w)
  PROVE  FreshCovers'
<1> SUFFICES ASSUME phase = "up", NEW k \in Tier
             PROVE  InHand(k, Truncate(k, now))' <= Fresh(k)'
  BY DEF FreshCovers
<1>1. PICK w \in Time : w = Truncate(k, now)
  BY CurrentIsRecent DEF IInv
<1>2. w = Truncate(k, now)'
  BY <1>1 DEF Truncate
<1>3. InHand(k, Truncate(k, now))' = InHand(k, w)'
  BY <1>2 DEF InHand, NotYet
<1>4. /\ InHand(k, w) <= Fresh(k) /\ InHand(k, w)' <= InHand(k, w)
      /\ InHand(k, w) \in Nat /\ Fresh(k) \in Nat /\ Fresh(k)' = Fresh(k)
  BY <1>1, InHandIsSent, FreshTyped DEF FreshCovers, IInv
<1>5. InHand(k, w)' \in Nat
  <2>1. Cardinality(NotYet(k, w)') \in Nat
    BY FS_Subset, FS_CardinalityType DEF IInv, JobsAreDistinct, NotYet
  <2>2. stored'[k][w] \in Nat
    BY DEF IInv, TypeOK
  <2>3. QED BY <2>1, <2>2 DEF InHand
<1>6. QED BY <1>3, <1>4, <1>5

\* Every step keeps the table and the counters that way, as long as loadState
\* does not start from zero.
LEMMA CoveredStep ==
  ASSUME LoadMayFail = FALSE, IInv, IInv', FreshCovers, OverrunOnlyByLoss, [Next]_vars
  PROVE  FreshCovers' /\ OverrunOnlyByLoss'
<1>1. CASE \E c \in Callers : Grant(c)
  BY <1>1, GrantIsCovered
<1>2. CASE \A c \in Callers : ~Grant(c)
  <2>0. TypeOK /\ Causal
    BY DEF IInv
  <2>1. \A k \in Tier, w \in Time : InHand(k, w)' <= InHand(k, w)
    BY <1>2, OnlyGrantAdds
  <2>2. OverrunOnlyByLoss'
    <3> SUFFICES ASSUME NEW k \in {"minute", "hour"}, NEW w \in Time
                 PROVE  InHand(k, w)' <= Limit[k]
      BY DEF OverrunOnlyByLoss, InHand
    <3>1. /\ InHand(k, w)' <= InHand(k, w) /\ InHand(k, w) <= Limit[k]
          /\ InHand(k, w) \in Nat /\ Limit[k] \in Nat
      BY <2>1, InHandIsSent, TierFacts DEF OverrunOnlyByLoss, InHand, Tier
    <3>2. InHand(k, w)' \in Nat
      <4>1. Cardinality(NotYet(k, w)') \in Nat
        BY FS_Subset, FS_CardinalityType DEF IInv, JobsAreDistinct, NotYet
      <4>2. stored'[k][w] \in Nat
        BY DEF IInv, TypeOK, Tier
      <4>3. QED BY <4>1, <4>2 DEF InHand
    <3>3. QED BY <3>1, <3>2
  <2>3. ASSUME NEW c \in Callers, Caller(c) PROVE FreshCovers'
    <3>1. now' = now /\ phase' = phase /\ \A k \in Tier : Fresh(k)' = Fresh(k)
      <4>1. CASE Throttle(c) \/ Exceed(c)
        BY <2>0, <4>1, ResetKeepsFresh DEF Throttle, Exceed, clock
      <4>2. CASE BlockedAgain(c) \/ StopWaiting(c) \/ WaitUntilAvailable(c)
        BY <4>2 DEF BlockedAgain, StopWaiting, WaitUntilAvailable, clock, memory, Fresh
      <4>3. QED BY <1>2, <2>3, <4>1, <4>2 DEF Caller, Acquire
    <3>2. QED BY <2>1, <3>1, CoverStays
  <2>4. CASE GetStatus
    <3>1. now' = now /\ phase' = phase /\ \A k \in Tier : Fresh(k)' = Fresh(k)
      BY <2>0, <2>4, ResetKeepsFresh DEF GetStatus, clock
    <3>2. QED BY <2>1, <2>2, <3>1, CoverStays
  <2>5. CASE UNCHANGED <<now, phase, last, cnt>>
    <3>1. now' = now /\ phase' = phase /\ \A k \in Tier : Fresh(k)' = Fresh(k)
      BY <2>5 DEF Fresh
    <3>2. QED BY <2>1, <2>2, <3>1, CoverStays
  <2>6. CASE Tick
    BY <2>2, <2>6, TickIsCovered
  <2>7. CASE Crash \/ Start
    BY <2>2, <2>7 DEF Crash, Start, FreshCovers
  <2>8. CASE LoadState
    BY <2>2, <2>8, LoadIsCovered
  <2>9. ~LoadFails
    BY DEF LoadFails
  <2>10. \/ \E j \in jobs : PersistCounts(j)
         \/ \E t \in blockJobs : SetBlocked(t)
         \/ Cleanup
         \/ UNCHANGED vars
         => UNCHANGED <<now, phase, last, cnt>>
    BY DEF PersistCounts, SetBlocked, Cleanup, vars, clock, memory
  <2>11. QED BY <2>2, <2>3, <2>4, <2>5, <2>6, <2>7, <2>8, <2>9, <2>10 DEF Next
<1>3. QED BY <1>1, <1>2

\* However many goroutines call Acquire, and however many counts restarts,
\* rejected and failing statements have lost, a minute or an hour sees at most
\* as many requests too many as counts of it were lost, if no query of loadState
\* fails (Acquire, persistCounts, loadState).
THEOREM OverrunIsLoss ==
  ASSUME LoadMayFail = FALSE
  PROVE  Spec => []OverrunOnlyByLoss
<1>1. Init /\ IInv => FreshCovers /\ OverrunOnlyByLoss
  <2> SUFFICES ASSUME Init, IInv PROVE FreshCovers /\ OverrunOnlyByLoss
    OBVIOUS
  <2>1. FreshCovers
    BY DEF Init, FreshCovers
  <2>2. ASSUME NEW k \in {"minute", "hour"}, NEW w \in Time
        PROVE  InHand(k, w) <= Limit[k]
    <3>1. k \in Tier /\ sent[k][w] = 0
      BY DEF Init, Tier
    <3>2. QED BY <3>1, InHandIsSent, TierFacts
  <2>3. QED BY <2>1, <2>2 DEF OverrunOnlyByLoss, InHand
<1>2. IInv /\ IInv' /\ FreshCovers /\ OverrunOnlyByLoss /\ [Next]_vars
        => FreshCovers' /\ OverrunOnlyByLoss'
  BY CoveredStep
<1>3. QED BY <1>1, <1>2, Invariant, PTL DEF Spec
=============================================================================
