------------------------------- MODULE CallerProofs -------------------------------
(***************************************************************************)
(* For all limits, windows and histories: what the limiter does for one    *)
(* calling goroutine, as the sync loop is, and how far several exceed a    *)
(* limit; what of it reaches the API; and that the limiter implements the  *)
(* abstract quota.                                                         *)
(***************************************************************************)
EXTENDS FetchLimited, RateLimiterProofs

-----------------------------------------------------------------------------
(* The second limit *)

\* The window after the one that holds s is over or current when t is past its
\* start.
LEMMA NextWindow ==
  ASSUME NEW s \in Nat, NEW t \in Nat, NEW n \in Nat \ {0}, s - (s % n) + n <= t
  PROVE  s - (s % n) + n <= t - (t % n)
<1>1. /\ s - (s % n) = n * (s \div n) /\ t - (t % n) = n * (t \div n)
      /\ s \div n \in Nat /\ t \div n \in Nat /\ t % n \in 0..(n - 1)
  BY Euclid
<1> DEFINE p == s \div n
           q == t \div n
<1>2. n * p + n <= t /\ t < n * q + n /\ p \in Nat /\ q \in Nat
  BY <1>1
<1> HIDE DEF p, q
<1>3. p + 1 <= q
  <2> SUFFICES ASSUME q <= p PROVE FALSE
    BY <1>2
  <2>1. n * q <= n * p
    BY <1>2
  <2>2. QED BY <1>2, <2>1
<1>4. n * (p + 1) <= n * q
  BY <1>2, <1>3
<1>5. n * (p + 1) = n * p + n
  BY <1>2
<1>6. QED BY <1>1, <1>4, <1>5 DEF p, q

\* While the one caller sleeps for the second window, nobody is granted a
\* request in the windows it may wake up in.
Reserved ==
  \A c \in Callers : pc[c] = "second" =>
    /\ \A t \in Nat : t >= deadline[c] => Truncate("second", t) >= deadline[c]
    /\ \A w \in Time : w >= deadline[c] => sent["second"][w] = 0

\* What Acquire compares with a limit, when no count is lost.
LEMMA GateCounts ==
  ASSUME IInv, Remembered, phase = "up", NEW k \in Tier
  PROVE  /\ Fresh(k) = sent[k][Truncate(k, now)]
         /\ Truncate(k, now) \in Time /\ sent[k][Truncate(k, now)] \in Nat
         /\ Limit[k] \in Nat \ {0}
BY WindowsOfNow, TierFacts DEF IInv, CountsAreExact, TypeOK

\* A caller that is granted a request finds room in the current second.
LEMMA RoomInSecond ==
  ASSUME IInv, Remembered, Reserved, NEW c \in Callers, Grant(c)
  PROVE  sent["second"][Truncate("second", now)] < Limit["second"]
<1>1. "second" \in Tier /\ phase = "up" /\ AtTheGate(c) /\ now \in Nat
  BY DEF Grant, Tier, IInv, TypeOK, Time
<1>2. /\ Fresh("second") = sent["second"][Truncate("second", now)]
      /\ Truncate("second", now) \in Time /\ sent["second"][Truncate("second", now)] \in Nat
      /\ Limit["second"] \in Nat \ {0}
  BY <1>1, GateCounts
<1>3. CASE ~Exhausted("second")
  BY <1>2, <1>3 DEF Exhausted
<1>4. CASE Woken(c)
  <2>1. Truncate("second", now) >= deadline[c]
    BY <1>1, <1>4 DEF Woken, Reserved
  <2>2. QED BY <1>2, <1>4, <2>1 DEF Woken, Reserved
<1>5. QED BY <1>1, <1>3, <1>4 DEF AtTheGate

\* A step that grants nothing keeps both, if nobody falls asleep in it.
LEMMA NothingGranted ==
  ASSUME Reserved, SecondQuota, UNCHANGED sent, Remembered' => Remembered,
         \A c \in Callers : pc'[c] = "second" => pc[c] = "second" /\ deadline'[c] = deadline[c]
  PROVE  Reserved' /\ SecondQuota'
BY DEF Reserved, SecondQuota, WithinLimit, Truncate

\* A caller that returns is awake.
LEMMA ReturnAwake ==
  ASSUME TypeOK, NEW c \in Callers, Return(c)
  PROVE  \A d \in Callers : pc'[d] = "second" => pc[d] = "second" /\ deadline'[d] = deadline[d]
BY DEF Return, TypeOK

\* Every step keeps the second limit for one caller (Acquire).
LEMMA SecondStep ==
  ASSUME NEW c, Callers = {c}
  PROVE  IInv /\ Reserved /\ SecondQuota /\ [Next]_vars => Reserved' /\ SecondQuota'
<1> SUFFICES ASSUME IInv, Reserved, SecondQuota, [Next]_vars PROVE Reserved' /\ SecondQuota'
  OBVIOUS
<1>0. TypeOK /\ Causal /\ c \in Callers /\ "second" \in Tier /\ now \in Nat
  <2>1. TypeOK /\ Causal
    BY DEF IInv
  <2>2. now \in Nat
    BY <2>1, BoundsAssumption DEF TypeOK, Time
  <2>3. QED BY <2>1, <2>2 DEF Tier
<1>1. CASE Throttle(c)
  <2> DEFINE T == Truncate("second", now)
  <2>1. Latest("second") = T
    <3>1. last["second"] <= T /\ last["second"] \in Nat /\ T \in Nat
      BY <1>0, WindowsOfNow DEF Causal, TypeOK, Time
    <3>2. QED BY <3>1 DEF Latest
  <2>2. pc'[c] = "second" /\ deadline'[c] = T + SecondLen /\ UNCHANGED <<now, sent, crashes, forgot>>
    BY <1>0, <1>1, <2>1 DEF Throttle, TypeOK, clock, history
  <2>3. Length["second"] = SecondLen /\ SecondLen \in Nat \ {0}
    BY <1>0, LengthsAssumption DEF Length
  <2>4. ASSUME NEW t \in Nat, t >= T + SecondLen PROVE Truncate("second", t) >= T + SecondLen
    BY <1>0, <2>3, <2>4, NextWindow DEF Truncate
  <2>5. T \in Nat
    BY <1>0, WindowsOfNow DEF TypeOK, Time
  <2>6. \A w \in Time : w >= T + SecondLen => sent["second"][w] = 0
    BY <1>0, <2>3, <2>5 DEF Causal, Time
  <2>7. Reserved'
    BY <2>2, <2>4, <2>6 DEF Reserved, Truncate
  <2>8. SecondQuota'
    BY <2>2 DEF SecondQuota, Remembered, WithinLimit
  <2>9. QED BY <2>7, <2>8
<1>2. CASE Grant(c)
  <2> DEFINE T == Truncate("second", now)
  <2>1. Return(c) /\ UNCHANGED <<crashes, forgot>>
    BY <1>2 DEF Grant
  <2>2. Reserved'
    BY <1>0, <2>1 DEF Return, TypeOK, Reserved
  <2>3. sent'["second"] = [sent["second"] EXCEPT ![T] = @ + 1]
    BY <1>0, <1>2 DEF Grant
  <2>4. ASSUME Remembered' PROVE WithinLimit("second")'
    <3>1. Remembered
      BY <2>1, <2>4 DEF Remembered
    <3>2. /\ sent["second"][T] < Limit["second"] /\ T \in Time /\ sent["second"][T] \in Nat
          /\ Limit["second"] \in Nat
      BY <1>0, <1>2, <3>1, RoomInSecond, GateCounts DEF Grant
    <3>3. \A w \in Time : sent'["second"][w] =
                            IF w = T THEN sent["second"][w] + 1 ELSE sent["second"][w]
      BY <1>0, <2>3, <3>2 DEF TypeOK
    <3>4. QED BY <3>1, <3>2, <3>3 DEF SecondQuota, WithinLimit
  <2>5. QED BY <2>2, <2>4 DEF SecondQuota
<1>3. CASE Exceed(c) \/ BlockedAgain(c) \/ StopWaiting(c)
  BY <1>0, <1>3, ReturnAwake, NothingGranted
  DEF Exceed, BlockedAgain, StopWaiting, Remembered, history
<1>4. CASE WaitUntilAvailable(c)
  <2>1. \A d \in Callers : pc'[d] = "second" => pc[d] = "second" /\ deadline'[d] = deadline[d]
    BY <1>0, <1>4 DEF WaitUntilAvailable, TypeOK
  <2>2. QED BY <1>4, <2>1, NothingGranted DEF WaitUntilAvailable, Remembered, history
<1>5. ASSUME NEW j \in jobs, PersistCounts(j) PROVE Reserved' /\ SecondQuota'
  <2>1. UNCHANGED <<sent, pc, deadline, crashes>>
    BY <1>5 DEF PersistCounts, history, sleepers
  <2>2. forgot' \in {forgot, TRUE}
    BY <1>5 DEF PersistCounts, UpdateRow, UpdateNothing, InsertRow, InsertRejected, StatementFails
  <2>3. QED BY <1>0, <2>1, <2>2, NothingGranted DEF Remembered, TypeOK
<1>6. ASSUME NEW t \in blockJobs, SetBlocked(t) PROVE Reserved' /\ SecondQuota'
  BY <1>6, NothingGranted DEF SetBlocked, Remembered, history, sleepers
<1>7. CASE GetStatus \/ Cleanup \/ Tick \/ Start \/ LoadState
  BY <1>7, NothingGranted
  DEF GetStatus, Cleanup, Tick, Start, LoadState, Remembered, history, sleepers
<1>8. CASE Crash
  <2>1. Remembered' => Remembered
    BY <1>0, <1>8 DEF Crash, Remembered, TypeOK
  <2>2. QED BY <1>8, <2>1, NothingGranted DEF Crash, history
<1>9. CASE LoadFails
  BY <1>9, NothingGranted DEF LoadFails, Remembered, history, sleepers
<1>10. CASE UNCHANGED vars
  BY <1>10, NothingGranted DEF vars, Remembered
<1>11. QED
  BY <1>1, <1>2, <1>3, <1>4, <1>5, <1>6, <1>7, <1>8, <1>9, <1>10 DEF Next, Caller, Acquire

\* With one calling goroutine nobody is asleep at the start.
LEMMA SecondInit == Init => Reserved /\ SecondQuota
<1> SUFFICES ASSUME Init PROVE Reserved /\ SecondQuota
  OBVIOUS
<1>1. Reserved
  BY DEF Init, Reserved
<1>2. \A w \in Time : sent["second"][w] = 0 /\ Limit["second"] \in Nat
  BY TierFacts DEF Init, Tier
<1>3. QED BY <1>1, <1>2 DEF SecondQuota, WithinLimit

\* What Acquire knows of one caller.
LEMMA OneCaller ==
  ASSUME NEW c, Callers = {c}
  PROVE  Spec => [](IInv /\ Reserved /\ SecondQuota)
<1>1. IInv /\ Reserved /\ SecondQuota /\ [Next]_vars => Reserved' /\ SecondQuota'
  BY SecondStep
<1>2. QED BY <1>1, SecondInit, Invariant, PTL DEF Spec

\* With one calling goroutine, as in the sync loop, no second sees more
\* requests than its limit either, although it is not checked again after the
\* sleep, and across restarts that lose no count (Acquire).
THEOREM SecondLimit ==
  ASSUME NEW c, Callers = {c}
  PROVE  Spec => []SecondQuota
<1>1. QED BY OneCaller, PTL

-----------------------------------------------------------------------------
(* Several callers *)

\* Whoever wakes up does so in a window that starts after he fell asleep.
Aligned ==
  \A c \in Callers : pc[c] = "second" =>
    \A t \in Nat : t >= deadline[c] => Truncate("second", t) >= deadline[c]

\* Who may be granted a request in window w although the limit is used up.
Sleepers(w) == {c \in Callers : pc[c] = "second" /\ deadline[c] <= w}

\* A second has room for those that may still wake up in it.
Overslept ==
  Remembered =>
    \A w \in Time :
      /\ sent["second"][w] <= RequestsPerSec + Cardinality(Callers) - 1
      /\ w >= Truncate("second", now) =>
           sent["second"][w] + Cardinality(Sleepers(w))
             <= RequestsPerSec + Cardinality(Callers) - 1

LEMMA SizeOf ==
  ASSUME IsFiniteSet(Callers), NEW S \in SUBSET Callers
  PROVE  /\ IsFiniteSet(S) /\ Cardinality(S) \in Nat
         /\ Cardinality(Callers) \in Nat /\ Cardinality(S) <= Cardinality(Callers)
         /\ \A T \in SUBSET S : Cardinality(T) <= Cardinality(S)
         /\ \A c \in S : Cardinality(S \ {c}) = Cardinality(S) - 1
         /\ \A c \in Callers \ S : /\ Cardinality(S \union {c}) = Cardinality(S) + 1
                                   /\ Cardinality(S) + 1 <= Cardinality(Callers)
<1>1. IsFiniteSet(S) /\ Cardinality(S) \in Nat /\ Cardinality(Callers) \in Nat
  BY FS_Subset, FS_CardinalityType
<1>2. Cardinality(S) <= Cardinality(Callers) /\ \A T \in SUBSET S : Cardinality(T) <= Cardinality(S)
  BY <1>1, FS_Subset
<1>3. \A c \in S : Cardinality(S \ {c}) = Cardinality(S) - 1
  BY <1>1, FS_RemoveElement
<1>4. ASSUME NEW c \in Callers \ S
      PROVE  /\ Cardinality(S \union {c}) = Cardinality(S) + 1
             /\ Cardinality(S) + 1 <= Cardinality(Callers)
  <2>1. Cardinality(S \union {c}) = Cardinality(S) + 1
    BY <1>1, FS_AddElement
  <2>2. S \union {c} \subseteq Callers
    OBVIOUS
  <2>3. QED BY <2>1, <2>2, FS_Subset
<1>5. QED BY <1>1, <1>2, <1>3, <1>4

\* A step that grants nothing and puts nobody to sleep.
LEMMA NobodySleeps ==
  ASSUME IsFiniteSet(Callers), IInv, Aligned, Overslept,
         UNCHANGED sent, Remembered' => Remembered,
         now' \in Time, Truncate("second", now) <= Truncate("second", now'),
         \A c \in Callers : pc'[c] = "second" => pc[c] = "second" /\ deadline'[c] = deadline[c]
  PROVE  Aligned' /\ Overslept'
<1>1. Aligned'
  BY DEF Aligned, Truncate
<1>2. \A w \in Time : Cardinality(Sleepers(w)') <= Cardinality(Sleepers(w))
  <2> TAKE w \in Time
  <2>1. Sleepers(w) \in SUBSET Callers /\ Sleepers(w)' \in SUBSET Sleepers(w)
    BY DEF Sleepers
  <2>2. QED BY <2>1, SizeOf
<1>3. ASSUME Remembered', NEW w \in Time
      PROVE  /\ sent["second"][w] <= RequestsPerSec + Cardinality(Callers) - 1
             /\ w >= Truncate("second", now') =>
                  sent["second"][w] + Cardinality(Sleepers(w)')
                    <= RequestsPerSec + Cardinality(Callers) - 1
  <2>1. /\ sent["second"][w] <= RequestsPerSec + Cardinality(Callers) - 1
        /\ w >= Truncate("second", now) =>
             sent["second"][w] + Cardinality(Sleepers(w))
               <= RequestsPerSec + Cardinality(Callers) - 1
    BY <1>3 DEF Overslept
  <2>2. /\ Cardinality(Sleepers(w)) \in Nat /\ Cardinality(Sleepers(w)') \in Nat
        /\ Cardinality(Callers) \in Nat
    <3>1. Sleepers(w) \in SUBSET Callers /\ Sleepers(w)' \in SUBSET Callers
      BY DEF Sleepers
    <3>2. QED BY <3>1, SizeOf
  <2>3. /\ sent["second"][w] \in Nat /\ RequestsPerSec \in Nat /\ w \in Nat
        /\ Truncate("second", now) \in Nat /\ Truncate("second", now') \in Nat
    <3>1. "second" \in Tier /\ now \in Time /\ Time \subseteq Nat
      BY BoundsAssumption DEF IInv, TypeOK, Tier, Time
    <3>2. sent["second"][w] \in Nat
      BY <3>1 DEF IInv, TypeOK
    <3>3. Truncate("second", now) \in Nat /\ Truncate("second", now') \in Nat
      BY <3>1, WindowsOfNow
    <3>4. QED BY <3>1, <3>2, <3>3, LimitsAssumption
  <2>4. QED BY <1>2, <2>1, <2>2, <2>3
<1>4. Truncate("second", now)' = Truncate("second", now')
  BY DEF Truncate
<1>5. QED BY <1>1, <1>3, <1>4 DEF Overslept

\* Who is granted a request finds room in the current second, or wakes up in it.
LEMMA RoomOrAsleep ==
  ASSUME IInv, Remembered, Aligned, NEW c \in Callers, Grant(c)
  PROVE  \/ pc[c] # "second" /\ sent["second"][Truncate("second", now)] < RequestsPerSec
         \/ pc[c] = "second" /\ deadline[c] <= Truncate("second", now)
<1>1. "second" \in Tier /\ phase = "up" /\ AtTheGate(c) /\ now \in Nat
  BY BoundsAssumption DEF Grant, Tier, IInv, TypeOK, Time
<1>2. /\ Fresh("second") = sent["second"][Truncate("second", now)]
      /\ sent["second"][Truncate("second", now)] \in Nat
      /\ Limit["second"] = RequestsPerSec /\ RequestsPerSec \in Nat
  BY <1>1, GateCounts, LimitsAssumption DEF Limit
<1>3. CASE Entering(c) /\ ~Exhausted("second")
  BY <1>2, <1>3 DEF Exhausted, Entering
<1>4. CASE Woken(c)
  BY <1>1, <1>4 DEF Woken, Aligned
<1>5. QED BY <1>1, <1>3, <1>4 DEF AtTheGate

\* Who falls asleep does so for windows in which nothing is granted yet.
LEMMA SleepsAhead ==
  ASSUME IInv, NEW c \in Callers, Throttle(c)
  PROVE  \E d \in Time :
           /\ pc' = [pc EXCEPT ![c] = "second"] /\ deadline' = [deadline EXCEPT ![c] = d]
           /\ pc[c] # "second"
           /\ Truncate("second", now) < d
           /\ \A t \in Nat : t >= d => Truncate("second", t) >= d
           /\ UNCHANGED <<now, sent, crashes, forgot>>
<1> DEFINE T == Truncate("second", now)
<1>0. "second" \in Tier /\ now \in Nat /\ T \in Nat /\ T \in Time /\ MaxTime \in Nat
  <2>1. "second" \in Tier /\ now \in Time /\ Time \subseteq Nat /\ MaxTime \in Nat
    BY BoundsAssumption DEF IInv, TypeOK, Tier, Time
  <2>2. QED BY <2>1, WindowsOfNow
<1>1. Latest("second") = T
  <2>1. last["second"] <= T /\ last["second"] \in Nat
    BY <1>0 DEF IInv, Causal, TypeOK, Time
  <2>2. QED BY <1>0, <2>1 DEF Latest
<1>2. Length["second"] = SecondLen /\ SecondLen \in Nat \ {0}
  BY <1>0, LengthsAssumption DEF Length
<1>3. ASSUME NEW t \in Nat, t >= T + SecondLen PROVE Truncate("second", t) >= T + SecondLen
  BY <1>0, <1>2, <1>3, NextWindow DEF Truncate
<1>4. T + SecondLen \in Time /\ T < T + SecondLen
  BY <1>0, <1>1, <1>2 DEF Throttle, Time
<1>5. /\ pc' = [pc EXCEPT ![c] = "second"]
      /\ deadline' = [deadline EXCEPT ![c] = T + SecondLen]
      /\ pc[c] # "second" /\ UNCHANGED <<now, sent, crashes, forgot>>
  BY <1>1 DEF Throttle, Entering, clock, history
<1>6. QED BY <1>3, <1>4, <1>5

LEMMA OversleptStep ==
  ASSUME IsFiniteSet(Callers)
  PROVE  IInv /\ TypeOK' /\ Aligned /\ Overslept /\ [Next]_vars => Aligned' /\ Overslept'
<1> SUFFICES ASSUME IInv, TypeOK', Aligned, Overslept, [Next]_vars PROVE Aligned' /\ Overslept'
  OBVIOUS
<1> DEFINE T == Truncate("second", now)
           N == Cardinality(Callers)
<1>0. /\ TypeOK /\ Causal /\ "second" \in Tier /\ now \in Time /\ now' \in Time
      /\ T \in Time /\ T \in Nat /\ Time \subseteq Nat
      /\ RequestsPerSec \in Nat \ {0} /\ N \in Nat
      /\ \A w \in Time : sent["second"][w] \in Nat
  <2>1. TypeOK /\ Causal /\ now \in Time /\ now' \in Time /\ "second" \in Tier
    BY DEF IInv, TypeOK, Tier
  <2>2. Time \subseteq Nat
    BY BoundsAssumption DEF Time
  <2>3. N \in Nat
    BY SizeOf
  <2>4. \A w \in Time : sent["second"][w] \in Nat
    BY <2>1 DEF TypeOK
  <2>5. QED BY <2>1, <2>2, <2>3, <2>4, LimitsAssumption, WindowsOfNow
<1>s. \A w \in Time : Sleepers(w) \in SUBSET Callers /\ Sleepers(w)' \in SUBSET Callers
  BY DEF Sleepers
<1>a. ASSUME UNCHANGED <<now, sent>>, Remembered' => Remembered,
             \A c \in Callers : pc'[c] = "second" => pc[c] = "second" /\ deadline'[c] = deadline[c]
      PROVE  Aligned' /\ Overslept'
  BY <1>0, <1>a, NobodySleeps
<1>1. ASSUME NEW c \in Callers, Throttle(c) PROVE Aligned' /\ Overslept'
  <2>1. PICK d \in Time :
           /\ pc' = [pc EXCEPT ![c] = "second"] /\ deadline' = [deadline EXCEPT ![c] = d]
           /\ pc[c] # "second"
           /\ T < d
           /\ \A t \in Nat : t >= d => Truncate("second", t) >= d
           /\ UNCHANGED <<now, sent, crashes, forgot>>
    BY <1>1, SleepsAhead
  <2>2. \A e \in Callers : /\ pc'[e] = IF e = c THEN "second" ELSE pc[e]
                           /\ deadline'[e] = IF e = c THEN d ELSE deadline[e]
    BY <1>0, <2>1 DEF TypeOK
  <2>3. Aligned'
    BY <2>1, <2>2 DEF Aligned, Truncate
  <2>4. ASSUME Remembered', NEW w \in Time
        PROVE  /\ sent["second"][w] <= RequestsPerSec + N - 1
               /\ w >= T => sent["second"][w] + Cardinality(Sleepers(w)') <= RequestsPerSec + N - 1
    <3>1. Remembered
      BY <2>1, <2>4 DEF Remembered
    <3>2. CASE w < d
      <4>1. Sleepers(w)' = Sleepers(w)
        BY <1>0, <2>1, <2>2, <3>2 DEF Sleepers
      <4>2. QED BY <3>1, <4>1 DEF Overslept
    <3>3. CASE w >= d
      <4>1. sent["second"][w] = 0
        BY <1>0, <2>1, <3>3 DEF Causal
      <4>2. Cardinality(Sleepers(w)') <= N /\ Cardinality(Sleepers(w)') \in Nat
        BY <1>s, SizeOf
      <4>3. QED BY <1>0, <3>1, <4>1, <4>2 DEF Overslept
    <3>4. QED BY <1>0, <3>2, <3>3
  <2>5. QED BY <2>1, <2>3, <2>4 DEF Overslept, Truncate
<1>2. ASSUME NEW c \in Callers, Grant(c) PROVE Aligned' /\ Overslept'
  <2>1. Return(c) /\ UNCHANGED <<now, crashes, forgot>>
    BY <1>2 DEF Grant, clock
  <2>2. \A e \in Callers : /\ pc'[e] = IF e = c THEN "idle" ELSE pc[e]
                           /\ deadline'[e] = IF e = c THEN 0 ELSE deadline[e]
    BY <1>0, <2>1 DEF Return, TypeOK
  <2>3. Aligned'
    BY <2>2 DEF Aligned, Truncate
  <2>4. \A w \in Time : sent'["second"][w] =
                          IF w = T THEN sent["second"][w] + 1 ELSE sent["second"][w]
    BY <1>0, <1>2 DEF Grant, TypeOK
  <2>5. \A w \in Time : Sleepers(w)' = Sleepers(w) \ {c}
    BY <2>2 DEF Sleepers
  <2>6. ASSUME Remembered', NEW w \in Time
        PROVE  /\ sent'["second"][w] <= RequestsPerSec + N - 1
               /\ w >= T => sent'["second"][w] + Cardinality(Sleepers(w)') <= RequestsPerSec + N - 1
    <3> DEFINE S == Sleepers(w)
               s == sent["second"][w]
    <3>0. Remembered
      BY <2>1, <2>6 DEF Remembered
    <3>1. /\ s <= RequestsPerSec + N - 1
          /\ w >= T => s + Cardinality(S) <= RequestsPerSec + N - 1
      BY <3>0 DEF Overslept
    <3>2. /\ Cardinality(S) \in Nat /\ Cardinality(S \ {c}) \in Nat
          /\ Cardinality(S \ {c}) <= Cardinality(S)
          /\ Cardinality(S \ {c}) + 1 <= N
          /\ c \in S => Cardinality(S \ {c}) = Cardinality(S) - 1
      <4>1. S \in SUBSET Callers /\ S \ {c} \in SUBSET S /\ S \ {c} \in SUBSET Callers
            /\ c \in Callers \ (S \ {c})
        BY <1>s
      <4> HIDE DEF S
      <4>2. QED BY <4>1, SizeOf
    <3>3. s \in Nat /\ w \in Nat
      BY <1>0
    <3>4. CASE w = T
      <4>1. \/ pc[c] # "second" /\ s < RequestsPerSec
            \/ pc[c] = "second" /\ deadline[c] <= w
        BY <1>2, <3>0, <3>4, RoomOrAsleep
      <4>2. s + 1 + Cardinality(S \ {c}) <= RequestsPerSec + N - 1
        <5>1. CASE s < RequestsPerSec
          BY <1>0, <3>2, <3>3, <5>1
        <5>2. CASE c \in S
          BY <1>0, <3>1, <3>2, <3>3, <3>4, <5>2
        <5>3. QED BY <4>1, <5>1, <5>2 DEF Sleepers
      <4>3. sent'["second"][w] = s + 1 /\ Sleepers(w)' = S \ {c}
        BY <2>4, <2>5, <3>4
      <4> HIDE DEF S, s
      <4>4. QED BY <1>0, <3>2, <3>3, <4>2, <4>3
    <3>5. CASE w # T
      <4>1. sent'["second"][w] = s /\ Sleepers(w)' = S \ {c}
        BY <2>4, <2>5, <3>5
      <4> HIDE DEF S, s
      <4>2. QED BY <1>0, <3>1, <3>2, <3>3, <4>1
    <3>6. QED BY <3>4, <3>5
  <2>7. QED BY <2>1, <2>3, <2>6 DEF Overslept, Truncate
<1>3. ASSUME NEW c \in Callers, Exceed(c) \/ BlockedAgain(c) \/ StopWaiting(c)
      PROVE  Aligned' /\ Overslept'
  BY <1>0, <1>3, <1>a, ReturnAwake DEF Exceed, BlockedAgain, StopWaiting, Remembered, history, clock
<1>4. ASSUME NEW c \in Callers, WaitUntilAvailable(c) PROVE Aligned' /\ Overslept'
  <2>1. \A d \in Callers : pc'[d] = "second" => pc[d] = "second" /\ deadline'[d] = deadline[d]
    BY <1>0, <1>4 DEF WaitUntilAvailable, TypeOK
  <2>2. QED BY <1>4, <1>a, <2>1 DEF WaitUntilAvailable, Remembered, history, clock
<1>5. ASSUME NEW j \in jobs, PersistCounts(j) PROVE Aligned' /\ Overslept'
  <2>1. UNCHANGED <<now, sent, pc, deadline, crashes>>
    BY <1>5 DEF PersistCounts, history, sleepers, clock
  <2>2. forgot' \in {forgot, TRUE}
    BY <1>5 DEF PersistCounts, UpdateRow, UpdateNothing, InsertRow, InsertRejected, StatementFails
  <2>3. QED BY <1>0, <1>a, <2>1, <2>2 DEF Remembered, TypeOK
<1>6. ASSUME NEW t \in blockJobs, SetBlocked(t) PROVE Aligned' /\ Overslept'
  BY <1>6, <1>a DEF SetBlocked, Remembered, history, sleepers, clock
<1>7. CASE GetStatus \/ Cleanup \/ Start \/ LoadState
  BY <1>7, <1>a DEF GetStatus, Cleanup, Start, LoadState, Remembered, history, sleepers, clock
<1>8. CASE Tick
  <2>1. now \in Nat /\ now' = now + 1
    BY <1>0, <1>8 DEF Tick
  <2>2. Truncate("second", now) <= Truncate("second", now')
    BY <1>0, <2>1, TruncateMonotone
  <2>3. UNCHANGED <<sent, crashes, forgot, pc, deadline>>
    BY <1>8 DEF Tick, history, sleepers
  <2>4. QED BY <1>0, <2>2, <2>3, NobodySleeps DEF Remembered
<1>9. CASE Crash
  <2>1. Remembered' => Remembered
    BY <1>0, <1>9 DEF Crash, Remembered, TypeOK
  <2>2. QED BY <1>9, <1>a, <2>1 DEF Crash, history, clock
<1>10. CASE LoadFails
  BY <1>10, <1>a DEF LoadFails, Remembered, history, sleepers, clock
<1>11. CASE UNCHANGED vars
  BY <1>11, <1>a DEF vars, Remembered
<1>12. QED
  BY <1>1, <1>2, <1>3, <1>4, <1>5, <1>6, <1>7, <1>8, <1>9, <1>10, <1>11 DEF Next, Caller, Acquire

LEMMA OversleptHolds ==
  ASSUME IsFiniteSet(Callers)
  PROVE  Spec => [](Aligned /\ Overslept)
<1>1. Init => Aligned /\ Overslept
  <2> SUFFICES ASSUME Init PROVE Aligned /\ Overslept
    OBVIOUS
  <2>1. Aligned /\ \A w \in Time : Sleepers(w) = {} /\ sent["second"][w] = 0
    BY DEF Init, Aligned, Sleepers, Tier
  <2>2. Cardinality({}) = 0 /\ Cardinality(Callers) \in Nat /\ RequestsPerSec \in Nat \ {0}
    BY FS_EmptySet, FS_CardinalityType, LimitsAssumption
  <2> DEFINE n == Cardinality(Callers)
  <2>3. 0 <= RequestsPerSec + n - 1 /\ 0 + 0 <= RequestsPerSec + n - 1
    <3> HIDE DEF n
    <3>1. n \in Nat /\ RequestsPerSec \in Nat /\ RequestsPerSec >= 1
      BY <2>2 DEF n
    <3>2. QED BY <3>1
  <2>4. \A w \in Time : Cardinality(Sleepers(w)) = 0
    BY <2>1, <2>2
  <2>5. Overslept
    BY <2>1, <2>3, <2>4 DEF Overslept
  <2>6. QED BY <2>1, <2>5
<1>2. IInv /\ TypeOK' /\ Aligned /\ Overslept /\ [Next]_vars => Aligned' /\ Overslept'
  BY OversleptStep
<1>3. QED BY <1>1, <1>2, Invariant, TypeCorrect, PTL DEF Spec

\* However many goroutines call Acquire, the second limit, which is not checked
\* again after the sleep, is exceeded by fewer requests than there are
\* goroutines (Acquire).
THEOREM SecondOverrunBounded ==
  ASSUME IsFiniteSet(Callers)
  PROVE  Spec => []SecondOverrun
<1>1. Overslept => SecondOverrun
  BY DEF Overslept, SecondOverrun
<1>2. QED BY <1>1, OversleptHolds, PTL

-----------------------------------------------------------------------------
(* The block *)

\* What the limiter remembers of blocks is right until a restart, no row of the
\* database speaks of one, and nobody falls asleep for the second window in it.
BlockKnown ==
  /\ blockedAt = {}
  /\ crashes = 0 => blockedUntil = promisedUntil
  /\ \A c \in Callers : pc[c] = "second" => now >= blockedUntil

\* A step that blocks nobody and puts nobody to sleep.
LEMMA BlockStays ==
  ASSUME TypeOK, BlockKnown,
         UNCHANGED <<now, blockedUntil, promisedUntil, blockedAt, crashes>>,
         \A c \in Callers : pc'[c] = "second" => pc[c] = "second" /\ deadline'[c] = deadline[c]
  PROVE  BlockKnown'
BY DEF BlockKnown

\* Every step keeps the block known (Acquire, block, SetBlocked, loadState).
LEMMA BlockStep ==
  ASSUME NEW c, Callers = {c}
  PROVE  TypeOK /\ BlockKnown /\ [Next]_vars => BlockKnown'
<1> SUFFICES ASSUME TypeOK, BlockKnown, [Next]_vars PROVE BlockKnown'
  OBVIOUS
<1>0. c \in Callers
  OBVIOUS
<1>1. CASE Throttle(c)
  <2>1. now \in Nat /\ blockedUntil \in Nat
    BY BoundsAssumption DEF TypeOK, Time
  <2>2. UNCHANGED <<now, blockedUntil, promisedUntil, blockedAt, crashes>> /\ now >= blockedUntil
    BY <1>1, <2>1 DEF Throttle, Blocked, clock, disk, history
  <2>3. QED BY <2>2 DEF BlockKnown
<1>2. CASE Exceed(c)
  <2>1. /\ blockedUntil' = promisedUntil' /\ UNCHANGED <<now, blockedAt, crashes>> /\ pc'[c] = "idle"
    BY <1>0, <1>2 DEF Exceed, Return, TypeOK, clock, disk
  <2>2. QED BY <2>1 DEF BlockKnown
<1>3. CASE Grant(c) \/ BlockedAgain(c) \/ StopWaiting(c)
  BY <1>0, <1>3, ReturnAwake, BlockStays
  DEF Grant, BlockedAgain, StopWaiting, clock, memory, disk, history
<1>4. CASE WaitUntilAvailable(c)
  <2>1. \A d \in Callers : pc'[d] = "second" => pc[d] = "second" /\ deadline'[d] = deadline[d]
    BY <1>0, <1>4 DEF WaitUntilAvailable, TypeOK
  <2>2. QED BY <1>4, <2>1, BlockStays DEF WaitUntilAvailable, clock, memory, disk, history
<1>5. ASSUME NEW j \in jobs, PersistCounts(j) PROVE BlockKnown'
  BY <1>5, BlockStays DEF PersistCounts, clock, memory, sleepers, history
<1>6. ASSUME NEW t \in blockJobs, SetBlocked(t) PROVE BlockKnown'
  <2>1. blockedAt' = {}
    BY <1>6 DEF SetBlocked, BlockKnown
  <2>2. QED BY <1>6, <2>1 DEF SetBlocked, BlockKnown, clock, memory, sleepers, history
<1>7. CASE GetStatus \/ Cleanup \/ Start \/ LoadFails
  BY <1>7, BlockStays
  DEF GetStatus, Cleanup, Start, LoadFails, clock, memory, sleepers, disk, history
<1>8. CASE Tick
  <2>1. now \in Nat /\ blockedUntil \in Nat /\ now' = now + 1
    BY <1>8, BoundsAssumption DEF Tick, TypeOK, Time
  <2>2. UNCHANGED <<blockedUntil, promisedUntil, blockedAt, crashes, pc>>
    BY <1>8 DEF Tick, memory, sleepers, disk, history
  <2>3. QED BY <2>1, <2>2 DEF BlockKnown
<1>9. CASE LoadState
  <2>1. UNCHANGED <<now, blockedUntil, promisedUntil, blockedAt, crashes, pc, deadline>>
    BY <1>9 DEF LoadState, BlockKnown, clock, sleepers, disk, history
  <2>2. QED BY <2>1, BlockStays
<1>10. CASE Crash
  <2>1. UNCHANGED blockedAt /\ crashes' # 0 /\ pc'[c] = "idle"
    BY <1>0, <1>10 DEF Crash, disk, TypeOK
  <2>2. QED BY <2>1 DEF BlockKnown
<1>11. CASE UNCHANGED vars
  BY <1>11 DEF vars, BlockKnown
<1>12. QED
  BY <1>1, <1>2, <1>3, <1>4, <1>5, <1>6, <1>7, <1>8, <1>9, <1>10, <1>11
  DEF Next, Caller, Acquire

\* The block of the limiter is known at every step.
LEMMA BlockAlwaysKnown ==
  ASSUME NEW c, Callers = {c}
  PROVE  Spec => []BlockKnown
<1>1. Init => BlockKnown
  BY DEF Init, BlockKnown
<1>2. TypeOK /\ BlockKnown /\ [Next]_vars => BlockKnown'
  BY BlockStep
<1>3. QED BY <1>1, <1>2, TypeCorrect, PTL DEF Spec

\* Until a restart, one calling goroutine is granted nothing before the block of
\* the latest violation is over (Acquire, block).
THEOREM BlockHonoured ==
  ASSUME NEW c, Callers = {c}
  PROVE  Spec /\ [](crashes = 0) => HonoursBlock
<1>1. TypeOK /\ BlockKnown /\ crashes = 0 /\ [Next]_vars
        => [grants' # grants => now >= promisedUntil]_vars
  <2> SUFFICES ASSUME TypeOK, BlockKnown, crashes = 0, Next, grants' # grants
               PROVE  now >= promisedUntil
    OBVIOUS
  <2>0. now \in Nat /\ blockedUntil \in Nat /\ blockedUntil = promisedUntil
    BY BoundsAssumption DEF TypeOK, Time, BlockKnown
  <2>1. Grant(c)
    <3>1. \A j \in jobs : PersistCounts(j) => UNCHANGED grants
      BY DEF PersistCounts, history
    <3>2. QED
      BY <3>1 DEF Next, Caller, Acquire, Throttle, Exceed, BlockedAgain, StopWaiting,
        WaitUntilAvailable, SetBlocked, GetStatus, Cleanup, Tick, Crash, Start, LoadState,
        LoadFails, history
  <2>2. CASE ~Blocked
    BY <2>0, <2>2 DEF Blocked
  <2>3. CASE Woken(c)
    BY <2>0, <2>3 DEF Woken, BlockKnown
  <2>4. QED BY <2>1, <2>2, <2>3 DEF Grant, AtTheGate
<1>2. Spec => [](TypeOK /\ BlockKnown)
  BY TypeCorrect, BlockAlwaysKnown, PTL
<1>3. QED BY <1>1, <1>2, PTL DEF Spec, HonoursBlock

-----------------------------------------------------------------------------
(* The abstract quota *)

\* Every step that is not a tick or a grant leaves what WindowQuota speaks of.
LEMMA OtherSteps ==
  ASSUME [Next]_vars, ~Tick, \A c \in Callers : ~Grant(c)
  PROVE  UNCHANGED <<now, sent>>
<1>1. \A j \in jobs : PersistCounts(j) => UNCHANGED <<now, sent>>
  BY DEF PersistCounts, clock, history
<1>2. UNCHANGED vars => UNCHANGED <<now, sent>>
  BY DEF vars
<1>3. QED
  BY <1>1, <1>2 DEF Next, Caller, Acquire, Throttle, Exceed, BlockedAgain, StopWaiting,
    WaitUntilAvailable, SetBlocked, GetStatus, Cleanup, Crash, Start, LoadState, LoadFails,
    clock, history

\* A grant finds room in the current minute and hour.
LEMMA RoomInMinuteAndHour ==
  ASSUME IInv, Remembered, NEW c \in Callers, Grant(c), NEW k \in {"minute", "hour"}
  PROVE  sent[k][Truncate(k, now)] < Limit[k]
<1>1. k \in Tier /\ phase = "up" /\ ~Exhausted(k)
  BY DEF Grant, Tier
<1>2. /\ Fresh(k) = sent[k][Truncate(k, now)] /\ sent[k][Truncate(k, now)] \in Nat
      /\ Limit[k] \in Nat \ {0}
  BY <1>1, GateCounts
<1>3. QED BY <1>1, <1>2 DEF Exhausted

\* However many goroutines call Acquire, the limiter implements the quota of
\* the minute and the hour, until a restart (Acquire).
THEOREM MinuteHourImplemented == Spec /\ [](crashes = 0) => ImplementsMinuteHour
<1>1. Init => LongTiers!Init
  BY DEF Init, LongTiers!Init, Time, Tier
<1>2. IInv /\ crashes = 0 /\ [Next]_vars => [LongTiers!Next]_LongTiers!vars
  <2> SUFFICES ASSUME IInv, crashes = 0, [Next]_vars PROVE [LongTiers!Next]_LongTiers!vars
    OBVIOUS
  <2>1. ASSUME NEW c \in Callers, Grant(c) PROVE LongTiers!Use
    <3>1. \A k \in {"minute", "hour"} : sent[k][Truncate(k, now)] < Limit[k]
      BY <2>1, RoomInMinuteAndHour DEF Remembered
    <3>2. /\ sent' = [k \in Tier |-> [sent[k] EXCEPT ![Truncate(k, now)] = @ + 1]]
          /\ UNCHANGED now
      BY <2>1 DEF Grant, clock
    <3>3. QED BY <3>1, <3>2 DEF LongTiers!Use, LongTiers!Window, Truncate, Tier
  <2>2. CASE Tick
    BY <2>2 DEF Tick, history, LongTiers!Tick, LongTiers!Next
  <2>3. CASE UNCHANGED <<now, sent>>
    BY <2>3 DEF LongTiers!vars
  <2>4. QED BY <2>1, <2>2, <2>3, OtherSteps DEF LongTiers!Next
<1>3. QED BY <1>1, <1>2, Invariant, PTL DEF Spec, ImplementsMinuteHour, LongTiers!Spec

\* With one calling goroutine it implements the quota of all three tiers, until
\* a restart (Acquire).
THEOREM AllImplemented ==
  ASSUME NEW c, Callers = {c}
  PROVE  Spec /\ [](crashes = 0) => ImplementsAllTiers
<1>1. Init => AllTiers!Init
  BY DEF Init, AllTiers!Init, Time
<1>2. IInv /\ Reserved /\ crashes = 0 /\ [Next]_vars => [AllTiers!Next]_AllTiers!vars
  <2> SUFFICES ASSUME IInv, Reserved, crashes = 0, [Next]_vars
               PROVE  [AllTiers!Next]_AllTiers!vars
    OBVIOUS
  <2>1. ASSUME NEW d \in Callers, Grant(d) PROVE AllTiers!Use
    <3>1. \A k \in {"minute", "hour"} : sent[k][Truncate(k, now)] < Limit[k]
      BY <2>1, RoomInMinuteAndHour DEF Remembered
    <3>2. sent["second"][Truncate("second", now)] < Limit["second"]
      BY <2>1, RoomInSecond DEF Remembered
    <3>3. /\ sent' = [k \in Tier |-> [sent[k] EXCEPT ![Truncate(k, now)] = @ + 1]]
          /\ UNCHANGED now
      BY <2>1 DEF Grant, clock
    <3>4. QED BY <3>1, <3>2, <3>3 DEF AllTiers!Use, AllTiers!Window, Truncate, Tier
  <2>2. CASE Tick
    BY <2>2 DEF Tick, history, AllTiers!Tick, AllTiers!Next
  <2>3. CASE UNCHANGED <<now, sent>>
    BY <2>3 DEF AllTiers!vars
  <2>4. QED BY <2>1, <2>2, <2>3, OtherSteps DEF AllTiers!Next
<1>3. QED BY <1>1, <1>2, OneCaller, PTL DEF Spec, ImplementsAllTiers, AllTiers!Spec

-----------------------------------------------------------------------------
(* FetchSchemeData *)

\* A step of FetchSchemeData is one of the limiter or leaves it alone, and it is
\* never a restart.
LEMMA FetchStepIsStep ==
  ASSUME FetchNext
  PROVE  [Next]_vars /\ UNCHANGED crashes
<1>1. \A j \in jobs : PersistCounts(j) => UNCHANGED crashes
  BY DEF PersistCounts
<1>2. UNCHANGED vars => UNCHANGED crashes
  BY DEF vars
<1>3. UNCHANGED crashes
  BY <1>1, <1>2 DEF FetchNext, FetchSchemeData, Wait, Go, Send, FetchReturns, TooManyRequests,
    Background, Grant, Throttle, Exceed, BlockedAgain, StopWaiting, WaitUntilAvailable,
    SetBlocked, GetStatus, Cleanup, Tick, Start, LoadState, LoadFails
<1>4. [Next]_vars
  BY DEF FetchNext, FetchSchemeData, Wait, Go, Send, FetchReturns, TooManyRequests, Background,
    Next, Caller, Acquire
<1>5. QED BY <1>3, <1>4

\* One life of the process is a behaviour of the limiter without a restart.
LEMMA FetchIsLimited == FetchSpec => Spec /\ [](crashes = 0)
<1>1. FetchInit => Init /\ crashes = 0
  BY DEF FetchInit, Init
<1>2. [FetchNext]_allVars => [Next]_vars /\ UNCHANGED crashes
  <2>1. UNCHANGED allVars => UNCHANGED vars /\ UNCHANGED crashes
    BY DEF allVars, vars
  <2>2. QED BY <2>1, FetchStepIsStep
<1>3. crashes = 0 /\ [FetchNext]_allVars => (crashes = 0)'
  BY <1>2
<1>4. QED BY <1>1, <1>2, <1>3, PTL DEF FetchSpec, Spec

\* The window of now is the latest that anything can be sent in, and it moves
\* forward.
LEMMA WindowMoves ==
  ASSUME TypeOK, Tick, NEW k \in Tier
  PROVE  /\ Truncate(k, now) \in Time /\ Truncate(k, now') \in Nat
         /\ Truncate(k, now) <= Truncate(k, now')
<1>1. now \in Nat /\ now' = now + 1
  BY BoundsAssumption DEF Tick, TypeOK, Time
<1>2. QED BY <1>1, WindowsOfNow, TruncateFacts, TruncateMonotone DEF TypeOK

\* The types of FetchLimited at every step, for any number of callers: one that
\* waits for an answer never sleeps in the limiter (FetchSchemeData).
THEOREM FetchTypeCorrect == FetchSpec => []FetchTypeOK
<1>1. FetchInit => FetchTypeOK
  BY DEF FetchInit, Init, FetchTypeOK, Flight
<1>2. TypeOK /\ FetchTypeOK /\ [FetchNext]_allVars => FetchTypeOK'
  <2> SUFFICES ASSUME TypeOK, FetchTypeOK, [FetchNext]_allVars PROVE FetchTypeOK'
    OBVIOUS
  <2>0. pc \in [Callers -> {"idle", "second", "block"}] /\ now \in Time
    BY DEF TypeOK
  <2>1. ASSUME NEW c \in Callers, Wait(c) PROVE FetchTypeOK'
    <3>1. UNCHANGED <<flight, arrived>> /\ flight[c] = "none"
      BY <2>1 DEF Wait, fetch, Free
    <3>2. \A d \in Callers \ {c} : pc'[d] = pc[d]
      BY <2>0, <2>1 DEF Wait, Throttle, Exceed, BlockedAgain, StopWaiting, WaitUntilAvailable, Return
    <3>3. QED BY <3>1, <3>2 DEF FetchTypeOK
  <2>2. ASSUME NEW c \in Callers, Go(c) PROVE FetchTypeOK'
    <3>1. flight' = [flight EXCEPT ![c] = "granted"] /\ UNCHANGED arrived
      BY <2>2 DEF Go
    <3>2. pc' = [pc EXCEPT ![c] = "idle"]
      BY <2>2 DEF Go, Grant, Return
    <3>3. QED BY <2>0, <3>1, <3>2 DEF FetchTypeOK, Flight
  <2>3. ASSUME NEW c \in Callers, Send(c) PROVE FetchTypeOK'
    <3>1. /\ flight[c] = "granted" /\ flight' = [flight EXCEPT ![c] = "sent"]
          /\ arrived' = [k \in Tier |-> [arrived[k] EXCEPT ![Truncate(k, now)] = @ + 1]]
          /\ UNCHANGED pc
      BY <2>3 DEF Send, AfterSending, vars
    <3>2. ASSUME NEW k \in Tier
          PROVE  [arrived[k] EXCEPT ![Truncate(k, now)] = @ + 1] \in [Time -> Nat]
      BY <2>0, WindowsOfNow DEF FetchTypeOK
    <3>3. arrived' \in [Tier -> [Time -> Nat]]
      BY <3>1, <3>2
    <3>4. QED BY <3>1, <3>3 DEF FetchTypeOK, Flight
  <2>4. ASSUME NEW c \in Callers, FetchReturns(c) \/ TooManyRequests(c) PROVE FetchTypeOK'
    <3>1. /\ UNCHANGED <<pc, arrived>> /\ flight[c] # "none"
          /\ \E f \in {"none", "429"} : flight' = [flight EXCEPT ![c] = f]
      BY <2>4 DEF FetchReturns, TooManyRequests, vars
    <3>2. QED BY <3>1 DEF FetchTypeOK, Flight
  <2>5. CASE Background
    BY <2>5 DEF Background, PersistCounts, SetBlocked, GetStatus, Cleanup, Tick, Start, LoadState,
      LoadFails, sleepers, fetch, FetchTypeOK
  <2>6. CASE UNCHANGED allVars
    BY <2>6 DEF allVars, vars, fetch, FetchTypeOK
  <2>7. QED BY <2>1, <2>2, <2>3, <2>4, <2>5, <2>6 DEF FetchNext, FetchSchemeData
<1>3. QED BY <1>1, <1>2, FetchIsLimited, TypeCorrect, PTL DEF FetchSpec

\* With one calling goroutine that waits for its answers, as in the sync loop,
\* the limiter honours its blocks and implements the abstract quota of all
\* three tiers (FetchSchemeData, Acquire).
THEOREM FetchHonoursQuota ==
  ASSUME NEW c, Callers = {c}
  PROVE  FetchSpec => HonoursBlock /\ ImplementsAllTiers
BY FetchIsLimited, BlockHonoured, AllImplemented, PTL

\* The counts of the database are as right under FetchSchemeData as under the
\* limiter alone (IncrementCount, Cleanup).
THEOREM FetchCounts == FetchSpec => [](NeverOvercounts /\ DrainedIsExact)
BY FetchIsLimited, NoOvercount, DrainedExact, PTL

-----------------------------------------------------------------------------
(* What reaches the API *)

\* Who may have one more request arrive in window w than its quota: a request of
\* his is on its way, or he will be granted one when he wakes up.
Pending(k, w) ==
  {c \in Callers : \/ flight[c] = "granted"
                   \/ k = "second" /\ pc[c] = "second" /\ deadline[c] <= w}

\* Every window that is not over has room for what is pending.
Arrivals ==
  \A k \in Tier, w \in Time :
    /\ arrived[k][w] <= Limit[k] + Cardinality(Callers)
    /\ w > Truncate(k, now) => arrived[k][w] = 0
    /\ w >= Truncate(k, now) =>
         /\ arrived[k][w] + Cardinality(Pending(k, w)) <= sent[k][w] + Cardinality(Callers)
         /\ arrived[k][w] + Cardinality(Pending(k, w)) <= Limit[k] + Cardinality(Callers)

\* What the numbers of these sums are.
LEMMA Numbers ==
  ASSUME IsFiniteSet(Callers), TypeOK, FetchTypeOK, NEW k \in Tier, NEW w \in Time
  PROVE  /\ arrived[k][w] \in Nat /\ sent[k][w] \in Nat /\ Limit[k] \in Nat \ {0}
         /\ Truncate(k, now) \in Nat /\ w \in Nat
         /\ Cardinality(Callers) \in Nat
         /\ Cardinality(Pending(k, w)) \in Nat
         /\ Cardinality(Pending(k, w)) <= Cardinality(Callers)
         /\ Pending(k, w) \in SUBSET Callers
<1>1. Time \subseteq Nat /\ now \in Time
  BY BoundsAssumption DEF Time, TypeOK
<1>2. arrived[k][w] \in Nat /\ sent[k][w] \in Nat
  BY DEF TypeOK, FetchTypeOK
<1>3. Truncate(k, now) \in Nat
  BY <1>1, WindowsOfNow
<1>4. Pending(k, w) \in SUBSET Callers
  BY DEF Pending
<1>5. QED BY <1>1, <1>2, <1>3, <1>4, TierFacts, SizeOf

\* A step in which nothing is granted and nothing arrives.
LEMMA NothingArrives ==
  ASSUME IsFiniteSet(Callers), TypeOK, TypeOK', FetchTypeOK, FetchTypeOK', Arrivals,
         UNCHANGED <<arrived, sent>>,
         \A k \in Tier : Truncate(k, now) <= Truncate(k, now'),
         \A k \in Tier, w \in Time : Pending(k, w)' \subseteq Pending(k, w)
  PROVE  Arrivals'
<1>1. ASSUME NEW k \in Tier, NEW w \in Time
      PROVE  /\ arrived[k][w] <= Limit[k] + Cardinality(Callers)
             /\ w > Truncate(k, now') => arrived[k][w] = 0
             /\ w >= Truncate(k, now') =>
                  /\ arrived[k][w] + Cardinality(Pending(k, w)') <= sent[k][w] + Cardinality(Callers)
                  /\ arrived[k][w] + Cardinality(Pending(k, w)') <= Limit[k] + Cardinality(Callers)
  <2>1. Cardinality(Pending(k, w)') <= Cardinality(Pending(k, w)) /\ Cardinality(Pending(k, w)') \in Nat
    <3>1. Pending(k, w)' \in SUBSET Pending(k, w) /\ Pending(k, w) \in SUBSET Callers
          /\ Pending(k, w)' \in SUBSET Callers
      BY DEF Pending
    <3>2. QED BY <3>1, SizeOf
  <2>2. Truncate(k, now') \in Nat /\ Truncate(k, now) <= Truncate(k, now')
    <3>1. Truncate(k, now') \in Time /\ Time \subseteq Nat
      BY BoundsAssumption, WindowsOfNow DEF TypeOK, Time
    <3>2. QED BY <3>1
  <2>3. /\ arrived[k][w] \in Nat /\ sent[k][w] \in Nat /\ Limit[k] \in Nat \ {0}
        /\ Truncate(k, now) \in Nat /\ w \in Nat /\ Cardinality(Callers) \in Nat
        /\ Cardinality(Pending(k, w)) \in Nat
    BY Numbers
  <2>4. /\ arrived[k][w] <= Limit[k] + Cardinality(Callers)
        /\ w > Truncate(k, now) => arrived[k][w] = 0
        /\ w >= Truncate(k, now) =>
             /\ arrived[k][w] + Cardinality(Pending(k, w)) <= sent[k][w] + Cardinality(Callers)
             /\ arrived[k][w] + Cardinality(Pending(k, w)) <= Limit[k] + Cardinality(Callers)
    BY DEF Arrivals
  <2>5. QED BY <2>1, <2>2, <2>3, <2>4
<1>2. \A k \in Tier : Truncate(k, now)' = Truncate(k, now')
  BY DEF Truncate
<1>3. QED BY <1>1, <1>2 DEF Arrivals

LEMMA GoArrives ==
  ASSUME IsFiniteSet(Callers), IInv, crashes = 0, Aligned, FetchTypeOK, Arrivals,
         NEW c \in Callers, Go(c)
  PROVE  Arrivals'
<1> DEFINE T(k) == Truncate(k, now)
           N == Cardinality(Callers)
<1>1. /\ TypeOK /\ Remembered /\ Grant(c) /\ flight[c] = "none"
      /\ flight' = [flight EXCEPT ![c] = "granted"]
      /\ pc' = [pc EXCEPT ![c] = "idle"] /\ deadline' = [deadline EXCEPT ![c] = 0]
      /\ sent' = [k \in Tier |-> [sent[k] EXCEPT ![T(k)] = @ + 1]]
      /\ UNCHANGED <<now, arrived>>
  BY DEF Go, Free, Grant, Return, clock, IInv, Remembered
<1>2. ASSUME NEW k \in Tier, NEW w \in Time
      PROVE  /\ arrived[k][w] <= Limit[k] + N
             /\ w > T(k) => arrived[k][w] = 0
             /\ w >= T(k) =>
                  /\ arrived[k][w] + Cardinality(Pending(k, w)') <= sent'[k][w] + N
                  /\ arrived[k][w] + Cardinality(Pending(k, w)') <= Limit[k] + N
  <2> DEFINE P == Pending(k, w)
  <2>1. Pending(k, w)' = P \union {c}
    BY <1>1 DEF Pending, TypeOK, FetchTypeOK
  <2>2. sent'[k][w] = IF w = T(k) THEN sent[k][w] + 1 ELSE sent[k][w]
    BY <1>1 DEF TypeOK
  <2>3. /\ arrived[k][w] <= Limit[k] + N
        /\ w > T(k) => arrived[k][w] = 0
        /\ w >= T(k) =>
             /\ arrived[k][w] + Cardinality(P) <= sent[k][w] + N
             /\ arrived[k][w] + Cardinality(P) <= Limit[k] + N
    BY DEF Arrivals
  <2>4. /\ arrived[k][w] \in Nat /\ sent[k][w] \in Nat /\ Limit[k] \in Nat \ {0}
        /\ T(k) \in Nat /\ w \in Nat /\ N \in Nat /\ Cardinality(P) \in Nat
        /\ P \in SUBSET Callers
    BY <1>1, Numbers
  <2>5. Cardinality(P \union {c}) \in Nat /\ Cardinality(P \union {c}) <= N
    <3>1. P \union {c} \in SUBSET Callers
      BY <2>4
    <3> HIDE DEF P
    <3>2. QED BY <3>1, SizeOf
  <2>6. c \in P \/ Cardinality(P \union {c}) = Cardinality(P) + 1
    <3>1. P \in SUBSET Callers
      BY <2>4
    <3> HIDE DEF P
    <3>2. QED BY <3>1, SizeOf
  <2>7. c \in P => P \union {c} = P
    OBVIOUS
  <2>8. CASE w > T(k)
    <3> HIDE DEF P, T, N
    <3>1. sent'[k][w] = sent[k][w]
      BY <2>2, <2>4, <2>8
    <3>2. QED BY <2>1, <2>3, <2>4, <2>5, <2>8, <3>1
  <2>9. CASE w = T(k)
    <3>1. c \in P \/ sent[k][w] < Limit[k]
      <4>1. CASE k = "second"
        <5>1. Limit[k] = RequestsPerSec
          BY <4>1 DEF Limit
        <5>2. \/ pc[c] # "second" /\ sent[k][w] < RequestsPerSec
              \/ pc[c] = "second" /\ deadline[c] <= w
          BY <1>1, <2>9, <4>1, RoomOrAsleep
        <5>3. QED BY <4>1, <5>1, <5>2 DEF Pending
      <4>2. CASE k # "second"
        BY <1>1, <2>9, <4>2, RoomInMinuteAndHour DEF Tier
      <4>3. QED BY <4>1, <4>2
    <3> HIDE DEF P, T, N
    <3>2. sent'[k][w] = sent[k][w] + 1
      BY <2>2, <2>9
    <3>3. w >= T(k)
      BY <2>4, <2>9
    <3>4. CASE c \in P
      BY <2>1, <2>3, <2>4, <2>7, <2>9, <3>2, <3>3, <3>4
    <3>5. CASE c \notin P
      <4>1. Cardinality(Pending(k, w)') = Cardinality(P) + 1 /\ sent[k][w] < Limit[k]
        BY <2>1, <2>6, <3>1, <3>5
      <4>2. QED BY <2>3, <2>4, <2>9, <3>2, <3>3, <4>1
    <3>6. QED BY <3>4, <3>5
  <2>10. CASE w < T(k)
    BY <2>3, <2>4, <2>10
  <2>11. QED BY <2>4, <2>8, <2>9, <2>10
<1>3. QED BY <1>1, <1>2 DEF Arrivals, Truncate

LEMMA SendArrives ==
  ASSUME IsFiniteSet(Callers), TypeOK, FetchTypeOK, Arrivals, NEW c \in Callers, Send(c)
  PROVE  Arrivals'
<1> DEFINE T(k) == Truncate(k, now)
           N == Cardinality(Callers)
<1>1. /\ flight[c] = "granted" /\ flight' = [flight EXCEPT ![c] = "sent"]
      /\ arrived' = [k \in Tier |-> [arrived[k] EXCEPT ![T(k)] = @ + 1]]
      /\ UNCHANGED <<now, sent, pc, deadline>>
  BY DEF Send, AfterSending, vars
<1>2. pc[c] = "idle"
  BY <1>1 DEF FetchTypeOK
<1>3. ASSUME NEW k \in Tier, NEW w \in Time
      PROVE  /\ arrived'[k][w] <= Limit[k] + N
             /\ w > T(k) => arrived'[k][w] = 0
             /\ w >= T(k) =>
                  /\ arrived'[k][w] + Cardinality(Pending(k, w)') <= sent[k][w] + N
                  /\ arrived'[k][w] + Cardinality(Pending(k, w)') <= Limit[k] + N
  <2> DEFINE P == Pending(k, w)
  <2>1. Pending(k, w)' = P \ {c} /\ c \in P
    BY <1>1, <1>2 DEF Pending, FetchTypeOK
  <2>2. arrived'[k][w] = IF w = T(k) THEN arrived[k][w] + 1 ELSE arrived[k][w]
    BY <1>1 DEF FetchTypeOK
  <2>3. /\ arrived[k][w] <= Limit[k] + N
        /\ w > T(k) => arrived[k][w] = 0
        /\ w >= T(k) =>
             /\ arrived[k][w] + Cardinality(P) <= sent[k][w] + N
             /\ arrived[k][w] + Cardinality(P) <= Limit[k] + N
    BY DEF Arrivals
  <2>4. /\ arrived[k][w] \in Nat /\ sent[k][w] \in Nat /\ Limit[k] \in Nat \ {0}
        /\ T(k) \in Nat /\ w \in Nat /\ N \in Nat /\ Cardinality(P) \in Nat
        /\ P \in SUBSET Callers
    BY Numbers
  <2>5. Cardinality(P \ {c}) = Cardinality(P) - 1 /\ Cardinality(P \ {c}) \in Nat
    <3>1. P \in SUBSET Callers /\ P \ {c} \in SUBSET Callers /\ c \in P
      BY <2>1, <2>4
    <3> HIDE DEF P
    <3>2. QED BY <3>1, SizeOf
  <2> HIDE DEF P, T, N
  <2>6. QED BY <2>1, <2>2, <2>3, <2>4, <2>5
<1>4. QED BY <1>1, <1>3 DEF Arrivals, Truncate

LEMMA ThrottleArrives ==
  ASSUME IsFiniteSet(Callers), IInv, TypeOK', FetchTypeOK, FetchTypeOK', Arrivals,
         NEW c \in Callers, Throttle(c), UNCHANGED fetch
  PROVE  Arrivals'
<1> DEFINE T(k) == Truncate(k, now)
           N == Cardinality(Callers)
<1>1. PICK d \in Time :
         /\ pc' = [pc EXCEPT ![c] = "second"] /\ deadline' = [deadline EXCEPT ![c] = d]
         /\ pc[c] # "second"
         /\ T("second") < d
         /\ UNCHANGED <<now, sent, crashes, forgot>>
  BY SleepsAhead
<1>2. TypeOK /\ Causal /\ UNCHANGED <<flight, arrived>>
  BY DEF IInv, fetch
<1>3. \A e \in Callers : /\ pc'[e] = IF e = c THEN "second" ELSE pc[e]
                         /\ deadline'[e] = IF e = c THEN d ELSE deadline[e]
  BY <1>1, <1>2 DEF TypeOK
<1>4. ASSUME NEW k \in Tier, NEW w \in Time
      PROVE  /\ arrived[k][w] <= Limit[k] + N
             /\ w > T(k) => arrived[k][w] = 0
             /\ w >= T(k) =>
                  /\ arrived[k][w] + Cardinality(Pending(k, w)') <= sent[k][w] + N
                  /\ arrived[k][w] + Cardinality(Pending(k, w)') <= Limit[k] + N
  <2>1. /\ arrived[k][w] <= Limit[k] + N
        /\ w > T(k) => arrived[k][w] = 0
        /\ w >= T(k) =>
             /\ arrived[k][w] + Cardinality(Pending(k, w)) <= sent[k][w] + N
             /\ arrived[k][w] + Cardinality(Pending(k, w)) <= Limit[k] + N
    BY DEF Arrivals
  <2>2. /\ arrived[k][w] \in Nat /\ sent[k][w] \in Nat /\ Limit[k] \in Nat \ {0}
        /\ T(k) \in Nat /\ w \in Nat /\ N \in Nat /\ d \in Nat
    BY <1>2, Numbers, BoundsAssumption DEF Time
  <2>3. CASE k # "second" \/ w < d
    <3>1. Pending(k, w)' = Pending(k, w)
      BY <1>1, <1>2, <1>3, <2>2, <2>3 DEF Pending
    <3>2. QED BY <2>1, <3>1
  <2>4. CASE k = "second" /\ w >= d
    <3>1. w > T(k)
      BY <1>1, <2>2, <2>4
    <3>2. Cardinality(Pending(k, w)') <= N /\ Cardinality(Pending(k, w)') \in Nat
      <4>1. Pending(k, w)' \in SUBSET Callers
        BY DEF Pending
      <4>2. QED BY <4>1, SizeOf
    <3>3. QED BY <2>1, <2>2, <3>1, <3>2
  <2>5. QED BY <2>2, <2>3, <2>4
<1>5. QED BY <1>1, <1>2, <1>4 DEF Arrivals, Truncate

LEMMA ArrivalsStep ==
  ASSUME IsFiniteSet(Callers)
  PROVE  /\ IInv /\ TypeOK' /\ crashes = 0 /\ Aligned /\ FetchTypeOK /\ FetchTypeOK' /\ Arrivals
         /\ [FetchNext]_allVars
         => Arrivals'
<1> SUFFICES ASSUME IInv, TypeOK', crashes = 0, Aligned, FetchTypeOK, FetchTypeOK', Arrivals,
                    [FetchNext]_allVars
             PROVE  Arrivals'
  OBVIOUS
<1>0. /\ TypeOK
      /\ \A k \in Tier : Truncate(k, now) \in Nat
  <2>1. TypeOK /\ Time \subseteq Nat
    BY BoundsAssumption DEF IInv, Time
  <2>2. QED BY <2>1, WindowsOfNow DEF TypeOK
<1>a. ASSUME UNCHANGED <<arrived, sent, now>>,
             \A c \in Callers : flight'[c] = "granted" => flight[c] = "granted",
             \A c \in Callers : pc'[c] = "second" => pc[c] = "second" /\ deadline'[c] = deadline[c]
      PROVE  Arrivals'
  <2>1. \A k \in Tier, w \in Time : Pending(k, w)' \subseteq Pending(k, w)
    BY <1>a DEF Pending
  <2>2. \A k \in Tier : Truncate(k, now) <= Truncate(k, now')
    BY <1>0, <1>a
  <2>3. QED BY <1>0, <1>a, <2>1, <2>2, NothingArrives
<1>1. ASSUME NEW c \in Callers, Wait(c) PROVE Arrivals'
  <2>1. UNCHANGED fetch /\ UNCHANGED <<flight, arrived>>
    BY <1>1 DEF Wait, fetch
  <2>2. CASE Throttle(c)
    BY <2>1, <2>2, ThrottleArrives
  <2>3. CASE Exceed(c) \/ BlockedAgain(c) \/ StopWaiting(c)
    BY <1>0, <1>a, <2>1, <2>3, ReturnAwake DEF Exceed, BlockedAgain, StopWaiting, clock, history
  <2>4. CASE WaitUntilAvailable(c)
    <3>1. \A d \in Callers : pc'[d] = "second" => pc[d] = "second" /\ deadline'[d] = deadline[d]
      BY <1>0, <2>4 DEF WaitUntilAvailable, TypeOK
    <3>2. QED BY <1>a, <2>1, <2>4, <3>1 DEF WaitUntilAvailable, clock, history
  <2>5. QED BY <1>1, <2>2, <2>3, <2>4 DEF Wait
<1>2. ASSUME NEW c \in Callers, Go(c) PROVE Arrivals'
  BY <1>2, GoArrives
<1>3. ASSUME NEW c \in Callers, Send(c) PROVE Arrivals'
  BY <1>0, <1>3, SendArrives
<1>4. ASSUME NEW c \in Callers, FetchReturns(c) \/ TooManyRequests(c) PROVE Arrivals'
  <2>1. /\ UNCHANGED <<now, sent, pc, deadline, arrived>>
        /\ \E f \in {"none", "429"} : flight' = [flight EXCEPT ![c] = f]
    BY <1>4 DEF FetchReturns, TooManyRequests, vars
  <2>2. \A d \in Callers : flight'[d] = "granted" => flight[d] = "granted"
    BY <2>1 DEF FetchTypeOK
  <2>3. QED BY <1>a, <2>1, <2>2
<1>5. CASE Background /\ ~Tick
  <2>1. UNCHANGED <<now, sent, pc, deadline, arrived, flight>>
    BY <1>5 DEF Background, PersistCounts, SetBlocked, GetStatus, Cleanup, Start, LoadState,
      LoadFails, clock, sleepers, history, fetch
  <2>2. QED BY <1>a, <2>1
<1>6. CASE Background /\ Tick
  <2>1. UNCHANGED <<sent, pc, deadline, arrived, flight>>
    BY <1>6 DEF Background, Tick, sleepers, history, fetch
  <2>2. \A k \in Tier, w \in Time : Pending(k, w)' \subseteq Pending(k, w)
    BY <2>1 DEF Pending
  <2>3. \A k \in Tier : Truncate(k, now) <= Truncate(k, now')
    BY <1>0, <1>6, WindowMoves
  <2>4. QED BY <1>0, <2>1, <2>2, <2>3, NothingArrives
<1>7. CASE UNCHANGED allVars
  BY <1>7, <1>a DEF allVars, vars, fetch
<1>8. QED
  BY <1>1, <1>2, <1>3, <1>4, <1>5, <1>6, <1>7 DEF FetchNext, FetchSchemeData

\* However many goroutines call FetchSchemeData, the API gets in no window more
\* than its limit, but for one request of each of them (FetchSchemeData).
THEOREM FewArrivals ==
  ASSUME IsFiniteSet(Callers)
  PROVE  FetchSpec => []ArrivalsBounded
<1>1. FetchInit => Arrivals
  <2> SUFFICES ASSUME FetchInit PROVE Arrivals
    OBVIOUS
  <2>1. \A k \in Tier, w \in Time : arrived[k][w] = 0 /\ sent[k][w] = 0 /\ Pending(k, w) = {}
    BY DEF FetchInit, Init, Pending
  <2>2. /\ Cardinality({}) = 0 /\ Cardinality(Callers) \in Nat
        /\ \A k \in Tier : Limit[k] \in Nat
    BY FS_EmptySet, FS_CardinalityType, TierFacts
  <2>3. QED BY <2>1, <2>2 DEF Arrivals
<1>2. /\ IInv /\ TypeOK' /\ crashes = 0 /\ Aligned /\ FetchTypeOK /\ FetchTypeOK' /\ Arrivals
      /\ [FetchNext]_allVars
      => Arrivals'
  BY ArrivalsStep
<1>3. Arrivals => ArrivalsBounded
  BY DEF Arrivals, ArrivalsBounded
<1>4. Spec => [](IInv /\ TypeOK /\ Aligned)
  BY Invariant, TypeCorrect, OversleptHolds, PTL
<1>5. QED BY <1>1, <1>2, <1>3, <1>4, FetchIsLimited, FetchTypeCorrect, PTL DEF FetchSpec
=============================================================================
