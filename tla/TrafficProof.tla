------------------------------ MODULE TrafficProof ------------------------------
(***************************************************************************)
(* Proofs about what stands before the servers: the scaling group that does *)
(* not flap, the limiters that keep their rates, the balancers that count   *)
(* connections, the hash ring that moves few clients and the rotations that *)
(* share the load, for any rates, limits, sizes, weights and requests.      *)
(***************************************************************************)
EXTENDS MCTraffic, FiniteSetTheorems, SequenceTheorems, NaturalsInduction, WellFoundedInduction, TLAPS

\* A step of the whole is one of one system, and none of the others.
LEMMA OneSystemSteps ==
  ASSUME [Next]_mcVars
  PROVE  /\ [RateNext]_rateVars /\ [HashNext]_ringVars /\ [BalancerNext]_balVars
         /\ [ConnNext]_connVars /\ [ScalingNext]_<<asgVars, healthVars>>
BY DEF Next, mcVars, scalingVars, InRate, InRing, InBal, InConn, InScaling

LEMMA TwoLargest ==
  ASSUME NEW a \in Int, NEW b \in Int
  PROVE  /\ Max({a, b}) = IF a >= b THEN a ELSE b
         /\ Min({a, b}) = IF a <= b THEN a ELSE b
<1>1. /\ \E x \in {a, b} : \A y \in {a, b} : x >= y
      /\ \E x \in {a, b} : \A y \in {a, b} : x <= y
  <2>1. a >= b \/ b >= a
    OBVIOUS
  <2> QED BY <2>1
<1>2. Max({a, b}) \in {a, b} /\ \A y \in {a, b} : Max({a, b}) >= y
  BY <1>1 DEF Max
<1>3. Min({a, b}) \in {a, b} /\ \A y \in {a, b} : Min({a, b}) <= y
  BY <1>1 DEF Min
<1> QED BY <1>2, <1>3

-----------------------------------------------------------------------------
(* The scaling group: as long as it is not evaluated twice on the same metrics *)
(* it has, or at this load has not passed, the nodes the load needs.           *)

ScalingTypeOK ==
  /\ size \in 1..max_size
  /\ sharing \in Nat \ {0} /\ at \in Nat \ {0} /\ load \in Nat
  /\ fresh \in BOOLEAN /\ stale \in BOOLEAN /\ flapped_asg \in BOOLEAN
  /\ last \in {-1, 0, 1}

\* Enough nodes for the load; and one fewer would not be enough.
Enough(n)  == n * target_cpu >= load
NotSpare(n) == (n - 1) * target_cpu < load

SizesFollowLoad ==
  /\ ~flapped_asg
  /\ fresh => sharing = size /\ at = size
  /\ ~fresh => Enough(size) \/ size = max_size
  /\ last = 1 => NotSpare(size)
  /\ last = -1 => Enough(size)

ScalingInv ==
  /\ ScalingTypeOK
  /\ last = -1 => min_size <= size
  /\ ~stale => SizesFollowLoad

\* What a quotient is.
LEMMA QuotientIs ==
  ASSUME NEW a \in Nat, NEW b \in Nat \ {0}
  PROVE  a \div b \in Nat /\ b * (a \div b) <= a /\ a < b * (a \div b) + b
OBVIOUS

LEMMA Cancel ==
  ASSUME NEW s \in Nat \ {0}, NEW x \in Int, NEW y \in Int
  PROVE  s * x > s * y <=> x > y
OBVIOUS

\* On fresh metrics, the nodes wanted are as few as are enough.
LEMMA DesiredIs ==
  ASSUME ScalingTypeOK, sharing = size, at = size
  PROVE  Desired \in Nat /\ Enough(Desired) /\ NotSpare(Desired)
<1> DEFINE x == sharing * load
           y == at * target_cpu
           d == Desired
<1>1. /\ size \in Nat \ {0} /\ load \in Nat /\ target_cpu \in Nat \ {0}
      /\ x = size * load /\ y = size * target_cpu
  BY ScalingAssumption DEF ScalingTypeOK
<1>2. x \in Nat /\ y \in Nat \ {0} /\ (x + y) - 1 \in Nat
  BY <1>1
<1>3. d = ((x + y) - 1) \div y
  <2>1. x + (y - 1) = (x + y) - 1
    BY <1>2
  <2>2. d = (x + (y - 1)) \div y
    BY Zenon DEF Desired, CeilDiv
  <2> QED BY <2>1, <2>2
<1> HIDE DEF x, y, d
<1>4. d \in Nat /\ y * d <= (x + y) - 1 /\ (x + y) - 1 < y * d + y
  BY <1>2, <1>3, QuotientIs
<1>5. x <= y * d /\ y * (d - 1) < x
  BY <1>2, <1>4
<1>6. size * load <= size * (target_cpu * d) /\ size * (target_cpu * (d - 1)) < size * load
  BY <1>1, <1>4, <1>5
<1>7. load <= target_cpu * d /\ target_cpu * (d - 1) < load
  <2>1. target_cpu * d \in Int /\ target_cpu * (d - 1) \in Int
    BY <1>1, <1>4
  <2> QED BY <1>1, <1>6, <2>1, Cancel
<1> QED BY <1>1, <1>4, <1>7 DEF Enough, NotSpare, d

\* More nodes than enough are enough.
LEMMA MoreIsEnough ==
  ASSUME NEW m \in Nat, NEW n \in Nat, m <= n, load \in Nat
  PROVE  /\ Enough(m) => Enough(n)
         /\ NotSpare(n) => NotSpare(m)
<1>1. m * target_cpu <= n * target_cpu /\ (m - 1) * target_cpu <= (n - 1) * target_cpu
  BY ScalingAssumption
<1>2. /\ m * target_cpu \in Int /\ n * target_cpu \in Int
      /\ (m - 1) * target_cpu \in Int /\ (n - 1) * target_cpu \in Int
  BY ScalingAssumption
<1> QED BY <1>1, <1>2 DEF Enough, NotSpare

LEMMA ScalingInitInv == ASSUME ScalingInit PROVE ScalingInv
<1>1. /\ size = 1 /\ sharing = 1 /\ at = 1 /\ load = 0 /\ fresh = FALSE
      /\ last = 0 /\ stale = FALSE /\ flapped_asg = FALSE
  BY DEF ScalingInit
<1>2. 1 \in 1..max_size
  BY ScalingAssumption
<1>3. Enough(1)
  BY <1>1, ScalingAssumption DEF Enough
<1>4. ScalingTypeOK
  <2>1. fresh \in BOOLEAN /\ stale \in BOOLEAN /\ flapped_asg \in BOOLEAN
    BY <1>1
  <2>2. size \in 1..max_size /\ sharing \in Nat \ {0} /\ at \in Nat \ {0} /\ load \in Nat
    BY <1>1, <1>2
  <2> QED BY <1>1, <2>1, <2>2 DEF ScalingTypeOK
<1> QED BY <1>1, <1>3, <1>4 DEF ScalingInv, SizesFollowLoad

\* The traffic shared out again, at another load or the same.
LEMMA DistributeStep ==
  ASSUME ScalingInv, DistributeTraffic
  PROVE  ScalingInv'
<1>1. /\ load' \in Nat /\ sharing' = size /\ at' = size /\ fresh' = TRUE
      /\ last' = (IF load' = load THEN last ELSE 0)
      /\ UNCHANGED <<size, stale, flapped_asg>>
  BY ScalingAssumption DEF DistributeTraffic
<1>2. ScalingTypeOK' /\ (last' = -1 => min_size <= size')
  BY <1>1, ScalingAssumption DEF ScalingInv, ScalingTypeOK
<1>3. last' = 1 => load' = load /\ last = 1
  BY <1>1
<1>4. last' = -1 => load' = load /\ last = -1
  BY <1>1
<1>5. ~stale' => SizesFollowLoad'
  BY <1>1, <1>3, <1>4 DEF ScalingInv, SizesFollowLoad, Enough, NotSpare
<1> QED BY <1>2, <1>5 DEF ScalingInv

\* What an evaluation may make of the size.
LEMMA ScaledSizeIs ==
  ASSUME ScalingTypeOK, Desired \in Int
  PROVE  /\ ScaledSize \in 1..max_size
         /\ ScaledSize > size =>
              /\ AverageAbove(target_cpu) /\ size < max_size
              /\ ScaledSize = IF Desired <= max_size THEN Desired ELSE max_size
         /\ ScaledSize < size =>
              /\ AverageBelow(target_cpu - 20) /\ size > min_size
              /\ ScaledSize = IF Desired >= min_size THEN Desired ELSE min_size
         /\ AverageAbove(target_cpu) /\ size < max_size =>
              ScaledSize >= Desired \/ ScaledSize = max_size
<1> DEFINE d == Desired
           capped == IF d <= max_size THEN d ELSE max_size
           floored == IF d >= min_size THEN d ELSE min_size
<1>1. size \in 1..max_size /\ max_size \in Nat /\ min_size \in Nat \ {0} /\ d \in Int
  BY ScalingAssumption DEF ScalingTypeOK
<1>2. Min({d, max_size}) = capped /\ Max({d, min_size}) = floored
  BY <1>1, TwoLargest
<1>3. capped \in Int /\ floored \in Int
  BY <1>1
<1>4. /\ Max({size, capped}) = IF size >= capped THEN size ELSE capped
      /\ Min({size, floored}) = IF size <= floored THEN size ELSE floored
  <2> HIDE DEF capped, floored
  <2>1. size \in Int
    BY <1>1
  <2>2. Max({size, capped}) = IF size >= capped THEN size ELSE capped
    BY <1>3, <2>1, TwoLargest
  <2>3. Min({size, floored}) = IF size <= floored THEN size ELSE floored
    BY <1>3, <2>1, TwoLargest
  <2> QED BY <2>2, <2>3
<1>5. ScaledSize = IF AverageAbove(target_cpu) /\ size < max_size
                   THEN IF size >= capped THEN size ELSE capped
                   ELSE IF AverageBelow(target_cpu - 20) /\ size > min_size
                        THEN IF size <= floored THEN size ELSE floored
                        ELSE size
  BY <1>2, <1>4, Zenon DEF ScaledSize
<1> HIDE DEF d
<1>6. /\ ScaledSize \in 1..max_size
      /\ ScaledSize > size => AverageAbove(target_cpu) /\ size < max_size /\ ScaledSize = capped
      /\ ScaledSize < size => AverageBelow(target_cpu - 20) /\ size > min_size /\ ScaledSize = floored
      /\ AverageAbove(target_cpu) /\ size < max_size => ScaledSize >= d \/ ScaledSize = max_size
  BY <1>1, <1>5
<1> QED BY <1>6 DEF d

\* On fresh metrics the average is the load for each node.
LEMMA FreshAverage ==
  ASSUME ScalingTypeOK, sharing = size, at = size
  PROVE  AverageAbove(target_cpu) <=> ~Enough(size)
<1>1. size \in Nat \ {0} /\ load \in Nat /\ target_cpu \in Nat /\ target_cpu * size \in Int
  BY ScalingAssumption DEF ScalingTypeOK
<1>2. AverageAbove(target_cpu) <=> size * load > size * (target_cpu * size)
  <2>1. target_cpu * size * size = size * (target_cpu * size)
    BY <1>1
  <2>2. AverageAbove(target_cpu) <=> size * load > target_cpu * size * size
    BY DEF AverageAbove
  <2> QED BY <2>1, <2>2
<1>3. size * load > size * (target_cpu * size) <=> load > target_cpu * size
  BY <1>1, Cancel
<1>4. size * target_cpu = target_cpu * size
  BY <1>1
<1> QED BY <1>1, <1>2, <1>3, <1>4 DEF Enough

\* An evaluation on fresh metrics ends with enough nodes, and never undoes the last.
LEMMA EvaluateFresh ==
  ASSUME ScalingInv, EvaluateScaling, fresh, ~stale
  PROVE  SizesFollowLoad' /\ (last' = -1 => min_size <= size')
<1> DEFINE way == IF ScaledSize > size THEN 1 ELSE IF ScaledSize < size THEN -1 ELSE 0
<1>1. /\ size' = ScaledSize /\ fresh' = FALSE /\ load' = load
      /\ last' = (IF way = 0 THEN last ELSE way)
      /\ flapped_asg' = (flapped_asg \/ way * last = -1)
  BY DEF EvaluateScaling
<1>2. /\ ScalingTypeOK /\ SizesFollowLoad /\ sharing = size /\ at = size
      /\ size \in 1..max_size /\ max_size \in Nat /\ min_size \in Nat \ {0} /\ load \in Nat
      /\ last \in {-1, 0, 1} /\ (last = -1 => min_size <= size)
  BY ScalingAssumption DEF ScalingInv, SizesFollowLoad, ScalingTypeOK
<1>3. /\ Desired \in Nat /\ Enough(Desired) /\ NotSpare(Desired)
      /\ AverageAbove(target_cpu) <=> ~Enough(size)
  BY <1>2, DesiredIs, FreshAverage
<1>4. ScaledSize \in 1..max_size
  BY <1>2, <1>3, ScaledSizeIs
<1>5. \A n : (Enough(n)' <=> Enough(n)) /\ (NotSpare(n)' <=> NotSpare(n))
  BY <1>1 DEF Enough, NotSpare
<1>6. CASE ScaledSize > size
  <2>1. way = 1 /\ ~Enough(size) /\ ScaledSize = IF Desired <= max_size THEN Desired ELSE max_size
    BY <1>2, <1>3, <1>4, <1>6, ScaledSizeIs
  <2>2. last # -1
    BY <1>2, <2>1 DEF SizesFollowLoad
  <2>3. NotSpare(ScaledSize)
    BY <1>2, <1>3, <1>4, <2>1, MoreIsEnough
  <2>4. Enough(ScaledSize) \/ ScaledSize = max_size
    BY <1>3, <2>1
  <2>5. last' = 1 /\ ~flapped_asg'
    <3>1. way * last # -1
      BY <1>2, <2>1, <2>2
    <3>2. way # 0
      BY <2>1
    <3> HIDE DEF way
    <3>3. ~flapped_asg'
      BY <1>1, <1>2, <3>1 DEF SizesFollowLoad
    <3> QED BY <1>1, <2>1, <3>2, <3>3
  <2> QED BY <1>1, <1>5, <2>3, <2>4, <2>5 DEF SizesFollowLoad, Enough, NotSpare
<1>7. CASE ScaledSize < size
  <2>1. way = -1 /\ ScaledSize = IF Desired >= min_size THEN Desired ELSE min_size
    BY <1>2, <1>3, <1>4, <1>7, ScaledSizeIs
  <2>2. Enough(ScaledSize) /\ min_size <= ScaledSize /\ Desired < size
    BY <1>2, <1>3, <1>4, <1>7, <2>1, MoreIsEnough
  <2>3. last # 1
    <3>1. ASSUME NotSpare(size) PROVE FALSE
      <4>1. Desired <= size - 1 /\ size - 1 \in Nat
        BY <1>2, <1>3, <2>2
      <4>2. Enough(size - 1)
        BY <1>2, <1>3, <4>1, MoreIsEnough
      <4>3. (size - 1) * target_cpu \in Int
        BY <1>2, ScalingAssumption
      <4> QED BY <1>2, <3>1, <4>2, <4>3 DEF Enough, NotSpare
    <3> QED BY <1>2, <3>1 DEF SizesFollowLoad
  <2>4. last' = -1 /\ ~flapped_asg'
    <3>1. way * last # -1
      BY <1>2, <2>1, <2>3
    <3>2. way # 0
      BY <2>1
    <3> HIDE DEF way
    <3>3. ~flapped_asg'
      BY <1>1, <1>2, <3>1 DEF SizesFollowLoad
    <3> QED BY <1>1, <2>1, <3>2, <3>3
  <2> QED BY <1>1, <2>2, <2>4 DEF SizesFollowLoad, Enough, NotSpare
<1>8. CASE ScaledSize = size
  <2>1. way = 0 /\ last' = last /\ size' = size /\ ~flapped_asg'
    <3>1. way = 0 /\ way * last # -1
      BY <1>2, <1>8
    <3> QED BY <1>1, <1>2, <1>8, <3>1 DEF SizesFollowLoad
  <2>2. Enough(size) \/ size = max_size
    <3>1. CASE ~Enough(size) /\ size < max_size
      <4>1. size >= Desired
        BY <1>2, <1>3, <1>8, <3>1, ScaledSizeIs
      <4> QED BY <1>2, <1>3, <4>1, MoreIsEnough
    <3> QED BY <1>2, <3>1
  <2> QED BY <1>1, <1>2, <2>1, <2>2 DEF SizesFollowLoad, Enough, NotSpare
<1> QED BY <1>2, <1>4, <1>6, <1>7, <1>8

LEMMA EvaluateStep ==
  ASSUME ScalingInv, EvaluateScaling
  PROVE  ScalingInv'
<1>1. /\ size' = ScaledSize /\ fresh' = FALSE /\ stale' = (stale \/ ~fresh)
      /\ sharing' = Min({sharing, ScaledSize}) /\ UNCHANGED <<at, load>>
  BY DEF EvaluateScaling
<1>2. /\ ScalingTypeOK /\ size \in Nat /\ sharing \in Nat \ {0} /\ last \in {-1, 0, 1}
      /\ min_size \in Nat \ {0}
  BY ScalingAssumption DEF ScalingInv, ScalingTypeOK
<1>3. Desired \in Int
  <2>1. sharing * load \in Int /\ at * target_cpu \in Nat \ {0}
    BY ScalingAssumption DEF ScalingInv, ScalingTypeOK
  <2> QED BY <2>1 DEF Desired, CeilDiv
<1>4. ScaledSize \in 1..max_size /\ (ScaledSize < size => min_size <= ScaledSize)
  BY <1>2, <1>3, ScaledSizeIs
<1>5. sharing' \in Nat \ {0}
  <2>1. sharing \in Int /\ ScaledSize \in Int /\ ScaledSize > 0
    BY <1>2, <1>4, ScalingAssumption
  <2>2. sharing' = IF sharing <= ScaledSize THEN sharing ELSE ScaledSize
    BY <1>1, <2>1, TwoLargest
  <2> QED BY <1>2, <2>1, <2>2
<1>6. /\ last' \in {-1, 0, 1} /\ flapped_asg' \in BOOLEAN
      /\ last' = -1 => ScaledSize < size \/ (ScaledSize = size /\ last = -1)
  <2>1. ScaledSize \in Int
    BY <1>4, ScalingAssumption
  <2> DEFINE way == IF ScaledSize > size THEN 1 ELSE IF ScaledSize < size THEN -1 ELSE 0
  <2>2. last' = IF way = 0 THEN last ELSE way
    BY DEF EvaluateScaling
  <2>3. flapped_asg' \in BOOLEAN
    BY DEF EvaluateScaling
  <2>4. last' \in {-1, 0, 1} /\ (last' = -1 => ScaledSize < size \/ (ScaledSize = size /\ last = -1))
    BY <1>2, <2>1, <2>2
  <2> QED BY <2>3, <2>4
<1>7. ScalingTypeOK'
  BY <1>1, <1>2, <1>4, <1>5, <1>6 DEF ScalingTypeOK
<1>8. last' = -1 => min_size <= size'
  BY <1>1, <1>4, <1>6 DEF ScalingInv
<1>9. ~stale' => SizesFollowLoad'
  BY <1>1, EvaluateFresh
<1> QED BY <1>7, <1>8, <1>9 DEF ScalingInv

LEMMA ScalingStep ==
  ASSUME ScalingInv, [ScalingNext]_<<asgVars, healthVars>>
  PROVE  ScalingInv'
<1>1. CASE UNCHANGED asgVars
  BY <1>1 DEF asgVars, ScalingInv, ScalingTypeOK, SizesFollowLoad, Enough, NotSpare
<1> QED BY <1>1, DistributeStep, EvaluateStep
        DEF ScalingNext, AutoScalingGroup, RouteRequest, Orchestrator, RunHealthChecks, ProbeLiveness,
            ServerInstance, BootCompletes, FaultHits, DatabaseReturns

\* "We subtract 20 to create a deadband so it doesn't flap": for any target, bounds
\* and loads, the group does not flap at a steady load, and has the nodes it needs.
THEOREM NeverFlaps == Spec => []ScalesWithoutFlapping
<1>1. Init => ScalingInv
  BY ScalingInitInv DEF Init
<1>2. ScalingInv /\ [Next]_mcVars => ScalingInv'
  BY OneSystemSteps, ScalingStep
<1>3. ScalingInv => ScalesWithoutFlapping
  BY DEF ScalingInv, ScalingTypeOK, SizesFollowLoad, Enough, ScalesWithoutFlapping
<1> QED BY <1>1, <1>2, <1>3, PTL DEF Spec
-----------------------------------------------------------------------------
(* The limiters. While calls do not meet, what was let through is accounted for: *)
(* by the bucket, by the window's count or by the log, and halfway through a call *)
(* by what the call has read as well. While they do, little more than types holds; *)
(* nothing has been let through yet when they have parted.                        *)

Stages(k) ==
  IF k = "fixed" THEN {"idle", "begun", "read", "loading", "storing", "replaced"}
  ELSE IF k = "sliding" THEN {"idle", "begun", "testing", "popping", "counting", "appending"}
  ELSE {"idle", "begun", "read", "levelled", "deciding", "loading", "storing"}

\* The tokens taken, or the water in the bucket, or the count of the window.
Owed(k, l) == IF k = "token" THEN bucket_capacity - l ELSE l

CallOK(k, ck, r) ==
  /\ r \in [op : {"none", "request", "status"}, at : Stages(k), now : Nat,
            level : Int, stamp : Int, weight : Nat]
  /\ r.now <= ck /\ Owed(k, r.level) >= 0
  /\ k \in {"fixed", "sliding"} /\ r.at # "idle" => r.weight = 1

SharedOK(k, l, s, lg, ck) ==
  /\ l \in Int /\ Owed(k, l) >= 0
  /\ s \in Nat \cup {-1} /\ s <= ck
  /\ lg \in Seq(Nat)

Appending(f) == {c \in Callers : f[c].at = "appending"}

LogBound(lg, f) == Len(lg) + Cardinality(Appending(f)) <= limit - 1 + Cardinality(Callers)

\* What was admitted from the i-th on is in the bucket at time t, or has leaked from
\* it since.
Covered(k, a, l, t) ==
  \A i \in DOMAIN a :
    a[i] <= t /\ (Len(a) - i) + 1 <= Owed(k, l) + rate * (t - a[i])

\* The n newest are of the window that opened at s, and those before it that a stretch
\* shorter than a window can reach are one window's.
WindowHas(a, n, s) ==
  \A i \in DOMAIN a :
    /\ i > Len(a) - n => a[i] >= s /\ (Len(a) - i) + 1 <= limit
    /\ i <= Len(a) - n =>
         a[i] <= s /\ (s - a[i] < window_size => ((Len(a) - n) - i) + 1 <= limit)

\* The log ends as the history does, and what it no longer has left the window by t.
LogHas(a, lg, t) ==
  /\ \A i \in DOMAIN a : i <= Len(a) - Len(lg) => a[i] <= t - window_size
  /\ \A j \in DOMAIN lg : (Len(a) - Len(lg)) + j >= 1 => lg[j] = a[(Len(a) - Len(lg)) + j]

Settled(k, a, l, s, lg, t) ==
  /\ k \in {"token", "leaky"} => Covered(k, a, l, s)
  /\ k = "fixed" => WindowHas(a, l, s)
  /\ k = "sliding" => LogHas(a, lg, t)

BucketAccount(k, a, r, l, s) ==
  /\ r.at = "begun" => Covered(k, a, l, s)
  /\ r.at \in {"read", "levelled"} => Covered(k, a, r.level, r.now)
  /\ r.at = "levelled" => l = r.level
  /\ r.at \in {"deciding", "loading", "storing"} => Covered(k, a, l, s) /\ s = r.now
  /\ r.at \in {"loading", "storing"} => Owed(k, l) + r.weight <= bucket_capacity
  /\ r.at = "storing" => r.level = l

WindowAccount(a, r, l, s) ==
  /\ WindowHas(a, l, s)
  /\ r.at # "replaced"
  /\ r.at = "read" => r.level = l /\ r.stamp = s
  /\ r.at \in {"loading", "storing"} => l < limit
  /\ r.at = "storing" => r.level = l

LogAccount(a, r, lg) ==
  /\ LogHas(a, lg, r.now)
  /\ r.at = "popping" /\ lg # <<>> => lg[1] <= r.now - window_size
  /\ r.at = "appending" => Len(lg) < limit

\* Halfway through a call.
Account(k, a, r, l, s, lg) ==
  /\ \A i \in DOMAIN a : a[i] <= r.now
  /\ s <= r.now
  /\ k \in {"token", "leaky"} => BucketAccount(k, a, r, l, s)
  /\ k = "fixed" => WindowAccount(a, r, l, s)
  /\ k = "sliding" => LogAccount(a, r, lg)

Kept(k, a) ==
  \A i, j \in DOMAIN a : i <= j =>
    /\ k \in {"token", "leaky"} => (j - i) + 1 <= bucket_capacity + rate * (a[j] - a[i])
    /\ k = "fixed" /\ a[j] - a[i] < window_size => (j - i) + 1 <= 2 * limit
    /\ k = "sliding" /\ a[j] - a[i] < window_size => (j - i) + 1 <= limit

Quiet ==
  /\ Kept(limiter, admitted)
  /\ \A c, d \in Busy : c = d
  /\ Busy = {} => Settled(limiter, admitted, level, stamp, log, clock)
  /\ \A c \in Busy : Account(limiter, admitted, calls[c], level, stamp, log)

RateInv ==
  /\ limiter \in {"token", "leaky", "fixed", "sliding"} /\ clock \in Nat
  /\ admitted \in Seq(Nat) /\ \A i \in DOMAIN admitted : admitted[i] <= clock
  /\ SharedOK(limiter, level, stamp, log, clock)
  /\ calls = [c \in Callers |-> calls[c]]
  /\ \A c \in Callers : CallOK(limiter, clock, calls[c])
  /\ LogBound(log, calls)
  /\ crowded \in BOOLEAN
  /\ crowded => admitted = <<>> /\ Busy # {}
  /\ ~crowded => Quiet

\* Nothing let through is accounted for by anything.
LEMMA NothingOwed ==
  ASSUME NEW k, NEW l, NEW s, NEW lg \in Seq(Nat), NEW t
  PROVE  Settled(k, <<>>, l, s, lg, t) /\ Kept(k, <<>>)
<1>1. DOMAIN << >> = {} /\ Len(<< >>) = 0
  OBVIOUS
<1>2. Len(lg) \in Nat /\ DOMAIN lg = 1..Len(lg)
  OBVIOUS
<1>3. \A j \in DOMAIN lg : ~((0 - Len(lg)) + j >= 1)
  BY <1>2
<1> QED BY <1>1, <1>3 DEF Settled, Kept, Covered, WindowHas, LogHas

LEMMA RateInitInv == ASSUME RateInit PROVE RateInv
<1>1. /\ limiter \in {"token", "leaky", "fixed", "sliding"} /\ admitted = <<>> /\ log = <<>>
      /\ clock = 0 /\ crowded = FALSE /\ stamp = (IF Bucket THEN 0 ELSE -1)
      /\ level = (IF limiter = "token" THEN bucket_capacity ELSE 0)
      /\ calls = [c \in Callers |-> Idle]
  BY DEF RateInit
<1>2. admitted \in Seq(Nat) /\ DOMAIN admitted = {} /\ log \in Seq(Nat) /\ Len(log) = 0
  BY <1>1
<1>3. SharedOK(limiter, level, stamp, log, clock)
  BY <1>1, <1>2, RateAssumption DEF SharedOK, Owed
<1>4. Busy = {} /\ Appending(calls) = {}
  BY <1>1 DEF Busy, Appending, Idle
<1>5. LogBound(log, calls)
  <2>1. Cardinality({}) = 0 /\ Cardinality(Callers) \in Nat /\ limit \in Nat \ {0}
    BY FS_EmptySet, FS_CardinalityType, RateAssumption
  <2> QED BY <1>2, <1>4, <2>1 DEF LogBound
<1>6. \A c \in Callers : CallOK(limiter, clock, calls[c])
  <2>1. Idle \in [op : {"none", "request", "status"}, at : Stages(limiter), now : Nat,
                  level : Int, stamp : Int, weight : Nat]
    BY DEF Idle, Stages
  <2> QED BY <1>1, <2>1, RateAssumption DEF CallOK, Idle, Owed
<1>7. Quiet
  <2>1. Settled(limiter, <<>>, level, stamp, log, clock) /\ Kept(limiter, <<>>)
    BY <1>2, NothingOwed
  <2> QED BY <1>1, <1>4, <2>1 DEF Quiet
<1> QED BY <1>1, <1>2, <1>3, <1>5, <1>6, <1>7 DEF RateInv

\* The record of a call that goes on.
LEMMA NextStage ==
  ASSUME NEW k, NEW ck, NEW r, CallOK(k, ck, r), r.at # "idle",
         NEW x \in Stages(k), x # "idle", NEW q, q = [r EXCEPT !.at = x]
  PROVE  /\ q.at = x /\ q.now = r.now /\ q.level = r.level /\ q.stamp = r.stamp
         /\ q.weight = r.weight /\ CallOK(k, ck, q)
BY DEF CallOK

\* Those about to append are as many as before, one fewer, or every thread.
LEMMA Appenders ==
  ASSUME RateInv, NEW c \in Callers, NEW f, NEW lg \in Seq(Nat),
         \A d \in Callers \ {c} : f[d].at = "appending" => calls[d].at = "appending",
         \/ Len(lg) < limit
         \/ f[c].at # "appending" /\ Len(lg) <= Len(log)
         \/ f[c].at # "appending" /\ calls[c].at = "appending" /\ Len(lg) = Len(log) + 1
  PROVE  LogBound(lg, f)
<1> DEFINE old == Appending(calls)
           new == Appending(f)
<1>1. /\ IsFiniteSet(Callers) /\ limit \in Nat /\ log \in Seq(Nat)
      /\ Len(log) + Cardinality(old) <= limit - 1 + Cardinality(Callers)
  BY RateAssumption DEF RateInv, LogBound, SharedOK
<1>2. /\ IsFiniteSet(old) /\ IsFiniteSet(new) /\ Cardinality(new) <= Cardinality(Callers)
      /\ Cardinality(old) \in Nat /\ Cardinality(new) \in Nat /\ Cardinality(Callers) \in Nat
  <2>1. old \subseteq Callers /\ new \subseteq Callers
    BY DEF Appending
  <2> QED BY <1>1, <2>1, FS_Subset, FS_CardinalityType
<1>3. Len(lg) \in Nat /\ Len(log) \in Nat
  BY <1>1
<1>4. CASE Len(lg) < limit
  BY <1>1, <1>2, <1>3, <1>4 DEF LogBound
<1>5. CASE f[c].at # "appending" /\ Len(lg) <= Len(log)
  <2>1. new \subseteq old
    BY <1>5 DEF Appending
  <2>2. Cardinality(new) <= Cardinality(old)
    BY <1>2, <2>1, FS_Subset
  <2> QED BY <1>1, <1>2, <1>3, <1>5, <2>2 DEF LogBound
<1>6. CASE f[c].at # "appending" /\ calls[c].at = "appending" /\ Len(lg) = Len(log) + 1
  <2>1. c \in old /\ new \subseteq old \ {c}
    BY <1>6 DEF Appending
  <2>2. IsFiniteSet(old \ {c}) /\ Cardinality(old \ {c}) = Cardinality(old) - 1
    BY <1>2, <2>1, FS_RemoveElement
  <2>3. Cardinality(new) <= Cardinality(old) - 1
    BY <2>1, <2>2, FS_Subset
  <2> QED BY <1>1, <1>2, <1>3, <1>6, <2>3 DEF LogBound
<1> QED BY <1>4, <1>5, <1>6

\* A call goes on: it is accounted for if it is the only one.
LEMMA CallGoesOn ==
  ASSUME RateInv, NEW c \in Callers, calls[c].at # "idle",
         calls' = [d \in Callers |-> calls'[d]],
         UNCHANGED <<limiter, clock, crowded, admitted>>,
         SharedOK(limiter, level', stamp', log', clock),
         CallOK(limiter, clock, calls'[c]), calls'[c].at # "idle",
         \A d \in Callers \ {c} :
           \/ calls'[d] = calls[d]
           \/ calls[d].at = "storing" /\ calls'[d].at = "replaced" /\ CallOK(limiter, clock, calls'[d]),
         Len(log') < limit \/ (calls'[c].at # "appending" /\ Len(log') <= Len(log)),
         ~crowded => Account(limiter, admitted, calls'[c], level', stamp', log')
  PROVE  RateInv'
<1>1. \A d \in Callers : CallOK(limiter, clock, calls'[d])
  BY DEF RateInv
<1>2. Busy' = Busy
  BY DEF Busy
<1>3. LogBound(log', calls')
  <2>1. log' \in Seq(Nat)
    BY DEF SharedOK
  <2>2. \A d \in Callers \ {c} : calls'[d].at = "appending" => calls[d].at = "appending"
    OBVIOUS
  <2> QED BY <2>1, <2>2, Appenders
<1>4. ASSUME ~crowded PROVE Quiet'
  <2>1. Busy = {c}
    BY <1>4 DEF RateInv, Quiet, Busy
  <2> QED BY <1>2, <1>4, <2>1 DEF Quiet, RateInv
<1> QED BY <1>1, <1>2, <1>3, <1>4 DEF RateInv

\* Most steps of a call change its own record only.
LEMMA OwnStep ==
  ASSUME RateInv, NEW c \in Callers, NEW r, GoesOn(c, r), calls[c].at # "idle", r.at # "idle",
         SharedOK(limiter, level', stamp', log', clock), CallOK(limiter, clock, r),
         Len(log') < limit \/ (r.at # "appending" /\ Len(log') <= Len(log)),
         ~crowded => Account(limiter, admitted, r, level', stamp', log')
  PROVE  RateInv'
<1>1. calls' = [calls EXCEPT ![c] = r] /\ UNCHANGED <<limiter, clock, crowded, admitted>>
  BY DEF GoesOn
<1>2. calls' = [d \in Callers |-> calls'[d]] /\ calls'[c] = r
      /\ \A d \in Callers \ {c} : calls'[d] = calls[d]
  BY <1>1 DEF RateInv
<1> QED BY <1>1, <1>2, CallGoesOn

LEMMA CallReturns ==
  ASSUME RateInv, NEW c \in Callers, calls[c].at # "idle", NEW n \in Nat, Returns(c, n),
         SharedOK(limiter, level', stamp', log', clock),
         \/ Len(log') <= Len(log)
         \/ calls[c].at = "appending" /\ Len(log') = Len(log) + 1,
         ~crowded => /\ Settled(limiter, admitted', level', stamp', log', clock)
                     /\ Kept(limiter, admitted')
  PROVE  RateInv'
<1>1. /\ calls' = [calls EXCEPT ![c] = Idle] /\ UNCHANGED <<limiter, clock>>
      /\ crowded' = (crowded /\ Busy # {c})
      /\ admitted' = IF crowded THEN admitted ELSE admitted \o [i \in 1..n |-> calls[c].now]
  BY DEF Returns
<1>2. calls' = [d \in Callers |-> calls'[d]] /\ calls'[c] = Idle
      /\ \A d \in Callers \ {c} : calls'[d] = calls[d]
  BY <1>1 DEF RateInv
<1>3. CallOK(limiter, clock, Idle) /\ Idle.at = "idle"
  <2>1. Idle \in [op : {"none", "request", "status"}, at : Stages(limiter), now : Nat,
                  level : Int, stamp : Int, weight : Nat]
    BY DEF Idle, Stages
  <2> QED BY <2>1, RateAssumption DEF CallOK, Idle, Owed, RateInv
<1>4. \A d \in Callers : CallOK(limiter, clock, calls'[d])
  BY <1>2, <1>3 DEF RateInv
<1>5. Busy' = Busy \ {c}
  BY <1>2, <1>3 DEF Busy
<1>6. LogBound(log', calls')
  <2>1. log' \in Seq(Nat)
    BY DEF SharedOK
  <2>2. \A d \in Callers \ {c} : calls'[d].at = "appending" => calls[d].at = "appending"
    BY <1>2
  <2> QED BY <1>2, <1>3, <2>1, <2>2, Appenders
<1>7. admitted' \in Seq(Nat) /\ \A i \in DOMAIN admitted' : admitted'[i] <= clock
  <2>1. CASE crowded
    BY <1>1, <2>1 DEF RateInv
  <2>2. CASE ~crowded
    <3> DEFINE new == [i \in 1..n |-> calls[c].now]
    <3>1. calls[c].now \in Nat /\ calls[c].now <= clock
      BY DEF RateInv, CallOK
    <3>2. new \in Seq(Nat) /\ Len(new) = n /\ \A i \in 1..n : new[i] = calls[c].now
      BY <3>1
    <3> HIDE DEF new
    <3>3. admitted \in Seq(Nat) /\ Len(admitted) \in Nat /\ DOMAIN admitted = 1..Len(admitted)
          /\ \A i \in DOMAIN admitted : admitted[i] <= clock
      BY DEF RateInv
    <3>4. /\ admitted \o new \in Seq(Nat) /\ Len(admitted \o new) = Len(admitted) + n
          /\ \A i \in 1..(Len(admitted) + n) :
               (admitted \o new)[i] = IF i <= Len(admitted) THEN admitted[i] ELSE new[i - Len(admitted)]
      BY <3>2, <3>3, ConcatProperties
    <3>7. DOMAIN (admitted \o new) = 1..(Len(admitted) + n)
      BY <3>4, LenProperties
    <3>5. \A i \in 1..(Len(admitted) + n) : ~(i <= Len(admitted)) => i - Len(admitted) \in 1..n
      BY <3>3
    <3>6. admitted' = admitted \o new
      BY <1>1, <2>2 DEF new
    <3> QED BY <3>1, <3>2, <3>3, <3>4, <3>5, <3>6, <3>7
  <2> QED BY <2>1, <2>2
<1>8. ASSUME ~crowded' PROVE Quiet'
  <2>1. Busy' = {}
    BY <1>1, <1>5, <1>8 DEF RateInv, Quiet, Busy
  <2>2. Settled(limiter, admitted', level', stamp', log', clock) /\ Kept(limiter, admitted')
    <3>1. CASE crowded
      BY <1>1, <3>1, NothingOwed DEF RateInv, SharedOK
    <3>2. CASE ~crowded
      BY <3>2
    <3> QED BY <3>1, <3>2
  <2> QED BY <1>1, <2>1, <2>2 DEF Quiet
<1>9. crowded' => admitted' = <<>> /\ Busy' # {}
  BY <1>1, <1>5 DEF RateInv, Busy
<1> QED BY <1>1, <1>2, <1>4, <1>6, <1>7, <1>8, <1>9 DEF RateInv

LEMMA CallBegins ==
  ASSUME RateInv, NEW c \in Callers, NEW op \in {"request", "status"}, NEW w \in Nat,
         Begin(c, op, w), limiter \in {"fixed", "sliding"} => w = 1
  PROVE  RateInv'
<1> DEFINE r == [op |-> op, at |-> "begun", now |-> clock, level |-> 0, stamp |-> 0, weight |-> w]
<1>1. /\ calls[c].at = "idle" /\ calls' = [calls EXCEPT ![c] = r] /\ crowded' = (Busy # {})
      /\ admitted' = (IF Busy = {} THEN admitted ELSE <<>>)
      /\ UNCHANGED <<limiter, level, stamp, log, clock>>
  BY DEF Begin, sharedVars
<1>2. /\ r.at = "begun" /\ r.now = clock /\ r.weight = w
      /\ r \in [op : {"none", "request", "status"}, at : Stages(limiter), now : Nat,
                level : Int, stamp : Int, weight : Nat]
  <2>1. "begun" \in Stages(limiter) /\ clock \in Nat
    BY DEF Stages, RateInv
  <2> QED BY <2>1
<1>3. CallOK(limiter, clock, r)
  <2>1. r.level = 0
    OBVIOUS
  <2>2. Owed(limiter, 0) >= 0 /\ clock <= clock
    BY RateAssumption DEF Owed, RateInv
  <2> HIDE DEF r
  <2> QED BY <1>2, <2>1, <2>2 DEF CallOK
<1> HIDE DEF r
<1>4. calls' = [d \in Callers |-> calls'[d]] /\ calls'[c] = r
      /\ \A d \in Callers \ {c} : calls'[d] = calls[d]
  BY <1>1 DEF RateInv
<1>5. \A d \in Callers : CallOK(limiter, clock, calls'[d])
  BY <1>3, <1>4 DEF RateInv
<1>6. Busy' = Busy \cup {c}
  BY <1>2, <1>4 DEF Busy
<1>7. LogBound(log', calls')
  <2>1. log' \in Seq(Nat) /\ Len(log') <= Len(log)
    BY <1>1 DEF RateInv, SharedOK
  <2> QED BY <1>2, <1>4, <2>1, Appenders
<1>8. admitted' \in Seq(Nat) /\ \A i \in DOMAIN admitted' : admitted'[i] <= clock
  BY <1>1 DEF RateInv
<1>9. ASSUME ~crowded' PROVE Quiet'
  <2>1. Busy = {} /\ admitted' = admitted /\ ~crowded
    BY <1>1, <1>9 DEF RateInv
  <2>2. Busy' = {c} /\ Kept(limiter, admitted) /\ Settled(limiter, admitted, level, stamp, log, clock)
    BY <1>6, <2>1 DEF RateInv, Quiet
  <2>3. Account(limiter, admitted, r, level, stamp, log)
    <3>1. (\A i \in DOMAIN admitted : admitted[i] <= r.now) /\ stamp <= r.now
      BY <1>2 DEF RateInv, SharedOK
    <3>2. limiter \in {"token", "leaky"} => BucketAccount(limiter, admitted, r, level, stamp)
      BY <1>2, <2>2 DEF Settled, BucketAccount
    <3>3. limiter = "fixed" => WindowAccount(admitted, r, level, stamp)
      BY <1>2, <2>2 DEF Settled, WindowAccount
    <3>4. limiter = "sliding" => LogAccount(admitted, r, log)
      BY <1>2, <2>2 DEF Settled, LogAccount
    <3> QED BY <3>1, <3>2, <3>3, <3>4 DEF Account
  <2> QED BY <1>1, <1>4, <2>1, <2>2, <2>3 DEF Quiet
<1>10. crowded' => admitted' = <<>> /\ Busy' # {}
  BY <1>1, <1>6
<1> QED BY <1>1, <1>4, <1>5, <1>7, <1>8, <1>9, <1>10 DEF RateInv

\* What a call adds to the history.
Grown(a, b, n, t) ==
  /\ Len(b) = Len(a) + n /\ DOMAIN b = 1..(Len(a) + n)
  /\ \A i \in DOMAIN b : b[i] = IF i <= Len(a) THEN a[i] ELSE t

LEMMA Admits ==
  ASSUME NEW a \in Seq(Nat), NEW t \in Nat, NEW n \in Nat, NEW b, b = a \o [i \in 1..n |-> t]
  PROVE  /\ Len(a) \in Nat /\ DOMAIN a = 1..Len(a) /\ Len(b) = Len(a) + n
         /\ DOMAIN b = 1..(Len(a) + n)
         /\ \A i \in DOMAIN b : b[i] = IF i <= Len(a) THEN a[i] ELSE t
         /\ n = 0 => b = a
         /\ Grown(a, b, n, t)
<1> DEFINE new == [i \in 1..n |-> t]
<1>1. new \in Seq(Nat) /\ Len(new) = n /\ \A i \in 1..n : new[i] = t
  OBVIOUS
<1>2. b = a \o new
  OBVIOUS
<1> HIDE DEF new
<1>a. /\ Len(a \o new) = Len(a) + n /\ a \o new \in Seq(Nat)
      /\ \A i \in 1..(Len(a) + n) : (a \o new)[i] = IF i <= Len(a) THEN a[i] ELSE new[i - Len(a)]
  BY <1>1, ConcatProperties
<1>3. /\ Len(b) = Len(a) + n /\ b \in Seq(Nat) /\ Len(a) \in Nat /\ DOMAIN a = 1..Len(a)
      /\ \A i \in 1..(Len(a) + n) : b[i] = IF i <= Len(a) THEN a[i] ELSE new[i - Len(a)]
  BY <1>2, <1>a
<1>4. DOMAIN b = 1..(Len(a) + n)
  BY <1>3, LenProperties
<1>5. \A i \in 1..(Len(a) + n) : ~(i <= Len(a)) => i - Len(a) \in 1..n
  BY <1>3
<1>6. n = 0 => b = a
  <2>1. n = 0 => new = <<>>
    BY <1>1
  <2> QED BY <1>2, <2>1
<1> QED BY <1>1, <1>3, <1>4, <1>5, <1>6 DEF Grown

LEMMA AdmitsGrow ==
  \A a \in Seq(Nat), t \in Nat, n \in Nat : Grown(a, a \o [i \in 1..n |-> t], n, t)
BY Admits

\* Requests at the time t leave the history in bounds if each newer stretch is.
LEMMA KeptOn ==
  ASSUME NEW k, NEW a \in Seq(Nat), NEW t \in Nat, NEW n \in Nat, NEW b,
         Grown(a, b, n, t), Kept(k, a),
         \A i \in DOMAIN b :
           /\ k \in {"token", "leaky"} => ((Len(a) + n) - i) + 1 <= bucket_capacity + rate * (t - b[i])
           /\ k = "fixed" /\ t - b[i] < window_size => ((Len(a) + n) - i) + 1 <= 2 * limit
           /\ k = "sliding" /\ t - b[i] < window_size => ((Len(a) + n) - i) + 1 <= limit
  PROVE  Kept(k, b)
<1>1. /\ Len(a) \in Nat /\ DOMAIN a = 1..Len(a) /\ DOMAIN b = 1..(Len(a) + n)
      /\ \A i \in DOMAIN b : b[i] = IF i <= Len(a) THEN a[i] ELSE t
  BY DEF Grown
<1> SUFFICES ASSUME NEW i \in DOMAIN b, NEW j \in DOMAIN b, i <= j
             PROVE  /\ k \in {"token", "leaky"} => (j - i) + 1 <= bucket_capacity + rate * (b[j] - b[i])
                    /\ k = "fixed" /\ b[j] - b[i] < window_size => (j - i) + 1 <= 2 * limit
                    /\ k = "sliding" /\ b[j] - b[i] < window_size => (j - i) + 1 <= limit
  BY DEF Kept
<1>2. CASE j <= Len(a)
  <2>1. i \in DOMAIN a /\ j \in DOMAIN a /\ b[i] = a[i] /\ b[j] = a[j]
    BY <1>1, <1>2
  <2> QED BY <2>1 DEF Kept
<1>3. CASE ~(j <= Len(a))
  <2>1. b[j] = t /\ (j - i) + 1 <= ((Len(a) + n) - i) + 1
    BY <1>1, <1>3
  <2>2. b[i] \in Nat /\ i \in Int /\ j \in Int
    BY <1>1
  <2>3. rate * (t - b[i]) \in Int /\ bucket_capacity \in Int /\ limit \in Int
    BY <2>2, RateAssumption
  <2> DEFINE m == ((Len(a) + n) - i) + 1
             most == bucket_capacity + rate * (t - b[i])
  <2>4. m \in Int /\ most \in Int /\ (j - i) + 1 \in Int
    BY <1>1, <2>2, <2>3
  <2>5. k \in {"token", "leaky"} => (j - i) + 1 <= most
    <3>1. k \in {"token", "leaky"} => m <= most
      OBVIOUS
    <3> HIDE DEF m, most
    <3>2. (j - i) + 1 <= m
      BY <2>1 DEF m
    <3> QED BY <2>4, <3>1, <3>2
  <2>6. /\ k = "fixed" /\ t - b[i] < window_size => (j - i) + 1 <= 2 * limit
        /\ k = "sliding" /\ t - b[i] < window_size => (j - i) + 1 <= limit
    <3>1. /\ k = "fixed" /\ t - b[i] < window_size => m <= 2 * limit
          /\ k = "sliding" /\ t - b[i] < window_size => m <= limit
      OBVIOUS
    <3>2. 2 * limit \in Int /\ (j - i) + 1 <= m
      BY <2>1, <2>3
    <3> HIDE DEF m
    <3>3. ASSUME k = "fixed", t - b[i] < window_size PROVE (j - i) + 1 <= 2 * limit
      BY <2>4, <3>1, <3>2, <3>3
    <3>4. ASSUME k = "sliding", t - b[i] < window_size PROVE (j - i) + 1 <= limit
      BY <2>3, <2>4, <3>1, <3>2, <3>4
    <3> QED BY <3>3, <3>4
  <2>7. b[j] = t
    BY <2>1
  <2> QED BY <2>5, <2>6, <2>7
<1> QED BY <1>2, <1>3

-----------------------------------------------------------------------------
(* The buckets *)

LEMMA RefilledIs ==
  ASSUME RateInv, NEW c \in Callers
  PROVE  LET after == Refilled(calls[c].now - stamp) IN
         /\ after \in Int /\ Owed(limiter, after) >= 0
         /\ Owed(limiter, level) <= Owed(limiter, after) + (calls[c].now - stamp) * rate
<1> DEFINE e == (calls[c].now - stamp) * rate
           after == Refilled(calls[c].now - stamp)
<1>1. rate \in Nat /\ bucket_capacity \in Nat /\ level \in Int /\ calls[c].now - stamp \in Int
      /\ Owed(limiter, level) >= 0
  BY RateAssumption DEF RateInv, CallOK, SharedOK
<1>2. e \in Int
  BY <1>1
<1>3. after = IF limiter = "token" THEN Min({bucket_capacity, level + e}) ELSE Max({0, level - e})
  BY DEF Refilled
<1> HIDE DEF e, after
<1>4. /\ Min({bucket_capacity, level + e}) =
           IF bucket_capacity <= level + e THEN bucket_capacity ELSE level + e
      /\ Max({0, level - e}) = IF 0 >= level - e THEN 0 ELSE level - e
  <2> DEFINE more == level + e
             less == level - e
  <2>1. more \in Int /\ less \in Int /\ bucket_capacity \in Int
    BY <1>1, <1>2
  <2> HIDE DEF more, less
  <2>2. Min({bucket_capacity, more}) = IF bucket_capacity <= more THEN bucket_capacity ELSE more
    BY <2>1, TwoLargest
  <2>3. Max({0, less}) = IF 0 >= less THEN 0 ELSE less
    BY <2>1, TwoLargest
  <2> QED BY <2>2, <2>3 DEF more, less
<1>5. after \in Int /\ Owed(limiter, after) >= 0 /\ Owed(limiter, level) <= Owed(limiter, after) + e
  BY <1>1, <1>2, <1>3, <1>4 DEF Owed
<1> QED BY <1>5 DEF e, after

LEMMA Leaked ==
  ASSUME NEW r \in Nat, NEW t \in Nat, NEW s \in Int, NEW a \in Nat
  PROVE  /\ r * (s - a) \in Int /\ (t - s) * r \in Int /\ r * (t - a) \in Int
         /\ r * (t - a) = r * (s - a) + (t - s) * r
OBVIOUS

LEMMA ReadBucketStep ==
  ASSUME RateInv, NEW c \in Callers, ReadBucket(c)
  PROVE  RateInv'
<1> DEFINE after == Refilled(calls[c].now - stamp)
           r == [calls[c] EXCEPT !.at = "read", !.level = after]
<1>1. /\ Bucket /\ calls[c].at = "begun" /\ GoesOn(c, r) /\ UNCHANGED <<level, stamp, log>>
      /\ CallOK(limiter, clock, calls[c])
  BY DEF ReadBucket, sharedVars, RateInv
<1>2. /\ after \in Int /\ Owed(limiter, after) >= 0
      /\ Owed(limiter, level) <= Owed(limiter, after) + (calls[c].now - stamp) * rate
  BY RefilledIs
<1> HIDE DEF after
<1>3. /\ r.at = "read" /\ r.now = calls[c].now /\ r.level = after
      /\ CallOK(limiter, clock, r)
  <2>1. "read" \in Stages(limiter)
    BY <1>1 DEF Bucket, Stages
  <2>2. calls[c].at # "idle"
    BY <1>1
  <2> QED BY <1>1, <1>2, <2>1, <2>2 DEF CallOK
<1> HIDE DEF r
<1>4. ASSUME ~crowded PROVE Account(limiter, admitted, r, level, stamp, log)
  <2>1. Account(limiter, admitted, calls[c], level, stamp, log)
    BY <1>1, <1>4 DEF RateInv, Quiet, Busy
  <2>2. Covered(limiter, admitted, level, stamp)
    BY <1>1, <2>1 DEF Account, BucketAccount, Bucket
  <2>3. ASSUME NEW i \in DOMAIN admitted
        PROVE  (Len(admitted) - i) + 1 <= Owed(limiter, after) + rate * (calls[c].now - admitted[i])
    <3> DEFINE now == calls[c].now
               x == rate * (stamp - admitted[i])
               y == (now - stamp) * rate
               z == rate * (now - admitted[i])
    <3>1. /\ (Len(admitted) - i) + 1 <= Owed(limiter, level) + x
          /\ admitted[i] \in Nat /\ i \in Nat /\ Len(admitted) \in Nat
      BY <2>2, <2>3 DEF Covered, RateInv
    <3>2. now \in Nat /\ stamp \in Int /\ rate \in Nat /\ level \in Int /\ bucket_capacity \in Int
      BY <1>1, RateAssumption DEF CallOK, RateInv, SharedOK
    <3>3. x \in Int /\ y \in Int /\ z \in Int /\ z = x + y
      BY <3>1, <3>2, Leaked
    <3>4. Owed(limiter, level) \in Int /\ Owed(limiter, after) \in Int
      BY <1>2, <3>2 DEF Owed
    <3>5. Owed(limiter, level) <= Owed(limiter, after) + y
      BY <1>2
    <3> HIDE DEF x, y, z
    <3>6. (Len(admitted) - i) + 1 <= Owed(limiter, after) + z
      BY <3>1, <3>3, <3>4, <3>5
    <3> QED BY <3>6 DEF z
  <2>4. Covered(limiter, admitted, after, calls[c].now)
    BY <2>1, <2>3 DEF Covered, Account
  <2> QED BY <1>1, <1>3, <2>1, <2>4 DEF Account, BucketAccount, Bucket
<1>5. SharedOK(limiter, level', stamp', log', clock) /\ Len(log') <= Len(log)
  BY <1>1 DEF RateInv, SharedOK
<1> QED BY <1>1, <1>3, <1>4, <1>5, OwnStep

LEMMA WriteLevelStep ==
  ASSUME RateInv, NEW c \in Callers, WriteLevel(c)
  PROVE  RateInv'
<1> DEFINE r == [calls[c] EXCEPT !.at = "levelled"]
<1>1. /\ Bucket /\ calls[c].at = "read" /\ level' = calls[c].level /\ GoesOn(c, r)
      /\ UNCHANGED <<stamp, log>> /\ CallOK(limiter, clock, calls[c])
  BY DEF WriteLevel, RateInv
<1>2. /\ r.at = "levelled" /\ r.now = calls[c].now /\ r.level = calls[c].level
      /\ CallOK(limiter, clock, r)
  <2>1. "levelled" \in Stages(limiter)
    BY <1>1 DEF Bucket, Stages
  <2>2. calls[c].at # "idle"
    BY <1>1
  <2> HIDE DEF r
  <2>3. r = [calls[c] EXCEPT !.at = "levelled"]
    BY DEF r
  <2> QED BY <1>1, <2>1, <2>2, <2>3, NextStage
<1> HIDE DEF r
<1>3. ASSUME ~crowded PROVE Account(limiter, admitted, r, level', stamp', log')
  <2>1. Account(limiter, admitted, calls[c], level, stamp, log)
    BY <1>1, <1>3 DEF RateInv, Quiet, Busy
  <2> QED BY <1>1, <1>2, <2>1 DEF Account, BucketAccount, Bucket
<1>4. SharedOK(limiter, level', stamp', log', clock) /\ Len(log') <= Len(log)
  BY <1>1 DEF RateInv, SharedOK, CallOK
<1> QED BY <1>1, <1>2, <1>3, <1>4, OwnStep

\* A call that returns and has let nothing pass leaves what it found.
LEMMA LetsNonePass ==
  ASSUME RateInv, NEW c \in Callers, calls[c].at # "idle", Returns(c, 0),
         SharedOK(limiter, level', stamp', log', clock), Len(log') <= Len(log),
         ~crowded => Settled(limiter, admitted, level', stamp', log', clock)
  PROVE  RateInv'
<1>1. admitted' = IF crowded THEN admitted ELSE admitted \o [i \in 1..0 |-> calls[c].now]
  BY DEF Returns
<1>2. admitted' = admitted
  <2>1. admitted \in Seq(Nat) /\ calls[c].now \in Nat
    BY DEF RateInv, CallOK
  <2>2. [i \in 1..0 |-> calls[c].now] = <<>>
    OBVIOUS
  <2> QED BY <1>1, <2>1, <2>2
<1>3. ~crowded => Kept(limiter, admitted')
  BY <1>2 DEF RateInv, Quiet
<1> QED BY <1>2, <1>3, CallReturns

LEMMA WriteStampStep ==
  ASSUME RateInv, NEW c \in Callers, WriteStamp(c)
  PROVE  RateInv'
<1>1. /\ calls[c].at = "levelled" /\ stamp' = calls[c].now /\ UNCHANGED <<level, log>>
      /\ CallOK(limiter, clock, calls[c])
  BY DEF WriteStamp, RateInv
<1>2. limiter \in {"token", "leaky"}
  BY <1>1 DEF CallOK, Stages, RateInv
<1>3. SharedOK(limiter, level', stamp', log', clock) /\ Len(log') <= Len(log)
  BY <1>1 DEF RateInv, SharedOK, CallOK
<1>4. ASSUME ~crowded
      PROVE  /\ Covered(limiter, admitted, level', stamp')
             /\ \A i \in DOMAIN admitted : admitted[i] <= calls[c].now
  <2>1. Account(limiter, admitted, calls[c], level, stamp, log)
    BY <1>1, <1>4 DEF RateInv, Quiet, Busy
  <2> QED BY <1>1, <1>2, <2>1 DEF Account, BucketAccount
<1>5. CASE Returns(c, 0)
  <2>1. ~crowded => Settled(limiter, admitted, level', stamp', log', clock)
    BY <1>2, <1>4 DEF Settled
  <2> QED BY <1>1, <1>3, <1>5, <2>1, LetsNonePass
<1>6. CASE GoesOn(c, [calls[c] EXCEPT !.at = "deciding"])
  <2> DEFINE r == [calls[c] EXCEPT !.at = "deciding"]
  <2>1. /\ r.at = "deciding" /\ r.now = calls[c].now /\ CallOK(limiter, clock, r)
    <3>1. "deciding" \in Stages(limiter)
      BY <1>2 DEF Stages
    <3>2. calls[c].at # "idle"
      BY <1>1
    <3> HIDE DEF r
    <3>3. r = [calls[c] EXCEPT !.at = "deciding"]
      BY DEF r
    <3> QED BY <1>1, <3>1, <3>2, <3>3, NextStage
  <2> HIDE DEF r
  <2>2. ASSUME ~crowded PROVE Account(limiter, admitted, r, level', stamp', log')
    <3>1. BucketAccount(limiter, admitted, r, level', stamp')
      BY <1>1, <1>4, <2>1, <2>2 DEF BucketAccount
    <3>2. stamp' <= r.now
      BY <1>1, <2>1 DEF CallOK
    <3> QED BY <1>2, <1>4, <2>1, <2>2, <3>1, <3>2 DEF Account
  <2>3. GoesOn(c, r)
    BY <1>6 DEF r
  <2> QED BY <1>1, <1>3, <2>1, <2>2, <2>3, OwnStep
<1> QED BY <1>5, <1>6 DEF WriteStamp

LEMMA DecideStep ==
  ASSUME RateInv, NEW c \in Callers, Decide(c)
  PROVE  RateInv'
<1> DEFINE r == [calls[c] EXCEPT !.at = "loading"]
<1>1. /\ calls[c].at = "deciding" /\ UNCHANGED <<level, stamp, log>>
      /\ CallOK(limiter, clock, calls[c])
      /\ \/ Fits(level, calls[c].weight) /\ GoesOn(c, r)
         \/ Returns(c, 0)
  BY DEF Decide, RateInv, sharedVars
<1>2. limiter \in {"token", "leaky"}
  BY <1>1 DEF CallOK, Stages, RateInv
<1>3. SharedOK(limiter, level', stamp', log', clock) /\ Len(log') <= Len(log)
  BY <1>1 DEF RateInv, SharedOK
<1>4. ASSUME ~crowded
      PROVE  Account(limiter, admitted, calls[c], level, stamp, log)
  BY <1>1, <1>4 DEF RateInv, Quiet, Busy
<1>5. CASE Returns(c, 0)
  <2>1. ~crowded => Settled(limiter, admitted, level', stamp', log', clock)
    BY <1>1, <1>2, <1>4 DEF Settled, Account, BucketAccount
  <2> QED BY <1>1, <1>3, <1>5, <2>1, LetsNonePass
<1>6. CASE Fits(level, calls[c].weight) /\ GoesOn(c, r)
  <2>1. /\ r.at = "loading" /\ r.now = calls[c].now /\ r.weight = calls[c].weight
        /\ CallOK(limiter, clock, r)
    <3>1. "loading" \in Stages(limiter)
      BY <1>2 DEF Stages
    <3>2. calls[c].at # "idle"
      BY <1>1
    <3> HIDE DEF r
    <3>3. r = [calls[c] EXCEPT !.at = "loading"]
      BY DEF r
    <3> QED BY <1>1, <3>1, <3>2, <3>3, NextStage
  <2>2. Owed(limiter, level) + calls[c].weight <= bucket_capacity
    <3>1. level \in Int /\ calls[c].weight \in Nat /\ bucket_capacity \in Nat
      BY <1>1, RateAssumption DEF RateInv, SharedOK, CallOK
    <3> QED BY <1>2, <1>6, <3>1 DEF Fits, Owed
  <2> HIDE DEF r
  <2>3. ASSUME ~crowded PROVE Account(limiter, admitted, r, level', stamp', log')
    BY <1>1, <1>2, <1>4, <2>1, <2>2, <2>3 DEF Account, BucketAccount
  <2> QED BY <1>1, <1>3, <1>6, <2>1, <2>3, OwnStep
<1> QED BY <1>1, <1>5, <1>6

\* A load of the level or of the count, and the store of one more.
LEMMA LoadStep ==
  ASSUME RateInv, NEW c \in Callers, LoadLevel(c)
  PROVE  RateInv'
<1> DEFINE r == [calls[c] EXCEPT !.at = "storing", !.level = level]
<1>1. /\ calls[c].at = "loading" /\ UNCHANGED <<level, stamp, log>> /\ GoesOn(c, r)
      /\ CallOK(limiter, clock, calls[c])
  BY DEF LoadLevel, RateInv, sharedVars
<1>2. limiter \in {"token", "leaky", "fixed"}
  BY <1>1 DEF CallOK, Stages, RateInv
<1>3. SharedOK(limiter, level', stamp', log', clock) /\ Len(log') <= Len(log)
      /\ level \in Int /\ Owed(limiter, level) >= 0
  BY <1>1 DEF RateInv, SharedOK
<1>4. /\ r.at = "storing" /\ r.now = calls[c].now /\ r.weight = calls[c].weight
      /\ r.level = level /\ CallOK(limiter, clock, r)
  <2>1. "storing" \in Stages(limiter)
    BY <1>2 DEF Stages
  <2>2. calls[c].at # "idle"
    BY <1>1
  <2> QED BY <1>1, <1>3, <2>1, <2>2 DEF CallOK
<1> HIDE DEF r
<1>5. ASSUME ~crowded PROVE Account(limiter, admitted, r, level', stamp', log')
  <2>1. Account(limiter, admitted, calls[c], level, stamp, log)
    BY <1>1, <1>5 DEF RateInv, Quiet, Busy
  <2>2. limiter \in {"token", "leaky"} => BucketAccount(limiter, admitted, r, level, stamp)
    BY <1>1, <1>4, <2>1 DEF Account, BucketAccount
  <2>3. limiter = "fixed" => WindowAccount(admitted, r, level, stamp)
    BY <1>1, <1>4, <2>1 DEF Account, WindowAccount
  <2> QED BY <1>1, <1>2, <1>4, <2>1, <2>2, <2>3 DEF Account
<1> QED BY <1>1, <1>3, <1>4, <1>5, OwnStep

\* What a request takes from a bucket is owed, and paid for in any stretch up to it.
LEMMA BucketTakes ==
  ASSUME NEW k \in {"token", "leaky"}, NEW a \in Seq(Nat), NEW t \in Nat, NEW w \in Nat,
         NEW l \in Int, NEW m \in Int, NEW b, Grown(a, b, w, t),
         Covered(k, a, l, t), Kept(k, a), Owed(k, l) >= 0, Owed(k, m) = Owed(k, l) + w,
         Owed(k, m) <= bucket_capacity
  PROVE  Covered(k, b, m, t) /\ Kept(k, b)
<1>1. /\ Len(a) \in Nat /\ DOMAIN a = 1..Len(a) /\ DOMAIN b = 1..(Len(a) + w)
      /\ Len(b) = Len(a) + w
      /\ \A i \in DOMAIN b : b[i] = IF i <= Len(a) THEN a[i] ELSE t
  BY DEF Grown
<1>2. Owed(k, l) \in Int /\ Owed(k, m) \in Int /\ bucket_capacity \in Int /\ rate \in Nat
  BY RateAssumption DEF Owed
<1>3. ASSUME NEW i \in DOMAIN b
      PROVE  /\ b[i] \in Nat /\ b[i] <= t
             /\ (Len(b) - i) + 1 <= Owed(k, m) + rate * (t - b[i])
  <2>1. CASE i <= Len(a)
    <3> DEFINE x == rate * (t - a[i])
    <3>1. i \in DOMAIN a /\ b[i] = a[i] /\ a[i] \in Nat
      BY <1>1, <2>1
    <3>2. a[i] <= t /\ (Len(a) - i) + 1 <= Owed(k, l) + x
      BY <3>1 DEF Covered
    <3>3. x \in Int
      BY <1>2, <3>1, Leaked
    <3> HIDE DEF x
    <3>4. (Len(b) - i) + 1 <= Owed(k, m) + x
      BY <1>1, <1>2, <3>2, <3>3
    <3> QED BY <3>1, <3>2, <3>4 DEF x
  <2>2. CASE ~(i <= Len(a))
    <3>1. b[i] = t
      BY <1>1, <2>2
    <3>3. rate * (t - b[i]) = 0
      BY <1>2, <3>1
    <3>2. (Len(b) - i) + 1 <= Owed(k, m)
      BY <1>1, <1>2, <2>2
    <3> DEFINE x == rate * (t - b[i])
    <3>4. x = 0
      BY <3>3
    <3> HIDE DEF x
    <3>5. (Len(b) - i) + 1 <= Owed(k, m) + x
      BY <1>2, <3>2, <3>4
    <3> QED BY <3>1, <3>5 DEF x
  <2> QED BY <2>1, <2>2
<1>4. Covered(k, b, m, t)
  BY <1>3 DEF Covered
<1>5. ASSUME NEW i \in DOMAIN b
      PROVE  ((Len(a) + w) - i) + 1 <= bucket_capacity + rate * (t - b[i])
  <2> DEFINE x == rate * (t - b[i])
  <2>1. (Len(b) - i) + 1 <= Owed(k, m) + x
    BY <1>3
  <2>2. x \in Int
    BY <1>2, <1>3, Leaked
  <2> HIDE DEF x
  <2>3. ((Len(a) + w) - i) + 1 <= bucket_capacity + x
    BY <1>1, <1>2, <2>1, <2>2
  <2> QED BY <2>3 DEF x
<1>6. Kept(k, b)
  BY <1>5, KeptOn
<1> QED BY <1>4, <1>6

\* One more in the window, and no more than two windows' in its length.
LEMMA WindowTakes ==
  ASSUME NEW a \in Seq(Nat), NEW t \in Nat, NEW l \in Nat, NEW s \in Int, NEW b,
         b = a \o [i \in 1..1 |-> t], WindowHas(a, l, s), Kept("fixed", a), l < limit, s <= t,
         \A i \in DOMAIN a : a[i] <= t
  PROVE  WindowHas(b, l + 1, s) /\ Kept("fixed", b)
<1>1. /\ Len(a) \in Nat /\ DOMAIN a = 1..Len(a) /\ DOMAIN b = 1..(Len(a) + 1)
      /\ Len(b) = Len(a) + 1
      /\ \A i \in DOMAIN b : b[i] = IF i <= Len(a) THEN a[i] ELSE t
  BY Admits
<1>g. Grown(a, b, 1, t)
  BY <1>1 DEF Grown
<1>2. limit \in Nat /\ window_size \in Nat /\ \A i \in DOMAIN a : a[i] \in Nat
  BY RateAssumption
<1>3. ASSUME NEW i \in DOMAIN b
      PROVE  /\ b[i] \in Nat
             /\ i > Len(b) - (l + 1) => b[i] >= s /\ (Len(b) - i) + 1 <= limit
             /\ i <= Len(b) - (l + 1) =>
                  /\ b[i] <= s
                  /\ s - b[i] < window_size => ((Len(b) - (l + 1)) - i) + 1 <= limit
  <2>1. CASE i <= Len(a)
    <3>1. i \in DOMAIN a /\ b[i] = a[i] /\ Len(b) - (l + 1) = Len(a) - l
      BY <1>1, <2>1
    <3> QED BY <1>1, <1>2, <2>1, <3>1 DEF WindowHas
  <2>2. CASE ~(i <= Len(a))
    BY <1>1, <1>2, <2>2
  <2> QED BY <2>1, <2>2
<1>4. WindowHas(b, l + 1, s)
  BY <1>3 DEF WindowHas
<1>5. ASSUME NEW i \in DOMAIN b, t - b[i] < window_size
      PROVE  ((Len(a) + 1) - i) + 1 <= 2 * limit
  <2>1. CASE i > Len(b) - (l + 1)
    BY <1>1, <1>2, <1>3, <2>1
  <2>2. CASE i <= Len(b) - (l + 1)
    <3>1. b[i] <= s /\ b[i] \in Nat
      BY <1>3, <2>2
    <3>2. s - b[i] < window_size
      BY <1>2, <1>5, <3>1
    <3>3. ((Len(b) - (l + 1)) - i) + 1 <= limit
      BY <1>3, <2>2, <3>2
    <3> QED BY <1>1, <1>2, <3>3
  <2> QED BY <1>1, <2>1, <2>2
<1>6. Kept("fixed", b)
  BY <1>g, <1>5, KeptOn
<1> QED BY <1>4, <1>6

LEMMA StoreStep ==
  ASSUME RateInv, NEW c \in Callers, StoreLevel(c)
  PROVE  RateInv'
<1> DEFINE r == calls[c]
           w == r.weight
<1>1. /\ r.at \in {"storing", "replaced"} /\ Returns(c, w) /\ UNCHANGED <<stamp, log>>
      /\ level' = IF r.at = "replaced" THEN level
                  ELSE IF limiter = "token" THEN r.level - w ELSE r.level + w
  BY DEF StoreLevel
<1>2. /\ CallOK(limiter, clock, r) /\ w \in Nat /\ r.level \in Int /\ r.now \in Nat
      /\ Owed(limiter, r.level) >= 0
      /\ level \in Int /\ Owed(limiter, level) >= 0 /\ bucket_capacity \in Nat /\ r.at # "idle"
      /\ admitted \in Seq(Nat)
  BY <1>1, RateAssumption DEF RateInv, SharedOK, CallOK
<1>3. limiter \in {"token", "leaky", "fixed"} /\ (limiter # "fixed" => r.at = "storing")
  BY <1>1, <1>2 DEF CallOK, Stages, RateInv
<1>4. r.at = "storing" => level' \in Int /\ Owed(limiter, level') = Owed(limiter, r.level) + w
  BY <1>1, <1>2, <1>3 DEF Owed
<1>5. SharedOK(limiter, level', stamp', log', clock) /\ Len(log') <= Len(log)
  <2>1. level' \in Int /\ Owed(limiter, level') >= 0
    <3>1. Owed(limiter, r.level) \in Int
      BY <1>2 DEF Owed
    <3>2. CASE r.at = "storing"
      BY <1>2, <1>4, <3>1, <3>2
    <3>3. CASE r.at = "replaced"
      BY <1>1, <1>2, <3>3
    <3> QED BY <1>1, <3>2, <3>3
  <2> QED BY <1>1, <2>1 DEF RateInv, SharedOK
<1>6. ASSUME ~crowded
      PROVE  /\ Settled(limiter, admitted', level', stamp', log', clock)
             /\ Kept(limiter, admitted')
  <2>1. Account(limiter, admitted, r, level, stamp, log) /\ Kept(limiter, admitted)
    BY <1>2, <1>6 DEF RateInv, Quiet, Busy
  <2>2. admitted' = admitted \o [i \in 1..w |-> r.now]
    BY <1>1, <1>6 DEF Returns
  <2>3. CASE limiter \in {"token", "leaky"}
    <3>1. /\ Covered(limiter, admitted, level, r.now) /\ stamp = r.now /\ r.level = level
          /\ Owed(limiter, level) + w <= bucket_capacity
      BY <1>3, <2>1, <2>3 DEF Account, BucketAccount
    <3>2. level' \in Int /\ Owed(limiter, level') = Owed(limiter, level) + w
          /\ Owed(limiter, level') <= bucket_capacity
      BY <1>3, <1>4, <2>3, <3>1
    <3>4. Grown(admitted, admitted', w, r.now)
      <4> DEFINE b == admitted'
                 t == r.now
                 n == w
      <4>1. b = admitted \o [i \in 1..w |-> t]
        BY <2>2
      <4>2. t \in Nat /\ n \in Nat /\ admitted \in Seq(Nat) /\ b = admitted \o [i \in 1..n |-> t]
        BY <1>2, <4>1
      <4> HIDE DEF b, t, n
      <4>3. Grown(admitted, b, n, t)
        BY <4>2, AdmitsGrow
      <4> QED BY <4>3 DEF b, t, n
    <3> HIDE DEF r, w
    <3>3. Covered(limiter, admitted', level', r.now) /\ Kept(limiter, admitted')
      BY <1>2, <2>1, <2>3, <3>1, <3>2, <3>4, BucketTakes
    <3> QED BY <1>1, <2>3, <3>1, <3>3 DEF Settled
  <2>4. CASE limiter = "fixed"
    <3>1. /\ WindowHas(admitted, level, stamp) /\ r.at = "storing" /\ level < limit
          /\ r.level = level /\ stamp <= r.now /\ \A i \in DOMAIN admitted : admitted[i] <= r.now
      BY <1>1, <2>1, <2>4 DEF Account, WindowAccount
    <3>2. w = 1 /\ level' = level + 1 /\ level \in Nat /\ stamp \in Int
      BY <1>1, <1>2, <2>4, <3>1 DEF CallOK, Owed, RateInv, SharedOK
    <3>3. WindowHas(admitted', level', stamp) /\ Kept("fixed", admitted')
      BY <1>2, <2>1, <2>2, <2>4, <3>1, <3>2, WindowTakes
    <3> QED BY <1>1, <2>4, <3>3 DEF Settled
  <2> QED BY <1>3, <2>3, <2>4
<1> QED BY <1>1, <1>2, <1>5, <1>6, CallReturns

-----------------------------------------------------------------------------
(* The windows *)

LEMMA ReadWindowStep ==
  ASSUME RateInv, NEW c \in Callers, ReadWindow(c)
  PROVE  RateInv'
<1> DEFINE r == [calls[c] EXCEPT !.at = "read", !.level = level, !.stamp = stamp]
<1>1. /\ limiter = "fixed" /\ calls[c].at = "begun" /\ GoesOn(c, r)
      /\ UNCHANGED <<level, stamp, log>> /\ CallOK(limiter, clock, calls[c])
  BY DEF ReadWindow, RateInv, sharedVars
<1>2. /\ SharedOK(limiter, level', stamp', log', clock) /\ Len(log') <= Len(log)
      /\ level \in Int /\ stamp \in Int /\ Owed(limiter, level) >= 0
  BY <1>1 DEF RateInv, SharedOK
<1>3. /\ r.at = "read" /\ r.now = calls[c].now /\ r.level = level /\ r.stamp = stamp
      /\ CallOK(limiter, clock, r)
  <2>1. "read" \in Stages(limiter) /\ calls[c].at # "idle"
    BY <1>1 DEF Stages
  <2> QED BY <1>1, <1>2, <2>1 DEF CallOK
<1> HIDE DEF r
<1>4. ASSUME ~crowded PROVE Account(limiter, admitted, r, level', stamp', log')
  <2>1. Account(limiter, admitted, calls[c], level, stamp, log)
    BY <1>1, <1>4 DEF RateInv, Quiet, Busy
  <2> QED BY <1>1, <1>3, <2>1 DEF Account, WindowAccount
<1> QED BY <1>1, <1>2, <1>3, <1>4, OwnStep

\* A window that opens leaves those of the last one behind.
LEMMA WindowOpens ==
  ASSUME NEW a \in Seq(Nat), NEW t \in Nat, NEW l \in Nat, NEW s \in Nat \cup {-1},
         WindowHas(a, l, s), s = -1 \/ t - s >= window_size, \A i \in DOMAIN a : a[i] <= t
  PROVE  WindowHas(a, 0, t)
<1>1. Len(a) \in Nat /\ DOMAIN a = 1..Len(a) /\ limit \in Nat /\ window_size \in Nat \ {0}
  BY RateAssumption
<1>2. ASSUME NEW i \in DOMAIN a, t - a[i] < window_size PROVE ((Len(a) - 0) - i) + 1 <= limit
  <2>1. a[i] \in Nat /\ a[i] > s
    BY <1>1, <1>2
  <2>2. i > Len(a) - l
    BY <1>1, <2>1 DEF WindowHas
  <2>3. (Len(a) - i) + 1 <= limit
    BY <2>2 DEF WindowHas
  <2> QED BY <1>1, <2>3
<1>3. \A i \in DOMAIN a : i <= Len(a) - 0 /\ ~(i > Len(a) - 0)
  BY <1>1
<1> QED BY <1>2, <1>3 DEF WindowHas

LEMMA ResetStep ==
  ASSUME RateInv, NEW c \in Callers, ResetWindow(c)
  PROVE  RateInv'
<1> DEFINE r == [calls[c] EXCEPT !.at = "loading"]
<1>1. /\ limiter = "fixed" /\ calls[c].at = "read" /\ Fresh(calls[c])
      /\ level' = 0 /\ stamp' = calls[c].now
      /\ calls' = [d \in Callers |->
           IF d = c THEN r
           ELSE IF calls[d].at = "storing" THEN [calls[d] EXCEPT !.at = "replaced"] ELSE calls[d]]
      /\ UNCHANGED <<limiter, log, clock, crowded, admitted>>
      /\ CallOK(limiter, clock, calls[c])
  BY DEF ResetWindow, RateInv
<1>2. r.at = "loading" /\ r.now = calls[c].now /\ CallOK(limiter, clock, r)
  <2>1. "loading" \in Stages(limiter) /\ calls[c].at # "idle"
    BY <1>1 DEF Stages
  <2> HIDE DEF r
  <2>2. r = [calls[c] EXCEPT !.at = "loading"]
    BY DEF r
  <2> QED BY <1>1, <2>1, <2>2, NextStage
<1> HIDE DEF r
<1>3. ASSUME NEW d \in Callers \ {c}
      PROVE  \/ calls'[d] = calls[d]
             \/ calls[d].at = "storing" /\ calls'[d].at = "replaced" /\ CallOK(limiter, clock, calls'[d])
  <2>1. CASE calls[d].at # "storing"
    BY <1>1, <2>1
  <2>2. CASE calls[d].at = "storing"
    <3>1. calls'[d] = [calls[d] EXCEPT !.at = "replaced"] /\ CallOK(limiter, clock, calls[d])
      BY <1>1, <2>2 DEF RateInv
    <3>2. "replaced" \in Stages(limiter) /\ calls[d].at # "idle"
      BY <1>1, <2>2 DEF Stages
    <3>3. calls'[d].at = "replaced" /\ CallOK(limiter, clock, calls'[d])
      BY <3>1, <3>2, NextStage
    <3> QED BY <2>2, <3>3
  <2> QED BY <2>1, <2>2
<1>4. SharedOK(limiter, level', stamp', log', clock) /\ Len(log') <= Len(log)
  BY <1>1 DEF RateInv, SharedOK, CallOK, Owed
<1>5. calls' = [d \in Callers |-> calls'[d]] /\ calls'[c] = r
  BY <1>1
<1>6. ASSUME ~crowded PROVE Account(limiter, admitted, r, level', stamp', log')
  <2>1. Account(limiter, admitted, calls[c], level, stamp, log)
    BY <1>1, <1>6 DEF RateInv, Quiet, Busy
  <2>2. /\ WindowHas(admitted, level, stamp) /\ calls[c].stamp = stamp
        /\ \A i \in DOMAIN admitted : admitted[i] <= calls[c].now
    BY <1>1, <2>1 DEF Account, WindowAccount
  <2>3. /\ admitted \in Seq(Nat) /\ calls[c].now \in Nat /\ level \in Nat /\ stamp \in Nat \cup {-1}
        /\ (stamp = -1 \/ calls[c].now - stamp >= window_size)
    BY <1>1, <2>2 DEF RateInv, SharedOK, CallOK, Owed, Fresh
  <2>4. WindowHas(admitted, 0, calls[c].now)
    BY <2>2, <2>3, WindowOpens
  <2>5. 0 < limit /\ stamp' <= r.now
    BY <1>1, <1>2, <2>3, RateAssumption
  <2> QED BY <1>1, <1>2, <2>2, <2>4, <2>5 DEF Account, WindowAccount
<1> QED BY <1>1, <1>2, <1>3, <1>4, <1>5, <1>6, CallGoesOn

LEMMA CheckStep ==
  ASSUME RateInv, NEW c \in Callers, CheckCount(c)
  PROVE  RateInv'
<1> DEFINE r == [calls[c] EXCEPT !.at = "loading"]
<1>1. /\ limiter = "fixed" /\ calls[c].at = "read" /\ UNCHANGED <<level, stamp, log>>
      /\ CallOK(limiter, clock, calls[c])
      /\ \/ calls[c].level < limit /\ GoesOn(c, r)
         \/ Returns(c, 0)
  BY DEF CheckCount, RateInv, sharedVars
<1>2. SharedOK(limiter, level', stamp', log', clock) /\ Len(log') <= Len(log)
  BY <1>1 DEF RateInv, SharedOK
<1>3. ASSUME ~crowded PROVE Account(limiter, admitted, calls[c], level, stamp, log)
  BY <1>1, <1>3 DEF RateInv, Quiet, Busy
<1>4. CASE Returns(c, 0)
  <2>1. ~crowded => Settled(limiter, admitted, level', stamp', log', clock)
    BY <1>1, <1>3 DEF Settled, Account, WindowAccount
  <2> QED BY <1>1, <1>2, <1>4, <2>1, LetsNonePass
<1>5. CASE calls[c].level < limit /\ GoesOn(c, r)
  <2>1. r.at = "loading" /\ r.now = calls[c].now /\ CallOK(limiter, clock, r)
    <3>1. "loading" \in Stages(limiter) /\ calls[c].at # "idle"
      BY <1>1 DEF Stages
    <3> HIDE DEF r
    <3>2. r = [calls[c] EXCEPT !.at = "loading"]
      BY DEF r
    <3> QED BY <1>1, <3>1, <3>2, NextStage
  <2> HIDE DEF r
  <2>2. ASSUME ~crowded PROVE Account(limiter, admitted, r, level', stamp', log')
    BY <1>1, <1>3, <1>5, <2>1, <2>2 DEF Account, WindowAccount
  <2> QED BY <1>1, <1>2, <1>5, <2>1, <2>2, OwnStep
<1> QED BY <1>1, <1>4, <1>5

\* The steps of a call that only read the log.
LEMMA LooksAtLog ==
  ASSUME RateInv, NEW c \in Callers, calls[c].at \in {"begun", "testing", "counting"},
         limiter = "sliding", UNCHANGED <<level, stamp, log>>,
         \/ Returns(c, 0)
         \/ \E x \in {"testing", "counting", "popping", "appending"} :
              /\ GoesOn(c, [calls[c] EXCEPT !.at = x])
              /\ x = "popping" /\ log # <<>> => log[1] <= calls[c].now - window_size
              /\ x = "appending" => Len(log) < limit
  PROVE  RateInv'
<1>1. /\ SharedOK(limiter, level', stamp', log', clock) /\ Len(log') <= Len(log)
      /\ CallOK(limiter, clock, calls[c]) /\ calls[c].at # "idle"
  BY DEF RateInv, SharedOK
<1>2. ASSUME ~crowded PROVE Account(limiter, admitted, calls[c], level, stamp, log)
  BY <1>1, <1>2 DEF RateInv, Quiet, Busy
<1>3. CASE Returns(c, 0)
  <2>1. ASSUME ~crowded PROVE LogHas(admitted, log, clock)
    <3>1. LogHas(admitted, log, calls[c].now)
      BY <1>2, <2>1 DEF Account, LogAccount
    <3>2. /\ calls[c].now \in Nat /\ clock \in Nat /\ calls[c].now <= clock /\ window_size \in Nat
          /\ \A i \in DOMAIN admitted : admitted[i] \in Nat
      BY <1>1, RateAssumption DEF CallOK, RateInv
    <3> QED BY <3>1, <3>2 DEF LogHas
  <2>2. ~crowded => Settled(limiter, admitted, level', stamp', log', clock)
    BY <2>1 DEF Settled
  <2> QED BY <1>1, <1>3, <2>2, LetsNonePass
<1>4. ASSUME NEW x \in {"testing", "counting", "popping", "appending"},
             GoesOn(c, [calls[c] EXCEPT !.at = x]),
             x = "popping" /\ log # <<>> => log[1] <= calls[c].now - window_size,
             x = "appending" => Len(log) < limit
      PROVE  RateInv'
  <2> DEFINE r == [calls[c] EXCEPT !.at = x]
  <2>1. r.at = x /\ r.now = calls[c].now /\ CallOK(limiter, clock, r)
    <3>1. x \in Stages(limiter) /\ x # "idle"
      BY DEF Stages
    <3> HIDE DEF r
    <3>2. r = [calls[c] EXCEPT !.at = x]
      BY DEF r
    <3> QED BY <1>1, <3>1, <3>2, NextStage
  <2>2. GoesOn(c, r)
    BY <1>4
  <2> HIDE DEF r
  <2>3. ASSUME ~crowded PROVE Account(limiter, admitted, r, level', stamp', log')
    <3>1. LogAccount(admitted, r, log)
      BY <1>2, <1>4, <2>1, <2>3 DEF Account, LogAccount
    <3> QED BY <1>2, <2>1, <2>3, <3>1 DEF Account
  <2>4. r.at # "idle" /\ (Len(log') < limit \/ (r.at # "appending" /\ Len(log') <= Len(log)))
    BY <1>1, <1>4, <2>1
  <2> QED BY <1>1, <2>1, <2>2, <2>3, <2>4, OwnStep
<1> QED BY <1>3, <1>4

LEMMA LookStep ==
  ASSUME RateInv, NEW c \in Callers, TestLog(c) \/ TestHead(c) \/ CountLog(c)
  PROVE  RateInv'
<1>1. CallOK(limiter, clock, calls[c]) /\ limiter \in {"token", "leaky", "fixed", "sliding"}
  BY DEF RateInv
<1>2. CASE TestLog(c)
  <2>1. /\ limiter = "sliding" /\ calls[c].at = "begun" /\ UNCHANGED <<level, stamp, log>>
        /\ GoesOn(c, [calls[c] EXCEPT !.at = IF log = <<>> THEN "counting" ELSE "testing"])
    BY <1>2 DEF TestLog, sharedVars
  <2>2. \/ GoesOn(c, [calls[c] EXCEPT !.at = "counting"])
        \/ GoesOn(c, [calls[c] EXCEPT !.at = "testing"])
    BY <2>1
  <2> QED BY <2>1, <2>2, LooksAtLog
<1>3. CASE TestHead(c)
  <2>1. /\ calls[c].at = "testing" /\ UNCHANGED <<level, stamp, log>>
        /\ \/ Returns(c, 0)
           \/ /\ GoesOn(c, [calls[c] EXCEPT !.at = "popping"])
              /\ Head(log) <= calls[c].now - window_size
           \/ GoesOn(c, [calls[c] EXCEPT !.at = "counting"])
    BY <1>3 DEF TestHead, sharedVars
  <2>2. limiter = "sliding"
    BY <1>1, <2>1 DEF CallOK, Stages
  <2>3. log # <<>> => Head(log) = log[1]
    BY DEF RateInv, SharedOK
  <2> QED BY <2>1, <2>2, <2>3, LooksAtLog
<1>4. CASE CountLog(c)
  <2>1. /\ calls[c].at = "counting" /\ UNCHANGED <<level, stamp, log>>
        /\ \/ Returns(c, 0)
           \/ Len(log) < limit /\ GoesOn(c, [calls[c] EXCEPT !.at = "appending"])
    BY <1>4 DEF CountLog, sharedVars
  <2>2. limiter = "sliding"
    BY <1>1, <2>1 DEF CallOK, Stages
  <2> QED BY <2>1, <2>2, LooksAtLog
<1> QED BY <1>2, <1>3, <1>4

LEMMA PopStep ==
  ASSUME RateInv, NEW c \in Callers, PopLeft(c)
  PROVE  RateInv'
<1> DEFINE r == [calls[c] EXCEPT !.at = "begun"]
<1>1. /\ calls[c].at = "popping" /\ UNCHANGED <<level, stamp>>
      /\ \/ log = <<>> /\ Returns(c, 0) /\ UNCHANGED log
         \/ log # <<>> /\ log' = Tail(log) /\ GoesOn(c, r)
      /\ CallOK(limiter, clock, calls[c]) /\ log \in Seq(Nat) /\ admitted \in Seq(Nat)
  BY DEF PopLeft, RateInv, SharedOK
<1>2. limiter = "sliding"
  BY <1>1 DEF CallOK, Stages, RateInv
<1>3. ASSUME ~crowded
      PROVE  Account(limiter, admitted, calls[c], level, stamp, log)
  BY <1>1, <1>3 DEF RateInv, Quiet, Busy
<1>4. CASE log = <<>> /\ Returns(c, 0) /\ UNCHANGED log
  <2>1. ASSUME ~crowded PROVE LogHas(admitted, log, clock)
    <3>1. LogHas(admitted, log, calls[c].now)
      BY <1>2, <1>3, <2>1 DEF Account, LogAccount
    <3>2. /\ calls[c].now \in Nat /\ clock \in Nat /\ calls[c].now <= clock /\ window_size \in Nat
          /\ \A i \in DOMAIN admitted : admitted[i] \in Nat
      BY <1>1, RateAssumption DEF CallOK, RateInv
    <3> QED BY <3>1, <3>2 DEF LogHas
  <2>2. ~crowded => Settled(limiter, admitted, level', stamp', log', clock)
    BY <1>2, <1>4, <2>1 DEF Settled
  <2>3. SharedOK(limiter, level', stamp', log', clock) /\ Len(log') <= Len(log)
    BY <1>1, <1>4 DEF RateInv, SharedOK
  <2> QED BY <1>1, <1>4, <2>2, <2>3, LetsNonePass
<1>5. CASE log # <<>> /\ log' = Tail(log) /\ GoesOn(c, r)
  <2> DEFINE h == Len(log)
             n == Len(admitted)
  <2>1. r.at = "begun" /\ r.now = calls[c].now /\ CallOK(limiter, clock, r)
    <3>1. "begun" \in Stages(limiter) /\ calls[c].at # "idle"
      BY <1>1, <1>2 DEF Stages
    <3> HIDE DEF r
    <3>2. r = [calls[c] EXCEPT !.at = "begun"]
      BY DEF r
    <3> QED BY <1>1, <3>1, <3>2, NextStage
  <2> HIDE DEF r
  <2>2. /\ h \in Nat \ {0} /\ n \in Nat /\ DOMAIN admitted = 1..n /\ DOMAIN log = 1..h
        /\ log' \in Seq(Nat) /\ Len(log') = h - 1 /\ DOMAIN log' = 1..(h - 1)
        /\ \A j \in 1..(h - 1) : log'[j] = log[j + 1]
    <3>1. h \in Nat \ {0} /\ n \in Nat /\ DOMAIN admitted = 1..n /\ DOMAIN log = 1..h
      BY <1>1, <1>5
    <3>2. Tail(log) \in Seq(Nat) /\ Len(Tail(log)) = h - 1
      BY <1>1, <1>5, HeadTailProperties
    <3>3. \A j \in 1..(h - 1) : Tail(log)[j] = log[j + 1]
      BY <1>1, <1>5, <3>1, HeadTailProperties
    <3> HIDE DEF h
    <3>4. DOMAIN Tail(log) = 1..(h - 1)
      BY <3>2, LenProperties
    <3> QED BY <1>5, <3>1, <3>2, <3>3, <3>4
  <2>3. SharedOK(limiter, level', stamp', log', clock) /\ Len(log') <= Len(log)
    BY <1>1, <2>2 DEF RateInv, SharedOK
  <2>4. ASSUME ~crowded PROVE Account(limiter, admitted, r, level', stamp', log')
    <3> DEFINE t == calls[c].now - window_size
    <3>1. LogHas(admitted, log, calls[c].now) /\ log[1] <= t
      BY <1>1, <1>2, <1>3, <1>5, <2>4 DEF Account, LogAccount
    <3>2. /\ \A i \in 1..n : i <= n - h => admitted[i] <= t
          /\ \A j \in 1..h : (n - h) + j >= 1 => log[j] = admitted[(n - h) + j]
      BY <2>2, <3>1 DEF LogHas
    <3> HIDE DEF h, n, t
    <3>3. ASSUME NEW i \in 1..n, i <= n - (h - 1) PROVE admitted[i] <= t
      <4>1. CASE i <= n - h
        BY <3>2, <4>1
      <4>2. CASE ~(i <= n - h)
        <5>1. i = (n - h) + 1 /\ 1 \in 1..h /\ (n - h) + 1 >= 1
          BY <2>2, <3>3, <4>2
        <5>2. log[1] = admitted[(n - h) + 1]
          BY <3>2, <5>1
        <5> QED BY <3>1, <5>1, <5>2
      <4> QED BY <4>1, <4>2
    <3>4. ASSUME NEW j \in 1..(h - 1), (n - (h - 1)) + j >= 1
          PROVE  log'[j] = admitted[(n - (h - 1)) + j]
      <4>1. j + 1 \in 1..h /\ (n - h) + (j + 1) = (n - (h - 1)) + j
        BY <2>2, <3>4
      <4>2. log[j + 1] = admitted[(n - h) + (j + 1)]
        BY <3>2, <3>4, <4>1
      <4> QED BY <2>2, <4>1, <4>2
    <3>5. LogHas(admitted, log', calls[c].now)
      BY <2>2, <3>3, <3>4 DEF LogHas, n, t
    <3>6. LogAccount(admitted, r, log')
      BY <2>1, <3>5 DEF LogAccount
    <3> QED BY <1>1, <1>2, <1>3, <2>1, <2>4, <3>6 DEF Account
  <2> QED BY <1>1, <1>5, <2>1, <2>3, <2>4, OwnStep
<1> QED BY <1>1, <1>4, <1>5

\* One more in the log, and those that a window's length can reach are in it.
LEMMA LogTakes ==
  ASSUME NEW a \in Seq(Nat), NEW t \in Nat, NEW lg \in Seq(Nat), NEW b,
         b = a \o [i \in 1..1 |-> t], LogHas(a, lg, t), Kept("sliding", a), Len(lg) < limit
  PROVE  LogHas(b, Append(lg, t), t) /\ Kept("sliding", b)
<1> DEFINE n == Len(a)
           h == Len(lg)
           lh == Append(lg, t)
<1>1. /\ n \in Nat /\ DOMAIN a = 1..n /\ DOMAIN b = 1..(n + 1) /\ Len(b) = n + 1
      /\ \A i \in DOMAIN b : b[i] = IF i <= n THEN a[i] ELSE t
  BY Admits
<1>g. Grown(a, b, 1, t)
  BY <1>1 DEF Grown
<1>2. /\ h \in Nat /\ Len(lh) = h + 1 /\ DOMAIN lh = 1..(h + 1) /\ DOMAIN lg = 1..h
      /\ (\A j \in 1..h : lh[j] = lg[j]) /\ lh[h + 1] = t
  <2>1. /\ h \in Nat /\ Len(lh) = h + 1 /\ DOMAIN lg = 1..h /\ lh \in Seq(Nat)
        /\ (\A j \in 1..h : lh[j] = lg[j]) /\ lh[h + 1] = t
    BY AppendProperties
  <2> HIDE DEF h, lh
  <2>2. DOMAIN lh = 1..(h + 1)
    BY <2>1, LenProperties
  <2> QED BY <2>1, <2>2
<1>3. limit \in Nat /\ window_size \in Nat \ {0} /\ (\A i \in 1..n : a[i] \in Nat) /\ h < limit
  BY RateAssumption
<1>4. /\ \A i \in 1..n : i <= n - h => a[i] <= t - window_size
      /\ \A j \in 1..h : (n - h) + j >= 1 => lg[j] = a[(n - h) + j]
  BY <1>1, <1>2 DEF LogHas
<1> HIDE DEF n, h, lh
<1>5. \A i \in DOMAIN b : i <= Len(b) - Len(lh) => b[i] <= t - window_size
  BY <1>1, <1>2, <1>4
<1>6. ASSUME NEW j \in DOMAIN lh, (Len(b) - Len(lh)) + j >= 1
      PROVE  lh[j] = b[(Len(b) - Len(lh)) + j]
  <2>1. Len(b) - Len(lh) = n - h
    BY <1>1, <1>2
  <2>2. CASE j <= h
    <3>1. j \in 1..h /\ (n - h) + j \in 1..n
      BY <1>1, <1>2, <1>6, <2>1, <2>2
    <3>2. lh[j] = lg[j] /\ lg[j] = a[(n - h) + j]
      BY <1>2, <1>4, <3>1
    <3>3. b[(n - h) + j] = a[(n - h) + j]
      BY <1>1, <3>1
    <3> QED BY <2>1, <3>2, <3>3
  <2>3. CASE ~(j <= h)
    <3>3. j \in 1..(h + 1) /\ h \in Nat /\ n \in Nat
      BY <1>1, <1>2
    <3>4. j = h + 1
      BY <2>3, <3>3
    <3>5. (n - h) + (h + 1) = n + 1
      BY <3>3
    <3>1. j = h + 1 /\ (n - h) + j = n + 1
      BY <3>4, <3>5
    <3>2. lh[j] = t /\ b[n + 1] = t
      BY <1>1, <1>2, <3>1
    <3> QED BY <2>1, <3>1, <3>2
  <2> QED BY <2>2, <2>3
<1>7. LogHas(b, lh, t)
  BY <1>5, <1>6 DEF LogHas
<1>8. ASSUME NEW i \in DOMAIN b, t - b[i] < window_size PROVE ((Len(a) + 1) - i) + 1 <= limit
  <2>1. b[i] \in Nat
    BY <1>1, <1>3
  <2>2. ~(i <= Len(b) - Len(lh))
    BY <1>3, <1>5, <1>8, <2>1
  <2> QED BY <1>1, <1>2, <1>3, <2>2 DEF n
<1>9. Kept("sliding", b)
  BY <1>g, <1>8, KeptOn
<1> QED BY <1>7, <1>9 DEF lh

LEMMA AppendStep ==
  ASSUME RateInv, NEW c \in Callers, AppendNow(c)
  PROVE  RateInv'
<1> DEFINE t == calls[c].now
<1>1. /\ calls[c].at = "appending" /\ log' = Append(log, t) /\ Returns(c, 1)
      /\ UNCHANGED <<level, stamp>> /\ CallOK(limiter, clock, calls[c])
      /\ log \in Seq(Nat) /\ admitted \in Seq(Nat) /\ t \in Nat /\ t <= clock /\ clock \in Nat
  BY DEF AppendNow, RateInv, SharedOK, CallOK
<1>2. limiter = "sliding"
  BY <1>1 DEF CallOK, Stages, RateInv
<1> HIDE DEF t
<1>3. log' \in Seq(Nat) /\ Len(log') = Len(log) + 1
  BY <1>1
<1>4. SharedOK(limiter, level', stamp', log', clock)
  BY <1>1, <1>3 DEF RateInv, SharedOK
<1>5. ASSUME ~crowded
      PROVE  /\ Settled(limiter, admitted', level', stamp', log', clock)
             /\ Kept(limiter, admitted')
  <2>1. Account(limiter, admitted, calls[c], level, stamp, log) /\ Kept(limiter, admitted)
    BY <1>1, <1>5 DEF RateInv, Quiet, Busy
  <2>2. admitted' = admitted \o [i \in 1..1 |-> t]
    BY <1>1, <1>5 DEF Returns, t
  <2>3. LogHas(admitted, log, t) /\ Len(log) < limit
    BY <1>1, <1>2, <2>1 DEF Account, LogAccount, t
  <2>4. LogHas(admitted', log', t) /\ Kept("sliding", admitted')
    BY <1>1, <1>2, <2>1, <2>2, <2>3, LogTakes
  <2>5. LogHas(admitted', log', clock)
    <3>1. \A i \in DOMAIN admitted' : admitted'[i] \in Nat
      <4> DEFINE b == admitted'
      <4>1. b = admitted \o [i \in 1..1 |-> t]
        BY <2>2
      <4> HIDE DEF b
      <4>2. /\ Len(admitted) \in Nat /\ DOMAIN admitted = 1..Len(admitted)
            /\ DOMAIN b = 1..(Len(admitted) + 1)
            /\ \A i \in DOMAIN b : b[i] = IF i <= Len(admitted) THEN admitted[i] ELSE t
        BY <1>1, <4>1, Admits
      <4>3. \A i \in DOMAIN b : b[i] \in Nat
        BY <1>1, <4>2
      <4> QED BY <4>3 DEF b
    <3>2. window_size \in Nat
      BY RateAssumption
    <3> QED BY <1>1, <2>4, <3>1, <3>2 DEF LogHas
  <2> QED BY <1>2, <2>4, <2>5 DEF Settled
<1> QED BY <1>1, <1>3, <1>4, <1>5, CallReturns

LEMMA TickStep ==
  ASSUME RateInv, ClockTicks
  PROVE  RateInv'
<1>1. /\ clock' = clock + 1 /\ clock \in Nat /\ admitted \in Seq(Nat) /\ window_size \in Nat
      /\ UNCHANGED <<limiter, level, stamp, log, calls, crowded, admitted>>
  BY RateAssumption DEF ClockTicks, RateInv, sharedVars
<1>2. SharedOK(limiter, level, stamp, log, clock + 1)
  BY <1>1 DEF RateInv, SharedOK
<1>3. \A c \in Callers : CallOK(limiter, clock + 1, calls[c])
  BY <1>1 DEF RateInv, CallOK
<1>4. \A i \in DOMAIN admitted : admitted[i] \in Nat /\ admitted[i] <= clock + 1
  BY <1>1 DEF RateInv
<1>5. Settled(limiter, admitted, level, stamp, log, clock)
        => Settled(limiter, admitted, level, stamp, log, clock + 1)
  <2>1. LogHas(admitted, log, clock) => LogHas(admitted, log, clock + 1)
    BY <1>1, <1>4 DEF LogHas
  <2> QED BY <2>1 DEF Settled
<1>6. Busy' = Busy
  BY <1>1 DEF Busy
<1>7. Quiet => Quiet'
  BY <1>1, <1>5, <1>6 DEF Quiet
<1> QED BY <1>1, <1>2, <1>3, <1>4, <1>6, <1>7 DEF RateInv, LogBound, Appending

LEMMA BeginStep ==
  ASSUME RateInv, NEW c \in Callers, BucketRequest(c) \/ BucketStatus(c) \/ WindowRequest(c)
  PROVE  RateInv'
<1>1. Weights \subseteq Nat
  BY RateAssumption
<1>2. Bucket => limiter \notin {"fixed", "sliding"}
  BY DEF Bucket
<1>3. CASE BucketRequest(c)
  <2>1. PICK w \in Weights : Begin(c, "request", w)
    BY <1>3 DEF BucketRequest
  <2> QED BY <1>1, <1>2, <1>3, <2>1, CallBegins DEF BucketRequest
<1>4. CASE BucketStatus(c)
  BY <1>2, <1>4, CallBegins DEF BucketStatus
<1>5. CASE WindowRequest(c)
  BY <1>5, CallBegins DEF WindowRequest
<1> QED BY <1>3, <1>4, <1>5

LEMMA RateStep ==
  ASSUME RateInv, [RateNext]_rateVars
  PROVE  RateInv'
<1>1. CASE UNCHANGED rateVars
  <2>1. UNCHANGED <<limiter, level, stamp, log, clock, calls, crowded, admitted>>
    BY <1>1 DEF rateVars, sharedVars
  <2>2. Busy' = Busy
    BY <2>1 DEF Busy
  <2>3. Quiet => Quiet'
    BY <2>1, <2>2 DEF Quiet
  <2> QED BY <2>1, <2>2, <2>3 DEF RateInv, LogBound, Appending
<1>2. ASSUME NEW c \in Callers, BucketCall(c)
      PROVE  RateInv'
  BY <1>2, BeginStep, ReadBucketStep, WriteLevelStep, WriteStampStep, DecideStep DEF BucketCall
<1>3. ASSUME NEW c \in Callers, WindowCall(c)
      PROVE  RateInv'
  BY <1>3, BeginStep, ReadWindowStep, ResetStep, CheckStep, LookStep, PopStep, AppendStep DEF WindowCall
<1> QED BY <1>1, <1>2, <1>3, LoadStep, StoreStep, TickStep DEF RateNext

LEMMA HeldByInv == ASSUME RateInv PROVE RateHeld
<1>1. RateKept
  <2>1. CASE crowded
    BY <2>1 DEF RateInv, RateKept
  <2>2. CASE ~crowded
    <3>1. Kept(limiter, admitted) /\ limiter \in {"token", "leaky", "fixed", "sliding"}
      BY <2>2 DEF RateInv, Quiet
    <3> SUFFICES ASSUME NEW i \in DOMAIN admitted, NEW j \in DOMAIN admitted, i <= j
                 PROVE  (j - i) + 1 <= Within(admitted[j] - admitted[i])
      BY DEF RateKept
    <3> DEFINE span == admitted[j] - admitted[i]
    <3>2. /\ limiter \in {"token", "leaky"} => (j - i) + 1 <= bucket_capacity + rate * span
          /\ limiter = "fixed" /\ span < window_size => (j - i) + 1 <= 2 * limit
          /\ limiter = "sliding" /\ span < window_size => (j - i) + 1 <= limit
      BY <3>1 DEF Kept
    <3>3. (j - i) + 1 <= Len(admitted)
      <4>1. Len(admitted) \in Nat /\ DOMAIN admitted = 1..Len(admitted)
        BY DEF RateInv
      <4> QED BY <4>1
    <3> HIDE DEF span
    <3>4. (j - i) + 1 <= Within(span)
      <4>1. CASE Bucket
        BY <3>2, <4>1 DEF Within, Bucket
      <4>2. CASE limiter = "fixed"
        BY <3>2, <3>3, <4>2 DEF Within, Bucket
      <4>3. CASE limiter = "sliding"
        BY <3>2, <3>3, <4>3 DEF Within, Bucket
      <4> QED BY <3>1, <4>1, <4>2, <4>3 DEF Bucket
    <3> QED BY <3>4 DEF span
  <2> QED BY <2>1, <2>2
<1>2. limiter = "token" => level <= bucket_capacity
  BY RateAssumption DEF RateInv, SharedOK, Owed
<1>3. limiter # "token" => level >= 0
  BY DEF RateInv, SharedOK, Owed
<1>4. Len(log) < limit + Cardinality(Callers)
  <2>1. IsFiniteSet(Appending(calls)) /\ IsFiniteSet(Callers)
    <3>1. Appending(calls) \subseteq Callers
      BY DEF Appending
    <3> QED BY <3>1, FS_Subset, RateAssumption
  <2>2. /\ Cardinality(Appending(calls)) \in Nat /\ Cardinality(Callers) \in Nat
        /\ Len(log) \in Nat /\ limit \in Nat
    BY <2>1, FS_CardinalityType, RateAssumption DEF RateInv, SharedOK
  <2> QED BY <2>2 DEF RateInv, LogBound
<1> QED BY <1>1, <1>2, <1>3, <1>4 DEF RateHeld

\* Between two meetings of calls no stretch of time lets through more than a bucketful
\* and the rate's share, the limit in any window's length of the log, or twice the limit
\* in the fixed window's; and meetings themselves, of any number of threads, leave no
\* level above the capacity and at most the limit and one for each other thread in the
\* log. For any capacity, rate, limit, window, weights and threads.
THEOREM RatesAreHeld == Spec => []RateHeld
<1>1. Init => RateInv
  BY RateInitInv DEF Init
<1>2. RateInv /\ [Next]_mcVars => RateInv'
  BY OneSystemSteps, RateStep
<1> QED BY <1>1, <1>2, HeldByInv, PTL DEF Spec

-----------------------------------------------------------------------------
(* The balancers that count connections: a request that holds the lock still    *)
(* has a best choice when it connects, unless a server changed or a connection  *)
(* closed meanwhile.                                                            *)

ConnTypeOK ==
  /\ choice \in {"least", "weighted", "two"}
  /\ up \in [Backends -> BOOLEAN]
  /\ active_connections \in [Backends -> Nat]
  /\ serving \in [Requests -> Backends \cup {NoBackend}]
  /\ stage \in [Requests -> {"new", "picked", "open", "released"}]
  /\ \A r \in Requests : stage[r] # "new" => serving[r] \in Backends
  /\ disturbed \in BOOLEAN

Picking == {r \in Requests : stage[r] = "picked"}

OneInLock == lock_held = Picking /\ \A q, r \in Picking : q = r

Open(s) == {r \in Requests : stage[r] = "open" /\ serving[r] = s}

OpenCounted ==
  \A s \in Backends : IsFiniteSet(Open(s)) /\ active_connections[s] = Cardinality(Open(s))

StillBest == Up = Backends /\ \A r \in Picking : serving[r] \in Candidates

Spread ==
  /\ choice = "least" =>
       \A s, t \in Backends : active_connections[s] <= active_connections[t] + 1
  /\ choice = "weighted" =>
       \A s, t \in Backends :
         active_connections[s] > 0 =>
           (active_connections[s] - 1) * capacity_weight[t]
             <= active_connections[t] * capacity_weight[s]
  /\ choice = "two" =>
       \A s \in Backends :
         active_connections[s] > 1 /\ Backends # {s} =>
           \E t \in Backends \ {s} : active_connections[t] >= active_connections[s] - 1

ConnInv ==
  /\ ConnTypeOK /\ OneInLock /\ OpenCounted
  /\ ~disturbed => StillBest /\ Spread

LEMMA ConnInitInv == ASSUME ConnInit PROVE ConnInv
<1>1. /\ choice \in {"least", "weighted", "two"} /\ lock_held = {} /\ disturbed = FALSE
      /\ up = [s \in Backends |-> TRUE] /\ active_connections = [s \in Backends |-> 0]
      /\ serving = [r \in Requests |-> NoBackend] /\ stage = [r \in Requests |-> "new"]
  BY DEF ConnInit
<1>2. ConnTypeOK
  BY <1>1 DEF ConnTypeOK
<1>3. Picking = {} /\ \A s \in Backends : Open(s) = {}
  BY <1>1 DEF Picking, Open
<1>4. OpenCounted
  <2>1. IsFiniteSet({}) /\ Cardinality({}) = 0
    BY FS_EmptySet
  <2> QED BY <1>1, <1>3, <2>1 DEF OpenCounted
<1>5. StillBest
  BY <1>1, <1>3 DEF StillBest, Up
<1>6. Spread
  BY <1>1, ConnectionAssumption DEF Spread
<1> QED BY <1>1, <1>2, <1>3, <1>4, <1>5, <1>6 DEF ConnInv, OneInLock

\* What a candidate is when every server is up.
LEMMA CandidateIs ==
  ASSUME ConnTypeOK, Up = Backends, NEW s \in Candidates
  PROVE  /\ s \in Backends
         /\ choice = "least" => \A t \in Backends : active_connections[s] <= active_connections[t]
         /\ choice = "weighted" =>
              \A t \in Backends : active_connections[s] * capacity_weight[t]
                                    <= active_connections[t] * capacity_weight[s]
         /\ choice = "two" /\ Backends # {s} =>
              \E t \in Backends \ {s} : active_connections[s] <= active_connections[t]
<1>1. CASE choice = "two" /\ Cardinality(Up) > 1
  BY <1>1 DEF Candidates, NoBusier
<1>2. CASE ~(choice = "two" /\ Cardinality(Up) > 1)
  <2>1. s \in Backends /\ \A t \in Backends : NoBusier(s, t)
    BY <1>2 DEF Candidates
  <2>2. Backends # {s} => \E t \in Backends \ {s} : TRUE
    BY <2>1
  <2> QED BY <2>1, <2>2 DEF NoBusier
<1> QED BY <1>1, <1>2

LEMMA PickServerStep ==
  ASSUME ConnInv, NEW r \in Requests, PickServer(r)
  PROVE  ConnInv'
<1>1. PICK s \in Candidates :
             /\ stage[r] = "new" /\ lock_held = {} /\ lock_held' = {r}
             /\ serving' = [serving EXCEPT ![r] = s] /\ stage' = [stage EXCEPT ![r] = "picked"]
             /\ UNCHANGED <<choice, up, active_connections, disturbed>>
  BY DEF PickServer
<1>2. s \in Backends /\ ConnTypeOK /\ Picking = {}
  BY <1>1 DEF Candidates, Up, ConnInv, OneInLock
<1>3. ConnTypeOK'
  BY <1>1, <1>2 DEF ConnTypeOK
<1>4. Picking' = {r} /\ serving'[r] = s
  BY <1>1, <1>2 DEF Picking, ConnTypeOK
<1>5. \A t \in Backends : Open(t)' = Open(t)
  BY <1>1, <1>2 DEF Open, ConnTypeOK
<1>6. OpenCounted'
  BY <1>1, <1>5 DEF ConnInv, OpenCounted
<1>7. Up' = Up /\ Candidates' = Candidates /\ (Spread' <=> Spread)
  BY <1>1 DEF Up, Candidates, NoBusier, Spread
<1> QED BY <1>1, <1>3, <1>4, <1>6, <1>7 DEF ConnInv, OneInLock, StillBest

LEMMA ConnectStep ==
  ASSUME ConnInv, NEW r \in Requests, Connect(r)
  PROVE  ConnInv'
<1>1. /\ stage[r] = "picked" /\ stage' = [stage EXCEPT ![r] = "open"]
      /\ lock_held' = lock_held \ {r} /\ UNCHANGED <<choice, up, serving, disturbed>>
  BY DEF Connect
<1> PICK s \in Backends : s = serving[r]
  BY <1>1 DEF ConnInv, ConnTypeOK
<1>2. active_connections' = [active_connections EXCEPT ![s] = @ + 1]
  BY DEF Connect
<1>3. ConnTypeOK /\ Picking = {r}
  BY <1>1 DEF ConnInv, OneInLock, Picking
<1>4. ConnTypeOK' /\ Picking' = {}
  BY <1>1, <1>2, <1>3 DEF ConnTypeOK, Picking
<1>5. OneInLock'
  BY <1>1, <1>3, <1>4 DEF ConnInv, OneInLock
<1>6. OpenCounted'
  <2> DEFINE V == Open(s)
             V1 == Open(s)'
  <2>1. V1 = V \cup {r} /\ r \notin V /\ \A t \in Backends \ {s} : Open(t)' = Open(t)
    BY <1>1, <1>3 DEF Open, ConnTypeOK
  <2>2. IsFiniteSet(V) /\ active_connections[s] = Cardinality(V)
    BY DEF ConnInv, OpenCounted
  <2>3. /\ active_connections'[s] = active_connections[s] + 1
        /\ \A t \in Backends \ {s} : active_connections'[t] = active_connections[t]
    BY <1>2, <1>3 DEF ConnTypeOK
  <2> HIDE DEF V, V1
  <2>4. IsFiniteSet(V1) /\ Cardinality(V1) = Cardinality(V) + 1
    BY <2>1, <2>2, FS_AddElement
  <2>5. IsFiniteSet(V1) /\ active_connections'[s] = Cardinality(V1)
    BY <2>2, <2>3, <2>4
  <2>6. ASSUME NEW t \in Backends
        PROVE  IsFiniteSet(Open(t)') /\ active_connections'[t] = Cardinality(Open(t)')
    <3>1. CASE t = s
      BY <2>5, <3>1 DEF V1
    <3>2. CASE t # s
      BY <2>1, <2>3, <3>2 DEF ConnInv, OpenCounted
    <3> QED BY <3>1, <3>2
  <2> QED BY <2>6 DEF OpenCounted
<1>7. ASSUME ~disturbed PROVE StillBest' /\ Spread'
  <2>1. Up = Backends /\ s \in Candidates /\ Spread
    BY <1>3, <1>7 DEF ConnInv, StillBest
  <2>2. StillBest'
    BY <1>1, <1>4, <2>1 DEF StillBest, Up
  <2>3. /\ \A t \in Backends : /\ active_connections[t] \in Nat /\ active_connections'[t] \in Nat
                               /\ capacity_weight[t] \in Nat \ {0}
        /\ active_connections'[s] = active_connections[s] + 1
        /\ \A t \in Backends \ {s} : active_connections'[t] = active_connections[t]
        /\ choice' = choice
    BY <1>1, <1>2, <1>3, <1>4, ConnectionAssumption DEF ConnTypeOK
  <2>4. ASSUME choice = "least", NEW u \in Backends, NEW t \in Backends
        PROVE  active_connections'[u] <= active_connections'[t] + 1
    <3>1. active_connections[s] <= active_connections[t] /\ active_connections[u] <= active_connections[t] + 1
      BY <1>3, <2>1, <2>4, CandidateIs DEF Spread
    <3> QED BY <2>3, <3>1
  <2>5. ASSUME choice = "weighted", NEW u \in Backends, NEW t \in Backends, active_connections'[u] > 0
        PROVE  (active_connections'[u] - 1) * capacity_weight[t]
                 <= active_connections'[t] * capacity_weight[u]
    <3>1. CASE u = s
      <4>1. active_connections[s] * capacity_weight[t] <= active_connections[t] * capacity_weight[s]
        BY <1>3, <2>1, <2>5, CandidateIs
      <4>2. active_connections[t] * capacity_weight[s] <= active_connections'[t] * capacity_weight[s]
        <5>1. CASE t = s
          <6>1. /\ active_connections[s] \in Nat /\ capacity_weight[s] \in Nat
                /\ active_connections'[s] = active_connections[s] + 1
            BY <2>3
          <6>2. (active_connections[s] + 1) * capacity_weight[s]
                  = active_connections[s] * capacity_weight[s] + capacity_weight[s]
            BY <6>1
          <6>3. active_connections[s] * capacity_weight[s] \in Int
            BY <6>1
          <6> QED BY <5>1, <6>1, <6>2, <6>3
        <5>2. CASE t # s
          <6>1. active_connections[t] * capacity_weight[s] \in Int
            BY <2>3
          <6> QED BY <2>3, <5>2, <6>1
        <5> QED BY <5>1, <5>2
      <4>3. active_connections'[u] - 1 = active_connections[s]
        BY <2>3, <3>1
      <4>4. /\ active_connections[s] * capacity_weight[t] \in Int
            /\ active_connections[t] * capacity_weight[s] \in Int
            /\ active_connections'[t] * capacity_weight[s] \in Int
        BY <2>3
      <4> QED BY <3>1, <4>1, <4>2, <4>3, <4>4
    <3>2. CASE u # s
      <4>1. (active_connections[u] - 1) * capacity_weight[t] <= active_connections[t] * capacity_weight[u]
        BY <2>1, <2>3, <2>5, <3>2 DEF Spread
      <4>2. active_connections[t] * capacity_weight[u] <= active_connections'[t] * capacity_weight[u]
        <5>1. CASE t = s
          <6>1. /\ active_connections[s] \in Nat /\ capacity_weight[u] \in Nat
                /\ active_connections'[s] = active_connections[s] + 1
            BY <2>3
          <6>2. (active_connections[s] + 1) * capacity_weight[u]
                  = active_connections[s] * capacity_weight[u] + capacity_weight[u]
            BY <6>1
          <6>3. active_connections[s] * capacity_weight[u] \in Int
            BY <6>1
          <6> QED BY <5>1, <6>1, <6>2, <6>3
        <5>2. CASE t # s
          <6>1. active_connections[t] * capacity_weight[u] \in Int
            BY <2>3
          <6> QED BY <2>3, <5>2, <6>1
        <5> QED BY <5>1, <5>2
      <4>3. /\ (active_connections[u] - 1) * capacity_weight[t] \in Int
            /\ active_connections[t] * capacity_weight[u] \in Int
            /\ active_connections'[t] * capacity_weight[u] \in Int
        BY <2>3
      <4> QED BY <2>3, <3>2, <4>1, <4>2, <4>3
    <3> QED BY <3>1, <3>2
  <2>6. ASSUME choice = "two", NEW u \in Backends, active_connections'[u] > 1, Backends # {u}
        PROVE  \E t \in Backends \ {u} : active_connections'[t] >= active_connections'[u] - 1
    <3>1. CASE u = s
      <4>1. PICK t \in Backends \ {s} : active_connections[s] <= active_connections[t]
        BY <1>3, <2>1, <2>6, <3>1, CandidateIs
      <4> QED BY <2>3, <3>1, <4>1
    <3>2. CASE u # s
      <4>1. PICK t \in Backends \ {u} : active_connections[t] >= active_connections[u] - 1
        BY <2>1, <2>3, <2>6, <3>2 DEF Spread
      <4>2. active_connections'[t] >= active_connections[t]
        BY <2>3, <4>1
      <4> QED BY <2>3, <3>2, <4>1, <4>2
    <3> QED BY <3>1, <3>2
  <2>7. Spread'
    BY <2>3, <2>4, <2>5, <2>6 DEF Spread
  <2> QED BY <2>2, <2>7
<1> QED BY <1>1, <1>4, <1>5, <1>6, <1>7 DEF ConnInv

LEMMA ReleaseStep ==
  ASSUME ConnInv, NEW r \in Requests, Release(r)
  PROVE  ConnInv'
<1>1. /\ stage[r] = "open" /\ stage' = [stage EXCEPT ![r] = "released"] /\ disturbed' = TRUE
      /\ UNCHANGED <<choice, up, lock_held, serving>>
  BY DEF Release
<1> PICK s \in Backends : s = serving[r]
  BY <1>1 DEF ConnInv, ConnTypeOK
<1>2. active_connections' = [active_connections EXCEPT ![s] = IF @ = 0 THEN 0 ELSE @ - 1]
  BY DEF Release
<1>3. ConnTypeOK
  BY DEF ConnInv
<1>4. ConnTypeOK' /\ Picking' = Picking
  <2>1. active_connections' \in [Backends -> Nat]
    BY <1>2, <1>3 DEF ConnTypeOK
  <2> QED BY <1>1, <1>3, <2>1 DEF ConnTypeOK, Picking
<1>5. OneInLock'
  BY <1>1, <1>4 DEF ConnInv, OneInLock
<1>6. OpenCounted'
  <2> DEFINE V == Open(s)
             V1 == Open(s)'
  <2>1. V1 = V \ {r} /\ r \in V /\ \A t \in Backends \ {s} : Open(t)' = Open(t)
    BY <1>1, <1>3 DEF Open, ConnTypeOK
  <2>2. IsFiniteSet(V) /\ active_connections[s] = Cardinality(V)
    BY DEF ConnInv, OpenCounted
  <2>3. /\ active_connections'[s] = IF active_connections[s] = 0 THEN 0 ELSE active_connections[s] - 1
        /\ \A t \in Backends \ {s} : active_connections'[t] = active_connections[t]
    BY <1>2, <1>3 DEF ConnTypeOK
  <2> HIDE DEF V, V1
  <2>4. IsFiniteSet(V1) /\ Cardinality(V1) = Cardinality(V) - 1
    BY <2>1, <2>2, FS_RemoveElement
  <2>5. Cardinality(V1) \in Nat /\ Cardinality(V) \in Nat
    BY <2>2, <2>4, FS_CardinalityType
  <2>6. IsFiniteSet(V1) /\ active_connections'[s] = Cardinality(V1)
    BY <2>2, <2>3, <2>4, <2>5
  <2>7. ASSUME NEW t \in Backends
        PROVE  IsFiniteSet(Open(t)') /\ active_connections'[t] = Cardinality(Open(t)')
    <3>1. CASE t = s
      BY <2>6, <3>1 DEF V1
    <3>2. CASE t # s
      BY <2>1, <2>3, <3>2 DEF ConnInv, OpenCounted
    <3> QED BY <3>1, <3>2
  <2> QED BY <2>7 DEF OpenCounted
<1> QED BY <1>1, <1>4, <1>5, <1>6 DEF ConnInv

LEMMA MarkUpStep ==
  ASSUME ConnInv, NEW s \in Backends, MarkUp(s)
  PROVE  ConnInv'
<1>1. /\ up' = [up EXCEPT ![s] = ~@] /\ disturbed' = TRUE
      /\ UNCHANGED <<choice, active_connections, lock_held, serving, stage>>
  BY DEF MarkUp
<1>2. ConnTypeOK'
  BY <1>1 DEF ConnInv, ConnTypeOK
<1> QED BY <1>1, <1>2 DEF ConnInv, OneInLock, Picking, OpenCounted, Open

LEMMA ConnStep ==
  ASSUME ConnInv, [ConnNext]_connVars
  PROVE  ConnInv'
<1>1. CASE UNCHANGED connVars
  <2>1. UNCHANGED <<choice, up, active_connections, lock_held, serving, stage, disturbed>>
    BY <1>1 DEF connVars
  <2>2. /\ Picking' = Picking /\ Up' = Up /\ Candidates' = Candidates
        /\ \A s : Open(s)' = Open(s)
    BY <2>1 DEF Picking, Up, Candidates, NoBusier, Open
  <2>3. OpenCounted' /\ ConnTypeOK' /\ OneInLock'
    BY <2>1, <2>2 DEF ConnInv, OpenCounted, ConnTypeOK, OneInLock
  <2>4. Spread' <=> Spread
    BY <2>1 DEF Spread
  <2> QED BY <2>1, <2>2, <2>3, <2>4 DEF ConnInv, StillBest
<1> QED BY <1>1, PickServerStep, ConnectStep, ReleaseStep, MarkUpStep DEF ConnNext, SimulateRequest

\* "A global lock prevents two concurrent requests from both seeing the same 'minimum'":
\* counts are those of the open connections, and while none has closed and no server
\* has changed no server is two connections ahead for its weight, for any servers,
\* weights and requests. LoadSpread is the second part of LoadShared.
THEOREM ConnectionsAreSpread == Spec => []LoadSpread
<1>1. Init => ConnInv
  BY ConnInitInv DEF Init
<1>2. ConnInv /\ [Next]_mcVars => ConnInv'
  BY OneSystemSteps, ConnStep
<1>3. ConnInv => LoadSpread
  <2>1. \A s \in Backends : OpenOn(s) = Cardinality(Open(s))
    BY DEF OpenOn, Open
  <2> QED BY <2>1 DEF ConnInv, ConnTypeOK, OpenCounted, Spread, LoadSpread
<1> QED BY <1>1, <1>2, <1>3, PTL DEF Spec

-----------------------------------------------------------------------------
(* The hash ring *)

\* A set of numbers has a least one, and Min is it.
LEMMA LeastOf ==
  ASSUME NEW P \in SUBSET Nat, P # {}
  PROVE  Min(P) \in P /\ \A m \in P : Min(P) <= m
<1> DEFINE R == OpToRel(<, Nat)
<1>1. PICK n \in P : \A m \in P : <<m, n>> \notin R
  <2>1. IsWellFoundedOn(R, Nat)
    BY NatLessThanWellFounded
  <2> HIDE DEF R
  <2> QED BY <2>1, WFMin
<1>2. \A m \in P : ~(m < n)
  <2>1. \A m \in P : <<m, n>> \in R <=> m < n
    BY DEF OpToRel
  <2> QED BY <1>1, <2>1
<1>3. \E x \in P : \A y \in P : x <= y
  BY <1>2
<1> QED BY <1>3 DEF Min

\* Whatever was registered and removed, the map has all positions of a server or none,
\* mapped to that server; they are on the list, which has those of a server that was
\* never registered twice once, or not at all.
RingInv ==
  /\ is_healthy \in [RingServers -> BOOLEAN]
  /\ ring \in [Positions -> Nat]
  /\ DOMAIN ring_map \subseteq OnRing
  /\ \A p \in DOMAIN ring_map :
       /\ ring_map[p] \in RingServers /\ p \in Vnode[ring_map[p]]
       /\ Vnode[ring_map[p]] \subseteq DOMAIN ring_map
  /\ \A s \in RingServers \ doubled : \A p \in Vnode[s] :
       ring[p] = IF p \in DOMAIN ring_map THEN 1 ELSE 0

\* The ring is empty at first.
LEMMA RingInitInv == ASSUME RingInit PROVE RingInv
BY DEF RingInit, RingInv, OnRing, Positions

\* A position of s that is in the map is mapped to s.
LEMMA MappedToOwn ==
  ASSUME RingInv, NEW s \in RingServers, NEW p \in Vnode[s], p \in DOMAIN ring_map
  PROVE  ring_map[p] = s
BY RingAssumption DEF RingInv

\* A server comes with all its virtual nodes.
LEMMA AddServerStep ==
  ASSUME RingInv, NEW s \in RingServers, AddServer(s)
  PROVE  RingInv'
<1> USE DEF AddServer
<1>1. Vnode[s] \subseteq Positions
  BY DEF Positions
<1>2. /\ is_healthy' \in [RingServers -> BOOLEAN]
      /\ ring' \in [Positions -> Nat]
  BY DEF RingInv
<1>3. /\ DOMAIN ring_map' = DOMAIN ring_map \cup Vnode[s]
      /\ \A p \in Vnode[s] : ring_map'[p] = s
      /\ \A p \in DOMAIN ring_map \ Vnode[s] : ring_map'[p] = ring_map[p]
  OBVIOUS
<1>4. DOMAIN ring_map' \subseteq OnRing'
  BY <1>1, <1>3 DEF RingInv, OnRing
<1>5. ASSUME NEW p \in DOMAIN ring_map'
      PROVE  /\ ring_map'[p] \in RingServers /\ p \in Vnode[ring_map'[p]]
             /\ Vnode[ring_map'[p]] \subseteq DOMAIN ring_map'
  BY <1>3 DEF RingInv
<1>6. ASSUME NEW t \in RingServers \ doubled', NEW p \in Vnode[t]
      PROVE  ring'[p] = IF p \in DOMAIN ring_map' THEN 1 ELSE 0
  <2>1. t \in RingServers \ doubled /\ p \in Positions
    BY DEF Positions
  <2>2. CASE t = s
    <3>1. s \notin Registered
      BY <2>2
    <3>2. p \notin DOMAIN ring_map
      BY <2>2, <3>1, MappedToOwn DEF Registered
    <3>3. ring[p] = 0
      BY <2>1, <3>2 DEF RingInv
    <3> QED BY <1>3, <2>1, <2>2, <3>3
  <2>3. CASE t # s
    <3>1. p \notin Vnode[s]
      BY <2>3, RingAssumption
    <3> QED BY <1>3, <2>1, <3>1 DEF RingInv
  <2> QED BY <2>2, <2>3
<1> QED BY <1>2, <1>4, <1>5, <1>6 DEF RingInv

\* A server leaves the map with all its virtual nodes.
LEMMA RemoveServerStep ==
  ASSUME RingInv, NEW s \in RingServers, RemoveServer(s)
  PROVE  RingInv'
<1> USE DEF RemoveServer
<1>1. /\ is_healthy' \in [RingServers -> BOOLEAN]
      /\ ring' \in [Positions -> Nat]
  BY DEF RingInv
<1>2. /\ DOMAIN ring_map' = DOMAIN ring_map \ Vnode[s]
      /\ \A p \in DOMAIN ring_map' : ring_map'[p] = ring_map[p]
  OBVIOUS
<1>3. DOMAIN ring_map' \subseteq OnRing'
  BY <1>2 DEF RingInv, OnRing
<1>4. ASSUME NEW p \in DOMAIN ring_map'
      PROVE  /\ ring_map'[p] \in RingServers /\ p \in Vnode[ring_map'[p]]
             /\ Vnode[ring_map'[p]] \subseteq DOMAIN ring_map'
  <2>1. ring_map[p] \in RingServers /\ p \in Vnode[ring_map[p]] /\ ring_map[p] # s
    BY <1>2 DEF RingInv
  <2>2. Vnode[ring_map[p]] \cap Vnode[s] = {}
    BY <2>1, RingAssumption
  <2> QED BY <1>2, <2>1, <2>2 DEF RingInv
<1>5. ASSUME NEW t \in RingServers \ doubled', NEW p \in Vnode[t]
      PROVE  ring'[p] = IF p \in DOMAIN ring_map' THEN 1 ELSE 0
  <2>1. t \in RingServers \ doubled /\ p \in Positions
        /\ ring[p] = IF p \in DOMAIN ring_map THEN 1 ELSE 0
    BY DEF Positions, RingInv
  <2>2. p \in Vnode[s] \/ p \notin Vnode[s]
    OBVIOUS
  <2> QED BY <1>2, <2>1, <2>2
<1> QED BY <1>1, <1>3, <1>4, <1>5 DEF RingInv

\* Nothing else changes the ring.
LEMMA RingStep == ASSUME RingInv, [HashNext]_ringVars PROVE RingInv'
<1>1. ASSUME NEW s \in RingServers, SetHealth(s) PROVE RingInv'
  BY <1>1 DEF RingInv, SetHealth, OnRing
<1>2. CASE UNCHANGED ringVars
  BY <1>2 DEF RingInv, OnRing, ringVars
<1> QED BY <1>1, <1>2, AddServerStep, RemoveServerStep DEF HashNext

\* Clockwise from pos, p comes no later than q.
NoLater(pos, p, q) ==
  /\ p > pos /\ q > pos => p <= q
  /\ p <= pos => q <= pos /\ p <= q

FirstFrom(pos, places) ==
  LET beyond == {p \in places : p > pos} IN Min(IF beyond = {} THEN places ELSE beyond)

\* The first place from a position is the first of those beyond it, or the first of all.
LEMMA FirstFromIs ==
  ASSUME NEW places \in SUBSET Nat, places # {}, NEW pos \in Nat
  PROVE  /\ FirstFrom(pos, places) \in places
         /\ \A q \in places : NoLater(pos, FirstFrom(pos, places), q)
<1> DEFINE beyond == {p \in places : p > pos}
<1>1. CASE beyond = {}
  <2>1. FirstFrom(pos, places) = Min(places)
    BY <1>1 DEF FirstFrom
  <2> QED BY <1>1, <2>1, LeastOf DEF NoLater
<1>2. CASE beyond # {}
  <2>1. FirstFrom(pos, places) = Min(beyond)
    BY <1>2 DEF FirstFrom
  <2>2. beyond \in SUBSET Nat
    OBVIOUS
  <2> QED BY <1>2, <2>1, <2>2, LeastOf DEF NoLater
<1> QED BY <1>1, <1>2

\* Places on the ring are numbers.
LEMMA PositionsAreNaturals == Positions \subseteq Nat
BY RingAssumption DEF Positions

\* Where the scan for a client ends.
LEMMA FirstStopIs ==
  ASSUME NEW c \in RingClients, Stops # {}
  PROVE  FirstStop(c) \in Stops /\ \A q \in Stops : NoLater(ClientPos[c], FirstStop(c), q)
<1>1. Stops \in SUBSET Nat /\ ClientPos[c] \in Nat
  BY PositionsAreNaturals, RingAssumption DEF Stops, OnRing
<1>2. FirstStop(c) = FirstFrom(ClientPos[c], Stops)
  BY DEF FirstStop, FirstFrom
<1> QED BY <1>1, <1>2, FirstFromIs

\* Whom a client that meets no spoiled position gets.
LEMMA ServerIs ==
  ASSUME RingInv, NEW c \in RingClients, ~Spoiled(c)
  PROVE  \/ Stops = {} /\ Serving = {} /\ GetServer(c) = NoServer
         \/ /\ Stops # {} /\ FirstStop(c) \in HealthyOn
            /\ GetServer(c) = ring_map[FirstStop(c)] /\ GetServer(c) \in Serving
<1>1. CASE Stops = {}
  <2>1. Serving = {}
    BY <1>1 DEF Serving, Registered, Stops, HealthyOn, RingInv
  <2> QED BY <1>1, <2>1 DEF GetServer
<1>2. CASE Stops # {}
  <2>1. FirstStop(c) \in HealthyOn
    BY <1>2 DEF Spoiled
  <2>2. GetServer(c) = ring_map[FirstStop(c)]
    BY <1>2, <2>1 DEF GetServer, Answer, HealthyOn
  <2> QED BY <1>2, <2>1, <2>2 DEF Serving, Registered, HealthyOn
<1> QED BY <1>1, <1>2

\* A server that serves does so at all its positions.
LEMMA ServesEverywhere ==
  ASSUME RingInv, NEW s \in Serving, NEW p \in Vnode[s]
  PROVE  p \in HealthyOn /\ p \in Stops /\ ring_map[p] = s
<1>1. PICK r \in DOMAIN ring_map : ring_map[r] = s
  BY DEF Serving, Registered
<1>2. p \in DOMAIN ring_map /\ s \in RingServers /\ is_healthy[s]
  BY <1>1 DEF RingInv, Serving
<1>3. ring_map[p] = s
  BY <1>2, MappedToOwn
<1> QED BY <1>2, <1>3 DEF HealthyOn, Stops, RingInv

\* The last three together, of one state.
LookupsKept ==
  /\ \A c \in RingClients :
       /\ Stops # {} => /\ FirstStop(c) \in Stops
                        /\ \A q \in Stops : NoLater(ClientPos[c], FirstStop(c), q)
       /\ ~Spoiled(c) =>
            \/ Stops = {} /\ Serving = {} /\ GetServer(c) = NoServer
            \/ /\ Stops # {} /\ FirstStop(c) \in HealthyOn
               /\ GetServer(c) = ring_map[FirstStop(c)] /\ GetServer(c) \in Serving
  /\ \A s \in Serving : \A p \in Vnode[s] : p \in HealthyOn /\ p \in Stops /\ ring_map[p] = s

LEMMA LookupsAre == ASSUME RingInv PROVE LookupsKept
BY FirstStopIs, ServerIs, ServesEverywhere DEF LookupsKept

\* A client moves only from a server that stops serving or to one that starts to.
LEMMA RingMoves ==
  ASSUME RingInv, LookupsKept, RingInv', LookupsKept',
         NEW c \in RingClients, ~Spoiled(c), ~Spoiled(c)'
  PROVE  \/ GetServer(c)' = GetServer(c)
         \/ GetServer(c) \in Serving \ Serving'
         \/ GetServer(c)' \in Serving' \ Serving
<1>1. \/ Stops = {} /\ Serving = {} /\ GetServer(c) = NoServer
      \/ /\ Stops # {} /\ FirstStop(c) \in HealthyOn
         /\ GetServer(c) = ring_map[FirstStop(c)] /\ GetServer(c) \in Serving
  BY DEF LookupsKept
<1>2. \/ Stops' = {} /\ Serving' = {} /\ GetServer(c)' = NoServer
      \/ /\ Stops' # {} /\ FirstStop(c)' \in HealthyOn'
         /\ GetServer(c)' = ring_map'[FirstStop(c)'] /\ GetServer(c)' \in Serving'
  BY DEF LookupsKept
<1>3. CASE Stops # {} /\ Stops' # {} /\ GetServer(c) \in Serving' /\ GetServer(c)' \in Serving
  <2> DEFINE p == FirstStop(c)
             q == FirstStop(c)'
             pos == ClientPos[c]
  <2>1. p \in Stops /\ \A r \in Stops : NoLater(pos, p, r)
    BY <1>3 DEF LookupsKept
  <2>2. q \in Stops' /\ \A r \in Stops' : NoLater(pos, q, r)
    BY <1>3 DEF LookupsKept
  <2>3. p \in Vnode[GetServer(c)] /\ q \in Vnode[GetServer(c)']
    BY <1>1, <1>2, <1>3 DEF HealthyOn, RingInv
  <2>4. p \in Stops' /\ ring_map'[p] = GetServer(c)
    <3>1. \A s \in Serving' : \A r \in Vnode[s] : r \in Stops' /\ ring_map'[r] = s
      BY DEF LookupsKept
    <3> QED BY <1>3, <2>3, <3>1
  <2>5. q \in Stops
    BY <1>3, <2>3 DEF LookupsKept
  <2>6. p \in Nat /\ q \in Nat /\ pos \in Nat
    BY <2>1, <2>5, PositionsAreNaturals, RingAssumption DEF Stops, OnRing
  <2>7. NoLater(pos, p, q) /\ NoLater(pos, q, p)
    BY <2>1, <2>2, <2>4, <2>5
  <2> HIDE DEF p, q, pos
  <2>8. p = q
    BY <2>6, <2>7 DEF NoLater
  <2> QED BY <1>2, <1>3, <2>4, <2>8 DEF q
<1> QED BY <1>1, <1>2, <1>3

\* While a server is up, every client whose scan is not spoiled has one that is.
LEMMA AllServed == ASSUME RingInv PROVE RingServes
<1> SUFFICES ASSUME NEW c \in RingClients
             PROVE  IF Spoiled(c) THEN \E s \in doubled : FirstStop(c) \in Vnode[s]
                    ELSE IF Serving = {} THEN GetServer(c) = NoServer ELSE GetServer(c) \in Serving
  BY DEF RingServes
<1>1. CASE Spoiled(c)
  <2> DEFINE p == FirstStop(c)
  <2>1. p \in Stops \ HealthyOn
    BY <1>1, FirstStopIs DEF Spoiled
  <2>2. PICK s \in RingServers : p \in Vnode[s]
    BY <2>1 DEF Stops, OnRing, Positions
  <2>3. ring[p] > 0 /\ ring[p] \in Nat /\ (p \in DOMAIN ring_map => ring[p] > 1)
    BY <2>1 DEF Stops, OnRing, RingInv
  <2>4. s \in doubled
    BY <2>2, <2>3 DEF RingInv
  <2> QED BY <1>1, <2>2, <2>4
<1>2. CASE ~Spoiled(c)
  BY <1>2, ServerIs
<1> QED BY <1>1, <1>2

\* A client keeps its server unless that server stops serving or the one it moves to
\* starts to, and everyone is served while a server is up, but for those whose scan ends
\* at a position left by a server registered twice: for any servers, virtual nodes and
\* clients of ConsistentHashLoadBalancer.
THEOREM ClientsStay == Spec => OnlyItsClientsMove
<1>1. Init => RingInv
  BY RingInitInv DEF Init
<1>2. RingInv /\ [Next]_mcVars => RingInv'
  BY OneSystemSteps, RingStep
<1>3. RingInv => RingServes /\ LookupsKept
  BY AllServed, LookupsAre
<1>4. RingInv /\ LookupsKept /\ RingInv' /\ LookupsKept' /\ RingServes' =>
        [/\ RingServes'
         /\ \A c \in RingClients :
              \/ Spoiled(c) \/ Spoiled(c)'
              \/ GetServer(c)' = GetServer(c)
              \/ GetServer(c) \in Serving \ Serving'
              \/ GetServer(c)' \in Serving' \ Serving]_ringVars
  BY RingMoves
<1> QED BY <1>1, <1>2, <1>3, <1>4, PTL DEF Spec, OnlyItsClientsMove

-----------------------------------------------------------------------------
(* Sums *)

SumOver(f, S) == FoldFunctionOnSet(+, 0, f, S)

AnyOf(T) == CHOOSE x \in T : TRUE
SumTable(f, S, g) ==
  [T \in SUBSET S |-> IF T = {} THEN 0 ELSE f[AnyOf(T)] + g[T \ {AnyOf(T)}]]

TableOf(f, S) == CHOOSE g : g = SumTable(f, S, g)

\* A sum is an entry of the table of the sums of all parts.
LEMMA SumUnfolds == \A f, S : SumOver(f, S) = TableOf(f, S)[S]
BY DEF SumOver, FoldFunctionOnSet, MapThenFoldSet, TableOf, SumTable, AnyOf

\* Among some parts of a finite set one has no other inside it.
LEMMA SmallestSet ==
  ASSUME NEW S, IsFiniteSet(S), NEW Bad \in SUBSET SUBSET S, Bad # {}
  PROVE  \E T \in Bad : \A U \in SUBSET T : U # T => U \notin Bad
<1> DEFINE Sizes == {Cardinality(T) : T \in Bad}
<1>1. \A T \in SUBSET S : IsFiniteSet(T) /\ Cardinality(T) \in Nat
  BY FS_Subset, FS_CardinalityType
<1>2. Min(Sizes) \in Sizes /\ \A m \in Sizes : Min(Sizes) <= m
  <2>1. Sizes \in SUBSET Nat /\ Sizes # {}
    BY <1>1
  <2> QED BY <2>1, LeastOf
<1>3. PICK T \in Bad : \A U \in Bad : Cardinality(T) <= Cardinality(U)
  BY <1>2
<1>4. ASSUME NEW U \in SUBSET T, U # T, U \in Bad PROVE FALSE
  <2>1. Cardinality(U) < Cardinality(T)
    BY <1>1, <1>4, FS_Subset
  <2> QED BY <1>1, <1>3, <1>4, <2>1
<1> QED BY <1>4

\* There is such a table: an entry takes only that of a smaller part.
LEMMA SumTableExists ==
  ASSUME NEW S, IsFiniteSet(S), NEW f
  PROVE  \E g : g = SumTable(f, S, g)
<1> DEFINE UpTo(n) == {T \in SUBSET S : Cardinality(T) <= n}
           Entry(g, T) == IF T = {} THEN 0 ELSE f[AnyOf(T)] + g[T \ {AnyOf(T)}]
           Bad == {n \in Nat : ~ \E g : g = [T \in UpTo(n) |-> Entry(g, T)]}
<1>1. \A T \in SUBSET S : IsFiniteSet(T) /\ Cardinality(T) \in Nat
  BY FS_Subset, FS_CardinalityType
<1>2. \A T \in SUBSET S : T # {} =>
        Cardinality(T \ {AnyOf(T)}) = Cardinality(T) - 1 /\ Cardinality(T) # 0
  <2> TAKE T \in SUBSET S
  <2>1. T # {} => AnyOf(T) \in T
    BY DEF AnyOf
  <2> QED BY <1>1, <2>1, FS_RemoveElement, FS_EmptySet
<1>3. Bad = {}
  <2> SUFFICES ASSUME Bad # {} PROVE FALSE
    OBVIOUS
  <2> DEFINE n == Min(Bad)
  <2>1. n \in Bad /\ \A m \in Bad : n <= m
    BY LeastOf
  <2>2. PICK h : n # 0 => h = [T \in UpTo(n - 1) |-> Entry(h, T)]
    <3>1. CASE n = 0
      BY <3>1
    <3>2. CASE n # 0
      <4>1. n - 1 \in Nat /\ ~ (n <= n - 1) /\ n \in Nat
        <5>1. n \in Nat
          BY <2>1
        <5> HIDE DEF n
        <5> QED BY <3>2, <5>1
      <4>2. n - 1 \notin Bad
        <5> HIDE DEF Bad, n
        <5> QED BY <2>1, <4>1
      <4> QED BY <4>1, <4>2
    <3> QED BY <3>1, <3>2
  <2> DEFINE g == [T \in UpTo(n) |-> Entry(h, T)]
  <2>3. \A T \in UpTo(n) : Entry(h, T) = Entry(g, T)
    <3> TAKE T \in UpTo(n)
    <3>1. CASE T = {}
      BY <3>1
    <3>2. CASE T # {}
      <4> DEFINE U == T \ {AnyOf(T)}
      <4>1. n # 0 /\ U \in UpTo(n - 1) /\ U \in UpTo(n)
        BY <1>1, <1>2, <2>1, <3>2
      <4>2. h[U] = Entry(h, U) /\ g[U] = Entry(h, U)
        <5> HIDE DEF Entry
        <5> QED BY <2>2, <4>1
      <4> QED BY <3>2, <4>2
    <3> QED BY <3>1, <3>2
  <2>4. g = [T \in UpTo(n) |-> Entry(g, T)]
    <3> HIDE DEF Entry
    <3> QED BY <2>3
  <2> HIDE DEF g, Entry
  <2> QED BY <2>1, <2>4
<1>4. Cardinality(S) \in Nat /\ UpTo(Cardinality(S)) = SUBSET S
  <2>1. \A T \in SUBSET S : Cardinality(T) <= Cardinality(S)
    BY FS_Subset
  <2> QED BY <1>1, <2>1
<1>5. \E g : g = [T \in UpTo(Cardinality(S)) |-> Entry(g, T)]
  <2> HIDE DEF Entry, UpTo
  <2> QED BY <1>3, <1>4
<1> QED BY <1>4, <1>5 DEF SumTable

\* The sum of a set is that of its parts, in whatever order they are taken.
LEMMA SumParts ==
  ASSUME NEW S, IsFiniteSet(S), NEW f, \A x \in S : f[x] \in Int
  PROVE  \A T \in SUBSET S :
           /\ SumOver(f, T) \in Int
           /\ T = {} => SumOver(f, T) = 0
           /\ \A x \in T : SumOver(f, T) = f[x] + SumOver(f, T \ {x})
<1>1. \A T \in SUBSET S : TableOf(f, T) = SumTable(f, T, TableOf(f, T)) /\ SumOver(f, T) = TableOf(f, T)[T]
  <2> TAKE T \in SUBSET S
  <2>1. IsFiniteSet(T)
    BY FS_Subset
  <2> QED BY <2>1, SumTableExists, SumUnfolds DEF TableOf
<1>2. \A T \in SUBSET S, U \in SUBSET S :
        U \in SUBSET T =>
          TableOf(f, T)[U] = IF U = {} THEN 0 ELSE f[AnyOf(U)] + TableOf(f, T)[U \ {AnyOf(U)}]
  <2> TAKE T \in SUBSET S, U \in SUBSET S
  <2> HAVE U \in SUBSET T
  <2> QED BY <1>1 DEF SumTable
<1>3. \A T \in SUBSET S, U \in SUBSET S : U \in SUBSET T => TableOf(f, T)[U] = SumOver(f, U)
  <2> SUFFICES ASSUME NEW T \in SUBSET S PROVE \A U \in SUBSET T : TableOf(f, T)[U] = SumOver(f, U)
    OBVIOUS
  <2> DEFINE BadPairs == {U \in SUBSET T : \E V \in SUBSET T : U \in SUBSET V /\ TableOf(f, V)[U] # TableOf(f, T)[U]}
  <2>1. BadPairs = {}
    <3> SUFFICES ASSUME BadPairs # {} PROVE FALSE
      OBVIOUS
    <3>0. IsFiniteSet(T)
      BY FS_Subset
    <3>9. BadPairs \in SUBSET SUBSET T
      OBVIOUS
    <3>1. PICK U \in BadPairs : \A W \in SUBSET U : W # U => W \notin BadPairs
      <4> HIDE DEF BadPairs
      <4> QED BY <3>0, <3>9, SmallestSet
    <3>2. PICK V \in SUBSET T : U \in SUBSET V /\ TableOf(f, V)[U] # TableOf(f, T)[U]
      OBVIOUS
    <3>3. U # {}
      <4> QED BY <1>2, <3>2
    <3>4. U \ {AnyOf(U)} # U
      BY <3>3 DEF AnyOf
    <3>5. TableOf(f, V)[U \ {AnyOf(U)}] = TableOf(f, T)[U \ {AnyOf(U)}]
      <4> QED BY <3>1, <3>2, <3>4
    <3> QED BY <1>2, <3>2, <3>3, <3>5
  <2> QED BY <1>1, <2>1
<1>4. \A T \in SUBSET S :
        SumOver(f, T) = IF T = {} THEN 0 ELSE f[AnyOf(T)] + SumOver(f, T \ {AnyOf(T)})
  <2> TAKE T \in SUBSET S
  <2>1. TableOf(f, T)[T] = SumOver(f, T) /\ TableOf(f, T)[T \ {AnyOf(T)}] = SumOver(f, T \ {AnyOf(T)})
    BY <1>3
  <2> QED BY <1>2, <2>1
<1>5. /\ SumOver(f, {}) = 0
      /\ \A T \in SUBSET S : T # {} =>
           AnyOf(T) \in T /\ SumOver(f, T) = f[AnyOf(T)] + SumOver(f, T \ {AnyOf(T)})
  BY <1>4 DEF AnyOf
<1>6. \A T \in SUBSET S : SumOver(f, T) \in Int
  <2> DEFINE Bad == {T \in SUBSET S : SumOver(f, T) \notin Int}
  <2> SUFFICES ASSUME Bad # {} PROVE FALSE
    OBVIOUS
  <2>0. Bad \in SUBSET SUBSET S
    OBVIOUS
  <2>1. PICK T \in Bad : \A U \in SUBSET T : U # T => U \notin Bad
    <3> HIDE DEF Bad
    <3> QED BY <2>0, SmallestSet
  <2>2. T # {}
    <3>1. 0 \in Int
      OBVIOUS
    <3>2. SumOver(f, {}) \in Int
      BY <1>5, <3>1, Zenon
    <3> QED BY <3>2
  <2>3. SumOver(f, T \ {AnyOf(T)}) \in Int
    BY <1>5, <2>1, <2>2
  <2> QED BY <1>5, <2>2, <2>3
<1>7. \A T \in SUBSET S : \A x \in T : SumOver(f, T) = f[x] + SumOver(f, T \ {x})
  <2> DEFINE Bad == {T \in SUBSET S : \E x \in T : SumOver(f, T) # f[x] + SumOver(f, T \ {x})}
  <2> SUFFICES ASSUME Bad # {} PROVE FALSE
    OBVIOUS
  <2>0. Bad \in SUBSET SUBSET S
    OBVIOUS
  <2>1. PICK T \in Bad : \A U \in SUBSET T : U # T => U \notin Bad
    <3> HIDE DEF Bad
    <3> QED BY <2>0, SmallestSet
  <2>2. PICK x \in T : SumOver(f, T) # f[x] + SumOver(f, T \ {x})
    OBVIOUS
  <2> DEFINE c == AnyOf(T)
  <2>3. c \in T /\ SumOver(f, T) = f[c] + SumOver(f, T \ {c}) /\ c # x
    BY <1>5, <2>2
  <2>4. SumOver(f, T \ {c}) = f[x] + SumOver(f, (T \ {c}) \ {x})
    <3>1. T \ {c} \notin Bad /\ x \in T \ {c} /\ T \ {c} \in SUBSET S
      BY <2>1, <2>3
    <3> QED BY <3>1
  <2>5. SumOver(f, T \ {x}) = f[c] + SumOver(f, (T \ {x}) \ {c})
    <3>1. T \ {x} \notin Bad /\ c \in T \ {x} /\ T \ {x} \in SUBSET S
      BY <2>1, <2>2, <2>3
    <3> QED BY <3>1
  <2>6. (T \ {c}) \ {x} = (T \ {x}) \ {c}
    OBVIOUS
  <2> DEFINE r == SumOver(f, (T \ {x}) \ {c})
  <2>7. r \in Int /\ f[c] \in Int /\ f[x] \in Int
    <3>1. (T \ {x}) \ {c} \in SUBSET S
      OBVIOUS
    <3> QED BY <1>6, <2>3, <3>1
  <2>8. f[c] + (f[x] + r) = f[x] + (f[c] + r)
    <3> HIDE DEF r, c
    <3> QED BY <2>7
  <2> QED BY <2>2, <2>3, <2>4, <2>5, <2>6, <2>8
<1> QED BY <1>5, <1>6, <1>7

\* The sum of what is not negative is not, and no part is above it.
LEMMA SumSigns ==
  ASSUME NEW S, IsFiniteSet(S), NEW f, \A x \in S : f[x] \in Int
  PROVE  /\ SumOver(f, S) \in Int
         /\ (\A x \in S : f[x] >= 0) => SumOver(f, S) >= 0 /\ \A x \in S : f[x] <= SumOver(f, S)
         /\ (\A x \in S : f[x] <= 0) => SumOver(f, S) <= 0
<1>0. \A T \in SUBSET S :
        /\ SumOver(f, T) \in Int
        /\ T = {} => SumOver(f, T) = 0
        /\ \A x \in T : SumOver(f, T) = f[x] + SumOver(f, T \ {x})
  BY SumParts
<1>1. ASSUME \A x \in S : f[x] >= 0 PROVE \A T \in SUBSET S : SumOver(f, T) >= 0
  <2> DEFINE Bad == {T \in SUBSET S : ~ SumOver(f, T) >= 0}
  <2> SUFFICES ASSUME Bad # {} PROVE FALSE
    OBVIOUS
  <2>1. Bad \in SUBSET SUBSET S
    OBVIOUS
  <2>2. PICK T \in Bad : \A U \in SUBSET T : U # T => U \notin Bad
    <3> HIDE DEF Bad
    <3> QED BY <2>1, SmallestSet
  <2>3. PICK x \in T : SumOver(f, T) = f[x] + SumOver(f, T \ {x})
    <3>1. T # {}
      BY <1>0
    <3> QED BY <1>0, <3>1
  <2>4. SumOver(f, T \ {x}) >= 0 /\ SumOver(f, T \ {x}) \in Int
    BY <1>0, <2>2
  <2>5. f[x] \in Int /\ f[x] >= 0
    BY <1>1
  <2> QED BY <2>3, <2>4, <2>5
<1>2. ASSUME \A x \in S : f[x] <= 0 PROVE \A T \in SUBSET S : SumOver(f, T) <= 0
  <2> DEFINE Bad == {T \in SUBSET S : ~ SumOver(f, T) <= 0}
  <2> SUFFICES ASSUME Bad # {} PROVE FALSE
    OBVIOUS
  <2>1. Bad \in SUBSET SUBSET S
    OBVIOUS
  <2>2. PICK T \in Bad : \A U \in SUBSET T : U # T => U \notin Bad
    <3> HIDE DEF Bad
    <3> QED BY <2>1, SmallestSet
  <2>3. PICK x \in T : SumOver(f, T) = f[x] + SumOver(f, T \ {x})
    <3>1. T # {}
      BY <1>0
    <3> QED BY <1>0, <3>1
  <2>4. SumOver(f, T \ {x}) <= 0 /\ SumOver(f, T \ {x}) \in Int
    BY <1>0, <2>2
  <2>5. f[x] \in Int /\ f[x] <= 0
    BY <1>2
  <2> QED BY <2>3, <2>4, <2>5
<1>3. ASSUME \A x \in S : f[x] >= 0, NEW x \in S PROVE f[x] <= SumOver(f, S)
  <2>1. SumOver(f, S) = f[x] + SumOver(f, S \ {x}) /\ SumOver(f, S \ {x}) \in Int
    BY <1>0
  <2>2. SumOver(f, S \ {x}) >= 0
    BY <1>1, <1>3
  <2> QED BY <2>1, <2>2
<1> QED BY <1>0, <1>1, <1>2, <1>3

\* Added to some, the sum changes by what was added.
LEMMA SumChanges ==
  ASSUME NEW S, IsFiniteSet(S), NEW T \in SUBSET S, NEW f, NEW g, NEW h,
         \A x \in S : f[x] \in Int /\ g[x] \in Int /\ h[x] = f[x] + IF x \in T THEN g[x] ELSE 0
  PROVE  SumOver(h, S) = SumOver(f, S) + SumOver(g, T)
<1>0. \A x \in S : h[x] \in Int
  OBVIOUS
<1>1. \A U \in SUBSET S :
        /\ SumOver(f, U) \in Int /\ SumOver(g, U) \in Int /\ SumOver(h, U) \in Int
        /\ U = {} => SumOver(f, U) = 0 /\ SumOver(g, U) = 0 /\ SumOver(h, U) = 0
        /\ \A x \in U : /\ SumOver(f, U) = f[x] + SumOver(f, U \ {x})
                        /\ SumOver(g, U) = g[x] + SumOver(g, U \ {x})
                        /\ SumOver(h, U) = h[x] + SumOver(h, U \ {x})
  <2>1. (\A x \in S : f[x] \in Int) /\ (\A x \in S : g[x] \in Int)
    OBVIOUS
  <2>2. \A U \in SUBSET S :
          /\ SumOver(f, U) \in Int /\ (U = {} => SumOver(f, U) = 0)
          /\ \A x \in U : SumOver(f, U) = f[x] + SumOver(f, U \ {x})
    BY <2>1, SumParts
  <2>3. \A U \in SUBSET S :
          /\ SumOver(g, U) \in Int /\ (U = {} => SumOver(g, U) = 0)
          /\ \A x \in U : SumOver(g, U) = g[x] + SumOver(g, U \ {x})
    BY <2>1, SumParts
  <2>4. \A U \in SUBSET S :
          /\ SumOver(h, U) \in Int /\ (U = {} => SumOver(h, U) = 0)
          /\ \A x \in U : SumOver(h, U) = h[x] + SumOver(h, U \ {x})
    BY <1>0, SumParts
  <2> QED BY <2>2, <2>3, <2>4
<1> DEFINE Bad == {U \in SUBSET S : SumOver(h, U) # SumOver(f, U) + SumOver(g, U \cap T)}
<1>2. Bad = {}
  <2> SUFFICES ASSUME Bad # {} PROVE FALSE
    OBVIOUS
  <2>1. Bad \in SUBSET SUBSET S
    OBVIOUS
  <2>2. PICK U \in Bad : \A V \in SUBSET U : V # U => V \notin Bad
    <3> HIDE DEF Bad
    <3> QED BY <2>1, SmallestSet
  <2>3. U # {}
    <3> SUFFICES ASSUME U = {} PROVE FALSE
      OBVIOUS
    <3>1. U \cap T = U
      OBVIOUS
    <3>2. SumOver(f, U) = 0 /\ SumOver(g, U) = 0 /\ SumOver(h, U) = 0
      BY <1>1
    <3> QED BY <3>1, <3>2
  <2>4. PICK x : x \in U
    BY <2>3
  <2> DEFINE V == U \ {x}
  <2>5. /\ SumOver(h, V) = SumOver(f, V) + SumOver(g, V \cap T)
        /\ V \in SUBSET S /\ V \cap T \in SUBSET S /\ U \cap T \in SUBSET S /\ x \in S
    <3>1. V \notin Bad
      BY <2>2, <2>4
    <3> QED BY <3>1
  <2>6. /\ SumOver(f, U) = f[x] + SumOver(f, V) /\ SumOver(h, U) = h[x] + SumOver(h, V)
        /\ SumOver(f, V) \in Int /\ SumOver(g, V \cap T) \in Int
    BY <1>1, <2>4, <2>5
  <2>7. f[x] \in Int /\ g[x] \in Int /\ h[x] = f[x] + IF x \in T THEN g[x] ELSE 0
    BY <2>5
  <2>8. SumOver(g, U \cap T) = (IF x \in T THEN g[x] ELSE 0) + SumOver(g, V \cap T)
    <3>1. CASE x \in T
      <4>1. x \in U \cap T /\ (U \cap T) \ {x} = V \cap T
        BY <2>4, <3>1
      <4>2. SumOver(g, U \cap T) = g[x] + SumOver(g, (U \cap T) \ {x})
        BY <1>1, <2>5, <4>1
      <4> HIDE DEF V
      <4> QED BY <3>1, <4>1, <4>2
    <3>2. CASE x \notin T
      <4>1. U \cap T = V \cap T
        BY <3>2
      <4> HIDE DEF V
      <4>2. SumOver(g, V \cap T) = 0 + SumOver(g, V \cap T)
        BY <2>6
      <4> QED BY <3>2, <4>1, <4>2
    <3> QED BY <3>1, <3>2
  <2>9. SumOver(h, U) = SumOver(f, U) + SumOver(g, U \cap T)
    <3> HIDE DEF V
    <3> QED BY <2>5, <2>6, <2>7, <2>8
  <2> QED BY <2>9
<1>3. S \cap T = T /\ S \in SUBSET S
  OBVIOUS
<1> QED BY <1>2, <1>3

\* Added to one, the sum changes by as much.
LEMMA SumOneMore ==
  ASSUME NEW S, IsFiniteSet(S), NEW f \in [S -> Int], NEW s \in S, NEW d \in Int
  PROVE  SumOver([f EXCEPT ![s] = @ + d], S) = SumOver(f, S) + d
<1> DEFINE g == [x \in S |-> d]
           h == [f EXCEPT ![s] = @ + d]
<1>1. \A x \in S : f[x] \in Int /\ g[x] \in Int /\ h[x] = f[x] + IF x \in {s} THEN g[x] ELSE 0
  OBVIOUS
<1>2. SumOver(h, S) = SumOver(f, S) + SumOver(g, {s})
  <2> HIDE DEF g, h
  <2> QED BY <1>1, SumChanges
<1>3. SumOver(g, {s}) = d
  <2>1. \A x \in S : g[x] \in Int
    OBVIOUS
  <2>2. {s} \in SUBSET S /\ {} \in SUBSET S /\ {s} \ {s} = {} /\ s \in {s}
    OBVIOUS
  <2>3. SumOver(g, {s}) = g[s] + SumOver(g, {}) /\ SumOver(g, {}) = 0
    <3> HIDE DEF g
    <3>1. SumOver(g, {}) = 0
      BY <2>1, <2>2, SumParts
    <3>2. SumOver(g, {s}) = g[s] + SumOver(g, {s} \ {s})
      BY <2>1, <2>2, SumParts
    <3> QED BY <2>2, <3>1, <3>2
  <2>4. g[s] = d
    OBVIOUS
  <2> HIDE DEF g
  <2> QED BY <2>3, <2>4
<1> QED BY <1>2, <1>3
-----------------------------------------------------------------------------
(* The rotations: what was picked since the pool last changed is a stretch of *)
(* the row repeated without end, and what the smooth weights show is what     *)
(* every server is owed.                                                      *)

\* Adding up to n, a remainder goes round.
LEMMA GoesRound ==
  ASSUME NEW n \in Nat \ {0}
  PROVE  /\ \A k \in Nat : k % n \in 0..n - 1
         /\ \A k \in 0..n - 1 : k % n = k
         /\ \A k \in Nat : (k % n) % n = k % n
         /\ \A k \in Nat, d \in 0..n - 1 :
              (k + d) % n = IF (k % n) + d < n THEN (k % n) + d ELSE (k % n) + d - n
<1>1. \A k \in Nat : k % n \in 0..n - 1 /\ (k \div n) \in Nat /\ k = (k \div n) * n + (k % n)
  OBVIOUS
<1>2. \A q \in Nat, p \in Nat, a, b \in 0..n - 1 : q * n + a = p * n + b => a = b
  <2> TAKE q \in Nat, p \in Nat, a, b \in 0..n - 1
  <2> HAVE q * n + a = p * n + b
  <2>1. CASE q = p
    BY <2>1
  <2>2. CASE q < p
    <3>1. (p - q) * n = a - b /\ p - q >= 1
      BY <2>2
    <3>2. (p - q) * n >= n
      BY <3>1, <2>2
    <3> QED BY <3>1, <3>2
  <2>3. CASE p < q
    <3>1. (q - p) * n = b - a /\ q - p >= 1
      BY <2>3
    <3>2. (q - p) * n >= n
      BY <3>1, <2>3
    <3> QED BY <3>1, <3>2
  <2> QED BY <2>1, <2>2, <2>3
<1>3. \A q \in Nat, a \in 0..n - 1 : (q * n + a) % n = a
  <2> TAKE q \in Nat, a \in 0..n - 1
  <2>1. q * n + a \in Nat
    OBVIOUS
  <2> DEFINE k == q * n + a
  <2>2. k = (k \div n) * n + (k % n) /\ (k \div n) \in Nat /\ k % n \in 0..n - 1
    BY <1>1, <2>1
  <2> QED BY <1>2, <2>2
<1>4. \A k \in 0..n - 1 : k % n = k
  OBVIOUS
<1>5. ASSUME NEW k \in Nat, NEW d \in 0..n - 1
      PROVE  (k + d) % n = IF (k % n) + d < n THEN (k % n) + d ELSE (k % n) + d - n
  <2> DEFINE q == k \div n
             r == k % n
  <2>1. q \in Nat /\ r \in 0..n - 1 /\ k = q * n + r /\ q * n \in Nat
    BY <1>1
  <2> HIDE DEF q, r
  <2>2. CASE r + d < n
    <3>1. r + d \in 0..n - 1 /\ k + d = q * n + (r + d)
      BY <2>1, <2>2
    <3>2. (q * n + (r + d)) % n = r + d
      BY <1>3, <2>1, <3>1
    <3> QED BY <2>2, <3>1, <3>2 DEF r
  <2>3. CASE ~(r + d < n)
    <3>1. r + d - n \in 0..n - 1 /\ (q + 1) * n = q * n + n /\ q + 1 \in Nat
      BY <2>1, <2>3
    <3>2. ((q + 1) * n + (r + d - n)) % n = r + d - n
      BY <1>3, <3>1
    <3>3. k + d = (q + 1) * n + (r + d - n)
      BY <2>1, <3>1
    <3> QED BY <2>3, <3>2, <3>3 DEF r
  <2> QED BY <2>2, <2>3
<1> QED BY <1>1, <1>4, <1>5

\* From among a list come members of it only.
LEMMA OnlyIs ==
  ASSUME NEW list \in Seq(Servers), NEW S
  PROVE  /\ Only(list, S) \in Seq(Servers)
         /\ \A n \in DOMAIN Only(list, S) : \E k \in DOMAIN list : Only(list, S)[n] = list[k]
<1> DEFINE upTo(k) == Cardinality({i \in 1..k : list[i] \in S})
           At(n) == {k \in DOMAIN list : n <= upTo(k)}
<1>1. Len(list) \in Nat /\ DOMAIN list = 1..Len(list)
  OBVIOUS
<1>2. \A k \in 0..Len(list) : upTo(k) \in Nat
  <2> TAKE k \in 0..Len(list)
  <2> DEFINE T == {i \in 1..k : list[i] \in S}
  <2>1. IsFiniteSet(1..k) /\ T \in SUBSET (1..k)
    BY FS_Interval
  <2> HIDE DEF T
  <2>2. IsFiniteSet(T)
    BY <2>1, FS_Subset
  <2> QED BY <2>2, FS_CardinalityType DEF T
<1>3. upTo(0) = 0
  <2>1. {i \in 1..0 : list[i] \in S} = {}
    OBVIOUS
  <2> QED BY <2>1, FS_EmptySet
<1> HIDE DEF upTo
<1>4. \A n \in 1..upTo(Len(list)) : Min(At(n)) \in DOMAIN list
  <2> TAKE n \in 1..upTo(Len(list))
  <2>1. At(n) \in SUBSET Nat
    BY <1>1
  <2>2. Len(list) \in At(n)
    <3>1. Len(list) # 0 /\ upTo(Len(list)) \in Nat
      BY <1>1, <1>2, <1>3
    <3> QED BY <1>1, <3>1
  <2>3. Min(At(n)) \in At(n)
    <3> HIDE DEF At
    <3> QED BY <2>1, <2>2, LeastOf
  <2> QED BY <2>3
<1> DEFINE r == [n \in 1..upTo(Len(list)) |-> list[Min(At(n))]]
<1>5. Only(list, S) = r
  BY DEF Only, upTo
<1>6. upTo(Len(list)) \in Nat
  BY <1>1, <1>2
<1> HIDE DEF At
<1>7. r \in Seq(Servers) /\ DOMAIN r = 1..upTo(Len(list)) /\ \A n \in DOMAIN r : r[n] = list[Min(At(n))]
  <2>1. \A n \in 1..upTo(Len(list)) : list[Min(At(n))] \in Servers
    BY <1>1, <1>4
  <2> QED BY <1>6, <2>1
<1> HIDE DEF r
<1> QED BY <1>4, <1>5, <1>7

\* How often s is among the first n of a list.
CountTo(q, n, s) == Cardinality({i \in 1..n : q[i] = s})

LEMMA CountGrows ==
  ASSUME NEW q, NEW s, NEW n \in Nat
  PROVE  /\ CountTo(q, n, s) \in Nat
         /\ CountTo(q, 0, s) = 0
         /\ CountTo(q, n + 1, s) = CountTo(q, n, s) + IF q[n + 1] = s THEN 1 ELSE 0
<1> DEFINE A == {i \in 1..n : q[i] = s}
           B == {i \in 1..n + 1 : q[i] = s}
<1>1. IsFiniteSet(A) /\ Cardinality(A) \in Nat
  <2>1. IsFiniteSet(1..n) /\ A \in SUBSET (1..n)
    BY FS_Interval
  <2> HIDE DEF A
  <2> QED BY <2>1, FS_Subset, FS_CardinalityType
<1>2. CountTo(q, 0, s) = 0
  <2>1. {i \in 1..0 : q[i] = s} = {}
    OBVIOUS
  <2> QED BY <2>1, FS_EmptySet DEF CountTo
<1>3. Cardinality(B) = Cardinality(A) + IF q[n + 1] = s THEN 1 ELSE 0
  <2>1. 1..n + 1 = (1..n) \cup {n + 1} /\ n + 1 \notin 1..n
    OBVIOUS
  <2>2. CASE q[n + 1] = s
    <3>1. B = A \cup {n + 1} /\ n + 1 \notin A
      BY <2>1, <2>2
    <3> HIDE DEF A, B
    <3> QED BY <1>1, <2>2, <3>1, FS_AddElement
  <2>3. CASE q[n + 1] # s
    <3>1. B = A
      BY <2>1, <2>3
    <3> HIDE DEF A, B
    <3> QED BY <1>1, <2>3, <3>1
  <2> QED BY <2>2, <2>3
<1> QED BY <1>1, <1>2, <1>3 DEF CountTo

\* In a sequence, and in one with some more at its end.
LEMMA TimesIs ==
  ASSUME NEW q \in Seq(Servers), NEW s
  PROVE  /\ Times(q, s) = CountTo(q, Len(q), s) /\ Times(q, s) \in Nat
         /\ q = <<>> => Times(q, s) = 0
         /\ (\A i \in DOMAIN q : q[i] # s) => Times(q, s) = 0
         /\ \A x \in Servers : Times(Append(q, x), s) = Times(q, s) + IF x = s THEN 1 ELSE 0
         /\ \A r : (\A i \in 1..Len(q) : r[i] = q[i]) => CountTo(r, Len(q), s) = Times(q, s)
<1>1. Len(q) \in Nat /\ DOMAIN q = 1..Len(q)
  OBVIOUS
<1>2. Times(q, s) = CountTo(q, Len(q), s)
  BY <1>1 DEF Times, CountTo
<1>3. Times(q, s) \in Nat
  BY <1>1, <1>2, CountGrows
<1>4. (\A i \in DOMAIN q : q[i] # s) => Times(q, s) = 0
  <2> SUFFICES ASSUME \A i \in DOMAIN q : q[i] # s PROVE Times(q, s) = 0
    OBVIOUS
  <2>1. {i \in DOMAIN q : q[i] = s} = {}
    OBVIOUS
  <2> QED BY <2>1, FS_EmptySet DEF Times
<1>5. \A r : (\A i \in 1..Len(q) : r[i] = q[i]) => CountTo(r, Len(q), s) = Times(q, s)
  <2> TAKE r
  <2> HAVE \A i \in 1..Len(q) : r[i] = q[i]
  <2>1. {i \in 1..Len(q) : r[i] = s} = {i \in DOMAIN q : q[i] = s}
    BY <1>1
  <2> QED BY <2>1 DEF Times, CountTo
<1>6. ASSUME NEW x \in Servers
      PROVE  Times(Append(q, x), s) = Times(q, s) + IF x = s THEN 1 ELSE 0
  <2> DEFINE r == Append(q, x)
             n == Len(q)
  <2>1. Len(r) = n + 1 /\ DOMAIN r = 1..n + 1 /\ r[n + 1] = x /\ \A i \in 1..n : r[i] = q[i]
    OBVIOUS
  <2>2. CountTo(r, n, s) = Times(q, s)
    BY <1>5, <2>1
  <2> HIDE DEF r
  <2>3. CountTo(r, n + 1, s) = CountTo(r, n, s) + IF x = s THEN 1 ELSE 0
    BY <1>1, <2>1, CountGrows
  <2>4. Times(r, s) = CountTo(r, n + 1, s)
    BY <2>1 DEF Times, CountTo
  <2> QED BY <2>2, <2>3, <2>4 DEF r
<1>7. q = <<>> => Times(q, s) = 0
  BY <1>4
<1> QED BY <1>2, <1>3, <1>4, <1>5, <1>6, <1>7

\* With n times x at its end.
LEMMA TimesExtended ==
  ASSUME NEW q \in Seq(Servers), NEW x \in Servers, NEW n \in Nat, NEW s
  PROVE  /\ q \o [i \in 1..n |-> x] \in Seq(Servers)
         /\ Times(q \o [i \in 1..n |-> x], s) = Times(q, s) + IF x = s THEN n ELSE 0
<1> DEFINE m == Len(q)
           t == [i \in 1..n |-> x]
           r == q \o t
<1>1. t \in Seq(Servers) /\ Len(t) = n /\ \A i \in 1..n : t[i] = x
  OBVIOUS
<1> HIDE DEF t
<1>2. /\ m \in Nat /\ r \in Seq(Servers) /\ Len(r) = m + n /\ DOMAIN r = 1..m + n
      /\ \A i \in 1..m : r[i] = q[i]
      /\ \A i \in m + 1..m + n : r[i] = x
  <2>1. /\ m \in Nat /\ r \in Seq(Servers) /\ Len(r) = m + n /\ DOMAIN r = 1..m + n
        /\ \A i \in 1..m + n : r[i] = IF i <= m THEN q[i] ELSE t[i - m]
    BY <1>1
  <2> HIDE DEF r
  <2>2. \A i \in m + 1..m + n : i \in 1..m + n /\ ~(i <= m) /\ i - m \in 1..n
    BY <2>1
  <2>3. \A i \in 1..m : i \in 1..m + n /\ i <= m
    BY <2>1
  <2> QED BY <1>1, <2>1, <2>2, <2>3
<1> HIDE DEF r
<1> DEFINE A == {i \in DOMAIN q : q[i] = s}
           B == {i \in DOMAIN r : r[i] = s}
           C == IF x = s THEN m + 1..m + n ELSE {}
<1>3. DOMAIN q = 1..m
  OBVIOUS
<1> HIDE DEF m
<1>4. B = A \cup C /\ A \cap C = {}
  <2>1. 1..m + n = (1..m) \cup (m + 1..m + n) /\ (1..m) \cap (m + 1..m + n) = {}
    BY <1>2
  <2> QED BY <1>2, <1>3, <2>1
<1>5. IsFiniteSet(A) /\ Cardinality(A) \in Nat
  <2>1. IsFiniteSet(1..m) /\ A \in SUBSET (1..m)
    BY <1>2, <1>3, FS_Interval
  <2> HIDE DEF A
  <2> QED BY <2>1, FS_Subset, FS_CardinalityType
<1>6. IsFiniteSet(C) /\ Cardinality(C) = IF x = s THEN n ELSE 0
  <2>1. m + 1 \in Int /\ m + n \in Int
    BY <1>2
  <2>2. /\ IsFiniteSet(m + 1..m + n)
        /\ Cardinality(m + 1..m + n) = IF m + 1 > m + n THEN 0 ELSE (m + n) - (m + 1) + 1
    BY <2>1, FS_Interval
  <2>3. Cardinality(m + 1..m + n) = n
    BY <1>2, <2>2
  <2> QED BY <2>2, <2>3, FS_EmptySet
<1>7. Cardinality(B) = Cardinality(A) + IF x = s THEN n ELSE 0
  <2> HIDE DEF A, B, C
  <2>1. Cardinality(A \cup C) = Cardinality(A) + Cardinality(C) - Cardinality(A \cap C)
    BY <1>5, <1>6, FS_Union
  <2>2. Cardinality(A \cap C) = 0
    BY <1>4, FS_EmptySet
  <2> QED BY <1>4, <1>5, <1>6, <2>1, <2>2
<1> QED BY <1>2, <1>7 DEF Times, r, t

\* q is a stretch of the row repeated without end, up to the place idx points to.
Rotates(row, idx, q) ==
  /\ Len(row) = 0 => q = <<>>
  /\ Len(row) # 0 => \E a \in Nat :
       /\ idx % Len(row) = (a + Len(q)) % Len(row)
       /\ \A i \in 1..Len(q) : q[i] = row[((a + (i - 1)) % Len(row)) + 1]

LEMMA NewRow ==
  ASSUME NEW row \in Seq(Servers), NEW idx \in Nat
  PROVE  Rotates(row, idx, <<>>)
<1>1. Len(row) \in Nat
  OBVIOUS
<1>2. ASSUME Len(row) # 0 PROVE idx % Len(row) = ((idx % Len(row)) + 0) % Len(row) /\ idx % Len(row) \in Nat
  <2> DEFINE n == Len(row)
  <2>1. n \in Nat \ {0}
    BY <1>1, <1>2
  <2> HIDE DEF n
  <2> DEFINE x == idx % n
  <2>2. x \in Nat /\ x % n = x
    <3>1. /\ \A k \in Nat : k % n \in 0..n - 1
          /\ \A k \in Nat : (k % n) % n = k % n
      BY <2>1, GoesRound
    <3>2. x \in 0..n - 1 /\ x % n = x
      BY <3>1
    <3> HIDE DEF x
    <3> QED BY <2>1, <3>2
  <2>3. x = (x + 0) % n
    <3> HIDE DEF x
    <3> QED BY <2>2
  <2> QED BY <2>2, <2>3 DEF n
<1>3. Len(<<>>) = 0 /\ 1..0 = {}
  OBVIOUS
<1> QED BY <1>2, <1>3 DEF Rotates

LEMMA WrapsRound ==
  ASSUME NEW row \in Seq(Servers), NEW idx \in Nat, NEW q, Rotates(row, idx, q), Len(row) # 0
  PROVE  Rotates(row, idx % Len(row), q)
<1> DEFINE n == Len(row)
<1>1. n \in Nat \ {0}
  OBVIOUS
<1> HIDE DEF n
<1>2. (idx % n) % n = idx % n
  BY <1>1, GoesRound
<1> QED BY <1>2 DEF Rotates, n

LEMMA TurnTaken ==
  ASSUME NEW row \in Seq(Servers), NEW idx \in Nat, NEW q \in Seq(Servers), Rotates(row, idx, q),
         idx < Len(row)
  PROVE  Rotates(row, (idx + 1) % Len(row), Append(q, row[idx + 1])) /\ row[idx + 1] \in Servers
<1> DEFINE n == Len(row)
           k == Len(q)
           r == Append(q, row[idx + 1])
<1>1. n \in Nat \ {0} /\ k \in Nat /\ idx + 1 \in DOMAIN row /\ idx \in 0..n - 1
  OBVIOUS
<1>2. /\ row[idx + 1] \in Servers /\ Len(r) = k + 1
      /\ r[k + 1] = row[idx + 1] /\ \A i \in 1..k : r[i] = q[i]
  BY <1>1
<1>3. PICK a \in Nat : /\ idx % n = (a + k) % n
                       /\ \A i \in 1..k : q[i] = row[((a + (i - 1)) % n) + 1]
  BY <1>1 DEF Rotates
<1> HIDE DEF n, k, r
<1>4. idx % n = idx
  BY <1>1, GoesRound
<1>5. \A i \in 1..k + 1 : r[i] = row[((a + (i - 1)) % n) + 1]
  <2> TAKE i \in 1..k + 1
  <2>1. CASE i = k + 1
    <3>1. i - 1 = k
      BY <1>1, <2>1
    <3> QED BY <1>2, <1>3, <1>4, <2>1, <3>1
  <2>2. CASE i # k + 1
    <3>1. i \in 1..k
      BY <1>1, <2>2
    <3> QED BY <1>2, <1>3, <3>1
  <2> QED BY <2>1, <2>2
<1>6. ((idx + 1) % n) % n = (a + (k + 1)) % n
  <2>1. (idx + 1) \in Nat /\ (a + k) \in Nat /\ a + (k + 1) = (a + k) + 1
    BY <1>1
  <2>2. ((idx + 1) % n) % n = (idx + 1) % n
    BY <1>1, <2>1, GoesRound
  <2>3. CASE n = 1
    <3>0. (a + k) + 1 \in Nat
      BY <2>1
    <3>1. (idx + 1) % n \in 0..n - 1 /\ ((a + k) + 1) % n \in 0..n - 1
      BY <1>1, <2>1, <3>0, GoesRound
    <3> QED BY <2>1, <2>2, <2>3, <3>1
  <2>4. CASE n # 1
    <3>1. 1 \in 0..n - 1
      BY <1>1, <2>4
    <3>2. /\ (idx + 1) % n = IF (idx % n) + 1 < n THEN (idx % n) + 1 ELSE (idx % n) + 1 - n
          /\ ((a + k) + 1) % n = IF ((a + k) % n) + 1 < n THEN ((a + k) % n) + 1
                                 ELSE ((a + k) % n) + 1 - n
      BY <1>1, <2>1, <3>1, GoesRound
    <3> QED BY <1>3, <2>1, <2>2, <3>2
  <2> QED BY <2>3, <2>4
<1>7. /\ ((idx + 1) % n) % n = (a + Len(r)) % n
      /\ \A i \in 1..Len(r) : r[i] = row[((a + (i - 1)) % n) + 1]
  BY <1>2, <1>5, <1>6
<1>8. Rotates(row, (idx + 1) % n, r)
  BY <1>1, <1>7 DEF Rotates, n
<1> QED BY <1>2, <1>8 DEF n, r

\* In as many as the row is long each has its places in the row.
LEMMA FullRound ==
  ASSUME NEW row \in Seq(Servers), NEW q \in Seq(Servers), NEW idx \in Nat, Rotates(row, idx, q),
         Len(row) # 0, NEW m \in 0..Len(q) - Len(row), NEW s
  PROVE  Times(SubSeq(q, m + 1, m + Len(row)), s) = Times(row, s)
<1> DEFINE n == Len(row)
           w == SubSeq(q, m + 1, m + n)
<1>1. n \in Nat \ {0} /\ DOMAIN row = 1..n /\ Len(q) \in Nat /\ m \in Nat /\ m + n <= Len(q)
  OBVIOUS
<1>2. PICK a \in Nat : \A i \in 1..Len(q) : q[i] = row[((a + (i - 1)) % n) + 1]
  BY <1>1 DEF Rotates
<1>3. DOMAIN w = 1..n /\ \A i \in 1..n : w[i] = q[m + i]
  <2>1. m + 1 \in Nat /\ m + n \in Nat /\ (m + n) - (m + 1) + 1 = n /\ m + n >= m
    BY <1>1
  <2>2. Len(w) = n /\ w \in Seq(Servers) /\ \A i \in 1..n : w[i] = q[m + 1 + i - 1]
    BY <1>1, <2>1
  <2>3. \A i \in 1..n : m + 1 + i - 1 = m + i
    BY <1>1
  <2> HIDE DEF w
  <2> QED BY <2>2, <2>3
<1> HIDE DEF n, w
<1> DEFINE b == (a + m) % n
           Go(i) == IF b + (i - 1) < n THEN b + (i - 1) + 1 ELSE b + (i - 1) - n + 1
           Back(j) == IF j - 1 >= b THEN (j - 1) - b + 1 ELSE (j - 1) - b + n + 1
           A == {i \in 1..n : w[i] = s}
           B == {j \in 1..n : row[j] = s}
<1>4. b \in 0..n - 1
  <2>1. a + m \in Nat
    BY <1>1
  <2> QED BY <1>1, <2>1, GoesRound
<1>5. \A i \in 1..n : w[i] = row[Go(i)]
  <2> TAKE i \in 1..n
  <2>1. m + i \in 1..Len(q) /\ a + (m + i - 1) = (a + m) + (i - 1) /\ a + m \in Nat /\ i - 1 \in 0..n - 1
    BY <1>1
  <2>2. ((a + m) + (i - 1)) % n = IF b + (i - 1) < n THEN b + (i - 1) ELSE b + (i - 1) - n
    BY <1>1, <2>1, GoesRound
  <2>3. w[i] = row[((a + (m + i - 1)) % n) + 1]
    <3>1. q[m + i] = row[((a + ((m + i) - 1)) % n) + 1]
      BY <1>2, <2>1
    <3> QED BY <1>3, <3>1
  <2> QED BY <2>1, <2>2, <2>3
<1> HIDE DEF b
<1>6. \A i \in 1..n : Go(i) \in 1..n /\ Back(i) \in 1..n /\ Back(Go(i)) = i /\ Go(Back(i)) = i
  BY <1>1, <1>4
<1> HIDE DEF Go, Back
<1>7. [i \in A |-> Go(i)] \in Bijection(A, B)
  <2> DEFINE f == [i \in A |-> Go(i)]
  <2>1. f \in [A -> B]
    BY <1>5, <1>6
  <2>2. \A i, j \in A : f[i] = f[j] => i = j
    BY <1>6
  <2>3. \A j \in B : \E i \in A : f[i] = j
    <3> TAKE j \in B
    <3>1. Back(j) \in A
      BY <1>5, <1>6
    <3> QED BY <1>6, <3>1
  <2> QED BY <2>1, <2>2, <2>3 DEF Bijection, Injection, Surjection, IsInjective
<1>8. IsFiniteSet(A)
  <2>1. IsFiniteSet(1..n) /\ A \in SUBSET (1..n)
    BY <1>1, FS_Interval
  <2> HIDE DEF A
  <2> QED BY <2>1, FS_Subset
<1>9. Cardinality(A) = Cardinality(B)
  <2> HIDE DEF A, B
  <2> QED BY <1>7, <1>8, FS_Bijection DEF ExistsBijection
<1>10. Times(w, s) = Cardinality(A) /\ Times(row, s) = Cardinality(B)
  BY <1>1, <1>3 DEF Times
<1> QED BY <1>9, <1>10 DEF n, w

\* The shares of a list, and their sum.
Shares(list) == [s \in Servers |-> Share(list, s)]

LEMMA TotalIs ==
  ASSUME NEW list \in Seq(Servers)
  PROVE  /\ \A s \in Servers : Share(list, s) \in Nat /\ Shares(list)[s] = Share(list, s)
         /\ Total(list) = SumOver(Shares(list), Servers) /\ Total(list) \in Nat
         /\ list # <<>> => Total(list) > 0
         /\ \A s \in Servers : (\A i \in DOMAIN list : list[i] # s) => Share(list, s) = 0
<1>1. \A s \in Servers : Share(list, s) \in Nat /\ Shares(list)[s] = Share(list, s)
  <2> TAKE s \in Servers
  <2>1. weight[s] \in Nat /\ Times(list, s) \in Nat
    BY BalancerAssumption, TimesIs
  <2> QED BY <2>1 DEF Share, Shares
<1>2. Total(list) = SumOver(Shares(list), Servers)
  BY DEF Total, Shares, SumOver, FoldFunction
<1>3. /\ SumOver(Shares(list), Servers) \in Int /\ SumOver(Shares(list), Servers) >= 0
      /\ \A s \in Servers : Shares(list)[s] <= SumOver(Shares(list), Servers)
  <2>1. IsFiniteSet(Servers) /\ \A s \in Servers : Shares(list)[s] \in Int /\ Shares(list)[s] >= 0
    BY <1>1, BalancerAssumption
  <2> QED BY <2>1, SumSigns
<1>4. ASSUME list # <<>> PROVE Total(list) > 0
  <2>1. list[1] \in Servers /\ 1 \in DOMAIN list /\ DOMAIN list = 1..Len(list) /\ Len(list) \in Nat
    BY <1>4, EmptySeq
  <2> DEFINE s == list[1]
             A == {i \in DOMAIN list : list[i] = s}
  <2>2. Times(list, s) # 0
    <3>1. A # {} /\ A \in SUBSET (1..Len(list)) /\ IsFiniteSet(1..Len(list))
      <4>1. 1 \in A /\ A \in SUBSET (1..Len(list))
        BY <2>1
      <4>2. IsFiniteSet(1..Len(list))
        BY <2>1, FS_Interval
      <4> QED BY <4>1, <4>2
    <3> HIDE DEF A
    <3>2. IsFiniteSet(A) /\ Cardinality(A) # 0
      BY <3>1, FS_Subset, FS_EmptySet
    <3> QED BY <3>2 DEF A, Times
  <2> HIDE DEF s
  <2>3. weight[s] \in Nat \ {0} /\ Times(list, s) \in Nat \ {0} /\ s \in Servers
    <3>1. s \in Servers
      BY <2>1 DEF s
    <3> QED BY <2>2, <3>1, BalancerAssumption, TimesIs
  <2>4. Share(list, s) > 0
    <3>1. \A x, y \in Nat \ {0} : x * y > 0
      OBVIOUS
    <3> QED BY <2>3, <3>1 DEF Share
  <2>5. Share(list, s) <= Total(list) /\ Share(list, s) \in Nat
    BY <1>1, <1>2, <1>3, <2>3
  <2> QED BY <1>2, <1>3, <2>4, <2>5
<1>5. ASSUME NEW s \in Servers, \A i \in DOMAIN list : list[i] # s PROVE Share(list, s) = 0
  <2>1. Times(list, s) = 0 /\ weight[s] \in Nat
    BY <1>5, TimesIs, BalancerAssumption
  <2> QED BY <2>1 DEF Share
<1> QED BY <1>1, <1>2, <1>3, <1>4, <1>5

PickStages == {"none", "listed", "wrapping", "wrapped", "selected", "advancing",
               "totalled", "bumped", "chosen"}

PickIs(q, b) ==
  /\ q \in [at : PickStages, list : Seq(Servers), total : Nat, place : Nat,
            chosen : Servers \cup {NoBackend}, torn : BOOLEAN]
  /\ q.at # "none" /\ b # "simple" => Len(q.list) # 0
  /\ q.at = "listed" => b # "simple"
  /\ q.at = "wrapping" => b = "round_robin"
  /\ q.at \in {"wrapped", "selected", "advancing"} => b \in {"round_robin", "simple"}
  /\ q.at \in {"totalled", "bumped", "chosen"} => b = "smooth"
  /\ q.at \in {"selected", "advancing", "chosen"} => q.chosen \in Servers
  /\ q.at = "none" => ~q.torn

PickTypeOK == PickIs(pick, balancer)

AdminTypeOK ==
  /\ admin \in [at : {"idle", "rebuilding", "replaced", "read"}, value : Nat]
  /\ admin.at = "rebuilding" => balancer = "simple" /\ admin.value <= Len(servers)
  /\ admin.at \in {"replaced", "read"} => balancer = "round_robin"
  /\ admin.at = "read" => Len(servers) # 0

BalTypeOK ==
  /\ balancer \in {"round_robin", "simple", "smooth", "random"}
  /\ servers \in Seq(Servers) /\ _rotation \in Seq(Servers)
  /\ healthy \in [Servers -> BOOLEAN]
  /\ index \in Nat /\ current_weight \in [Servers -> Int]
  /\ turn \in Seq(Servers) /\ unrest \in Nat /\ spoiled \in BOOLEAN
  /\ AdminTypeOK /\ PickTypeOK

\* The row that is gone through.
Standing == IF balancer = "simple" THEN _rotation ELSE Healthy

\* A pick the pool has not changed under goes by the place the index points to.
Goes ==
  /\ pick.at # "none" /\ balancer = "round_robin" => pick.list = Healthy
  /\ pick.at = "wrapping" => pick.place = index % Len(Standing)
  /\ pick.at \in {"selected", "advancing"} =>
       index < Len(Standing) /\ pick.chosen = Standing[index + 1]
  /\ pick.at = "advancing" => pick.place = (index + 1) % Len(Standing)

RotationOK ==
  /\ pick.torn => turn = <<>>
  /\ balancer \in {"round_robin", "simple"} =>
       Rotates(Standing, index, turn) /\ (~pick.torn => Goes)

\* As far as it is rebuilt the rotation has every server by its weight.
RebuiltOK ==
  /\ unrest = 0 => \A s \in Servers : healthy[s]
  /\ balancer = "simple" /\ unrest = 0 =>
       \A s \in Servers :
         Times(_rotation, s) =
           weight[s] * CountTo(servers, IF admin.at = "rebuilding" THEN admin.value
                                        ELSE Len(servers), s)

\* The weights but for what the pick under way has given all.
Resting ==
  [s \in Servers |-> current_weight[s] -
                       IF pick.at \in {"bumped", "chosen"} THEN Share(pick.list, s) ELSE 0]

OwedIn(list, q, s) == Len(q) * Share(list, s) - Times(q, s) * Total(list)
OwedNow(s) == OwedIn(Healthy, turn, s)

Listed ==
  /\ \A s \in Servers \ ToSet(servers) : current_weight[s] = 0
  /\ pick.at # "none" => \A i \in DOMAIN pick.list : pick.list[i] \in ToSet(servers)
  /\ pick.at = "chosen" => pick.chosen \in ToSet(servers)

Balanced ==
  /\ SumOver(Resting, Servers) = 0
  /\ pick.at = "listed" => pick.list = Healthy
  /\ pick.at \in {"totalled", "bumped", "chosen"} => pick.total = Total(pick.list)

PaidByShare ==
  /\ ~pick.torn
  /\ pick.at # "none" => pick.list = Healthy
  /\ \A s \in Servers :
       Resting[s] = OwedNow(s) /\ (Len(Healthy) # 0 => Resting[s] > -Total(Healthy))
  /\ pick.at = "chosen" => current_weight[pick.chosen] > 0

AccountsOK ==
  balancer = "smooth" =>
    /\ Listed
    /\ ~spoiled \/ unrest = 0 => Balanced
    /\ unrest = 0 => PaidByShare

BalInv == BalTypeOK /\ RotationOK /\ RebuiltOK /\ AccountsOK

LEMMA HealthyIs ==
  /\ BalTypeOK => Healthy \in Seq(Servers)
  /\ BalTypeOK' => Healthy' \in Seq(Servers)
  /\ BalTypeOK => \A i \in DOMAIN Healthy : Healthy[i] \in ToSet(servers)
<1>1. BalTypeOK => Healthy \in Seq(Servers)
  BY OnlyIs DEF BalTypeOK, Healthy
<1>2. BalTypeOK' => Healthy' \in Seq(Servers)
  BY OnlyIs DEF BalTypeOK, Healthy
<1>3. BalTypeOK => \A i \in DOMAIN Healthy : Healthy[i] \in ToSet(servers)
  <2> SUFFICES ASSUME BalTypeOK PROVE \A i \in DOMAIN Healthy : \E k \in DOMAIN servers : Healthy[i] = servers[k]
    BY DEF ToSet
  <2> DEFINE S == {s \in Servers : healthy[s]}
  <2>1. servers \in Seq(Servers)
    BY DEF BalTypeOK
  <2>2. \A i \in DOMAIN Only(servers, S) : \E k \in DOMAIN servers : Only(servers, S)[i] = servers[k]
    <3> HIDE DEF S
    <3> QED BY <2>1, OnlyIs
  <2> QED BY <2>2 DEF Healthy
<1> QED BY <1>1, <1>2, <1>3

\* At first there is nothing.
LEMMA BalInitInv == ASSUME BalancerInit PROVE BalInv
<1>1. BalTypeOK
  <2>1. PickTypeOK
    BY DEF BalancerInit, PickTypeOK, PickIs, NoPick, PickStages
  <2>2. AdminTypeOK
    BY DEF BalancerInit, AdminTypeOK, AtRest
  <2>3. /\ servers = <<>> /\ _rotation = <<>> /\ turn = <<>> /\ index = 0 /\ unrest = 0
        /\ spoiled = FALSE /\ balancer \in {"round_robin", "simple", "smooth", "random"}
        /\ healthy = [s \in Servers |-> TRUE] /\ current_weight = [s \in Servers |-> 0]
    BY DEF BalancerInit
  <2>4. healthy \in [Servers -> BOOLEAN] /\ current_weight \in [Servers -> Int]
    BY <2>3
  <2>5. <<>> \in Seq(Servers)
    OBVIOUS
  <2> QED BY <2>1, <2>2, <2>3, <2>4, <2>5 DEF BalTypeOK
<1>2. Healthy \in Seq(Servers) /\ Standing \in Seq(Servers) /\ index \in Nat /\ turn = <<>>
  BY <1>1, HealthyIs DEF Standing, BalTypeOK, BalancerInit
<1>3. pick.at = "none" /\ ~pick.torn
  BY DEF BalancerInit, NoPick
<1>4. RotationOK
  <2>1. Rotates(Standing, index, turn)
    BY <1>2, NewRow
  <2> QED BY <1>2, <1>3, <2>1 DEF RotationOK, Goes
<1>5. RebuiltOK
  <2>1. _rotation = <<>> /\ servers = <<>> /\ admin.at = "idle" /\ \A s \in Servers : healthy[s]
    BY DEF BalancerInit, AtRest
  <2>2. ASSUME NEW s \in Servers PROVE Times(_rotation, s) = weight[s] * CountTo(servers, 0, s)
    <3>1. Times(_rotation, s) = 0
      BY <1>1, <2>1, TimesIs DEF BalTypeOK
    <3>2. CountTo(servers, 0, s) = 0
      BY CountGrows
    <3>3. weight[s] \in Nat
      BY BalancerAssumption
    <3> QED BY <3>1, <3>2, <3>3
  <2> QED BY <2>1, <2>2 DEF RebuiltOK
<1>6. AccountsOK
  <2>1. \A s \in Servers : current_weight[s] = 0 /\ Resting[s] = 0
    BY <1>3 DEF BalancerInit, Resting
  <2>2. SumOver(Resting, Servers) = 0
    <3>1. IsFiniteSet(Servers) /\ \A s \in Servers : Resting[s] \in Int /\ Resting[s] <= 0 /\ Resting[s] >= 0
      BY <2>1, BalancerAssumption
    <3>2. SumOver(Resting, Servers) \in Int /\ SumOver(Resting, Servers) <= 0 /\ SumOver(Resting, Servers) >= 0
      BY <3>1, SumSigns
    <3> QED BY <3>2
  <2>3. ASSUME NEW s \in Servers
        PROVE  Resting[s] = OwedNow(s) /\ (Len(Healthy) # 0 => Resting[s] > -Total(Healthy))
    <3>1. /\ Times(turn, s) = 0 /\ Len(turn) = 0 /\ Share(Healthy, s) \in Nat
          /\ Total(Healthy) \in Nat /\ (Healthy # <<>> => Total(Healthy) > 0)
      BY <1>1, <1>2, TimesIs, TotalIs DEF BalTypeOK
    <3>2. Len(Healthy) # 0 => Healthy # <<>>
      OBVIOUS
    <3> QED BY <2>1, <3>1, <3>2 DEF OwedNow, OwedIn
  <2> QED BY <1>3, <2>1, <2>2, <2>3 DEF AccountsOK, Listed, Balanced, PaidByShare
<1> QED BY <1>1, <1>4, <1>5, <1>6 DEF BalInv

LEMMA RestIsNat == \A k \in Nat, n \in Nat \ {0} : k % n \in Nat
OBVIOUS

\* A change of the pool leaves the pick under way where it is.
LEMMA ChangedType ==
  ASSUME BalTypeOK, Changed, balancer' = balancer
  PROVE  PickTypeOK' /\ turn' = <<>> /\ turn' \in Seq(Servers)
<1>1. /\ pick' \in [at : PickStages, list : Seq(Servers), total : Nat, place : Nat,
                    chosen : Servers \cup {NoBackend}, torn : BOOLEAN]
      /\ pick'.at = pick.at /\ pick'.list = pick.list /\ pick'.chosen = pick.chosen
      /\ pick'.torn = (pick.at # "none")
  BY DEF BalTypeOK, PickTypeOK, PickIs, Changed
<1>2. turn' = <<>> /\ <<>> \in Seq(Servers)
  BY DEF Changed
<1> QED BY <1>1, <1>2 DEF BalTypeOK, PickTypeOK, PickIs

LEMMA ChangePoolType == ASSUME BalTypeOK, ChangePool PROVE BalTypeOK'
<1>1. ASSUME NEW s \in Servers, AddToPool(s) PROVE BalTypeOK'
  <2>1. PickTypeOK' /\ turn' \in Seq(Servers)
    BY <1>1, ChangedType DEF AddToPool
  <2>2. servers' \in Seq(Servers) /\ Len(servers') \in Nat /\ _rotation' \in Seq(Servers)
    <3>1. servers \in Seq(Servers) /\ servers' = Append(servers, s) /\ _rotation \in Seq(Servers)
          /\ (_rotation' = <<>> \/ _rotation' = _rotation)
      BY <1>1 DEF BalTypeOK, AddToPool
    <3>2. \A q : q \in Seq(Servers) => Append(q, s) \in Seq(Servers) /\ Len(q) \in Nat
      OBVIOUS
    <3>3. servers' \in Seq(Servers)
      BY <3>1, <3>2, Zenon
    <3>4. _rotation' \in Seq(Servers)
      <4>1. <<>> \in Seq(Servers)
        OBVIOUS
      <4> QED BY <3>1, <4>1, Zenon
    <3> QED BY <3>2, <3>3, <3>4, Zenon
  <2>3. AdminTypeOK'
    <3>1. /\ AdminTypeOK /\ admin.at = "idle" /\ balancer' = balancer
          /\ IF balancer = "simple" THEN admin' = [at |-> "rebuilding", value |-> 0]
             ELSE admin' = admin
      BY <1>1 DEF BalTypeOK, AddToPool
    <3> QED BY <2>2, <3>1 DEF AdminTypeOK
  <2>4. current_weight' \in [Servers -> Int] /\ unrest' \in Nat /\ spoiled' \in BOOLEAN
    BY <1>1 DEF BalTypeOK, AddToPool
  <2> QED BY <1>1, <2>1, <2>2, <2>3, <2>4 DEF BalTypeOK, AddToPool
<1>2. ASSUME NEW s \in Servers, RemoveFromPool(s) PROVE BalTypeOK'
  <2>1. PickTypeOK' /\ turn' \in Seq(Servers)
    BY <1>2, ChangedType DEF RemoveFromPool
  <2>2. servers' \in Seq(Servers)
    BY <1>2, OnlyIs DEF BalTypeOK, RemoveFromPool
  <2>3. AdminTypeOK'
    BY <1>2 DEF BalTypeOK, AdminTypeOK, RemoveFromPool
  <2> QED BY <1>2, <2>1, <2>2, <2>3 DEF BalTypeOK, RemoveFromPool
<1>3. ASSUME NEW s \in Servers, MarkHealth(s) PROVE BalTypeOK'
  <2>1. PickTypeOK' /\ turn' \in Seq(Servers)
    <3>1. CASE balancer = "simple"
      BY <1>3, <3>1 DEF BalTypeOK, PickTypeOK, MarkHealth
    <3>2. CASE balancer # "simple"
      BY <1>3, <3>2, ChangedType DEF MarkHealth
    <3> QED BY <3>1, <3>2
  <2>2. healthy' \in [Servers -> BOOLEAN] /\ unrest' \in Nat /\ spoiled' \in BOOLEAN
    BY <1>3 DEF BalTypeOK, MarkHealth
  <2> QED BY <1>3, <2>1, <2>2 DEF BalTypeOK, AdminTypeOK, MarkHealth
<1>4. CASE ExtendRotation
  <2>1. PickTypeOK' /\ turn' \in Seq(Servers)
    BY <1>4, ChangedType DEF ExtendRotation
  <2> DEFINE s == servers[admin.value + 1]
  <2>2. s \in Servers
    BY <1>4 DEF BalTypeOK, AdminTypeOK, ExtendRotation
  <2>3. _rotation' \in Seq(Servers)
    <3>1. weight[s] \in Nat /\ _rotation \in Seq(Servers)
      BY <2>2, BalancerAssumption DEF BalTypeOK
    <3>2. _rotation' = IF healthy[s] THEN _rotation \o [i \in 1..weight[s] |-> s] ELSE _rotation
      BY <1>4 DEF ExtendRotation
    <3> HIDE DEF s
    <3> QED BY <2>2, <3>1, <3>2, TimesExtended
  <2>4. AdminTypeOK'
    <3>1. /\ AdminTypeOK /\ admin.at = "rebuilding" /\ admin.value < Len(servers)
          /\ admin' = [admin EXCEPT !.value = @ + 1] /\ Len(servers) \in Nat
          /\ balancer' = balancer /\ servers' = servers
      BY <1>4 DEF BalTypeOK, ExtendRotation
    <3>2. /\ admin'.at = "rebuilding" /\ admin'.value = admin.value + 1 /\ admin.value \in Nat
          /\ admin' \in [at : {"idle", "rebuilding", "replaced", "read"}, value : Nat]
      BY <3>1 DEF AdminTypeOK
    <3> QED BY <3>1, <3>2 DEF AdminTypeOK
  <2> QED BY <1>4, <2>1, <2>3, <2>4 DEF BalTypeOK, ExtendRotation
<1>5. CASE ResetIndex
  <2>1. PickTypeOK' /\ turn' \in Seq(Servers)
    BY <1>5, ChangedType DEF ResetIndex
  <2> QED BY <1>5, <2>1 DEF BalTypeOK, AdminTypeOK, ResetIndex, AtRest
<1>6. CASE ReadIndex
  <2>1. AdminTypeOK'
    <3>1. servers \in Seq(Servers) /\ index \in Nat /\ servers' = servers /\ balancer' = balancer
          /\ balancer = "round_robin"
      BY <1>6 DEF BalTypeOK, AdminTypeOK, ReadIndex
    <3>2. servers # <<>> => Len(servers) # 0
      BY <3>1, EmptySeq
    <3> QED BY <1>6, <3>1, <3>2 DEF AdminTypeOK, ReadIndex, AtRest
  <2> QED BY <1>6, <2>1 DEF BalTypeOK, PickTypeOK, ReadIndex
<1>7. CASE ClampIndex
  <2>1. PickTypeOK' /\ turn' \in Seq(Servers)
    BY <1>7, ChangedType DEF ClampIndex
  <2>2. index' \in Nat
    <3>1. admin.value \in Nat /\ Len(servers) \in Nat \ {0} /\ index' = admin.value % Len(servers)
      BY <1>7 DEF BalTypeOK, AdminTypeOK, ClampIndex
    <3> QED BY <3>1, RestIsNat
  <2>3. AdminTypeOK'
    BY <1>7 DEF BalTypeOK, AdminTypeOK, ClampIndex, AtRest
  <2> QED BY <1>7, <2>1, <2>2, <2>3 DEF BalTypeOK, ClampIndex
<1> QED BY <1>1, <1>2, <1>3, <1>4, <1>5, <1>6, <1>7 DEF ChangePool

LEMMA RotateType == ASSUME BalTypeOK, Rotate PROVE BalTypeOK'
<1>0. /\ UNCHANGED <<balancer, servers, healthy, admin, unrest, spoiled>>
      /\ Healthy \in Seq(Servers) /\ PickIs(pick, balancer)
  BY HealthyIs DEF Rotate, BalTypeOK, PickTypeOK
<1>1. ASSUME PickIs(pick', balancer), index' \in Nat, _rotation' = _rotation,
             current_weight' \in [Servers -> Int], turn' \in Seq(Servers)
      PROVE  BalTypeOK'
  <2>1. PickTypeOK'
    BY <1>0, <1>1 DEF PickTypeOK
  <2> QED BY <1>0, <1>1, <2>1 DEF BalTypeOK, AdminTypeOK
<1>2. PickIs(NoPick, balancer)
  BY DEF PickIs, NoPick, PickStages
<1>3. CASE ListHealthy
  <2>1. Len(Healthy) # 0
    BY <1>0, <1>3, EmptySeq DEF ListHealthy
  <2>2. PickIs(pick', balancer)
    BY <1>0, <1>3, <2>1 DEF ListHealthy, PickIs, NoPick, PickStages
  <2> QED BY <1>1, <1>3, <2>2 DEF BalTypeOK, ListHealthy
<1>4. CASE TestRotation
  <2>1. PickIs(pick', balancer)
    <3>1. <<>> \in Seq(Servers) /\ balancer = "simple"
      BY <1>4 DEF TestRotation
    <3> QED BY <1>4, <3>1 DEF TestRotation, PickIs, NoPick, PickStages
  <2> QED BY <1>1, <1>4, <2>1 DEF BalTypeOK, TestRotation
<1>5. CASE WrapLoad
  <2>1. index % Len(pick.list) \in Nat
    <3>1. Len(pick.list) \in Nat \ {0} /\ index \in Nat
      BY <1>0, <1>5 DEF WrapLoad, PickIs, BalTypeOK
    <3> QED BY <3>1, RestIsNat
  <2>2. PickIs(pick', balancer)
    BY <1>0, <1>5, <2>1 DEF WrapLoad, PickIs, PickStages
  <2> QED BY <1>1, <1>5, <2>2 DEF BalTypeOK, WrapLoad
<1>6. CASE WrapStore
  <2>1. PickIs(pick', balancer) /\ pick.place \in Nat
    BY <1>0, <1>6 DEF WrapStore, PickIs, PickStages
  <2> QED BY <1>1, <1>6, <2>1 DEF BalTypeOK, WrapStore
<1>7. CASE Select
  <2>1. Row \in Seq(Servers)
    BY <1>0 DEF Row, BalTypeOK, PickIs
  <2>2. index < Len(Row) => Row[index + 1] \in Servers
    BY <2>1 DEF BalTypeOK
  <2>3. PickIs(pick', balancer)
    BY <1>0, <1>2, <1>7, <2>2 DEF Select, PickIs, PickStages
  <2> QED BY <1>1, <1>7, <2>3 DEF BalTypeOK, Select
<1>8. CASE AdvanceLoad
  <2>1. Row # <<>> => (index + 1) % Len(Row) \in Nat
    <3>1. Row \in Seq(Servers) /\ index + 1 \in Nat
      BY <1>0 DEF Row, BalTypeOK, PickIs
    <3>2. Row # <<>> => Len(Row) \in Nat \ {0}
      BY <3>1, EmptySeq
    <3> QED BY <3>1, <3>2, RestIsNat
  <2>2. PickIs(pick', balancer)
    BY <1>0, <1>2, <1>8, <2>1 DEF AdvanceLoad, PickIs, PickStages
  <2> QED BY <1>1, <1>8, <2>2 DEF BalTypeOK, AdvanceLoad
<1>9. CASE AdvanceStore
  <2>1. pick.chosen \in Servers /\ pick.place \in Nat
    BY <1>0, <1>9 DEF AdvanceStore, PickIs
  <2>2. turn' \in Seq(Servers)
    BY <1>9, <2>1 DEF AdvanceStore, Serve, BalTypeOK
  <2> QED BY <1>1, <1>2, <1>9, <2>1, <2>2 DEF BalTypeOK, AdvanceStore, Serve
<1>10. CASE TotalWeight
  <2>1. Total(Healthy) \in Nat
    BY <1>0, TotalIs
  <2>2. PickIs(pick', balancer)
    BY <1>0, <1>10, <2>1 DEF TotalWeight, PickIs, PickStages
  <2> QED BY <1>1, <1>10, <2>2 DEF BalTypeOK, TotalWeight
<1>11. CASE Bump
  <2>1. PickIs(pick', balancer) /\ pick.list \in Seq(Servers)
    BY <1>0, <1>11 DEF Bump, PickIs, PickStages
  <2>2. \A s \in Servers : Share(pick.list, s) \in Nat
    BY <2>1, TotalIs
  <2>3. current_weight' \in [Servers -> Int]
    BY <1>11, <2>2 DEF Bump, BalTypeOK
  <2> QED BY <1>1, <1>11, <2>1, <2>3 DEF BalTypeOK, Bump
<1>12. CASE Choose
  <2>1. PickIs(pick', balancer)
    <3>1. PICK i \in DOMAIN pick.list :
            pick.at = "bumped" /\ pick' = [pick EXCEPT !.at = "chosen", !.chosen = pick.list[i]]
      BY <1>12 DEF Choose
    <3>2. pick.list[i] \in Servers
      BY <1>0, <3>1 DEF PickIs
    <3> QED BY <1>0, <3>1, <3>2 DEF PickIs, PickStages
  <2> QED BY <1>1, <1>12, <2>1 DEF BalTypeOK, Choose
<1>13. CASE Penalize
  <2>1. pick.chosen \in Servers /\ pick.total \in Nat
    BY <1>0, <1>13 DEF Penalize, PickIs
  <2>2. turn' \in Seq(Servers) /\ current_weight' \in [Servers -> Int]
    BY <1>13, <2>1 DEF Penalize, Serve, BalTypeOK
  <2> QED BY <1>1, <1>2, <1>13, <2>1, <2>2 DEF BalTypeOK, Penalize, Serve
<1>14. CASE RandomChoice
  BY <1>1, <1>2, <1>14 DEF BalTypeOK, RandomChoice
<1> QED BY <1>3, <1>4, <1>5, <1>6, <1>7, <1>8, <1>9, <1>10, <1>11, <1>12, <1>13, <1>14
        DEF Rotate, RoundRobin, Smooth

\* A changed pool starts a new stretch.
LEMMA ChangedRotation ==
  ASSUME BalTypeOK', Changed
  PROVE  RotationOK'
<1>1. turn' = <<>> /\ (~pick'.torn => pick'.at = "none")
  <2>1. turn' = <<>> /\ pick' = [pick EXCEPT !.torn = pick.at # "none"]
    BY DEF Changed
  <2>2. pick' \in [at : PickStages, list : Seq(Servers), total : Nat, place : Nat,
                   chosen : Servers \cup {NoBackend}, torn : BOOLEAN]
    BY DEF BalTypeOK, PickTypeOK, PickIs
  <2>3. pick'.torn = (pick.at # "none") /\ pick'.at = pick.at
    BY <2>1, <2>2
  <2> QED BY <2>1, <2>3
<1>2. Standing' \in Seq(Servers) /\ index' \in Nat
  BY HealthyIs DEF Standing, BalTypeOK
<1>3. Rotates(Standing', index', turn')
  BY <1>1, <1>2, NewRow
<1> QED BY <1>1, <1>3 DEF RotationOK, Goes

LEMMA RotationStep ==
  ASSUME BalTypeOK, BalTypeOK', RotationOK, BalancerNext
  PROVE  RotationOK'
<1>1. ASSUME ~Changed, ChangePool PROVE RotationOK'
  <2>1. /\ UNCHANGED <<balancer, servers, index, _rotation, turn, pick>>
        /\ balancer # "simple" => healthy' = healthy
    BY <1>1 DEF ChangePool, AddToPool, RemoveFromPool, MarkHealth, ExtendRotation, ResetIndex,
                ReadIndex, ClampIndex
  <2>2. (balancer # "simple" => Healthy' = Healthy) /\ Standing' = Standing
    BY <2>1 DEF Standing, Healthy
  <2>3. balancer \in {"round_robin", "simple"} /\ ~pick.torn /\ Goes => Goes'
    BY <2>1, <2>2 DEF Goes
  <2> QED BY <2>1, <2>2, <2>3 DEF RotationOK
<1>2. CASE Rotate
  <2>1. /\ UNCHANGED <<balancer, servers, healthy, _rotation>>
        /\ Healthy' = Healthy /\ Standing' = Standing
    BY <1>2 DEF Rotate, RoundRobin, Smooth, ListHealthy, TestRotation, WrapLoad, WrapStore, Select,
                AdvanceLoad, AdvanceStore, TotalWeight, Bump, Choose, Penalize, RandomChoice,
                Standing, Healthy
  <2>2. /\ PickIs(pick, balancer) /\ PickIs(pick', balancer)
        /\ Healthy \in Seq(Servers) /\ Standing \in Seq(Servers)
        /\ index \in Nat /\ index' \in Nat /\ turn \in Seq(Servers)
    BY <2>1, HealthyIs DEF BalTypeOK, PickTypeOK, Standing
  <2>3. NoPick.torn = FALSE /\ NoPick.at = "none"
    BY DEF NoPick
  <2>4. pick'.torn => turn' = <<>>
    <3>1. CASE AdvanceStore \/ Penalize
      BY <2>3, <3>1 DEF AdvanceStore, Penalize, Serve
    <3>2. CASE ~(AdvanceStore \/ Penalize)
      <4>1. turn' = turn /\ (pick'.torn => pick.torn)
        BY <1>2, <2>2, <2>3, <3>2 DEF Rotate, RoundRobin, Smooth, ListHealthy, TestRotation,
           WrapLoad, WrapStore, Select, AdvanceLoad, TotalWeight, Bump, Choose, RandomChoice,
           PickIs, NoPick
      <4> QED BY <4>1 DEF RotationOK
    <3> QED BY <3>1, <3>2
  <2>5. ASSUME balancer \in {"round_robin", "simple"}
        PROVE  Rotates(Standing, index', turn') /\ (~pick'.torn => Goes')
    <3>1. Rotates(Standing, index, turn) /\ (~pick.torn => Goes) /\ (pick.torn => turn = <<>>)
      BY <2>5 DEF RotationOK
    <3>2. ~pick.torn /\ pick.at # "none" => Row = Standing
      BY <2>5, <3>1 DEF Goes, Row, Standing
    <3>3. CASE ListHealthy
      <4>1. pick'.at = "listed" /\ pick'.list = Healthy /\ turn' = turn /\ index' = index
        BY <3>3 DEF ListHealthy, NoPick
      <4> QED BY <2>1, <3>1, <4>1 DEF Goes
    <3>4. CASE TestRotation
      <4>1. /\ pick'.at = "wrapped" /\ turn' = turn /\ index' = index /\ balancer = "simple"
        BY <3>4 DEF TestRotation, NoPick
      <4> QED BY <2>1, <3>1, <4>1 DEF Goes
    <3>5. CASE WrapLoad
      <4>1. /\ pick'.at = "wrapping" /\ pick'.list = pick.list /\ turn' = turn /\ index' = index
            /\ pick.at = "listed" /\ balancer = "round_robin"
            /\ pick'.place = index % Len(pick.list) /\ pick'.torn = pick.torn
        BY <2>2, <3>5 DEF WrapLoad, PickIs
      <4>2. ~pick.torn => pick.list = Healthy /\ Standing = Healthy
        BY <3>1, <4>1 DEF Goes, Standing
      <4> QED BY <2>1, <3>1, <4>1, <4>2 DEF Goes
    <3>6. CASE WrapStore
      <4>1. /\ pick'.at = "wrapped" /\ pick'.list = pick.list /\ turn' = turn
            /\ index' = pick.place /\ pick.at = "wrapping" /\ pick'.torn = pick.torn
            /\ balancer = "round_robin" /\ Len(pick.list) # 0
        BY <2>2, <3>6 DEF WrapStore, PickIs
      <4>2. CASE pick.torn
        <5>1. Rotates(Standing, index', turn')
          BY <2>2, <3>1, <4>1, <4>2, NewRow
        <5> QED BY <4>1, <4>2, <5>1
      <4>3. CASE ~pick.torn
        <5>1. pick.list = Healthy /\ Standing = Healthy /\ index' = index % Len(Standing)
          BY <3>1, <4>1, <4>3 DEF Goes, Standing
        <5>2. Rotates(Standing, index', turn')
          BY <2>2, <3>1, <4>1, <5>1, WrapsRound
        <5> QED BY <2>1, <4>1, <5>1, <5>2 DEF Goes
      <4> QED BY <4>2, <4>3
    <3>7. CASE Select
      <4>1. turn' = turn /\ index' = index
        BY <3>7 DEF Select
      <4>2. CASE index < Len(Row)
        <5>1. /\ pick'.at = "selected" /\ pick'.list = pick.list /\ pick'.torn = pick.torn
              /\ pick'.chosen = Row[index + 1] /\ pick.at = "wrapped"
          BY <2>2, <3>7, <4>2 DEF Select, PickIs
        <5> QED BY <2>1, <3>1, <3>2, <4>1, <4>2, <5>1 DEF Goes
      <4>3. CASE ~(index < Len(Row))
        <5>1. pick'.at = "none"
          BY <2>3, <3>7, <4>3 DEF Select
        <5> QED BY <3>1, <4>1, <5>1 DEF Goes
      <4> QED BY <4>2, <4>3
    <3>8. CASE AdvanceLoad
      <4>1. turn' = turn /\ index' = index
        BY <3>8 DEF AdvanceLoad
      <4>2. CASE Row # <<>>
        <5>1. /\ pick'.at = "advancing" /\ pick'.list = pick.list /\ pick'.torn = pick.torn
              /\ pick'.chosen = pick.chosen /\ pick'.place = (index + 1) % Len(Row)
              /\ pick.at = "selected"
          BY <2>2, <3>8, <4>2 DEF AdvanceLoad, PickIs
        <5> QED BY <2>1, <3>1, <3>2, <4>1, <5>1 DEF Goes
      <4>3. CASE Row = <<>>
        <5>1. pick'.at = "none"
          BY <2>3, <3>8, <4>3 DEF AdvanceLoad
        <5> QED BY <3>1, <4>1, <5>1 DEF Goes
      <4> QED BY <4>2, <4>3
    <3>9. CASE AdvanceStore
      <4>1. /\ pick' = NoPick /\ pick'.at = "none" /\ index' = pick.place /\ pick.at = "advancing"
            /\ turn' = IF pick.torn THEN turn ELSE Append(turn, pick.chosen)
        BY <2>3, <3>9 DEF AdvanceStore, Serve
      <4>2. CASE pick.torn
        <5>1. Rotates(Standing, index', turn')
          BY <2>2, <3>1, <4>1, <4>2, NewRow
        <5> QED BY <4>1, <5>1 DEF Goes
      <4>3. CASE ~pick.torn
        <5>1. /\ index < Len(Standing) /\ pick.chosen = Standing[index + 1]
              /\ pick.place = (index + 1) % Len(Standing)
          BY <3>1, <4>1, <4>3 DEF Goes
        <5>2. Rotates(Standing, (index + 1) % Len(Standing), Append(turn, Standing[index + 1]))
          BY <2>2, <3>1, <5>1, TurnTaken
        <5>3. Rotates(Standing, index', turn')
          BY <4>1, <4>3, <5>1, <5>2
        <5> QED BY <4>1, <5>3 DEF Goes
      <4> QED BY <4>2, <4>3
    <3>10. CASE Smooth \/ RandomChoice
      <4>1. balancer \in {"smooth", "random"}
        BY <2>2, <3>10 DEF Smooth, TotalWeight, Bump, Choose, Penalize, RandomChoice, PickIs
      <4> QED BY <2>5, <4>1
    <3> QED BY <1>2, <3>3, <3>4, <3>5, <3>6, <3>7, <3>8, <3>9, <3>10 DEF Rotate, RoundRobin
  <2> QED BY <2>1, <2>4, <2>5 DEF RotationOK
<1>3. CASE ChangePool
  BY <1>1, <1>3, ChangedRotation
<1> QED BY <1>2, <1>3 DEF BalancerNext

\* The rotation is rebuilt server by server, whole again when the index is reset.
LEMMA RebuiltStep ==
  ASSUME BalTypeOK, RebuiltOK, BalancerNext
  PROVE  RebuiltOK'
<1>1. CASE Rotate
  <2>1. UNCHANGED <<balancer, servers, healthy, admin, unrest, _rotation>>
    BY <1>1 DEF Rotate, RoundRobin, Smooth, ListHealthy, TestRotation, WrapLoad, WrapStore, Select,
                AdvanceLoad, AdvanceStore, TotalWeight, Bump, Choose, Penalize, RandomChoice
  <2> QED BY <2>1 DEF RebuiltOK
<1>2. ASSUME NEW s \in Servers, AddToPool(s) PROVE RebuiltOK'
  <2>1. /\ balancer' = balancer /\ healthy' = healthy
        /\ unrest' = 0 => unrest = 0
        /\ balancer = "simple" => _rotation' = <<>> /\ admin'.at = "rebuilding" /\ admin'.value = 0
    BY <1>2 DEF AddToPool, BalTypeOK
  <2>2. ASSUME NEW x \in Servers
        PROVE  Times(<<>>, x) = weight[x] * CountTo(servers', 0, x)
    <3>1. <<>> \in Seq(Servers) /\ weight[x] \in Nat
      BY BalancerAssumption
    <3>2. Times(<<>>, x) = 0 /\ CountTo(servers', 0, x) = 0
      BY <3>1, TimesIs, CountGrows
    <3> QED BY <3>1, <3>2
  <2> QED BY <2>1, <2>2 DEF RebuiltOK
<1>3. ASSUME NEW s \in Servers, RemoveFromPool(s) PROVE RebuiltOK'
  BY <1>3 DEF RemoveFromPool, RebuiltOK
<1>4. ASSUME NEW s \in Servers, MarkHealth(s) PROVE RebuiltOK'
  <2>1. unrest' # 0
    BY <1>4 DEF MarkHealth, BalTypeOK
  <2> QED BY <2>1 DEF RebuiltOK
<1>5. CASE ExtendRotation
  <2> DEFINE k == admin.value
             s == servers[k + 1]
  <2>1. /\ balancer = "simple" /\ UNCHANGED <<balancer, servers, healthy, unrest>>
        /\ admin.at = "rebuilding" /\ admin'.at = "rebuilding" /\ admin'.value = k + 1
        /\ k \in Nat /\ k < Len(servers) /\ _rotation \in Seq(Servers)
        /\ s \in Servers
        /\ _rotation' = IF healthy[s] THEN _rotation \o [i \in 1..weight[s] |-> s] ELSE _rotation
    BY <1>5 DEF ExtendRotation, BalTypeOK, AdminTypeOK
  <2>2. ASSUME unrest = 0, NEW x \in Servers
        PROVE  Times(_rotation', x) = weight[x] * CountTo(servers, k + 1, x)
    <3> HIDE DEF k
    <3>1. healthy[s] /\ Times(_rotation, x) = weight[x] * CountTo(servers, k, x)
      BY <2>1, <2>2 DEF RebuiltOK, k
    <3>2. weight[s] \in Nat /\ weight[x] \in Nat
      BY <2>1, BalancerAssumption
    <3>3. Times(_rotation', x) = Times(_rotation, x) + IF s = x THEN weight[s] ELSE 0
      <4> HIDE DEF s
      <4> QED BY <2>1, <3>1, <3>2, TimesExtended
    <3>4. /\ CountTo(servers, k, x) \in Nat
          /\ CountTo(servers, k + 1, x) = CountTo(servers, k, x) + IF s = x THEN 1 ELSE 0
      BY <2>1, CountGrows
    <3> DEFINE c == CountTo(servers, k, x)
               w == weight[x]
    <3>5. w * (c + 1) = w * c + w /\ w * (c + 0) = w * c + 0
      <4>1. c \in Nat /\ w \in Nat
        BY <3>2, <3>4
      <4> HIDE DEF c, w
      <4> QED BY <4>1
    <3> QED BY <3>1, <3>2, <3>3, <3>4, <3>5
  <2> QED BY <2>1, <2>2 DEF RebuiltOK
<1>6. CASE ResetIndex
  <2>1. /\ UNCHANGED <<balancer, servers, healthy, unrest, _rotation>>
        /\ admin.at = "rebuilding" /\ admin.value = Len(servers) /\ admin'.at = "idle"
    BY <1>6 DEF ResetIndex, AtRest
  <2> QED BY <2>1 DEF RebuiltOK
<1>7. CASE ReadIndex \/ ClampIndex
  <2>1. UNCHANGED <<balancer, healthy, unrest>> /\ balancer = "round_robin"
    BY <1>7 DEF ReadIndex, ClampIndex, BalTypeOK, AdminTypeOK
  <2> QED BY <2>1 DEF RebuiltOK
<1> QED BY <1>1, <1>2, <1>3, <1>4, <1>5, <1>6, <1>7 DEF BalancerNext, ChangePool

\* Before the first pick nothing is owed; a pick gives each its share and takes
\* the total from one.
LEMMA OwedIs ==
  ASSUME NEW list \in Seq(Servers), NEW s \in Servers
  PROVE  /\ OwedIn(list, <<>>, s) = 0
         /\ \A q \in Seq(Servers), x \in Servers :
              /\ OwedIn(list, q, s) \in Int
              /\ OwedIn(list, Append(q, x), s) =
                   OwedIn(list, q, s) + Share(list, s) - IF x = s THEN Total(list) ELSE 0
<1>1. Share(list, s) \in Nat /\ Total(list) \in Nat
  BY TotalIs
<1>2. Len(<<>>) = 0 /\ Times(<<>>, s) = 0
  <2>1. <<>> \in Seq(Servers)
    OBVIOUS
  <2> QED BY <2>1, TimesIs
<1>3. OwedIn(list, <<>>, s) = 0
  BY <1>1, <1>2 DEF OwedIn
<1>4. ASSUME NEW q \in Seq(Servers), NEW x \in Servers
      PROVE  /\ OwedIn(list, q, s) \in Int
             /\ OwedIn(list, Append(q, x), s) =
                  OwedIn(list, q, s) + Share(list, s) - IF x = s THEN Total(list) ELSE 0
  <2> DEFINE k == Len(q)
             t == Times(q, s)
             h == Share(list, s)
             all == Total(list)
  <2>1. /\ k \in Nat /\ t \in Nat /\ Len(Append(q, x)) = k + 1
        /\ Times(Append(q, x), s) = t + IF x = s THEN 1 ELSE 0
    BY TimesIs
  <2>2. h \in Nat /\ all \in Nat
    BY <1>1
  <2>3. /\ OwedIn(list, q, s) = k * h - t * all
        /\ OwedIn(list, Append(q, x), s) = (k + 1) * h - (t + IF x = s THEN 1 ELSE 0) * all
    BY <2>1 DEF OwedIn
  <2> HIDE DEF k, t, h, all
  <2>4. /\ (k + 1) * h = k * h + h /\ k * h \in Int /\ t * all \in Int
        /\ (t + 1) * all = t * all + all /\ (t + 0) * all = t * all
    BY <2>1, <2>2
  <2>5. /\ OwedIn(list, q, s) \in Int
        /\ OwedIn(list, Append(q, x), s) =
             OwedIn(list, q, s) + h - IF x = s THEN all ELSE 0
    <3>1. CASE x = s
      BY <2>2, <2>3, <2>4, <3>1
    <3>2. CASE x # s
      BY <2>2, <2>3, <2>4, <3>2
    <3> QED BY <3>1, <3>2
  <2> QED BY <2>5 DEF h, all
<1> QED BY <1>3, <1>4

LEMMA AccountsChange ==
  ASSUME BalInv, BalTypeOK', ChangePool
  PROVE  AccountsOK'
<1> SUFFICES ASSUME balancer' = "smooth" PROVE AccountsOK'
  BY DEF AccountsOK
<1>0. /\ BalTypeOK /\ balancer = "smooth" /\ AccountsOK
      /\ PickIs(pick, balancer)
  BY DEF BalInv, BalTypeOK, PickTypeOK, ChangePool, AddToPool, RemoveFromPool, MarkHealth,
         ExtendRotation, ResetIndex, ReadIndex, ClampIndex
<1>1. ASSUME Changed
      PROVE  /\ pick'.at = pick.at /\ pick'.list = pick.list /\ pick'.total = pick.total
             /\ pick'.chosen = pick.chosen /\ (pick'.torn = (pick.at # "none")) /\ turn' = <<>>
  BY <1>0, <1>1 DEF Changed, PickIs
<1>2. ASSUME NEW s \in Servers, MarkHealth(s) PROVE AccountsOK'
  <2>1. /\ Changed /\ UNCHANGED <<servers, current_weight>>
        /\ unrest' # 0 /\ (~spoiled' => ~spoiled /\ pick.at # "listed")
    <3>1. /\ Changed /\ UNCHANGED <<servers, current_weight>>
          /\ ~spoiled' => ~spoiled /\ pick.at # "listed"
      BY <1>0, <1>2, Zenon DEF MarkHealth
    <3>2. unrest' # 0
      BY <1>2 DEF MarkHealth, BalTypeOK, BalInv
    <3> QED BY <3>1, <3>2
  <2>2. Listed'
    BY <1>0, <1>1, <2>1 DEF AccountsOK, Listed
  <2>3. ~spoiled' => Balanced'
    <3>1. Resting' = Resting
      BY <1>1, <2>1 DEF Resting
    <3> QED BY <1>0, <1>1, <2>1, <3>1 DEF AccountsOK, Balanced
  <2> QED BY <2>1, <2>2, <2>3 DEF AccountsOK
<1>3. ASSUME NEW s \in Servers, AddToPool(s) PROVE AccountsOK'
  <2>1. /\ Changed /\ servers' = Append(servers, s) /\ healthy' = healthy
        /\ current_weight' = [current_weight EXCEPT ![s] = 0]
        /\ current_weight \in [Servers -> Int] /\ servers \in Seq(Servers)
        /\ ~spoiled' => ~spoiled /\ pick.at # "listed" /\ s \notin ToSet(servers)
        /\ unrest' = 0 => unrest = 0 /\ turn = <<>> /\ pick.at = "none"
    <3>1. /\ Changed /\ servers' = Append(servers, s) /\ healthy' = healthy
          /\ current_weight' = [current_weight EXCEPT ![s] = 0]
          /\ ~spoiled' => ~spoiled /\ pick.at # "listed" /\ s \notin ToSet(servers)
      BY <1>0, <1>3, Zenon DEF AddToPool
    <3>2. unrest' = 0 => unrest = 0 /\ turn = <<>> /\ pick.at = "none"
      <4>1. unrest \in Nat
        BY <1>0 DEF BalTypeOK
      <4>2. unrest' = IF turn # <<>> \/ pick.at # "none" THEN unrest + 1 ELSE unrest
        BY <1>0, <1>3 DEF AddToPool
      <4> QED BY <4>1, <4>2
    <3> QED BY <1>0, <3>1, <3>2 DEF BalTypeOK
  <2>2. ToSet(servers') = ToSet(servers) \cup {s}
    <3>1. /\ DOMAIN servers' = (DOMAIN servers) \cup {Len(servers) + 1}
          /\ servers'[Len(servers) + 1] = s /\ \A i \in DOMAIN servers : servers'[i] = servers[i]
      BY <2>1
    <3> QED BY <3>1 DEF ToSet
  <2>3. Listed'
    BY <1>0, <1>1, <2>1, <2>2 DEF AccountsOK, Listed
  <2>4. Healthy \in Seq(Servers) /\ Healthy' \in Seq(Servers)
    BY <1>0, HealthyIs
  <2>5. unrest' = 0 => \A x \in Servers : Resting[x] = 0 /\ current_weight[x] = 0
    <3> SUFFICES ASSUME unrest' = 0, NEW x \in Servers
                 PROVE  Resting[x] = 0 /\ current_weight[x] = 0
      OBVIOUS
    <3>1. Resting[x] = OwedIn(Healthy, turn, x) /\ turn = <<>> /\ pick.at = "none"
      BY <1>0, <2>1 DEF AccountsOK, PaidByShare, OwedNow
    <3>2. Resting[x] = 0
      BY <2>4, <3>1, OwedIs
    <3>3. Resting[x] = current_weight[x] - 0 /\ current_weight[x] \in Int
      BY <2>1, <3>1 DEF Resting
    <3> QED BY <3>2, <3>3
  <2>6. ~spoiled' \/ unrest' = 0 => current_weight[s] = 0
    BY <1>0, <2>1, <2>5 DEF AccountsOK, Listed
  <2>7. ~spoiled' \/ unrest' = 0 => current_weight' = current_weight /\ Resting' = Resting
    <3> SUFFICES ASSUME ~spoiled' \/ unrest' = 0
                 PROVE  current_weight' = current_weight /\ Resting' = Resting
      OBVIOUS
    <3>1. current_weight' = current_weight
      BY <2>1, <2>6
    <3> QED BY <1>1, <2>1, <3>1 DEF Resting
  <2>8. ~spoiled' \/ unrest' = 0 => Balanced'
    BY <1>0, <1>1, <2>1, <2>7 DEF AccountsOK, Balanced
  <2>9. unrest' = 0 => PaidByShare'
    <3> SUFFICES ASSUME unrest' = 0 PROVE PaidByShare'
      OBVIOUS
    <3>1. pick'.at = "none" /\ ~pick'.torn /\ turn' = <<>>
      BY <1>1, <2>1
    <3>2. ASSUME NEW x \in Servers
          PROVE  Resting'[x] = OwedIn(Healthy', turn', x)
                 /\ (Len(Healthy') # 0 => Resting'[x] > -Total(Healthy'))
      <4>1. Resting'[x] = 0
        BY <2>5, <2>7
      <4>2. OwedIn(Healthy', turn', x) = 0
        BY <2>4, <3>1, OwedIs
      <4>3. Healthy' # <<>> => Total(Healthy') \in Nat /\ Total(Healthy') > 0
        BY <2>4, TotalIs
      <4>4. Len(Healthy') # 0 => Healthy' # <<>>
        OBVIOUS
      <4> QED BY <4>1, <4>2, <4>3, <4>4
    <3> QED BY <3>1, <3>2 DEF PaidByShare, OwedNow
  <2> QED BY <2>3, <2>8, <2>9 DEF AccountsOK
<1>4. ~ExtendRotation /\ ~ResetIndex /\ ~ReadIndex /\ ~ClampIndex
      /\ \A s \in Servers : ~RemoveFromPool(s)
  BY <1>0 DEF ExtendRotation, ResetIndex, ReadIndex, ClampIndex, RemoveFromPool, BalTypeOK, AdminTypeOK
<1> QED BY <1>2, <1>3, <1>4 DEF ChangePool

\* With every share given the weights add up to the total.
LEMMA GivenIs ==
  ASSUME NEW list \in Seq(Servers), NEW f \in [Servers -> Int], NEW g \in [Servers -> Int],
         \A s \in Servers : g[s] = f[s] + Share(list, s)
  PROVE  SumOver(g, Servers) = SumOver(f, Servers) + Total(list)
<1>1. /\ IsFiniteSet(Servers) /\ Servers \in SUBSET Servers
      /\ \A s \in Servers : /\ f[s] \in Int /\ Shares(list)[s] \in Int
                            /\ g[s] = f[s] + IF s \in Servers THEN Shares(list)[s] ELSE 0
  BY BalancerAssumption, TotalIs
<1>2. SumOver(g, Servers) = SumOver(f, Servers) + SumOver(Shares(list), Servers)
  BY <1>1, SumChanges
<1> QED BY <1>2, TotalIs

\* Of weights that add up to more than nothing one is more than nothing.
LEMMA OneIsPositive ==
  ASSUME NEW f \in [Servers -> Int], SumOver(f, Servers) > 0
  PROVE  \E s \in Servers : f[s] > 0
<1> SUFFICES ASSUME \A s \in Servers : ~(f[s] > 0) PROVE FALSE
  OBVIOUS
<1>1. IsFiniteSet(Servers) /\ \A s \in Servers : f[s] \in Int /\ f[s] <= 0
  BY BalancerAssumption
<1>2. SumOver(f, Servers) \in Int /\ SumOver(f, Servers) <= 0
  BY <1>1, SumSigns
<1> QED BY <1>2

LEMMA AccountsRotate ==
  ASSUME BalInv, BalTypeOK', Rotate
  PROVE  AccountsOK'
<1> SUFFICES ASSUME balancer' = "smooth" PROVE AccountsOK'
  BY DEF AccountsOK
<1>0. /\ UNCHANGED <<balancer, servers, healthy, unrest, spoiled>> /\ balancer = "smooth"
      /\ BalTypeOK /\ PickIs(pick, balancer) /\ PickIs(pick', balancer)
      /\ Healthy' = Healthy /\ Healthy \in Seq(Servers)
      /\ current_weight \in [Servers -> Int] /\ turn \in Seq(Servers)
  <2>1. UNCHANGED <<balancer, servers, healthy, unrest, spoiled>>
    BY DEF Rotate
  <2>2. Healthy' = Healthy
    BY <2>1 DEF Healthy
  <2>3. BalTypeOK /\ PickIs(pick, balancer) /\ PickIs(pick', balancer)
    BY <2>1 DEF BalInv, BalTypeOK, PickTypeOK
  <2> QED BY <2>1, <2>2, <2>3, HealthyIs DEF BalTypeOK
<1>1. /\ Listed
      /\ ~spoiled \/ unrest = 0 => Balanced
      /\ unrest = 0 => PaidByShare
  BY <1>0 DEF BalInv, AccountsOK
<1>2. \A s \in Servers : Share(pick.list, s) \in Nat
  BY <1>0, TotalIs DEF PickIs
<1>3. Resting \in [Servers -> Int]
  BY <1>0, <1>2 DEF Resting
<1>4. CASE ListHealthy
  <2>1. /\ pick'.at = "listed" /\ pick'.list = Healthy /\ ~pick'.torn /\ pick.at = "none"
        /\ UNCHANGED <<current_weight, turn>>
    BY <1>4 DEF ListHealthy, NoPick
  <2>2. Resting' = Resting
    BY <2>1 DEF Resting
  <2>3. Listed'
    <3>1. \A i \in DOMAIN Healthy : Healthy[i] \in ToSet(servers)
      BY <1>0, HealthyIs
    <3> QED BY <1>0, <1>1, <2>1, <3>1 DEF Listed
  <2>4. Balanced => Balanced'
    BY <1>0, <2>1, <2>2 DEF Balanced
  <2>5. PaidByShare => PaidByShare'
    BY <1>0, <2>1, <2>2 DEF PaidByShare, OwedNow
  <2> QED BY <1>0, <1>1, <2>3, <2>4, <2>5 DEF AccountsOK
<1>5. CASE TotalWeight
  <2>1. /\ pick'.at = "totalled" /\ pick.at = "listed" /\ pick'.list = pick.list
        /\ pick'.torn = pick.torn /\ pick'.total = Total(Healthy)
        /\ UNCHANGED <<current_weight, turn>>
    BY <1>0, <1>5 DEF TotalWeight, PickIs
  <2>2. Resting' = Resting
    BY <2>1 DEF Resting
  <2>3. Listed'
    BY <1>0, <1>1, <2>1 DEF Listed
  <2>4. Balanced => Balanced'
    BY <1>0, <2>1, <2>2 DEF Balanced
  <2>5. PaidByShare => PaidByShare'
    BY <1>0, <2>1, <2>2 DEF PaidByShare, OwedNow
  <2> QED BY <1>0, <1>1, <2>3, <2>4, <2>5 DEF AccountsOK
<1>6. CASE Bump
  <2>1. /\ pick'.at = "bumped" /\ pick.at = "totalled" /\ pick'.list = pick.list
        /\ pick'.torn = pick.torn /\ pick'.total = pick.total /\ turn' = turn
        /\ current_weight' = [s \in Servers |-> current_weight[s] + Share(pick.list, s)]
    BY <1>0, <1>6 DEF Bump, PickIs
  <2>2. Resting' = Resting
    <3>1. \A s \in Servers : /\ Resting[s] = current_weight[s] - 0
                             /\ Resting'[s] = current_weight'[s] - Share(pick.list, s)
                             /\ current_weight'[s] = current_weight[s] + Share(pick.list, s)
      BY <2>1 DEF Resting
    <3>2. \A s \in Servers : Resting'[s] = Resting[s]
      BY <1>0, <1>2, <3>1
    <3>3. Resting = [s \in Servers |-> Resting[s]] /\ Resting' = [s \in Servers |-> Resting'[s]]
      BY DEF Resting
    <3> QED BY <3>2, <3>3
  <2>3. Listed'
    <3>1. ASSUME NEW s \in Servers \ ToSet(servers) PROVE current_weight'[s] = 0
      <4>1. \A i \in DOMAIN pick.list : pick.list[i] # s
        BY <1>1, <2>1, <3>1 DEF Listed
      <4>2. Share(pick.list, s) = 0
        BY <1>0, <4>1, TotalIs DEF PickIs
      <4>3. current_weight[s] = 0
        BY <1>1 DEF Listed
      <4> QED BY <2>1, <4>2, <4>3
    <3> QED BY <1>0, <1>1, <2>1, <3>1 DEF Listed
  <2>4. Balanced => Balanced'
    BY <1>0, <2>1, <2>2 DEF Balanced
  <2>5. PaidByShare => PaidByShare'
    BY <1>0, <2>1, <2>2 DEF PaidByShare, OwedNow
  <2> QED BY <1>0, <1>1, <2>3, <2>4, <2>5 DEF AccountsOK
<1>7. CASE Choose
  <2>1. PICK i \in DOMAIN pick.list :
          /\ pick.at = "bumped" /\ pick' = [pick EXCEPT !.at = "chosen", !.chosen = pick.list[i]]
          /\ \A j \in DOMAIN pick.list :
               \/ current_weight[pick.list[j]] < current_weight[pick.list[i]]
               \/ current_weight[pick.list[j]] = current_weight[pick.list[i]]
          /\ UNCHANGED <<current_weight, turn>>
    BY <1>7 DEF Choose
  <2>2. /\ pick'.at = "chosen" /\ pick'.list = pick.list /\ pick'.total = pick.total
        /\ pick'.torn = pick.torn /\ pick'.chosen = pick.list[i]
    BY <1>0, <2>1 DEF PickIs
  <2>3. Resting' = Resting
    BY <2>1, <2>2 DEF Resting
  <2>4. Listed'
    BY <1>0, <1>1, <2>1, <2>2 DEF Listed
  <2>5. Balanced => Balanced'
    BY <1>0, <2>1, <2>2, <2>3 DEF Balanced
  <2>6. ASSUME Balanced, PaidByShare PROVE PaidByShare'
    <3>1. /\ pick.list \in Seq(Servers) /\ pick.list # <<>> /\ pick.list = Healthy
          /\ \A j \in DOMAIN pick.list : pick.list[j] \in Servers
      BY <1>0, <2>1, <2>6 DEF PickIs, PaidByShare
    <3>2. \A s \in Servers : /\ Resting[s] = OwedIn(Healthy, turn, s)
                             /\ Resting[s] \in Int
                             /\ current_weight[s] = Resting[s] + Share(pick.list, s)
      <4> TAKE s \in Servers
      <4>1. Resting[s] = current_weight[s] - Share(pick.list, s)
        BY <2>1 DEF Resting
      <4> QED BY <1>0, <1>2, <1>3, <2>6, <4>1 DEF PaidByShare, OwedNow
    <3>3. SumOver(current_weight, Servers) > 0
      <4>1. SumOver(current_weight, Servers) = SumOver(Resting, Servers) + Total(pick.list)
        BY <1>0, <1>3, <3>1, <3>2, GivenIs
      <4>2. SumOver(Resting, Servers) = 0 /\ Total(pick.list) \in Nat /\ Total(pick.list) > 0
        BY <2>6, <3>1, TotalIs DEF Balanced
      <4> QED BY <4>1, <4>2
    <3>4. PICK t \in Servers : current_weight[t] > 0
      BY <1>0, <3>3, OneIsPositive
    <3>5. \E j \in DOMAIN pick.list : pick.list[j] = t
      <4> SUFFICES ASSUME \A j \in DOMAIN pick.list : pick.list[j] # t PROVE FALSE
        OBVIOUS
      <4>1. Share(pick.list, t) = 0
        BY <3>1, TotalIs
      <4> DEFINE k == Len(turn)
                 p == Times(turn, t)
                 all == Total(pick.list)
      <4>2. k \in Nat /\ p \in Nat /\ all \in Nat
        BY <1>0, <3>1, TimesIs, TotalIs
      <4>3. current_weight[t] = (k * 0 - p * all) + 0
        BY <3>1, <3>2, <4>1 DEF OwedIn
      <4> HIDE DEF k, p, all
      <4>4. p * all >= 0 /\ p * all \in Int /\ k * 0 = 0
        BY <4>2
      <4> QED BY <3>4, <4>3, <4>4
    <3>6. current_weight'[pick'.chosen] > 0
      <4>1. PICK j \in DOMAIN pick.list : pick.list[j] = t
        BY <3>5
      <4>2. current_weight[pick.list[i]] \in Int /\ current_weight[t] \in Int
        BY <1>0, <3>1
      <4>3. current_weight[t] < current_weight[pick.list[i]] \/ current_weight[t] = current_weight[pick.list[i]]
        BY <2>1, <4>1
      <4>4. current_weight[pick.list[i]] > 0
        BY <3>4, <4>2, <4>3
      <4> QED BY <2>1, <2>2, <4>4
    <3> QED BY <1>0, <2>1, <2>2, <2>3, <2>6, <3>6 DEF PaidByShare, OwedNow
  <2> QED BY <1>0, <1>1, <2>4, <2>5, <2>6 DEF AccountsOK
<1>8. CASE Penalize
  <2> DEFINE c == pick.chosen
             all == pick.total
  <2>1. /\ pick.at = "chosen" /\ c \in Servers /\ all \in Nat
        /\ pick' = NoPick /\ pick'.at = "none" /\ ~pick'.torn
        /\ turn' = IF pick.torn THEN turn ELSE Append(turn, c)
        /\ current_weight' = [current_weight EXCEPT ![c] = @ - all]
    BY <1>0, <1>8 DEF Penalize, Serve, PickIs, NoPick
  <2> HIDE DEF c, all
  <2>2. \A s \in Servers :
          /\ current_weight[s] = Resting[s] + Share(pick.list, s) /\ Resting[s] \in Int
          /\ Resting'[s] = current_weight'[s] /\ current_weight'[s] \in Int
          /\ current_weight'[s] = IF s = c THEN current_weight[s] - all ELSE current_weight[s]
    <3> TAKE s \in Servers
    <3>1. Resting[s] = current_weight[s] - Share(pick.list, s)
      BY <2>1 DEF Resting
    <3>2. current_weight'[s] = IF s = c THEN current_weight[s] - all ELSE current_weight[s]
      BY <1>0, <2>1
    <3>3. Resting'[s] = current_weight'[s] - 0
      BY <2>1 DEF Resting
    <3> QED BY <1>0, <1>2, <1>3, <2>1, <3>1, <3>2, <3>3
  <2>3. Resting' = current_weight'
    <3>1. /\ Resting' = [s \in Servers |-> Resting'[s]]
          /\ current_weight' = [s \in Servers |-> current_weight'[s]]
      BY <1>0, <2>1 DEF Resting
    <3> QED BY <2>2, <3>1
  <2>4. Listed'
    <3>1. c \in ToSet(servers)
      BY <1>1, <2>1 DEF Listed, c
    <3> QED BY <1>0, <1>1, <2>1, <2>2, <3>1 DEF Listed
  <2>5. ASSUME Balanced PROVE Balanced'
    <3>1. /\ SumOver(Resting, Servers) = 0 /\ all = Total(pick.list) /\ all \in Int
          /\ pick.list \in Seq(Servers)
      BY <1>0, <2>1, <2>5 DEF Balanced, PickIs, all
    <3>2. SumOver(current_weight, Servers) = SumOver(Resting, Servers) + Total(pick.list)
      BY <1>0, <1>3, <2>2, <3>1, GivenIs
    <3> DEFINE d == -all
               h == [current_weight EXCEPT ![c] = @ + d]
    <3>3. d \in Int
      BY <3>1
    <3>4. SumOver(h, Servers) = SumOver(current_weight, Servers) + d
      <4>1. IsFiniteSet(Servers)
        BY BalancerAssumption
      <4> HIDE DEF d
      <4> QED BY <1>0, <2>1, <3>3, <4>1, SumOneMore
    <3>5. current_weight' = h
      <4>1. current_weight[c] + d = current_weight[c] - all
        BY <1>0, <2>1, <3>1
      <4> QED BY <1>0, <2>1, <4>1
    <3>6. SumOver(Resting', Servers) = 0 + all + d
      <4> HIDE DEF d, h
      <4> QED BY <2>3, <3>1, <3>2, <3>4, <3>5
    <3>7. 0 + all + d = 0
      BY <3>1
    <3> HIDE DEF d, h
    <3>8. SumOver(Resting', Servers) = 0
      BY <3>6, <3>7
    <3> QED BY <2>1, <3>8 DEF Balanced
  <2>6. ASSUME Balanced, PaidByShare PROVE PaidByShare'
    <3>1. /\ pick.list = Healthy /\ all = Total(Healthy) /\ ~pick.torn /\ turn' = Append(turn, c)
          /\ current_weight[c] > 0
      BY <2>1, <2>6 DEF Balanced, PaidByShare, all, c
    <3>2. ASSUME NEW s \in Servers
          PROVE  Resting'[s] = OwedIn(Healthy, turn', s)
                 /\ (Len(Healthy) # 0 => Resting'[s] > -Total(Healthy))
      <4>1. /\ Resting[s] = OwedIn(Healthy, turn, s)
            /\ Len(Healthy) # 0 => Resting[s] > -Total(Healthy)
        BY <2>6 DEF PaidByShare, OwedNow
      <4>2. /\ OwedIn(Healthy, turn, s) \in Int
            /\ OwedIn(Healthy, turn', s) =
                 OwedIn(Healthy, turn, s) + Share(Healthy, s) - IF c = s THEN Total(Healthy) ELSE 0
        BY <1>0, <2>1, <3>1, OwedIs
      <4>3. /\ Resting'[s] = (IF s = c THEN current_weight[s] - all ELSE current_weight[s])
            /\ current_weight[s] = Resting[s] + Share(Healthy, s)
        BY <2>2, <3>1
      <4>4. Share(Healthy, s) \in Nat /\ Total(Healthy) \in Nat
        BY <1>0, TotalIs
      <4>5. CASE s = c
        BY <1>0, <3>1, <4>1, <4>2, <4>3, <4>4, <4>5
      <4>6. CASE s # c
        BY <3>1, <4>1, <4>2, <4>3, <4>4, <4>6
      <4> QED BY <4>5, <4>6
    <3> QED BY <1>0, <2>1, <3>2 DEF PaidByShare, OwedNow
  <2> QED BY <1>0, <1>1, <2>4, <2>5, <2>6 DEF AccountsOK
<1>9. ~(TestRotation \/ RoundRobin \/ RandomChoice)
  BY <1>0 DEF TestRotation, RoundRobin, WrapLoad, WrapStore, Select, AdvanceLoad, AdvanceStore,
              RandomChoice, PickIs
<1> QED BY <1>4, <1>5, <1>6, <1>7, <1>8, <1>9 DEF Rotate, Smooth

LEMMA BalStep == ASSUME BalInv, [BalancerNext]_balVars PROVE BalInv'
<1>1. CASE BalancerNext
  <2>1. BalTypeOK'
    BY <1>1, ChangePoolType, RotateType DEF BalInv, BalancerNext
  <2>2. RotationOK' /\ RebuiltOK'
    BY <1>1, <2>1, RotationStep, RebuiltStep DEF BalInv
  <2>3. AccountsOK'
    BY <1>1, <2>1, AccountsChange, AccountsRotate DEF BalancerNext
  <2> QED BY <2>1, <2>2, <2>3 DEF BalInv
<1>2. CASE UNCHANGED balVars
  <2>1. /\ UNCHANGED <<balancer, servers, healthy, index, _rotation, current_weight>>
        /\ UNCHANGED <<admin, pick, turn, unrest, spoiled>>
    BY <1>2 DEF balVars
  <2>2. Healthy' = Healthy /\ Standing' = Standing /\ Resting' = Resting
    BY <2>1 DEF Healthy, Standing, Resting
  <2>3. BalTypeOK'
    BY <2>1 DEF BalInv, BalTypeOK, PickTypeOK, AdminTypeOK
  <2>4. RotationOK' /\ RebuiltOK'
    BY <2>1, <2>2 DEF BalInv, RotationOK, Goes, RebuiltOK
  <2>5. AccountsOK'
    BY <2>1, <2>2 DEF BalInv, AccountsOK, Listed, Balanced, PaidByShare, OwedNow
  <2> QED BY <2>3, <2>4, <2>5 DEF BalInv
<1> QED BY <1>1, <1>2

\* Whole rounds taken out of what a server is owed.
LEMMA Regroup ==
  \A q, w, p, all \in Int : (q * all) * w - p * all = (q * w - p) * all
OBVIOUS

\* More than one whole short is at least none short.
LEMMA NoWhole ==
  \A d \in Int, all \in Nat \ {0} : (d * all > -all => d >= 0) /\ (d >= 0 => d * all >= 0)
OBVIOUS

\* The accounts of the balancers are the shares promised.
LEMMA SharesFollow == ASSUME BalInv PROVE SharesByWeight
<1> USE DEF BalInv
<1> DEFINE row == Standing
           all == Total(row)
           Ahead(s) == Times(turn, s) * all - Len(turn) * Share(row, s)
<1>1. row \in Seq(Servers) /\ turn \in Seq(Servers) /\ index \in Nat /\ servers \in Seq(Servers)
  BY HealthyIs DEF Standing, BalTypeOK
<1>2. ASSUME balancer \in {"round_robin", "simple"}, row # <<>>,
             NEW m \in 0..Len(turn) - Len(row), NEW s \in Servers
      PROVE  Times(SubSeq(turn, m + 1, m + Len(row)), s) = Times(row, s)
  <2>1. Rotates(row, index, turn)
    BY <1>2 DEF RotationOK
  <2> HIDE DEF row
  <2>2. Len(row) # 0
    BY <1>1, <1>2, EmptySeq
  <2> QED BY <1>1, <1>2, <2>1, <2>2, FullRound
<1>3. ASSUME balancer = "simple", admin.at = "idle", unrest = 0, NEW s \in Servers
      PROVE  Times(_rotation, s) = Share(servers, s)
  <2>1. Times(_rotation, s) = weight[s] * CountTo(servers, Len(servers), s)
    BY <1>3 DEF RebuiltOK
  <2> QED BY <1>1, <2>1, TimesIs DEF Share
<1>4. ASSUME balancer = "smooth", ~spoiled, pick.at \in {"none", "listed", "totalled"}
      PROVE  FoldFunction(+, 0, current_weight) = 0
  <2>1. current_weight \in [Servers -> Int]
    BY DEF BalTypeOK
  <2>2. SumOver(Resting, Servers) = 0
    BY <1>4 DEF AccountsOK, Balanced
  <2>3. Resting = current_weight
    BY <1>4, <2>1 DEF Resting
  <2> QED BY <2>1, <2>2, <2>3 DEF FoldFunction, SumOver
<1>5. ASSUME balancer = "smooth", unrest = 0, row # <<>>, NEW s \in Servers
      PROVE  Ahead(s) < all /\ (Len(turn) % all = 0 => Ahead(s) = 0)
  <2>1. row = Healthy
    BY <1>5 DEF Standing
  <2>2. /\ SumOver(Resting, Servers) = 0
        /\ \A x \in Servers :
             /\ Resting[x] = OwedIn(row, turn, x)
             /\ Len(row) # 0 => Resting[x] > -all
    BY <1>5, <2>1 DEF AccountsOK, Balanced, PaidByShare, OwedNow
  <2> HIDE DEF row
  <2>3. all \in Nat \ {0} /\ \A x \in Servers : Share(row, x) \in Nat
    BY <1>1, <1>5, TotalIs
  <2>4. Len(row) # 0
    BY <1>1, <1>5, EmptySeq
  <2>5. Len(turn) \in Nat /\ \A x \in Servers : Times(turn, x) \in Nat
    BY <1>1, TimesIs
  <2>6. \A x \in Servers : Resting[x] = Len(turn) * Share(row, x) - Times(turn, x) * all
    BY <2>2 DEF OwedIn
  <2> HIDE DEF all
  <2>7. \A x \in Servers : /\ Len(turn) * Share(row, x) \in Int /\ Times(turn, x) * all \in Int
                           /\ Resting[x] \in Int
    BY <2>3, <2>5, <2>6
  <2>8. Ahead(s) = -Resting[s]
    BY <2>6, <2>7
  <2>9. Resting[s] > -all
    BY <2>2, <2>4
  <2>10. ASSUME Len(turn) % all = 0 PROVE Resting[s] = 0
    <3>1. PICK q \in Nat : Len(turn) = q * all
      <4> DEFINE k == Len(turn)
      <4> HIDE DEF k
      <4>1. k \in Nat => (k \div all) \in Nat /\ k = (k \div all) * all + (k % all)
        BY <2>3
      <4> QED BY <2>3, <2>5, <2>10, <4>1 DEF k
    <3>2. \A x \in Servers : Resting[x] >= 0
      <4> TAKE x \in Servers
      <4> DEFINE w == Share(row, x)
                 p == Times(turn, x)
                 d == q * w - p
      <4>1. w \in Nat /\ p \in Nat /\ q \in Nat
        BY <2>3, <2>5
      <4>2. Resting[x] = (q * all) * w - p * all /\ Resting[x] > -all
        BY <2>2, <2>4, <2>6, <3>1
      <4> HIDE DEF w, p
      <4>3. d \in Int /\ Resting[x] = d * all
        <5>1. (q * all) * w - p * all = (q * w - p) * all
          <6>1. q \in Int /\ all \in Int /\ w \in Int /\ p \in Int
            BY <2>3, <4>1
          <6> QED BY <6>1, Regroup
        <5> QED BY <4>1, <4>2, <5>1
      <4> HIDE DEF d
      <4>4. d >= 0
        BY <2>3, <4>2, <4>3, NoWhole
      <4> QED BY <2>3, <4>3, <4>4, NoWhole
    <3>3. IsFiniteSet(Servers) /\ \A x \in Servers : Resting[x] \in Int /\ Resting[x] >= 0
      BY <2>7, <3>2, BalancerAssumption
    <3>4. \A x \in Servers : Resting[x] <= 0
      BY <2>2, <3>3, SumSigns
    <3> QED BY <3>3, <3>4
  <2> HIDE DEF Ahead
  <2> QED BY <2>3, <2>7, <2>8, <2>9, <2>10
<1> QED
  <2>1. (IF balancer = "simple" THEN _rotation ELSE Healthy) = row
    BY DEF Standing
  <2>2. balancer = "smooth" => row = Healthy
    BY DEF Standing
  <2> HIDE DEF row
  <2> QED BY <1>2, <1>3, <1>4, <1>5, <2>1 DEF SharesByWeight

\* LoadShared, of get_server, add_server, remove_server, release and the health
\* marks. However many removals, failures, rebuilt lists and broken-off picks came
\* before, the requests since the pool last changed go round its list evenly; the
\* expanded list has every server by its weight while none had failed; the smooth
\* weights keep every server within a request of its share while none failed or
\* came late, and always add up to nothing unless the healthy servers changed
\* between the two readings of one pick or a server was registered twice. The
\* balancers that count spread the open connections until one closes or a server
\* fails.
THEOREM LoadIsShared == Spec => []LoadShared
<1>1. Init => BalInv
  BY BalInitInv DEF Init
<1>2. BalInv /\ [Next]_mcVars => BalInv'
  BY OneSystemSteps, BalStep
<1>3. BalInv => SharesByWeight
  BY SharesFollow
<1>4. SharesByWeight /\ LoadSpread => LoadShared
  BY DEF LoadShared
<1> QED BY <1>1, <1>2, <1>3, <1>4, ConnectionsAreSpread, PTL DEF Spec
=============================================================================
