--------------------------- MODULE FeatureTheorems ---------------------------
(***************************************************************************)
(* The properties of features for training partitions of every size, and   *)
(* any number of kills and damages.  What a recipe has learned is a        *)
(* function of the set of rows it has learned (Remembers): counts are      *)
(* cardinalities, and a decayed count is the number of units its rows      *)
(* weigh together, so that learning a row adds to a set and fading by a    *)
(* number of half-lives divides the number of its elements (TotalAdd,      *)
(* TotalFades).  The rows learned are always the older ones, which makes   *)
(* the row learned last the newest (OrderInv).  What is on file is what    *)
(* was described, whatever was killed before the manifest was written      *)
(* (FilesInv).                                                             *)
(***************************************************************************)
EXTENDS FeatureProperties, FiniteSetTheorems, FunctionTheorems, WellFoundedInduction, TLAPS

-----------------------------------------------------------------------------
(* Natural numbers: least elements, division, powers of two *)

\* A set of natural numbers has a least element.
LEMMA LeastNatural ==
  ASSUME NEW T \in SUBSET Nat, T # {}
  PROVE  \E t \in T : \A u \in T : t <= u
<1> DEFINE R == OpToRel(<, Nat)
<1>1. \A u, t \in Nat : u < t => <<u, t>> \in R
  BY DEF OpToRel
<1>2. IsWellFoundedOn(R, Nat)
  BY NatLessThanWellFounded
<1> HIDE DEF R
<1>3. PICK t \in T : \A u \in T : ~(<<u, t>> \in R)
  BY <1>2, WFMin
<1>4. ASSUME NEW u \in T
      PROVE  t <= u
  <2>1. u \in Nat /\ t \in Nat
    OBVIOUS
  <2>2. ~(u < t)
    BY <1>1, <1>3, <2>1
  <2> QED BY <2>1, <2>2
<1> QED BY <1>4

\* Dividing does not enlarge.
LEMMA DivRange ==
  ASSUME NEW a \in Nat, NEW t \in Nat \ {0}
  PROVE  a \div t \in Nat /\ a \div t <= a
<1>1. a = t * (a \div t) + (a % t) /\ a \div t \in Int /\ a % t \in 0..(t-1)
  BY SMT
<1> DEFINE q == a \div t
<1> HIDE DEF q
<1>2. q \in Int /\ t * q <= a /\ t * q > a - t
  BY <1>1, SMT DEF q
<1>3. q >= 0
  BY <1>2, SMT
<1>4. q <= a
  BY <1>2, <1>3, SMT
<1> QED BY <1>2, <1>3, <1>4 DEF q

\* Dividing keeps the order.
LEMMA DivMonotone ==
  ASSUME NEW a \in Nat, NEW b \in Nat, a <= b, NEW t \in Nat \ {0}
  PROVE  a \div t <= b \div t
<1>1. /\ a = t * (a \div t) + (a % t) /\ a \div t \in Int /\ a % t \in 0..(t-1)
      /\ b = t * (b \div t) + (b % t) /\ b \div t \in Int /\ b % t \in 0..(t-1)
  BY SMT
<1> DEFINE q == a \div t  p == b \div t
<1> HIDE DEF q, p
<1>2. q \in Int /\ p \in Int /\ t * q <= a /\ t * p > a - t
  BY <1>1, SMT DEF q, p
<1>3. ASSUME p < q PROVE FALSE
  <2>1. t * p + t <= t * q
    BY <1>2, <1>3, SMT
  <2> QED BY <2>1, <1>2, SMT
<1> QED BY <1>2, <1>3 DEF q, p

\* Dividing undoes multiplying.
LEMMA DivExact ==
  ASSUME NEW y \in Nat, NEW p \in Nat \ {0}
  PROVE  (y * p) \div p = y
<1>1. /\ y * p = p * ((y * p) \div p) + ((y * p) % p)
      /\ (y * p) \div p \in Int /\ (y * p) % p \in 0..(p-1) /\ y * p \in Nat
  BY SMT
<1> DEFINE q == (y * p) \div p  x == y * p
<1> HIDE DEF q
<1>2. q \in Int /\ p * q <= y * p /\ p * q > y * p - p
  BY <1>1, SMT DEF q
<1>3. CASE q < y
  <2>1. p * q + p <= y * p
    BY <1>2, <1>3, SMT
  <2> QED BY <2>1, <1>2, SMT
<1>4. CASE q > y
  <2>1. p * q >= y * p + p
    BY <1>2, <1>4, SMT
  <2> QED BY <2>1, <1>2, SMT
<1> QED BY <1>2, <1>3, <1>4 DEF q

\* A power of two counts the subsets of an interval, so it is positive.
LEMMA PowerNat ==
  ASSUME NEW n \in Nat
  PROVE  2 ^ n \in Nat \ {0}
<1>1. IsFiniteSet(1..n) /\ Cardinality(1..n) = n
  BY FS_Interval
<1>2. IsFiniteSet(SUBSET (1..n)) /\ Cardinality(SUBSET (1..n)) = 2 ^ n
  BY <1>1, FS_SUBSET
<1>3. Cardinality(SUBSET (1..n)) # 0
  BY <1>2, FS_EmptySet
<1> QED BY <1>2, <1>3, FS_CardinalityType

\* A subset of two disjoint intervals is a subset of each.
LEMMA PowerSum ==
  ASSUME NEW a \in Nat, NEW b \in Nat
  PROVE  2 ^ (a + b) = 2 ^ a * 2 ^ b
<1> DEFINE A == 1..a
           B == (a + 1)..(a + b)
           f == [p \in (SUBSET A) \X (SUBSET B) |-> p[1] \cup p[2]]
<1>1. /\ IsFiniteSet(A) /\ Cardinality(A) = a
      /\ IsFiniteSet(B) /\ Cardinality(B) = b
      /\ IsFiniteSet(1..(a + b)) /\ Cardinality(1..(a + b)) = a + b
  <2>1. IsFiniteSet(1..a) /\ Cardinality(1..a) = a
    BY FS_Interval
  <2>2. IsFiniteSet((a + 1)..(a + b)) /\ Cardinality((a + 1)..(a + b)) = b
    BY a + 1 \in Int, a + b \in Int, FS_Interval
  <2>3. IsFiniteSet(1..(a + b)) /\ Cardinality(1..(a + b)) = a + b
    <3>1. \A c \in Nat : IsFiniteSet(1..c) /\ Cardinality(1..c) = c
      BY FS_Interval
    <3> QED BY <3>1
  <2> QED BY <2>1, <2>2, <2>3
<1>2. A \cup B = 1..(a + b) /\ A \cap B = {}
  BY SMT
<1> HIDE DEF A, B
<1>3. /\ IsFiniteSet(SUBSET A) /\ Cardinality(SUBSET A) = 2 ^ a
      /\ IsFiniteSet(SUBSET B) /\ Cardinality(SUBSET B) = 2 ^ b
      /\ IsFiniteSet(SUBSET (A \cup B)) /\ Cardinality(SUBSET (A \cup B)) = 2 ^ (a + b)
  <2>1. IsFiniteSet(SUBSET A) /\ Cardinality(SUBSET A) = 2 ^ a
    BY <1>1, FS_SUBSET
  <2>2. IsFiniteSet(SUBSET B) /\ Cardinality(SUBSET B) = 2 ^ b
    BY <1>1, FS_SUBSET
  <2>3. IsFiniteSet(SUBSET (A \cup B)) /\ Cardinality(SUBSET (A \cup B)) = 2 ^ (a + b)
    BY <1>1, <1>2, FS_SUBSET
  <2> QED BY <2>1, <2>2, <2>3
<1>4. f \in Bijection((SUBSET A) \X (SUBSET B), SUBSET (A \cup B))
  <2>1. f \in [(SUBSET A) \X (SUBSET B) -> SUBSET (A \cup B)]
    OBVIOUS
  <2>2. ASSUME NEW p \in (SUBSET A) \X (SUBSET B), NEW q \in (SUBSET A) \X (SUBSET B), f[p] = f[q]
        PROVE  p = q
    <3>1. p[1] \cup p[2] = q[1] \cup q[2]
      BY <2>2
    <3>2. p[1] = q[1]
      BY <3>1, <1>2
    <3>3. p[2] = q[2]
      BY <3>1, <1>2
    <3> QED BY <3>2, <3>3
  <2>3. ASSUME NEW T \in SUBSET (A \cup B)
        PROVE  \E p \in (SUBSET A) \X (SUBSET B) : f[p] = T
    <3>1. <<T \cap A, T \cap B>> \in (SUBSET A) \X (SUBSET B)
      OBVIOUS
    <3>2. f[<<T \cap A, T \cap B>>] = (T \cap A) \cup (T \cap B)
      BY <3>1
    <3> QED BY <3>1, <3>2
  <2> QED BY <2>1, <2>2, <2>3 DEF Bijection, Injection, Surjection, IsInjective
<1>5. /\ IsFiniteSet((SUBSET A) \X (SUBSET B))
      /\ Cardinality((SUBSET A) \X (SUBSET B)) = 2 ^ a * 2 ^ b
  BY <1>3, FS_Product
<1>6. ExistsBijection((SUBSET A) \X (SUBSET B), SUBSET (A \cup B))
  BY <1>4 DEF ExistsBijection
<1> QED BY <1>3, <1>5, <1>6, FS_Bijection

-----------------------------------------------------------------------------
(* Weights of rows, added up and faded *)

\* A date is a number no greater than its timestamps.
LEMMA ClockRange ==
  ASSUME FeatureAssumption, NEW time \in 0..Horizon
  PROVE  Clock(time) \in 0..Horizon
<1>1. time \in Nat /\ TicksPerDay \in Nat \ {0} /\ Horizon \in Nat
  BY SMT DEF FeatureAssumption
<1>2. time \div TicksPerDay \in Nat /\ time \div TicksPerDay <= time
  BY <1>1, DivRange
<1>3. \A q \in Nat : q <= time => q \in 0..Horizon
  BY <1>1, SMT
<1> QED BY <1>1, <1>2, <1>3 DEF Clock

\* A later timestamp is on no earlier date.
LEMMA ClockMonotone ==
  ASSUME FeatureAssumption, NEW a \in 0..Horizon, NEW b \in 0..Horizon, a <= b
  PROVE  Clock(a) <= Clock(b)
<1>1. a \in Nat /\ b \in Nat /\ TicksPerDay \in Nat \ {0}
  BY SMT DEF FeatureAssumption
<1> QED BY <1>1, DivMonotone DEF Clock

\* What the assumptions say of the rows of a training partition.
LEMMA LogRows ==
  ASSUME FeatureAssumption, log \in Logs
  PROVE  /\ Len(log) \in Nat /\ DOMAIN log = 1..Len(log)
         /\ IsFiniteSet(DOMAIN log) /\ Cardinality(DOMAIN log) = Len(log)
         /\ \A r \in DOMAIN log : /\ log[r] \in TrainingRow /\ r \in Nat
                                  /\ Clock(log[r].time) \in 0..Horizon
<1>1. log \in Seq(TrainingRow)
  BY DEF FeatureAssumption
<1>2. Len(log) \in Nat /\ DOMAIN log = 1..Len(log)
  BY <1>1
<1>3. \A r \in DOMAIN log : log[r] \in TrainingRow /\ r \in Nat
  BY <1>1, <1>2
<1>4. \A r \in DOMAIN log : Clock(log[r].time) \in 0..Horizon
  BY <1>3, ClockRange DEF TrainingRow
<1>5. \A n \in Nat : IsFiniteSet(1..n) /\ Cardinality(1..n) = n
  BY FS_Interval
<1> QED BY <1>2, <1>3, <1>4, <1>5

-----------------------------------------------------------------------------

\* A row weighs one unit's worth when it is new and half as much with every half-life.
LEMMA WeightFacts ==
  ASSUME FeatureAssumption, log \in Logs, NEW r \in DOMAIN log,
         NEW now \in 0..Horizon, Clock(log[r].time) <= now
  PROVE  /\ Weight(r, now) \in 1..Unit
         /\ now = Clock(log[r].time) => Weight(r, now) = Unit
         /\ \A later \in 0..Horizon :
              now <= later => Weight(r, now) = Weight(r, later) * 2 ^ (later - now)
<1> DEFINE c == Clock(log[r].time)
           e == Horizon - (now - c)
<1>1. c \in 0..Horizon /\ Horizon \in Nat /\ c <= now
  BY LogRows DEF FeatureAssumption
<1> HIDE DEF c
<1>2. e \in Nat /\ now - c \in Nat /\ e + (now - c) = Horizon
  BY <1>1, SMT
<1>3. Unit = 2 ^ e * 2 ^ (now - c)
  BY <1>2, PowerSum DEF Unit
<1>4. Weight(r, now) \in 1..Unit
  <2>1. 2 ^ e \in Nat \ {0} /\ 2 ^ (now - c) \in Nat \ {0}
    BY <1>2, PowerNat
  <2>2. \A x, y \in Nat \ {0} : x \in 1..(x * y)
    BY SMT
  <2> QED BY <1>3, <2>1, <2>2 DEF Weight, c
<1>5. now = c => Weight(r, now) = Unit
  <2>1. now = c => e = Horizon
    BY <1>1, SMT
  <2> QED BY <2>1 DEF Weight, Unit, c
<1>6. ASSUME NEW later \in 0..Horizon, now <= later
      PROVE  Weight(r, now) = Weight(r, later) * 2 ^ (later - now)
  <2> DEFINE d == Horizon - (later - c)
  <2>1. d \in Nat /\ later - now \in Nat /\ d + (later - now) = e
    BY <1>1, <1>6, SMT DEF c
  <2>2. 2 ^ e = 2 ^ d * 2 ^ (later - now)
    BY <2>1, PowerSum
  <2> QED BY <2>2 DEF Weight, c
<1> QED BY <1>4, <1>5, <1>6 DEF c

\* The units of rows that have happened can be counted.
LEMMA UnitsFinite ==
  ASSUME FeatureAssumption, log \in Logs, NEW rows \in SUBSET DOMAIN log,
         NEW now \in 0..Horizon, \A r \in rows : Clock(log[r].time) <= now
  PROVE  /\ IsFiniteSet(Units(rows, now)) /\ Total(rows, now) \in Nat
         /\ \A r \in rows : Weight(r, now) \in Nat
<1>1. Unit \in Nat
  BY PowerNat DEF Unit, FeatureAssumption
<1>2. \A r \in rows : Weight(r, now) \in 1..Unit
  BY WeightFacts
<1>3. Units(rows, now) \subseteq rows \X (1..Unit)
  BY <1>1, <1>2 DEF Units
<1>4. IsFiniteSet(rows) /\ IsFiniteSet(1..Unit)
  <2>1. IsFiniteSet(rows)
    BY LogRows, FS_Subset
  <2> QED BY <1>1, <2>1, FS_Interval
<1>5. IsFiniteSet(rows \X (1..Unit))
  BY <1>4, FS_Product
<1>6. IsFiniteSet(Units(rows, now))
  BY <1>3, <1>5, FS_Subset
<1> QED BY <1>1, <1>2, <1>6, FS_CardinalityType DEF Total

\* No rows weigh nothing.
LEMMA TotalEmpty ==
  ASSUME NEW now
  PROVE  Total({}, now) = 0
<1>1. Units({}, now) = {}
  BY DEF Units
<1> QED BY <1>1, FS_EmptySet DEF Total

\* One more row adds its weight.
LEMMA TotalAdd ==
  ASSUME FeatureAssumption, log \in Logs, NEW rows \in SUBSET DOMAIN log,
         NEW r \in DOMAIN log, r \notin rows,
         NEW now \in 0..Horizon, \A s \in rows \cup {r} : Clock(log[s].time) <= now
  PROVE  Total(rows \cup {r}, now) = Total(rows, now) + Weight(r, now)
<1> DEFINE new == {r} \X (1..Weight(r, now))
<1>1. Units(rows \cup {r}, now) = Units(rows, now) \cup new
  BY DEF Units
<1>2. Units(rows, now) \cap new = {}
  BY DEF Units
<1>3. IsFiniteSet(Units(rows, now)) /\ Total(rows, now) \in Nat
  BY UnitsFinite
<1>4. Weight(r, now) \in Nat
  BY UnitsFinite
<1>5. IsFiniteSet(new) /\ Cardinality(new) = Weight(r, now)
  <2>1. IsFiniteSet({r}) /\ Cardinality({r}) = 1
    BY FS_Singleton
  <2>2. IsFiniteSet(1..Weight(r, now)) /\ Cardinality(1..Weight(r, now)) = Weight(r, now)
    BY <1>4, FS_Interval
  <2>3. IsFiniteSet(new) /\ Cardinality(new) = 1 * Weight(r, now)
    BY <2>1, <2>2, FS_Product
  <2> QED BY <2>3, <1>4
<1> HIDE DEF new
<1>6. Cardinality(Units(rows, now) \cup new)
        = Cardinality(Units(rows, now)) + Cardinality(new) - Cardinality({})
  BY <1>2, <1>3, <1>5, FS_Union
<1>7. Cardinality({}) = 0
  BY FS_EmptySet
<1>8. /\ Total(rows \cup {r}, now) = Cardinality(Units(rows, now) \cup new)
      /\ Total(rows, now) = Cardinality(Units(rows, now))
  BY <1>1 DEF Total
<1> QED BY <1>3, <1>4, <1>5, <1>6, <1>7, <1>8

\* The number that stands for the pair of b and c.
Coded(b, c, g) == (b - 1) * g + c

\* Pairs of numbers up to w and up to g are counted by w times g.
LEMMA Coding ==
  ASSUME NEW g \in Nat \ {0}, NEW w \in Nat
  PROVE  /\ \A b \in 1..w, c \in 1..g : Coded(b, c, g) \in 1..(w * g)
         /\ \A b, d \in 1..w, c, e \in 1..g :
              Coded(b, c, g) = Coded(d, e, g) => b = d /\ c = e
         /\ \A u \in 1..(w * g) : \E b \in 1..w, c \in 1..g : u = Coded(b, c, g)
<1>1. ASSUME NEW b \in 1..w, NEW c \in 1..g
      PROVE  (b - 1) * g + c \in 1..(w * g)
  <2>1. (b - 1) * g >= 0 /\ (b - 1) * g + g <= w * g
    BY SMT
  <2> QED BY <2>1, SMT
<1>2. ASSUME NEW b \in 1..w, NEW d \in 1..w, NEW c \in 1..g, NEW e \in 1..g,
             (b - 1) * g + c = (d - 1) * g + e
      PROVE  b = d /\ c = e
  <2>1. ASSUME b < d PROVE FALSE
    <3>1. (b - 1) * g + g <= (d - 1) * g
      BY <2>1, SMT
    <3> QED BY <3>1, <1>2, SMT
  <2>2. ASSUME d < b PROVE FALSE
    <3>1. (d - 1) * g + g <= (b - 1) * g
      BY <2>2, SMT
    <3> QED BY <3>1, <1>2, SMT
  <2> QED BY <2>1, <2>2, <1>2, SMT
<1>3. ASSUME NEW u \in 1..(w * g)
      PROVE  \E b \in 1..w, c \in 1..g : u = (b - 1) * g + c
  <2> DEFINE q == (u - 1) \div g  m == (u - 1) % g
  <2>0. w * g \in Nat /\ u \in Nat /\ u - 1 \in Nat /\ u - 1 < w * g
    BY SMT
  <2>1. u - 1 = g * q + m /\ q \in Int /\ m \in 0..(g - 1)
    BY <2>0, SMT
  <2> HIDE DEF q, m
  <2>2. q >= 0
    BY <2>0, <2>1, SMT
  <2>3. q < w
    <3>1. ASSUME q >= w PROVE FALSE
      <4>1. g * q >= w * g
        BY <3>1, <2>1, SMT
      <4> QED BY <4>1, <2>0, <2>1, SMT
    <3> QED BY <3>1, <2>1, SMT
  <2>4. q + 1 \in 1..w /\ m + 1 \in 1..g
    BY <2>1, <2>2, <2>3, SMT
  <2>5. u = ((q + 1) - 1) * g + (m + 1)
    BY <2>0, <2>1, SMT
  <2> QED BY <2>4, <2>5
<1> QED BY <1>1, <1>2, <1>3 DEF Coded

\* As time passes the weight of rows is divided: every unit later stands for the same number now.
LEMMA TotalFades ==
  ASSUME FeatureAssumption, log \in Logs, NEW rows \in SUBSET DOMAIN log,
         NEW now \in 0..Horizon, \A r \in rows : Clock(log[r].time) <= now,
         NEW later \in 0..Horizon, now <= later
  PROVE  Faded(Total(rows, now), later - now) = Total(rows, later)
<1> DEFINE g == 2 ^ (later - now)
           U == Units(rows, later)
           f == [p \in U \X (1..g) |-> <<p[1][1], Coded(p[1][2], p[2], g)>>]
<1>1. g \in Nat \ {0}
  BY PowerNat, SMT
<1>2. \A r \in rows : /\ Weight(r, later) \in Nat
                      /\ Weight(r, now) = Weight(r, later) * g
  <2>1. \A r \in rows : Clock(log[r].time) <= later
    BY LogRows, SMT DEF FeatureAssumption
  <2> QED BY <2>1, UnitsFinite, WeightFacts
<1>3. IsFiniteSet(U) /\ Total(rows, later) \in Nat
  <2>1. \A r \in rows : Clock(log[r].time) <= later
    BY LogRows, SMT DEF FeatureAssumption
  <2> QED BY <2>1, UnitsFinite
<1> HIDE DEF g
<1>13. \A w \in Nat :
        /\ \A b \in 1..w, c \in 1..g : Coded(b, c, g) \in 1..(w * g)
        /\ \A b, d \in 1..w, c, e \in 1..g : Coded(b, c, g) = Coded(d, e, g) => b = d /\ c = e
        /\ \A u \in 1..(w * g) : \E b \in 1..w, c \in 1..g : u = Coded(b, c, g)
  BY <1>1, Coding, Zenon
<1>4. \A p : p \in U \X (1..g) <=>
        \E r \in rows : \E b \in 1..Weight(r, later), c \in 1..g : p = << <<r, b>>, c>>
  BY DEF Units
<1>5. \A q : q \in Units(rows, now) <=>
        \E r \in rows : \E u \in 1..(Weight(r, later) * g) : q = <<r, u>>
  BY <1>2 DEF Units
<1> HIDE DEF U
<1>6. \A r \in rows : \A b \in 1..Weight(r, later), c \in 1..g :
        /\ << <<r, b>>, c>> \in U \X (1..g)
        /\ f[<< <<r, b>>, c>>] = <<r, Coded(b, c, g)>>
  BY <1>4
<1> HIDE DEF f
<1>7. f \in Bijection(U \X (1..g), Units(rows, now))
  <2>1. ASSUME NEW p \in U \X (1..g) PROVE f[p] \in Units(rows, now)
    <3>0. PICK r \in rows : \E b \in 1..Weight(r, later), c \in 1..g : p = << <<r, b>>, c>>
      BY <1>4
    <3>1. PICK b \in 1..Weight(r, later), c \in 1..g : p = << <<r, b>>, c>>
      BY <3>0
    <3>2. Coded(b, c, g) \in 1..(Weight(r, later) * g)
      BY <1>1, <1>2, Coding
    <3> QED BY <3>1, <3>2, <1>5, <1>6
  <2>2. f \in [U \X (1..g) -> Units(rows, now)]
    BY <2>1 DEF f
  <2>3. ASSUME NEW p \in U \X (1..g), NEW q \in U \X (1..g), f[p] = f[q]
        PROVE  p = q
    <3>8. PICK r \in rows : \E b \in 1..Weight(r, later), c \in 1..g : p = << <<r, b>>, c>>
      BY <1>4
    <3>1. PICK b \in 1..Weight(r, later), c \in 1..g : p = << <<r, b>>, c>>
      BY <3>8
    <3>9. PICK s \in rows : \E d \in 1..Weight(s, later), e \in 1..g : q = << <<s, d>>, e>>
      BY <1>4
    <3>2. PICK d \in 1..Weight(s, later), e \in 1..g : q = << <<s, d>>, e>>
      BY <3>9
    <3>3. <<r, Coded(b, c, g)>> = <<s, Coded(d, e, g)>>
      BY <3>1, <3>2, <1>6, <2>3
    <3>4. r = s /\ Coded(b, c, g) = Coded(d, e, g)
      BY <3>3
    <3>5. b = d /\ c = e
      <4>1. Weight(r, later) \in Nat /\ d \in 1..Weight(r, later)
        BY <1>2, <3>4
      <4>2. \A i, j \in 1..Weight(r, later), k, l \in 1..g :
              Coded(i, k, g) = Coded(j, l, g) => i = j /\ k = l
        BY <4>1, <1>13, Zenon
      <4> QED BY <3>4, <4>1, <4>2
    <3> QED BY <3>1, <3>2, <3>4, <3>5
  <2>4. ASSUME NEW q \in Units(rows, now)
        PROVE  \E p \in U \X (1..g) : f[p] = q
    <3>0. PICK r \in rows : \E u \in 1..(Weight(r, later) * g) : q = <<r, u>>
      BY <1>5
    <3>1. PICK u \in 1..(Weight(r, later) * g) : q = <<r, u>>
      BY <3>0
    <3>2. PICK b \in 1..Weight(r, later), c \in 1..g : u = Coded(b, c, g)
      <4>1. Weight(r, later) \in Nat
        BY <1>2
      <4>2. \A v \in 1..(Weight(r, later) * g) :
              \E i \in 1..Weight(r, later), k \in 1..g : v = Coded(i, k, g)
        BY <4>1, <1>13, Zenon
      <4> QED BY <4>2, Zenon
    <3> QED BY <3>1, <3>2, <1>6
  <2> QED BY <2>2, <2>3, <2>4 DEF Bijection, Injection, Surjection, IsInjective
<1>8. IsFiniteSet(1..g) /\ Cardinality(1..g) = g
  BY <1>1, FS_Interval
<1>9. IsFiniteSet(U \X (1..g)) /\ Cardinality(U \X (1..g)) = Cardinality(U) * g
  BY <1>3, <1>8, FS_Product
<1>10. ExistsBijection(U \X (1..g), Units(rows, now))
  BY <1>7 DEF ExistsBijection
<1>11. Total(rows, now) = Total(rows, later) * g
  BY <1>9, <1>10, FS_Bijection DEF Total, U
<1> QED BY <1>1, <1>3, <1>11, DivExact DEF Faded, g

-----------------------------------------------------------------------------
(* One key's statistics: one more row *)

\* The rows whose label is positive.
Liked(rows) == {r \in rows : log[r].label = 1}

\* A statistic that has learned at least one row.
Ordinary(s) ==
  /\ s.count \in Nat \ {0} /\ s.positives \in 0..s.count
  /\ s.last \in {0, 1} /\ s.seen \in 0..Horizon
  /\ s.fadedCount \in 1..(s.count * Unit) /\ s.fadedPositives \in 0..s.fadedCount

\* A statistic counts the rows of its key, in whatever order they were learned.
Counts(s, same) == s.count = Cardinality(same) /\ s.positives = Positives(same)

\* Learned oldest first, a statistic knows the newest of its rows and the weight of all as of then.
Follows(s, same) ==
  \E n \in same :
    /\ \A q \in same : q = n \/ Older(q, n)
    /\ s.last = log[n].label /\ s.seen = Clock(log[n].time)
    /\ s.fadedCount = Total(same, s.seen) /\ s.fadedPositives = Total(Liked(same), s.seen)

\* Rows are ordered strictly and linearly, by time first.
LEMMA OlderFacts ==
  ASSUME FeatureAssumption, log \in Logs, NEW a \in DOMAIN log, NEW b \in DOMAIN log
  PROVE  /\ ~(Older(a, b) /\ Older(b, a)) /\ ~Older(a, a)
         /\ a # b => Older(a, b) \/ Older(b, a)
         /\ Older(a, b) => Clock(log[a].time) <= Clock(log[b].time)
         /\ \A c \in DOMAIN log : Older(a, b) /\ Older(b, c) => Older(a, c)
<1>1. \A r \in DOMAIN log : Clock(log[r].time) \in Int /\ r \in Int
  <2>1. Horizon \in Nat
    BY DEF FeatureAssumption
  <2> QED BY <2>1, LogRows
<1>2. Older(a, b) => Clock(log[a].time) <= Clock(log[b].time)
  BY <1>1 DEF Older
<1>3. ~(Older(a, b) /\ Older(b, a)) /\ ~Older(a, a)
  BY <1>1 DEF Older
<1>4. a # b => Older(a, b) \/ Older(b, a)
  BY <1>1 DEF Older
<1>5. \A c \in DOMAIN log : Older(a, b) /\ Older(b, c) => Older(a, c)
  BY <1>1 DEF Older
<1> QED BY <1>2, <1>3, <1>4, <1>5

\* The newest of some rows is the one that all others are older than.
LEMMA NewestFound ==
  ASSUME FeatureAssumption, log \in Logs, NEW same \in SUBSET DOMAIN log, NEW n \in same,
         \A q \in same : q = n \/ Older(q, n)
  PROVE  Newest(same) = n
<1>1. \A m \in same : (\A q \in same : q = m \/ Older(q, m)) => m = n
  BY OlderFacts
<1> QED BY <1>1 DEF Newest

\* One more row counts once, and its label counts.
LEMMA PositivesAdd ==
  ASSUME FeatureAssumption, log \in Logs, NEW rows \in SUBSET DOMAIN log,
         NEW r \in DOMAIN log, r \notin rows
  PROVE  /\ Cardinality(rows) \in Nat /\ Cardinality(rows \cup {r}) = Cardinality(rows) + 1
         /\ Positives(rows) \in 0..Cardinality(rows)
         /\ Positives(rows \cup {r}) = Positives(rows) + log[r].label
         /\ Cardinality(rows) < Len(log)
<1>1. IsFiniteSet(rows)
  BY LogRows, FS_Subset
<1>2. IsFiniteSet(Liked(rows)) /\ Cardinality(Liked(rows)) <= Cardinality(rows)
  BY <1>1, FS_Subset DEF Liked
<1>3. Cardinality(rows \cup {r}) = Cardinality(rows) + 1
  BY <1>1, FS_AddElement
<1>4. Liked(rows \cup {r}) = IF log[r].label = 1 THEN Liked(rows) \cup {r} ELSE Liked(rows)
  BY DEF Liked
<1>5. Cardinality(Liked(rows) \cup {r}) = Cardinality(Liked(rows)) + 1
  BY <1>2, FS_AddElement DEF Liked
<1>6. Cardinality(rows) \in Nat /\ Cardinality(Liked(rows)) \in Nat
  BY <1>1, <1>2, FS_CardinalityType
<1>7. \A R : Positives(R) = Cardinality(Liked(R))
  BY DEF Positives, Liked
<1>8. log[r].label \in {0, 1}
  BY LogRows DEF TrainingRow
<1>9. Cardinality(rows \cup {r}) <= Len(log)
  <2>1. rows \cup {r} \in SUBSET DOMAIN log
    OBVIOUS
  <2> QED BY <2>1, LogRows, FS_Subset
<1>10. Positives(rows \cup {r}) = Positives(rows) + log[r].label
  BY <1>4, <1>5, <1>6, <1>7, <1>8
<1>11. Len(log) \in Nat
  BY LogRows
<1> QED BY <1>2, <1>3, <1>6, <1>7, <1>9, <1>10, <1>11

\* A learned row is counted under its keys.
LEMMA LearnedCounts ==
  ASSUME FeatureAssumption, log \in Logs, NEW same \in SUBSET DOMAIN log,
         NEW r \in DOMAIN log, r \notin same, NEW s, NEW now, Counts(s, same)
  PROVE  Counts(Learned(s, log[r].label, now), same \cup {r})
BY PositivesAdd DEF Counts, Learned

\* Fading does not enlarge and keeps the order.
LEMMA FadedLess ==
  ASSUME NEW x \in Nat, NEW y \in 0..x, NEW g \in Nat
  PROVE  Faded(x, g) \in 0..x /\ Faded(y, g) \in 0..Faded(x, g)
<1>1. 2 ^ g \in Nat \ {0}
  BY PowerNat
<1>2. y \in Nat /\ y <= x
  BY SMT
<1> DEFINE h == 2 ^ g
<1> HIDE DEF h
<1>3. h \in Nat \ {0}
  BY <1>1 DEF h
<1>4. x \div h \in Nat /\ x \div h <= x /\ y \div h \in Nat /\ y \div h <= x \div h
  BY <1>2, <1>3, DivRange, DivMonotone
<1>5. Faded(x, g) = x \div h /\ Faded(y, g) = y \div h
  BY DEF Faded, h
<1>6. \A a, b, c \in Nat : a <= b /\ b <= c => b \in 0..c /\ a \in 0..b
  BY SMT
<1> QED BY <1>4, <1>5, <1>6

\* A statistic that has learned a row is well typed.
LEMMA LearnedOrdinary ==
  ASSUME FeatureAssumption, NEW s, s = Unseen \/ Ordinary(s),
         NEW label \in {0, 1}, NEW now \in 0..Horizon
  PROVE  Ordinary(Learned(s, label, now))
<1> DEFINE gap == Elapsed(now, s.seen)
           t == Learned(s, label, now)
<1>1. Unit \in Nat \ {0} /\ Horizon \in Nat
  BY PowerNat DEF Unit, FeatureAssumption
<1>2. s.count \in Nat /\ s.positives \in 0..s.count /\ (s.seen = -1 \/ s.seen \in 0..Horizon)
  BY DEF Ordinary, Unseen
<1>3. gap \in Nat
  BY <1>1, <1>2, SMT DEF Elapsed
<1>4. /\ s.count * Unit \in Nat /\ s.fadedCount \in 0..(s.count * Unit)
      /\ s.fadedPositives \in 0..s.fadedCount
  <2>1. CASE s = Unseen
    BY <2>1, <1>1 DEF Unseen
  <2>2. CASE Ordinary(s)
    <3>1. s.count * Unit \in Nat
      BY <1>1, <1>2
    <3> QED BY <3>1, <2>2 DEF Ordinary
  <2> QED BY <2>1, <2>2
<1> HIDE DEF gap
<1>5. s.fadedCount \in Nat
  BY <1>4
<1>6. /\ Faded(s.fadedCount, gap) \in 0..s.fadedCount
      /\ Faded(s.fadedPositives, gap) \in 0..Faded(s.fadedCount, gap)
  BY <1>3, <1>4, <1>5, FadedLess
<1>7. /\ t.count = s.count + 1 /\ t.positives = s.positives + label
      /\ t.last = label /\ t.seen = now
      /\ t.fadedCount = Faded(s.fadedCount, gap) + Unit
      /\ t.fadedPositives = Faded(s.fadedPositives, gap) + label * Unit
  BY DEF Learned, gap
<1> HIDE DEF t
<1>8. (s.count + 1) * Unit = s.count * Unit + Unit
  BY <1>1, <1>2, SMT
<1>9. t.fadedCount \in 1..(t.count * Unit)
  BY <1>1, <1>4, <1>5, <1>6, <1>7, <1>8
<1>10. t.fadedPositives \in 0..t.fadedCount
  <2>1. label * Unit \in {0, Unit}
    BY <1>1, SMT
  <2> QED BY <2>1, <1>1, <1>5, <1>6, <1>7
<1>11. t.count \in Nat \ {0} /\ t.positives \in 0..t.count
  BY <1>2, <1>7
<1> QED BY <1>7, <1>9, <1>10, <1>11 DEF Ordinary, t

\* A statistic that learns its rows oldest first knows the newest one and the weight of all: what it
\* had learned fades until the new row's time, where the new row weighs a unit's worth.
LEMMA LearnedFollows ==
  ASSUME FeatureAssumption, log \in Logs, NEW same \in SUBSET DOMAIN log,
         NEW r \in DOMAIN log, r \notin same, \A q \in same : Older(q, r),
         NEW s, IF same = {} THEN s = Unseen ELSE Follows(s, same)
  PROVE  Follows(Learned(s, log[r].label, Clock(log[r].time)), same \cup {r})
<1> DEFINE now == Clock(log[r].time)
           label == log[r].label
           t == Learned(s, label, now)
<1>1. now \in 0..Horizon /\ Horizon \in Nat /\ label \in {0, 1} /\ Unit \in Nat
  BY LogRows, PowerNat DEF FeatureAssumption, TrainingRow, Unit
<1>2. \A q \in same : Clock(log[q].time) <= now
  BY OlderFacts
<1>3. \A q \in same \cup {r} : Clock(log[q].time) <= now
  BY <1>1, <1>2
<1>4. /\ Liked(same) \in SUBSET same
      /\ Liked(same \cup {r}) = IF label = 1 THEN Liked(same) \cup {r} ELSE Liked(same)
  BY DEF Liked
<1>5. Weight(r, now) = Unit
  BY <1>1, <1>3, WeightFacts
<1>6. /\ Total(same \cup {r}, now) = Total(same, now) + Unit
      /\ Total(Liked(same) \cup {r}, now) = Total(Liked(same), now) + Unit
      /\ Total(same, now) \in Nat /\ Total(Liked(same), now) \in Nat
  <2>1. Total(same \cup {r}, now) = Total(same, now) + Unit /\ Total(same, now) \in Nat
    BY <1>1, <1>3, <1>5, TotalAdd, UnitsFinite
  <2>2. Liked(same) \in SUBSET DOMAIN log /\ r \notin Liked(same)
    BY <1>4
  <2>3. \A q \in Liked(same) \cup {r} : Clock(log[q].time) <= now
    BY <1>3, <1>4
  <2>4. Total(Liked(same) \cup {r}, now) = Total(Liked(same), now) + Unit
    BY <1>1, <1>5, <2>2, <2>3, TotalAdd
  <2>5. Total(Liked(same), now) \in Nat
    BY <1>1, <2>2, <2>3, UnitsFinite
  <2> QED BY <2>1, <2>4, <2>5
<1>7. Total(Liked(same \cup {r}), now) = Total(Liked(same), now) + label * Unit
  BY <1>1, <1>4, <1>6
<1>8. /\ Faded(s.fadedCount, Elapsed(now, s.seen)) = Total(same, now)
      /\ Faded(s.fadedPositives, Elapsed(now, s.seen)) = Total(Liked(same), now)
  <2>1. CASE same = {}
    <3>1. s.fadedCount = 0 /\ s.fadedPositives = 0 /\ Elapsed(now, s.seen) = 0
      BY <2>1 DEF Unseen, Elapsed
    <3>2. Faded(0, 0) = 0
      BY FadedLess
    <3>3. Total(same, now) = 0 /\ Total(Liked(same), now) = 0
      BY <2>1, <1>4, TotalEmpty
    <3> QED BY <3>1, <3>2, <3>3
  <2>2. CASE same # {}
    <3>1. PICK n \in same :
            /\ s.seen = Clock(log[n].time)
            /\ s.fadedCount = Total(same, s.seen) /\ s.fadedPositives = Total(Liked(same), s.seen)
            /\ \A q \in same : q = n \/ Older(q, n)
      BY <2>2 DEF Follows
    <3>2. s.seen \in 0..Horizon /\ s.seen <= now
      BY <3>1, <1>2, LogRows
    <3>3. Elapsed(now, s.seen) = now - s.seen
      BY <3>2, <1>1 DEF Elapsed
    <3>4. \A q \in same : Clock(log[q].time) <= s.seen
      BY <3>1, <3>2, OlderFacts, LogRows
    <3>5. Faded(Total(same, s.seen), now - s.seen) = Total(same, now)
      BY <1>1, <3>2, <3>4, TotalFades
    <3>6. Faded(Total(Liked(same), s.seen), now - s.seen) = Total(Liked(same), now)
      <4>1. Liked(same) \in SUBSET DOMAIN log
        BY <1>4
      <4>2. \A q \in Liked(same) : Clock(log[q].time) <= s.seen
        BY <3>4, <1>4
      <4> QED BY <1>1, <3>2, <4>1, <4>2, TotalFades
    <3> QED BY <3>1, <3>3, <3>5, <3>6
  <2> QED BY <2>1, <2>2
<1>9. /\ t.last = label /\ t.seen = now
      /\ t.fadedCount = Faded(s.fadedCount, Elapsed(now, s.seen)) + Unit
      /\ t.fadedPositives = Faded(s.fadedPositives, Elapsed(now, s.seen)) + label * Unit
  BY DEF Learned
<1> HIDE DEF t, now, label
<1>10. t.fadedCount = Total(same \cup {r}, now) /\ t.fadedPositives = Total(Liked(same \cup {r}), now)
  BY <1>6, <1>7, <1>8, <1>9
<1>11. Follows(t, same \cup {r})
  <2>1. \A q \in same \cup {r} : q = r \/ Older(q, r)
    OBVIOUS
  <2> QED BY <2>1, <1>9, <1>10 DEF Follows, now, label
<1> QED BY <1>11 DEF t, now, label

-----------------------------------------------------------------------------
(* All statistics: one more row; what is read from them *)

\* Only an ordered extractor shows more than tallies.
LEMMA RecipeFacts ==
  ASSUME extractor \in Known
  PROVE  /\ Recipe.ordered \in BOOLEAN /\ Recipe.hindsight \in BOOLEAN
         /\ Kinds \subseteq {"user", "item", "pair"}
         /\ \A kind \in Kinds : /\ Recipe.shows[kind] \subseteq Tallies \cup Fading \cup Latest
                                /\ Recipe.ordered \/ Recipe.shows[kind] \subseteq Tallies
<1>1. CASE extractor = "expanding"
  <2>1. Recipe = Expanding
    BY <1>1 DEF Recipe
  <2> QED BY <2>1 DEF Kinds, Expanding, Tallies, Fading, Latest
<1>2. CASE extractor = "history"
  <2>1. Recipe = History
    BY <1>2 DEF Recipe
  <2> QED BY <2>1 DEF Kinds, History, Tallies, Fading, Latest
<1>3. CASE extractor = "repeat"
  <2>1. Recipe = Repeat
    BY <1>3 DEF Recipe
  <2> QED BY <2>1 DEF Kinds, Repeat, Tallies, Fading, Latest
<1>4. CASE extractor = "recency"
  <2>1. Recipe = Recency
    BY <1>4 DEF Recipe
  <2> QED BY <2>1 DEF Kinds, Recency, Tallies, Fading, Latest
<1>5. CASE extractor = "candidate"
  <2>1. Recipe = Candidate
    BY <1>5 DEF Recipe
  <2> QED BY <2>1 DEF Kinds, Candidate, Tallies, Fading, Latest
<1>6. CASE extractor = "feedback"
  <2>1. Recipe = Feedback
    BY <1>6 DEF Recipe
  <2> QED BY <2>1 DEF Kinds, Feedback, Tallies, Fading, Latest
<1> QED BY <1>1, <1>2, <1>3, <1>4, <1>5, <1>6 DEF Known

\* Keys of different kinds differ.
LEMMA KeysApart ==
  ASSUME NEW kind \in {"user", "item", "pair"}, NEW other \in {"user", "item", "pair"},
         NEW a, NEW b, KeyOf(kind, a) = KeyOf(other, b)
  PROVE  kind = other
<1>1. KeyOf(kind, a)[1] = kind
  BY DEF KeyOf
<1>2. KeyOf(other, b)[1] = other
  BY DEF KeyOf
<1> QED BY <1>1, <1>2

\* A memory holds what rows say: nothing under other keys, and under theirs the counts, and
\* the newest row and the weights if they were learned in order.
Remembers(m, rows, ordered) ==
  /\ m.rows = Cardinality(rows) /\ m.positives = Positives(rows)
  /\ \A key \in DOMAIN m.stats : /\ Ordinary(m.stats[key])
                                 /\ \E kind \in Kinds, r \in rows : key = KeyOf(kind, log[r])
  /\ \A kind \in Kinds, r \in rows :
       /\ KeyOf(kind, log[r]) \in DOMAIN m.stats
       /\ Counts(m.stats[KeyOf(kind, log[r])], Sharing(rows, kind, log[r]))
       /\ ordered => Follows(m.stats[KeyOf(kind, log[r])], Sharing(rows, kind, log[r]))

\* A blank memory holds what no rows say.
LEMMA BlankRemembers ==
  ASSUME NEW ordered
  PROVE  Remembers(Blank, {}, ordered)
<1>1. Cardinality({}) = 0 /\ Positives({}) = 0
  BY FS_EmptySet DEF Positives
<1>2. DOMAIN Blank.stats = {}
  BY DEF Blank
<1> QED BY <1>1, <1>2 DEF Remembers, Blank

\* What a memory recalls under any key, seen or unseen.
LEMMA Recalled ==
  ASSUME extractor \in Known, NEW m, NEW rows, NEW ordered, Remembers(m, rows, ordered),
         NEW kind \in Kinds, NEW row
  PROVE  LET key == KeyOf(kind, row)
             same == Sharing(rows, kind, row)
             s == IF key \in DOMAIN m.stats THEN m.stats[key] ELSE Unseen
         IN  /\ Counts(s, same)
             /\ s = Unseen \/ Ordinary(s)
             /\ ordered => IF same = {} THEN s = Unseen ELSE Follows(s, same)
<1> DEFINE key == KeyOf(kind, row)
           same == Sharing(rows, kind, row)
           s == IF key \in DOMAIN m.stats THEN m.stats[key] ELSE Unseen
<1>1. CASE same = {}
  <2>1. key \notin DOMAIN m.stats
    <3>1. ASSUME key \in DOMAIN m.stats PROVE FALSE
      <4>1. PICK other \in Kinds, r \in rows : key = KeyOf(other, log[r])
        BY <3>1 DEF Remembers
      <4>2. other = kind
        BY <4>1, RecipeFacts, KeysApart
      <4>3. r \in same
        BY <4>1, <4>2 DEF Sharing
      <4> QED BY <4>3, <1>1
    <3> QED BY <3>1
  <2>2. Counts(Unseen, {})
    BY FS_EmptySet DEF Counts, Unseen, Positives
  <2> QED BY <1>1, <2>1, <2>2
<1>2. CASE same # {}
  <2>1. PICK r \in rows : KeyOf(kind, log[r]) = key
    BY <1>2 DEF Sharing
  <2>2. Sharing(rows, kind, log[r]) = same
    BY <2>1 DEF Sharing
  <2>3. key \in DOMAIN m.stats /\ Counts(m.stats[key], same) /\ (ordered => Follows(m.stats[key], same))
    BY <2>1, <2>2 DEF Remembers
  <2>4. Ordinary(m.stats[key])
    BY <2>3 DEF Remembers
  <2> QED BY <1>2, <2>3, <2>4
<1> QED BY <1>1, <1>2

\* Learning one more row keeps the memory right for all rows learned.
LEMMA LearnKeeps ==
  ASSUME FeatureAssumption, log \in Logs, extractor \in Known,
         NEW m, NEW rows \in SUBSET DOMAIN log, NEW ordered \in BOOLEAN, Remembers(m, rows, ordered),
         NEW r \in DOMAIN log, r \notin rows, ordered => \A q \in rows : Older(q, r)
  PROVE  Remembers(Learn(m, r), rows \cup {r}, ordered)
<1> DEFINE n == Learn(m, r)
           now == Clock(log[r].time)
           all == rows \cup {r}
           old(key) == IF key \in DOMAIN m.stats THEN m.stats[key] ELSE Unseen
<1>1. /\ n.rows = m.rows + 1 /\ n.positives = m.positives + log[r].label
      /\ DOMAIN n.stats = DOMAIN m.stats \cup Keys(log[r])
      /\ \A key \in Keys(log[r]) : n.stats[key] = Learned(old(key), log[r].label, now)
      /\ \A key \in DOMAIN m.stats : key \notin Keys(log[r]) => n.stats[key] = m.stats[key]
  BY DEF Learn
<1> HIDE DEF n
<1>2. now \in 0..Horizon /\ log[r].label \in {0, 1}
  BY LogRows DEF TrainingRow
<1>3. n.rows = Cardinality(all) /\ n.positives = Positives(all)
  BY <1>1, PositivesAdd DEF Remembers
<1>4. ASSUME NEW key \in DOMAIN n.stats
      PROVE  Ordinary(n.stats[key]) /\ \E kind \in Kinds, q \in all : key = KeyOf(kind, log[q])
  <2>1. CASE key \in Keys(log[r])
    <3>1. PICK kind \in Kinds : key = KeyOf(kind, log[r])
      BY <2>1 DEF Keys
    <3>2. old(key) = Unseen \/ Ordinary(old(key))
      BY DEF Remembers
    <3>3. Ordinary(Learned(old(key), log[r].label, now))
      BY <1>2, <3>2, LearnedOrdinary
    <3> QED BY <1>1, <2>1, <3>1, <3>3
  <2>2. CASE key \notin Keys(log[r])
    <3>1. key \in DOMAIN m.stats /\ n.stats[key] = m.stats[key]
      BY <1>1, <2>2
    <3> QED BY <3>1 DEF Remembers
  <2> QED BY <2>1, <2>2
<1>5. ASSUME NEW kind \in Kinds, NEW q \in all
      PROVE  /\ KeyOf(kind, log[q]) \in DOMAIN n.stats
             /\ Counts(n.stats[KeyOf(kind, log[q])], Sharing(all, kind, log[q]))
             /\ ordered => Follows(n.stats[KeyOf(kind, log[q])], Sharing(all, kind, log[q]))
  <2> DEFINE key == KeyOf(kind, log[q])
             same == Sharing(rows, kind, log[q])
  <2>0. same \in SUBSET DOMAIN log /\ r \notin same /\ same \subseteq rows
    BY DEF Sharing
  <2>1. CASE key = KeyOf(kind, log[r])
    <3>1. key \in Keys(log[r]) /\ Sharing(all, kind, log[q]) = same \cup {r}
      BY <2>1 DEF Keys, Sharing
    <3>2. /\ Counts(old(key), same)
          /\ ordered => IF same = {} THEN old(key) = Unseen ELSE Follows(old(key), same)
      BY Recalled
    <3>3. Counts(Learned(old(key), log[r].label, now), same \cup {r})
      BY <2>0, <3>2, LearnedCounts
    <3>4. ordered => Follows(Learned(old(key), log[r].label, now), same \cup {r})
      BY <2>0, <3>2, LearnedFollows
    <3> QED BY <1>1, <3>1, <3>3, <3>4
  <2>2. CASE key # KeyOf(kind, log[r])
    <3>1. q \in rows /\ Sharing(all, kind, log[q]) = same
      BY <2>2 DEF Sharing
    <3>2. key \notin Keys(log[r])
      <4>1. ASSUME NEW other \in Kinds, key = KeyOf(other, log[r]) PROVE FALSE
        <5>1. other = kind
          BY <4>1, RecipeFacts, KeysApart
        <5> QED BY <4>1, <5>1, <2>2
      <4> QED BY <4>1 DEF Keys
    <3>3. /\ key \in DOMAIN m.stats /\ Counts(m.stats[key], same)
          /\ ordered => Follows(m.stats[key], same)
      BY <3>1 DEF Remembers
    <3> QED BY <1>1, <3>1, <3>2, <3>3
  <2> QED BY <2>1, <2>2
<1>6. Remembers(n, all, ordered)
  <2> HIDE DEF all
  <2> QED BY <1>3, <1>4, <1>5 DEF Remembers
<1> QED BY <1>6 DEF n

\* What is read from a memory is the statistics of the rows it has learned, as of the time of reading.
LEMMA Described ==
  ASSUME FeatureAssumption, log \in Logs, extractor \in Known, learned \in SUBSET DOMAIN log,
         NEW ordered, Remembers(memory, learned, ordered), Recipe.ordered => ordered,
         NEW kind \in Kinds, NEW row, NEW now \in 0..Horizon,
         \A r \in learned : Clock(log[r].time) <= now
  PROVE  Told(kind, Recall(KeyOf(kind, row)), now) = AsOf(learned, kind, row, now)
<1> DEFINE s == Recall(KeyOf(kind, row))
           same == Sharing(learned, kind, row)
           gap == Elapsed(now, s.seen)
           told == [count |-> s.count, positives |-> s.positives, last |-> s.last,
                    since |-> IF s.seen = -1 THEN -1 ELSE gap,
                    fadedCount |-> Faded(s.fadedCount, gap),
                    fadedPositives |-> Faded(s.fadedPositives, gap)]
           asOf == [count |-> Cardinality(same), positives |-> Cardinality(Liked(same)),
                    last |-> IF same = {} THEN -1 ELSE log[Newest(same)].label,
                    since |-> IF same = {} THEN -1 ELSE now - Clock(log[Newest(same)].time),
                    fadedCount |-> Total(same, now), fadedPositives |-> Total(Liked(same), now)]
<1>1. Told(kind, s, now) = [field \in Recipe.shows[kind] |-> told[field]]
  BY DEF Told
<1>2. AsOf(learned, kind, row, now) = [field \in Recipe.shows[kind] |-> asOf[field]]
  BY DEF AsOf, Liked
<1>3. /\ Counts(s, same)
      /\ ordered => IF same = {} THEN s = Unseen ELSE Follows(s, same)
  BY Recalled DEF Recall
<1>4. told.count = asOf.count /\ told.positives = asOf.positives
  BY <1>3 DEF Counts, Positives, Liked
<1>5. same \in SUBSET DOMAIN log /\ Liked(same) \in SUBSET same
  BY DEF Sharing, Liked
<1> HIDE DEF s, same
<1>6. ASSUME ordered
      PROVE  /\ told.last = asOf.last /\ told.since = asOf.since
             /\ told.fadedCount = asOf.fadedCount /\ told.fadedPositives = asOf.fadedPositives
  <2>1. CASE same = {}
    <3>1. s = Unseen
      BY <1>3, <1>6, <2>1
    <3>2. Faded(0, 0) = 0
      BY FadedLess
    <3>3. Total(same, now) = 0 /\ Total(Liked(same), now) = 0
      BY <2>1, <1>5, TotalEmpty
    <3> QED BY <2>1, <3>1, <3>2, <3>3 DEF Unseen, Elapsed
  <2>2. CASE same # {}
    <3>1. PICK n \in same :
            /\ \A q \in same : q = n \/ Older(q, n)
            /\ s.last = log[n].label /\ s.seen = Clock(log[n].time)
            /\ s.fadedCount = Total(same, s.seen) /\ s.fadedPositives = Total(Liked(same), s.seen)
      BY <1>3, <1>6, <2>2 DEF Follows
    <3>2. Newest(same) = n
      BY <1>5, <3>1, NewestFound
    <3>3. s.seen \in 0..Horizon /\ s.seen <= now /\ Horizon \in Nat
      BY <3>1, <1>5, LogRows DEF FeatureAssumption, Sharing, same
    <3>4. s.seen # -1 /\ gap = now - s.seen
      BY <3>3 DEF Elapsed
    <3>5. \A q \in same : Clock(log[q].time) <= s.seen
      BY <1>5, <3>1, <3>3, OlderFacts, LogRows
    <3>6. Faded(Total(same, s.seen), now - s.seen) = Total(same, now)
      BY <1>5, <3>3, <3>5, TotalFades
    <3>7. Faded(Total(Liked(same), s.seen), now - s.seen) = Total(Liked(same), now)
      <4>1. Liked(same) \in SUBSET DOMAIN log
        BY <1>5
      <4>2. \A q \in Liked(same) : Clock(log[q].time) <= s.seen
        BY <3>5, <1>5
      <4> QED BY <3>3, <4>1, <4>2, TotalFades
    <3> HIDE DEF gap
    <3> QED BY <2>2, <3>1, <3>2, <3>4, <3>6, <3>7
  <2> QED BY <2>1, <2>2
<1> HIDE DEF told, asOf
<1>7. \A field \in Recipe.shows[kind] : told[field] = asOf[field]
  <2>1. CASE ordered
    <3>1. \A field \in Tallies \cup Fading \cup Latest : told[field] = asOf[field]
      BY <1>4, <1>6, <2>1 DEF Tallies, Fading, Latest
    <3> QED BY <3>1, RecipeFacts
  <2>2. CASE ~ordered
    <3>1. \A field \in Tallies : told[field] = asOf[field]
      BY <1>4 DEF Tallies
    <3> QED BY <2>2, <3>1, RecipeFacts
  <2> QED BY <2>1, <2>2
<1> QED BY <1>1, <1>2, <1>7 DEF s

-----------------------------------------------------------------------------
(* The inductive invariant *)

\* A description of a training row that tells only of strictly earlier rows.
PastOnly(r, d) ==
  LET now == Clock(log[r].time) IN
    /\ \A kind \in Kinds : d.of[kind] = AsOf(Before(now), kind, log[r], now)
    /\ ~Recipe.hindsight => d.prior = <<Positives(Before(now)), Cardinality(Before(now))>>

\* A description of a later row that tells of the whole training partition.
WholePast(row, d) ==
  LET now == Clock(row.time) IN
    /\ \A kind \in Kinds : d.of[kind] = AsOf(DOMAIN log, kind, row, now)
    /\ d.prior = <<Positives(DOMAIN log), Len(log)>>

\* The rows learned so far were learned oldest first.
InTime == Recipe.ordered \/ phase \in {"reading", "learning"}

BaseInv ==
  /\ extractor \in Extractors /\ log \in Logs
  /\ phase \in Covered \cup {"idle", "reading", "learning", "fitting", "manifest", "ready", "refused"}
  /\ DOMAIN files = Covered \cup {"manifest"} /\ faults \in 0..MaxFaults

\* What has been learned is older than what has not; a group holds all rows of its moment that are left.
OrderInv ==
  /\ learned \subseteq DOMAIN log /\ group \subseteq Unlearned
  /\ InTime => \A r \in learned, s \in Unlearned : Older(r, s)
  /\ phase = "reading" =>
       \A r \in learned, s \in Unlearned : Clock(log[r].time) < Clock(log[s].time)
  /\ phase = "learning" =>
       /\ group # {}
       /\ \A r \in group, s \in Unlearned :
            IF s \in group THEN Clock(log[r].time) = Clock(log[s].time)
                           ELSE Clock(log[r].time) < Clock(log[s].time)
  /\ phase # "learning" => group = {}

MemoryInv == Remembers(memory, learned, InTime)

\* Every row described was described from its past, and the pass described all rows.
EmittedInv ==
  /\ DOMAIN emitted \subseteq DOMAIN log
  /\ \A r \in DOMAIN emitted : PastOnly(r, emitted[r])
  /\ phase \in {"reading", "learning"} => DOMAIN emitted = learned \cup group
  /\ phase \in Covered \cup {"fitting", "manifest"} => DOMAIN emitted = DOMAIN log
  /\ phase \in Covered \cup {"manifest"} => \A row \in Later : WholePast(row, served[row])

\* Two files of features that may be handed out.
Sound(train, apply) ==
  /\ \A r \in DOMAIN log : PastOnly(r, train[r])
  /\ \A row \in Later : WholePast(row, apply[row])

\* What is on file is what was described; what a manifest lists, and what was handed out, is right.
FilesInv ==
  /\ phase \in {"train_note", "apply", "apply_note", "manifest"} => files["train"] = emitted
  /\ phase \in {"apply_note", "manifest"} => files["apply"] = served
  /\ files["manifest"] \in {None, Torn} \/ Sound(files["manifest"]["train"], files["manifest"]["apply"])
  /\ phase = "ready" => Sound(handed.train, handed.apply)

IInv == BaseInv /\ OrderInv /\ MemoryInv /\ EmittedInv /\ FilesInv

\* What depends on the extractor alone.
LEMMA RecipeSame ==
  ASSUME extractor' = extractor
  PROVE  Recipe' = Recipe /\ Kinds' = Kinds /\ \A t : Clock(t)' = Clock(t)
<1>1. Recipe' = Recipe
  BY DEF Recipe
<1> QED BY <1>1 DEF Clock, Kinds

\* What depends on the training partition besides.
LEMMA RowsSame ==
  ASSUME extractor' = extractor, log' = log
  PROVE  /\ \A a, b : Older(a, b)' <=> Older(a, b)
         /\ \A rows, kind, row : Sharing(rows, kind, row)' = Sharing(rows, kind, row)
         /\ \A rows : Positives(rows)' = Positives(rows) /\ Liked(rows)' = Liked(rows)
         /\ \A rows, now : Total(rows, now)' = Total(rows, now)
         /\ \A now : Before(now)' = Before(now)
<1>1. \A a, b : Older(a, b)' <=> Older(a, b)
  BY RecipeSame DEF Older
<1>2. \A rows, kind, row : Sharing(rows, kind, row)' = Sharing(rows, kind, row)
  BY DEF Sharing, KeyOf
<1>3. \A rows : Positives(rows)' = Positives(rows) /\ Liked(rows)' = Liked(rows)
  BY DEF Positives, Liked
<1>4. \A rows, now : Units(rows, now)' = Units(rows, now)
  BY RecipeSame DEF Units, Weight
<1>5. \A rows, now : Total(rows, now)' = Total(rows, now)
  BY <1>4 DEF Total
<1>6. \A now : Before(now)' = Before(now)
  BY RecipeSame DEF Before
<1> QED BY <1>1, <1>2, <1>3, <1>5, <1>6

\* The past of a row is the same after every step.
LEMMA PastSame ==
  ASSUME extractor' = extractor, log' = log
  PROVE  /\ \A rows, kind, row, now : AsOf(rows, kind, row, now)' = AsOf(rows, kind, row, now)
         /\ \A r, d : PastOnly(r, d)' <=> PastOnly(r, d)
         /\ \A row, d : WholePast(row, d)' <=> WholePast(row, d)
<1>1. \A rows : Newest(rows)' = Newest(rows)
  BY RowsSame DEF Newest
<1>2. \A rows, kind, row, now : AsOf(rows, kind, row, now)' = AsOf(rows, kind, row, now)
  <2> TAKE rows, kind, row, now
  <2>1. {r \in Sharing(rows, kind, row) : log[r].label = 1}'
          = {r \in Sharing(rows, kind, row) : log[r].label = 1}
    BY RowsSame
  <2> QED BY <1>1, <2>1, RowsSame, RecipeSame DEF AsOf
<1>3. \A r, d : PastOnly(r, d)' <=> PastOnly(r, d)
  BY <1>2, RowsSame, RecipeSame DEF PastOnly
<1>4. \A row, d : WholePast(row, d)' <=> WholePast(row, d)
  BY <1>2, RowsSame, RecipeSame DEF WholePast
<1> QED BY <1>2, <1>3, <1>4

\* What a memory should hold is the same after every step.
LEMMA RemembersSame ==
  ASSUME extractor' = extractor, log' = log
  PROVE  \A m, rows, ordered : Remembers(m, rows, ordered)' <=> Remembers(m, rows, ordered)
<1>1. \A s, same : Counts(s, same)' <=> Counts(s, same)
  BY RowsSame DEF Counts
<1>2. \A s, same : Follows(s, same)' <=> Follows(s, same)
  BY RowsSame, RecipeSame DEF Follows
<1> QED BY <1>1, <1>2, RowsSame, RecipeSame DEF Remembers, Ordinary

-----------------------------------------------------------------------------
(* What a step leaves alone *)

\* The recipe and its partition are as assumed.
LEMMA Inputs ==
  ASSUME FeatureAssumption, IInv
  PROVE  log \in Logs /\ extractor \in Known /\ InTime \in BOOLEAN
BY RecipeFacts DEF FeatureAssumption, IInv, BaseInv, InTime

\* Before a group is learned, the rows learned are those strictly before it.
LEMMA DescribedRow ==
  ASSUME FeatureAssumption, IInv, phase = "reading", NEW r \in Group
  PROVE  /\ Before(Clock(log[r].time)) = learned
         /\ PastOnly(r, Describe(log[r]))
<1> DEFINE now == Clock(log[r].time)
<1>0. log \in Logs /\ extractor \in Known /\ learned \in SUBSET DOMAIN log
  BY Inputs DEF IInv, OrderInv
<1>1. r \in Unlearned /\ \A s \in Unlearned : now <= Clock(log[s].time)
  BY DEF Group
<1>2. now \in 0..Horizon /\ Horizon \in Nat /\ \A s \in DOMAIN log : Clock(log[s].time) \in 0..Horizon
  BY <1>0, <1>1, LogRows DEF Unlearned, FeatureAssumption
<1>3. \A s \in learned : Clock(log[s].time) < now
  BY <1>1 DEF IInv, OrderInv
<1>4. Before(now) = learned
  BY <1>0, <1>1, <1>2, <1>3 DEF Before, Unlearned
<1>5. \A kind \in Kinds : Told(kind, Recall(KeyOf(kind, log[r])), now) = AsOf(learned, kind, log[r], now)
  <2>1. \A s \in learned : Clock(log[s].time) <= now
    BY <1>0, <1>2, <1>3
  <2>2. Remembers(memory, learned, InTime) /\ (Recipe.ordered => InTime)
    BY DEF IInv, MemoryInv, InTime
  <2> QED BY <1>0, <1>2, <2>1, <2>2, Described
<1>6. ~Recipe.hindsight => Prior = <<Positives(learned), Cardinality(learned)>>
  BY DEF Prior, IInv, MemoryInv, Remembers
<1>7. /\ \A kind \in Kinds : Describe(log[r]).of[kind] = Told(kind, Recall(KeyOf(kind, log[r])), now)
      /\ Describe(log[r]).prior = Prior
  BY DEF Describe
<1> QED BY <1>4, <1>5, <1>6, <1>7 DEF PastOnly

\* When the state is fitted, the rows learned are all of them, and none is later than a later row.
LEMMA DescribedLater ==
  ASSUME FeatureAssumption, IInv, phase = "fitting", Unlearned = {}, NEW row \in Later
  PROVE  WholePast(row, Describe(row))
<1> DEFINE now == Clock(row.time)
<1>0. log \in Logs /\ extractor \in Known /\ learned = DOMAIN log
  BY Inputs DEF IInv, OrderInv, Unlearned
<1>1. row.time \in 0..Horizon /\ Horizon \in Nat
  BY DEF FeatureAssumption, LaterRow
<1>2. now \in 0..Horizon
  BY <1>1, ClockRange
<1>3. \A s \in learned : Clock(log[s].time) <= now
  <2>1. \A s \in learned : log[s].time \in 0..Horizon /\ log[s].time <= row.time
    BY <1>0, LogRows DEF FeatureAssumption, TrainingRow
  <2> QED BY <1>1, <2>1, ClockMonotone
<1>4. \A kind \in Kinds : Told(kind, Recall(KeyOf(kind, row)), now) = AsOf(learned, kind, row, now)
  <2>1. Remembers(memory, learned, InTime) /\ (Recipe.ordered => InTime)
    BY DEF IInv, MemoryInv, InTime
  <2> QED BY <1>0, <1>2, <1>3, <2>1, Described
<1>5. Prior = <<Positives(learned), Len(log)>>
  BY <1>0, LogRows DEF Prior, IInv, MemoryInv, Remembers
<1>6. /\ \A kind \in Kinds : Describe(row).of[kind] = Told(kind, Recall(KeyOf(kind, row)), now)
      /\ Describe(row).prior = Prior
  BY DEF Describe
<1> QED BY <1>0, <1>4, <1>5, <1>6 DEF WholePast

\* No step changes the recipe or its partition.
LEMMA BaseKept ==
  ASSUME FeatureAssumption, IInv, [Next]_vars
  PROVE  BaseInv' /\ extractor' = extractor /\ log' = log
<1>1. BaseInv
  BY DEF IInv
<1>2. MaxFaults \in Nat
  BY DEF FeatureAssumption
<1> QED BY <1>1, <1>2 DEF BaseInv, Next, vars, Step, Reuse, Refuse, Rebuild, ReadGroup, LearnRow, FitState,
       FitRow, ApplyState, Attach, WriteManifest, CallAgain, Kill, Damage, Forget, Covered, After

\* Whether features are right is the same after every step.
LEMMA SoundSame ==
  ASSUME extractor' = extractor, log' = log
  PROVE  \A train, apply : Sound(train, apply)' <=> Sound(train, apply)
BY PastSame DEF Sound

\* A step that touches neither what is learned nor the group.
LEMMA LearnedKept ==
  ASSUME IInv, extractor' = extractor, log' = log,
         UNCHANGED <<group, learned, memory>>,
         {phase, phase'} \cap {"reading", "learning"} = {}
  PROVE  OrderInv' /\ MemoryInv'
<1>1. InTime' <=> InTime
  BY RecipeSame DEF InTime
<1>2. Unlearned' = Unlearned
  BY DEF Unlearned
<1>3. OrderInv'
  BY <1>1, <1>2, RowsSame DEF IInv, OrderInv
<1>4. MemoryInv'
  BY <1>1, RemembersSame DEF IInv, MemoryInv
<1> QED BY <1>3, <1>4

\* A process that starts over has learned nothing.
LEMMA Forgotten ==
  ASSUME extractor' = extractor, log' = log, group' = {}, learned' = {}, memory' = Blank,
         phase' \notin {"learning"}
  PROVE  OrderInv' /\ MemoryInv'
<1>1. OrderInv'
  BY DEF OrderInv, Unlearned
<1>2. Remembers(Blank, {}, InTime')
  BY BlankRemembers
<1>3. MemoryInv'
  BY <1>2, RemembersSame DEF MemoryInv
<1> QED BY <1>1, <1>3

-----------------------------------------------------------------------------
(* One lemma per action *)

\* A process that ends leaves the files, of which only the manifest vouches for others.
LEMMA ForgetKeeps ==
  ASSUME FeatureAssumption, IInv, [Next]_vars, Forget,
         files'["manifest"] \in {None, Torn, files["manifest"]}
  PROVE  IInv'
<1>1. BaseInv' /\ extractor' = extractor /\ log' = log
  BY BaseKept
<1>2. OrderInv' /\ MemoryInv'
  BY <1>1, Forgotten DEF Forget
<1>3. DOMAIN << >> = {}
  OBVIOUS
<1>4. EmittedInv'
  BY <1>3 DEF Forget, EmittedInv, Covered
<1>5. FilesInv'
  BY <1>1, SoundSame DEF Forget, FilesInv, IInv
<1> QED BY <1>1, <1>2, <1>4, <1>5 DEF IInv

\* A new call, a kill or a damage keeps the invariant.
LEMMA FaultsKeep ==
  ASSUME FeatureAssumption, IInv, CallAgain \/ Kill \/ Damage
  PROVE  IInv'
<1>1. [Next]_vars /\ Forget
  BY DEF Next, CallAgain, Kill, Damage
<1>2. files'["manifest"] \in {None, Torn, files["manifest"]}
  <2>1. CASE CallAgain
    BY <2>1 DEF CallAgain
  <2>2. CASE Kill
    BY <2>2 DEF Kill, IInv, BaseInv
  <2>3. CASE Damage
    BY <2>3 DEF Damage, IInv, BaseInv
  <2> QED BY <2>1, <2>2, <2>3
<1> QED BY <1>1, <1>2, ForgetKeeps

\* An artifact is handed out again only as its manifest lists it.
LEMMA ReuseKeeps ==
  ASSUME FeatureAssumption, IInv, Reuse \/ Refuse
  PROVE  IInv'
<1>1. BaseInv' /\ extractor' = extractor /\ log' = log
  BY BaseKept DEF Next, Step
<1>2. /\ UNCHANGED <<group, learned, memory, emitted, served, files>>
      /\ phase = "idle" /\ phase' \in {"ready", "refused"}
  BY DEF Reuse, Refuse
<1>3. OrderInv' /\ MemoryInv'
  BY <1>1, <1>2, LearnedKept
<1>4. EmittedInv'
  BY <1>1, <1>2, PastSame DEF EmittedInv, IInv, Covered
<1>5. phase' = "ready" => Sound(handed'.train, handed'.apply)
  <2>1. CASE Reuse
    <3>1. Sound(files["manifest"]["train"], files["manifest"]["apply"])
      BY <2>1 DEF Reuse, IInv, FilesInv
    <3>2. handed'.train = files["manifest"]["train"] /\ handed'.apply = files["manifest"]["apply"]
      BY <2>1 DEF Reuse, Covers, Covered
    <3> QED BY <3>1, <3>2
  <2>2. CASE Refuse
    BY <2>2 DEF Refuse
  <2> QED BY <2>1, <2>2
<1>6. FilesInv'
  BY <1>1, <1>2, <1>5, SoundSame DEF FilesInv, IInv
<1> QED BY <1>1, <1>3, <1>4, <1>6 DEF IInv

\* A rebuild starts from nothing.
LEMMA RebuildKeeps ==
  ASSUME FeatureAssumption, IInv, Rebuild
  PROVE  IInv'
<1>1. BaseInv' /\ extractor' = extractor /\ log' = log
  BY BaseKept DEF Next, Step
<1>2. /\ phase' = "reading" /\ group' = {} /\ learned' = {} /\ memory' = Blank
      /\ emitted' = << >> /\ UNCHANGED <<files, handed>>
  BY DEF Rebuild
<1>3. OrderInv' /\ MemoryInv'
  BY <1>1, <1>2, Forgotten
<1>4. DOMAIN << >> = {}
  OBVIOUS
<1>5. EmittedInv'
  BY <1>2, <1>4 DEF EmittedInv, Covered
<1>6. FilesInv'
  BY <1>1, <1>2, SoundSame DEF FilesInv, IInv
<1> QED BY <1>1, <1>3, <1>5, <1>6 DEF IInv

\* A group is described from the rows strictly before it.
LEMMA ReadGroupKeeps ==
  ASSUME FeatureAssumption, IInv, ReadGroup
  PROVE  IInv'
<1>1. BaseInv' /\ extractor' = extractor /\ log' = log
  BY BaseKept DEF Next, Step
<1>2. /\ phase = "reading" /\ phase' = "learning" /\ group' = Group /\ Unlearned # {}
      /\ UNCHANGED <<learned, memory, files, handed>>
      /\ emitted' = [r \in DOMAIN emitted \cup Group |->
                       IF r \in DOMAIN emitted THEN emitted[r] ELSE Describe(log[r])]
  BY DEF ReadGroup
<1>3. log \in Logs /\ learned \in SUBSET DOMAIN log /\ group = {} /\ DOMAIN emitted = learned
  BY <1>2, Inputs DEF IInv, OrderInv, EmittedInv
<1>4. InTime' /\ InTime /\ Unlearned' = Unlearned
  BY <1>1, <1>2 DEF InTime, Unlearned
<1>5. \A r \in Unlearned : Clock(log[r].time) \in Nat
  BY <1>3, LogRows DEF Unlearned, FeatureAssumption
<1>6. Group # {}
  <2> DEFINE T == {Clock(log[r].time) : r \in Unlearned}
  <2>1. T \subseteq Nat /\ T # {}
    BY <1>2, <1>5
  <2>2. \E t \in T : \A u \in T : t <= u
    BY <2>1, LeastNatural
  <2> QED BY <2>2 DEF Group
<1>7. OrderInv'
  <2>1. \A r \in Group, s \in Unlearned :
          IF s \in Group THEN Clock(log[r].time) = Clock(log[s].time)
                         ELSE Clock(log[r].time) < Clock(log[s].time)
    BY <1>5 DEF Group
  <2>2. \A r \in learned, s \in Unlearned : Older(r, s)
    BY <1>4 DEF IInv, OrderInv
  <2>3. Group \subseteq Unlearned /\ learned \subseteq DOMAIN log
    BY <1>3 DEF Group
  <2> QED BY <1>1, <1>2, <1>4, <1>6, <2>1, <2>2, <2>3, RowsSame, RecipeSame DEF OrderInv
<1>8. MemoryInv'
  BY <1>1, <1>2, <1>4, RemembersSame DEF IInv, MemoryInv
<1>9. EmittedInv'
  <2>1. \A r \in DOMAIN emitted \cup Group : PastOnly(r, emitted'[r])
    <3>1. \A r \in Group : PastOnly(r, Describe(log[r]))
      BY <1>2, DescribedRow
    <3> QED BY <1>2, <3>1 DEF IInv, EmittedInv
  <2>2. Group \subseteq DOMAIN log
    BY DEF Group, Unlearned
  <2> QED BY <1>1, <1>2, <1>3, <2>1, <2>2, PastSame DEF EmittedInv, Covered
<1>10. FilesInv'
  BY <1>1, <1>2, SoundSame DEF FilesInv, IInv
<1> QED BY <1>1, <1>7, <1>8, <1>9, <1>10 DEF IInv

\* The row learned next is newer than all learned rows and older than all others.
LEMMA LearnRowKeeps ==
  ASSUME FeatureAssumption, IInv, LearnRow
  PROVE  IInv'
<1>1. BaseInv' /\ extractor' = extractor /\ log' = log
  BY BaseKept DEF Next, Step
<1>2. PICK r \in Oldest(group) :
        /\ memory' = Learn(memory, r) /\ learned' = learned \cup {r} /\ group' = group \ {r}
        /\ phase' = IF group' = {} THEN "reading" ELSE "learning"
  BY DEF LearnRow
<1>3. phase = "learning" /\ UNCHANGED <<emitted, served, files, handed>>
  BY DEF LearnRow
<1>4. /\ log \in Logs /\ extractor \in Known /\ learned \in SUBSET DOMAIN log
      /\ group \subseteq Unlearned
  BY Inputs DEF IInv, OrderInv
<1>5. r \in group /\ r \in DOMAIN log /\ r \notin learned /\ \A s \in group : s = r \/ Older(r, s)
  BY <1>4 DEF Oldest, Unlearned
<1>6. InTime /\ InTime'
  BY <1>2, <1>3 DEF InTime
<1>7. \A q \in learned : Older(q, r)
  BY <1>4, <1>5, <1>6 DEF IInv, OrderInv, Unlearned
<1>8. Unlearned' = Unlearned \ {r}
  BY <1>1, <1>2 DEF Unlearned
<1>9. \A s \in DOMAIN log : Clock(log[s].time) \in Int
  BY <1>4, LogRows DEF FeatureAssumption
<1>10. \A s \in Unlearned \ group : Clock(log[r].time) < Clock(log[s].time)
  BY <1>3, <1>5 DEF IInv, OrderInv
<1>11. \A s \in Unlearned \ {r} : Older(r, s)
  BY <1>5, <1>10 DEF Older
<1>12. OrderInv'
  <2>1. \A q \in learned', s \in Unlearned' : Older(q, s)
    BY <1>2, <1>6, <1>8, <1>11 DEF IInv, OrderInv
  <2>2. group' = {} => \A q \in learned', s \in Unlearned' : Clock(log[q].time) < Clock(log[s].time)
    <3>1. SUFFICES ASSUME group' = {}, NEW q \in learned', NEW s \in Unlearned'
                   PROVE  Clock(log[q].time) < Clock(log[s].time)
      OBVIOUS
    <3>2. s \in Unlearned \ group /\ s \in DOMAIN log
      BY <1>2, <1>8, <3>1 DEF Unlearned
    <3>3. Clock(log[r].time) < Clock(log[s].time)
      BY <1>10, <3>2
    <3>4. q \in DOMAIN log /\ Clock(log[q].time) <= Clock(log[r].time)
      BY <1>2, <1>4, <1>5, <1>7, <1>9, OlderFacts
    <3> QED BY <1>5, <1>9, <3>2, <3>3, <3>4
  <2>3. group' \subseteq Unlearned' /\ learned' \subseteq DOMAIN log
    BY <1>2, <1>4, <1>5, <1>8
  <2>4. \A p \in group', s \in Unlearned' :
          IF s \in group' THEN Clock(log[p].time) = Clock(log[s].time)
                          ELSE Clock(log[p].time) < Clock(log[s].time)
    BY <1>2, <1>3, <1>8 DEF IInv, OrderInv
  <2> QED BY <1>1, <1>2, <2>1, <2>2, <2>3, <2>4, RowsSame, RecipeSame DEF OrderInv
<1>13. MemoryInv'
  <2>1. Remembers(memory, learned, TRUE)
    BY <1>6 DEF IInv, MemoryInv
  <2>2. Remembers(Learn(memory, r), learned \cup {r}, TRUE)
    BY <1>4, <1>5, <1>7, <2>1, LearnKeeps
  <2> QED BY <1>1, <1>2, <1>6, <2>2, RemembersSame DEF MemoryInv
<1>14. EmittedInv'
  <2>1. learned' \cup group' = learned \cup group
    BY <1>2, <1>5
  <2>2. phase' \in {"reading", "learning"}
    BY <1>2
  <2> QED BY <1>1, <1>3, <2>1, <2>2, PastSame DEF IInv, EmittedInv, Covered
<1>15. FilesInv'
  BY <1>1, <1>2, <1>3, SoundSame DEF FilesInv, IInv
<1> QED BY <1>1, <1>12, <1>13, <1>14, <1>15 DEF IInv

\* The state is fitted from nothing.
LEMMA FitStateKeeps ==
  ASSUME FeatureAssumption, IInv, FitState
  PROVE  IInv'
<1>1. BaseInv' /\ extractor' = extractor /\ log' = log
  BY BaseKept DEF Next, Step
<1>2. /\ phase = "reading" /\ Unlearned = {} /\ phase' = "fitting"
      /\ learned' = {} /\ memory' = Blank
      /\ UNCHANGED <<group, emitted, served, files, handed>>
  BY DEF FitState
<1>3. group = {} /\ learned = DOMAIN log /\ DOMAIN emitted = DOMAIN log
  BY <1>2 DEF IInv, OrderInv, EmittedInv, Unlearned
<1>4. OrderInv' /\ MemoryInv'
  BY <1>1, <1>2, <1>3, Forgotten
<1>5. EmittedInv'
  BY <1>1, <1>2, <1>3, PastSame DEF IInv, EmittedInv, Covered
<1>6. FilesInv'
  BY <1>1, <1>2, SoundSame DEF FilesInv, IInv
<1> QED BY <1>1, <1>4, <1>5, <1>6 DEF IInv

\* An ordered extractor fits the oldest row left, another counts rows in any order.
LEMMA FitRowKeeps ==
  ASSUME FeatureAssumption, IInv, FitRow
  PROVE  IInv'
<1>1. BaseInv' /\ extractor' = extractor /\ log' = log
  BY BaseKept DEF Next, Step
<1>2. PICK r \in NextToFit : memory' = Learn(memory, r) /\ learned' = learned \cup {r}
  BY DEF FitRow
<1>3. phase = "fitting" /\ UNCHANGED <<phase, group, emitted, served, files, handed>>
  BY DEF FitRow
<1>4. log \in Logs /\ extractor \in Known /\ learned \in SUBSET DOMAIN log /\ group = {}
  BY <1>3, Inputs DEF IInv, OrderInv
<1>5. r \in DOMAIN log /\ r \notin learned
  BY DEF NextToFit, Oldest, Unlearned
<1>6. (InTime <=> Recipe.ordered) /\ (InTime' <=> InTime) /\ InTime \in BOOLEAN
  BY <1>1, <1>3, RecipeSame, Inputs DEF InTime
<1>7. InTime => \A q \in learned : Older(q, r)
  BY <1>4, <1>5 DEF IInv, OrderInv, Unlearned
<1>8. Unlearned' = Unlearned \ {r}
  BY <1>1, <1>2 DEF Unlearned
<1>9. InTime => \A s \in Unlearned \ {r} : Older(r, s)
  BY <1>6 DEF NextToFit, Oldest
<1>10. OrderInv'
  <2>1. InTime => \A q \in learned', s \in Unlearned' : Older(q, s)
    BY <1>2, <1>8, <1>9 DEF IInv, OrderInv
  <2>2. learned' \subseteq DOMAIN log
    BY <1>2, <1>4, <1>5
  <2> QED BY <1>1, <1>3, <1>4, <1>6, <2>1, <2>2, RowsSame DEF OrderInv
<1>11. MemoryInv'
  <2>1. Remembers(Learn(memory, r), learned \cup {r}, InTime)
    BY <1>4, <1>5, <1>6, <1>7, LearnKeeps DEF IInv, MemoryInv
  <2>2. Remembers(memory', learned', InTime')
    BY <1>2, <1>6, <2>1 DEF Remembers
  <2> QED BY <1>1, <2>2, RemembersSame DEF MemoryInv
<1>12. EmittedInv'
  BY <1>1, <1>3, PastSame DEF IInv, EmittedInv, Covered
<1>13. FilesInv'
  BY <1>1, <1>3, SoundSame DEF FilesInv, IInv
<1> QED BY <1>1, <1>10, <1>11, <1>12, <1>13 DEF IInv

\* Later rows are described from the fitted state.
LEMMA ApplyStateKeeps ==
  ASSUME FeatureAssumption, IInv, ApplyState
  PROVE  IInv'
<1>1. BaseInv' /\ extractor' = extractor /\ log' = log
  BY BaseKept DEF Next, Step
<1>2. /\ phase = "fitting" /\ Unlearned = {} /\ phase' = "train"
      /\ served' = [row \in Later |-> Describe(row)]
      /\ UNCHANGED <<group, learned, memory, emitted, files, handed>>
  BY DEF ApplyState
<1>3. OrderInv' /\ MemoryInv'
  BY <1>1, <1>2, LearnedKept
<1>4. \A row \in Later : WholePast(row, served'[row])
  BY <1>2, DescribedLater
<1>5. EmittedInv'
  BY <1>1, <1>2, <1>4, PastSame DEF IInv, EmittedInv, Covered
<1>6. FilesInv'
  BY <1>1, <1>2, SoundSame DEF FilesInv, IInv
<1> QED BY <1>1, <1>3, <1>5, <1>6 DEF IInv

\* A file receives the features of its own partition.
LEMMA AttachKeeps ==
  ASSUME FeatureAssumption, IInv, Attach
  PROVE  IInv'
<1>1. BaseInv' /\ extractor' = extractor /\ log' = log
  BY BaseKept DEF Next, Step
<1>2. /\ phase \in Covered /\ phase' = After(phase)
      /\ files' = [files EXCEPT ![phase] = Content(phase)]
      /\ UNCHANGED <<group, learned, memory, emitted, served, handed>>
  BY DEF Attach
<1>3. OrderInv' /\ MemoryInv'
  BY <1>1, <1>2, LearnedKept DEF Covered, After
<1>4. EmittedInv'
  BY <1>1, <1>2, PastSame DEF IInv, EmittedInv, Covered, After
<1>5. FilesInv'
  <2>1. DOMAIN files = Covered \cup {"manifest"}
    BY DEF IInv, BaseInv
  <2>2. files'["manifest"] = files["manifest"]
    BY <1>2, <2>1 DEF Covered
  <2>3. /\ phase = "train" => files'["train"] = emitted
        /\ phase = "apply" => files'["apply"] = served
        /\ phase # "train" => files'["train"] = files["train"]
        /\ phase # "apply" => files'["apply"] = files["apply"]
    BY <1>2, <2>1 DEF Covered, Content
  <2>4. /\ phase = "train" => phase' = "train_note"
        /\ phase = "train_note" => phase' = "apply"
        /\ phase = "apply" => phase' = "apply_note"
        /\ phase = "apply_note" => phase' = "manifest"
    BY <1>2 DEF After
  <2> QED BY <1>1, <1>2, <2>2, <2>3, <2>4, SoundSame DEF FilesInv, IInv, Covered
<1> QED BY <1>1, <1>3, <1>4, <1>5 DEF IInv

\* The manifest lists what this process has written.
LEMMA WriteManifestKeeps ==
  ASSUME FeatureAssumption, IInv, WriteManifest
  PROVE  IInv'
<1>1. BaseInv' /\ extractor' = extractor /\ log' = log
  BY BaseKept DEF Next, Step
<1>2. /\ phase = "manifest" /\ phase' = "ready"
      /\ files' = [files EXCEPT !["manifest"] = [name \in Covered |-> files[name]]]
      /\ handed' = [train |-> files["train"], apply |-> files["apply"]]
      /\ UNCHANGED <<group, learned, memory, emitted, served>>
  BY DEF WriteManifest
<1>3. OrderInv' /\ MemoryInv'
  BY <1>1, <1>2, LearnedKept
<1>4. EmittedInv'
  BY <1>1, <1>2, PastSame DEF IInv, EmittedInv, Covered
<1>5. Sound(files["train"], files["apply"])
  BY <1>2 DEF IInv, EmittedInv, FilesInv, Sound, Covered
<1>6. /\ files'["manifest"]["train"] = files["train"]
      /\ files'["manifest"]["apply"] = files["apply"]
  BY <1>2 DEF IInv, BaseInv, Covered
<1>7. FilesInv'
  BY <1>1, <1>2, <1>5, <1>6, SoundSame DEF FilesInv
<1> QED BY <1>1, <1>3, <1>4, <1>7 DEF IInv

\* A stuttering step keeps the invariant.
LEMMA StutterKeeps ==
  ASSUME FeatureAssumption, IInv, UNCHANGED vars
  PROVE  IInv'
<1>1. BaseInv' /\ extractor' = extractor /\ log' = log
  BY BaseKept
<1>2. UNCHANGED <<phase, group, learned, memory, emitted, served, files, handed>>
  BY DEF vars
<1>3. (InTime' <=> InTime) /\ Unlearned' = Unlearned
  BY <1>1, <1>2, RecipeSame DEF InTime, Unlearned
<1>4. OrderInv'
  BY <1>1, <1>2, <1>3, RowsSame, RecipeSame DEF IInv, OrderInv
<1>5. MemoryInv'
  BY <1>1, <1>2, <1>3, RemembersSame DEF IInv, MemoryInv
<1>6. EmittedInv'
  BY <1>1, <1>2, PastSame DEF IInv, EmittedInv, Covered
<1>7. FilesInv'
  BY <1>1, <1>2, SoundSame DEF IInv, FilesInv
<1> QED BY <1>1, <1>4, <1>5, <1>6, <1>7 DEF IInv

\* The invariant holds initially.
LEMMA InitHolds ==
  ASSUME FeatureAssumption, Init
  PROVE  IInv
<1>1. BaseInv
  BY DEF Init, BaseInv, FeatureAssumption
<1>2. OrderInv
  BY DEF Init, OrderInv, Unlearned
<1>3. MemoryInv
  BY BlankRemembers DEF Init, MemoryInv
<1>4. DOMAIN << >> = {}
  OBVIOUS
<1>5. EmittedInv
  BY <1>4 DEF Init, EmittedInv, Covered
<1>6. FilesInv
  BY DEF Init, FilesInv, Covered
<1> QED BY <1>1, <1>2, <1>3, <1>5, <1>6 DEF IInv

\* The inductive invariant: whatever was killed, damaged or reused, the memory holds what the rows learned
\* so far say, the rows described were described from the rows before them, and so were those of every
\* artifact that a manifest vouches for.
THEOREM FeatureInvariant == Spec => []IInv
<1>1. Init => IInv
  BY FeatureAssumption, InitHolds
<1>2. IInv /\ [Next]_vars => IInv'
  <2>1. SUFFICES ASSUME IInv, [Next]_vars PROVE IInv'
    OBVIOUS
  <2>2. CASE Reuse \/ Refuse
    BY <2>1, <2>2, FeatureAssumption, ReuseKeeps
  <2>3. CASE Rebuild
    BY <2>1, <2>3, FeatureAssumption, RebuildKeeps
  <2>4. CASE ReadGroup
    BY <2>1, <2>4, FeatureAssumption, ReadGroupKeeps
  <2>5. CASE LearnRow
    BY <2>1, <2>5, FeatureAssumption, LearnRowKeeps
  <2>6. CASE FitState
    BY <2>1, <2>6, FeatureAssumption, FitStateKeeps
  <2>7. CASE FitRow
    BY <2>1, <2>7, FeatureAssumption, FitRowKeeps
  <2>8. CASE ApplyState
    BY <2>1, <2>8, FeatureAssumption, ApplyStateKeeps
  <2>9. CASE Attach
    BY <2>1, <2>9, FeatureAssumption, AttachKeeps
  <2>10. CASE WriteManifest
    BY <2>1, <2>10, FeatureAssumption, WriteManifestKeeps
  <2>11. CASE CallAgain \/ Kill \/ Damage
    BY <2>1, <2>11, FeatureAssumption, FaultsKeep
  <2>12. CASE UNCHANGED vars
    BY <2>1, <2>12, FeatureAssumption, StutterKeeps
  <2> QED BY <2>1, <2>2, <2>3, <2>4, <2>5, <2>6, <2>7, <2>8, <2>9, <2>10, <2>11, <2>12 DEF Next, Step
<1> QED BY <1>1, <1>2, PTL DEF Spec

\* The invariant implies the types.
LEMMA TypesFollow ==
  ASSUME FeatureAssumption, IInv
  PROVE  TypeOK
<1>1. log \in Logs /\ extractor \in Known /\ learned \in SUBSET DOMAIN log /\ group \subseteq DOMAIN log
  BY Inputs DEF IInv, OrderInv, Unlearned
<1>2. IsFiniteSet(learned) /\ Len(log) \in Nat /\ Cardinality(learned) <= Len(log)
  BY <1>1, LogRows, FS_Subset
<1>3. Cardinality(learned) \in Nat
  BY <1>2, FS_CardinalityType
<1>4. IsFiniteSet(Liked(learned)) /\ Cardinality(Liked(learned)) <= Cardinality(learned)
  BY <1>2, FS_Subset DEF Liked
<1>5. Positives(learned) = Cardinality(Liked(learned)) /\ Cardinality(Liked(learned)) \in Nat
  BY <1>4, FS_CardinalityType DEF Positives, Liked
<1>6. memory.rows = Cardinality(learned) /\ memory.positives = Positives(learned)
  BY DEF IInv, MemoryInv, Remembers
<1>7. Unit \in Nat
  BY PowerNat DEF Unit, FeatureAssumption
<1>8. ASSUME NEW key \in DOMAIN memory.stats
      PROVE  LET s == memory.stats[key] IN
               /\ s.count \in 1..memory.rows /\ s.positives \in 0..s.count
               /\ s.last \in {0, 1} /\ s.seen \in 0..Horizon
               /\ s.fadedCount \in 1..(Len(log) * Unit) /\ s.fadedPositives \in 0..s.fadedCount
  <2> DEFINE s == memory.stats[key]
  <2>1. Ordinary(s) /\ \E kind \in Kinds, r \in learned : key = KeyOf(kind, log[r])
    BY DEF IInv, MemoryInv, Remembers
  <2>2. PICK kind \in Kinds, r \in learned : key = KeyOf(kind, log[r])
    BY <2>1
  <2>3. s.count = Cardinality(Sharing(learned, kind, log[r]))
    BY <2>2 DEF IInv, MemoryInv, Remembers, Counts
  <2>4. Cardinality(Sharing(learned, kind, log[r])) <= Cardinality(learned)
    <3>1. Sharing(learned, kind, log[r]) \in SUBSET learned
      BY DEF Sharing
    <3> QED BY <1>2, <3>1, FS_Subset
  <2>5. s.count \in Nat \ {0} /\ s.count <= Len(log) /\ s.count <= memory.rows
    BY <1>2, <1>3, <1>6, <2>1, <2>3, <2>4 DEF Ordinary
  <2>6. s.count * Unit <= Len(log) * Unit /\ s.count * Unit \in Nat /\ Len(log) * Unit \in Nat
    <3>1. \A a, b, u \in Nat : a <= b => a * u <= b * u /\ a * u \in Nat /\ b * u \in Nat
      BY SMT
    <3> QED BY <1>2, <1>7, <2>5, <3>1
  <2>7. s.fadedCount \in 1..(Len(log) * Unit)
    <3>1. s.fadedCount \in 1..(s.count * Unit)
      BY <2>1 DEF Ordinary
    <3>2. \A a, b, x : a \in Nat /\ b \in Nat /\ a <= b /\ x \in 1..a => x \in 1..b
      BY SMT
    <3> QED BY <2>6, <3>1, <3>2
  <2>8. s.count \in 1..memory.rows
    BY <1>3, <1>6, <2>5
  <2> QED BY <2>1, <2>7, <2>8 DEF Ordinary
<1> QED BY <1>1, <1>2, <1>3, <1>4, <1>5, <1>6, <1>8 DEF TypeOK, IInv, BaseInv, EmittedInv

\* Rows, statistics, files and phases keep their types, and no statistic exceeds the training rows
\* (TypeOK), for partitions, keys and faults of any number.
THEOREM FeatureTypeCorrect == Spec => []TypeOK
<1>1. IInv => TypeOK
  BY FeatureAssumption, TypesFollow
<1> QED BY <1>1, FeatureInvariant, PTL

\* For every training partition and any number of kills and damages: the features of a training row that a
\* caller receives, decayed counts included, are those of the strictly earlier rows alone.
THEOREM AlwaysTrainedOnThePast == Spec => []TrainedOnThePast
<1>1. IInv => TrainedOnThePast
  BY DEF IInv, FilesInv, Sound, TrainedOnThePast, PastOnly
<1> QED BY <1>1, FeatureInvariant, PTL

\* For every later partition: what a later row is served is the same function of the past, the past being
\* the whole training partition.
THEOREM AlwaysServedAsTrained == Spec => []ServedAsTrained
<1>1. IInv => ServedAsTrained
  BY DEF IInv, FilesInv, Sound, ServedAsTrained, WholePast
<1> QED BY <1>1, FeatureInvariant, PTL
=============================================================================
