---------------------------- MODULE WatchdogProofs ----------------------------
(***************************************************************************)
(* For any number of servers and any limits: the watchdog restarts only    *)
(* what has been stuck through every strike, and no unit more often than   *)
(* its rate limit allows.                                                  *)
(***************************************************************************)
EXTENDS Watchdog, WellFoundedInduction, TLAPS

Age == 0..Window + 1

Servers == [up : BOOLEAN, age : 0..Grace, stuck : BOOLEAN, backlog : BOOLEAN]

Sorted(ages) == \A i, j \in DOMAIN ages : i < j => ages[j] <= ages[i]

\* The j-th latest of a list of ages, whose oldest comes first.
Latest(ages, j) == ages[Len(ages) - j + 1]

-----------------------------------------------------------------------------
(* The inductive invariant.                                                *)

TypeInv ==
    /\ server \in [Unit -> Servers]
    /\ worked \in [Unit -> BOOLEAN]
    /\ pc \in {"asleep", "round", "capture"}
    /\ todo \in [Unit -> {"no", "look", "skip"}]
    /\ at \in Unit
    /\ taken \in 0..Delay
    /\ strikes \in [Unit -> Nat]
    /\ sampled \in [Unit -> BOOLEAN]
    /\ restarts \in [Unit -> Seq(Age)]
    /\ idle \in [Unit -> 0..Strikes + 1]
    /\ issued \in [Unit -> Seq(Age)]
    /\ mishaps \in 0..MaxFaults

\* Only an error can leave a unit at its last strike.
StrikesInv ==
    \A u \in Unit : strikes[u] + (IF pc = "capture" /\ at = u THEN 0 ELSE 1) <= Strikes + mishaps

\* Strikes are checks in a row at which the process had not worked, and a
\* sample that shows no work is one of a process that does not run.
SilentInv ==
    \A u \in Unit :
        /\ todo[u] = "look" /\ server[u].up /\ ~worked[u] => server[u].stuck
        /\ sampled[u] /\ ~worked[u] => AtMost(strikes[u] + 1, Strikes + 1) <= idle[u]

\* What is remembered covers what was done: the j-th latest restart has the j-th
\* latest decision, at most Delay before it, as long as it counts; and the
\* decision after it was taken when it was done.
Covers(ages, done) ==
    /\ Sorted(ages) /\ Sorted(done)
    /\ \A i \in DOMAIN done : done[i] <= Window
    /\ \A j \in DOMAIN done : Latest(done, j) <= Window - Delay =>
          j <= Len(ages) /\ Latest(ages, j) <= Latest(done, j) + Delay
    /\ \A j \in DOMAIN done : j > 1 =>
          j - 1 <= Len(ages) /\ Latest(ages, j - 1) <= Latest(done, j)

LimitInv ==
    \A u \in Unit :
        /\ Covers(restarts[u], issued[u])
        /\ Len(restarts[u]) <= RateMax
        /\ pc = "capture" /\ at = u =>
              /\ Len(restarts[u]) < RateMax
              /\ \A i \in DOMAIN restarts[u] : taken <= restarts[u][i]
              /\ \A i \in DOMAIN issued[u] : taken <= issued[u][i]

WatchInv == TypeInv /\ StrikesInv /\ SilentInv /\ LimitInv

-----------------------------------------------------------------------------
(* Lists of ages.                                                          *)

LEMMA Least ==
  ASSUME NEW T, T \subseteq Nat, T # {}
  PROVE  \E m \in T : \A k \in T : m <= k
<1> DEFINE R == OpToRel(<, Nat)
<1>1. IsWellFoundedOn(R, Nat)
  BY NatLessThanWellFounded
<1>2. \A x \in T, y \in T : y < x => <<y, x>> \in R
  BY DEF OpToRel
<1> HIDE DEF R
<1>3. PICK m \in T : \A y \in T : ~(<<y, m>> \in R)
  BY <1>1, WFMin
<1>4. ASSUME NEW k \in T
      PROVE  m <= k
  <2>1. ~(k < m)
    BY <1>2, <1>3
  <2> QED
    BY <2>1
<1> QED
  BY <1>4

LEMMA AgesAreNumbers ==
  ASSUME NEW ages \in Seq(Age)
  PROVE  /\ Len(ages) \in Nat /\ DOMAIN ages = 1..Len(ages)
         /\ \A i \in 1..Len(ages) : ages[i] \in Age /\ ages[i] \in Nat
<1>1. Age \subseteq Nat
  BY WatchdogAssumption DEF Age
<1>2. Len(ages) \in Nat /\ DOMAIN ages = 1..Len(ages) /\ \A i \in 1..Len(ages) : ages[i] \in Age
  OBVIOUS
<1> QED
  BY <1>1, <1>2

\* What is popped is older, and what stays keeps its place from the end.
LEMMA RecentFacts ==
  ASSUME NEW ages \in Seq(Age), NEW w \in Nat
  PROVE  /\ Recent(ages, w) \in Seq(Age)
         /\ \E n \in 0..Len(ages) :
               /\ Len(Recent(ages, w)) = Len(ages) - n
               /\ \A i \in 1..(Len(ages) - n) : Recent(ages, w)[i] = ages[i + n]
               /\ \A i \in 1..n : ages[i] > w
               /\ n < Len(ages) => ages[n + 1] <= w
<1> DEFINE L == Len(ages)
           kept == {i \in DOMAIN ages : ages[i] <= w}
<1>1. L \in Nat /\ DOMAIN ages = 1..L /\ \A i \in 1..L : ages[i] \in Nat
  BY AgesAreNumbers
<1>2. Recent(ages, w) = IF kept = {} THEN <<>> ELSE SubSeq(ages, Min(kept), L)
  BY DEF Recent
<1>3. CASE kept = {}
  <2>1. Recent(ages, w) = <<>> /\ \A i \in 1..L : ages[i] > w
    BY <1>1, <1>2, <1>3
  <2>2. Len(<<>>) = 0 /\ <<>> \in Seq(Age)
    OBVIOUS
  <2>3. L \in 0..L /\ L - L = 0 /\ ~(L < L) /\ 1..0 = {}
    BY <1>1
  <2> HIDE DEF L
  <2>4. /\ Len(Recent(ages, w)) = L - L
        /\ \A i \in 1..(L - L) : Recent(ages, w)[i] = ages[i + L]
        /\ \A i \in 1..L : ages[i] > w
        /\ L < L => ages[L + 1] <= w
    BY <2>1, <2>2, <2>3
  <2> QED
    BY <2>1, <2>2, <2>3, <2>4 DEF L
<1>4. CASE kept # {}
  <2> DEFINE m == Min(kept)
  <2>1. m \in kept /\ \A k \in kept : m <= k
    <3>1. kept \subseteq Nat
      BY <1>1
    <3>2. \E k \in kept : \A j \in kept : k <= j
      BY <1>4, <3>1, Least
    <3> QED
      BY <3>2 DEF Min
  <2> HIDE DEF m
  <2>2. m \in 1..L /\ ages[m] <= w
    BY <2>1, <1>1
  <2>3. \A i \in 1..(m - 1) : ages[i] > w
    <3> SUFFICES ASSUME NEW i \in 1..(m - 1), ~(ages[i] > w)
                 PROVE  FALSE
      OBVIOUS
    <3>1. i \in kept
      BY <1>1, <2>2
    <3> QED
      BY <3>1, <2>1, <2>2, <1>1
  <2>4. Recent(ages, w) = SubSeq(ages, m, L)
    BY <1>2, <1>4 DEF m
  <2> DEFINE n == m - 1
  <2>5. /\ SubSeq(ages, m, L) \in Seq(Age) /\ Len(SubSeq(ages, m, L)) = L - m + 1
        /\ \A i \in 1..(L - m + 1) : SubSeq(ages, m, L)[i] = ages[m + i - 1]
    BY <2>2, <1>1
  <2>6. n \in 0..L /\ n + 1 = m /\ L - m + 1 = L - n
    BY <2>2, <1>1
  <2>7. \A i \in 1..(L - n) : m + i - 1 = i + n
    BY <2>2, <1>1
  <2> HIDE DEF n, L, kept
  <2>8. /\ Len(Recent(ages, w)) = L - n
        /\ \A i \in 1..(L - n) : Recent(ages, w)[i] = ages[i + n]
        /\ \A i \in 1..n : ages[i] > w
        /\ n < L => ages[n + 1] <= w
    BY <2>2, <2>3, <2>4, <2>5, <2>6, <2>7 DEF n
  <2> QED
    BY <2>4, <2>5, <2>6, <2>8 DEF L
<1> QED
  BY <1>3, <1>4

\* The same from the end.
LEMMA RecentLatest ==
  ASSUME NEW ages \in Seq(Age), NEW w \in Nat
  PROVE  /\ Recent(ages, w) \in Seq(Age)
         /\ Len(Recent(ages, w)) \in 0..Len(ages)
         /\ \A j \in 1..Len(Recent(ages, w)) : Latest(Recent(ages, w), j) = Latest(ages, j)
         /\ Len(Recent(ages, w)) > 0 => Latest(ages, Len(Recent(ages, w))) <= w
         /\ \A j \in 1..Len(ages) : Latest(ages, j) <= w => j <= Len(Recent(ages, w))
         /\ Sorted(ages) => Sorted(Recent(ages, w)) /\ \A i \in DOMAIN Recent(ages, w) : Recent(ages, w)[i] <= w
<1> DEFINE r == Recent(ages, w)
           L == Len(ages)
<1>1. r \in Seq(Age) /\ L \in Nat /\ DOMAIN ages = 1..L /\ \A i \in 1..L : ages[i] \in Nat
  BY RecentFacts, AgesAreNumbers
<1>2. PICK n \in 0..L :
         /\ Len(r) = L - n
         /\ \A i \in 1..(L - n) : r[i] = ages[i + n]
         /\ \A i \in 1..n : ages[i] > w
         /\ n < L => ages[n + 1] <= w
  BY RecentFacts
<1>3. DOMAIN r = 1..Len(r)
  BY <1>1
<1> HIDE DEF r, L
<1>4. ASSUME NEW j \in 1..Len(r)
      PROVE  Latest(r, j) = Latest(ages, j)
  <2>1. Len(r) - j + 1 \in 1..(L - n) /\ (Len(r) - j + 1) + n = L - j + 1
    BY <1>1, <1>2
  <2>2. r[Len(r) - j + 1] = ages[(Len(r) - j + 1) + n]
    BY <2>1, <1>2
  <2> QED
    BY <2>1, <2>2 DEF Latest, L
<1>5. Len(r) > 0 => Latest(ages, Len(r)) <= w
  <2>1. L - (L - n) + 1 = n + 1 /\ (Len(r) > 0 => n < L)
    BY <1>1, <1>2
  <2> QED
    BY <2>1, <1>2 DEF Latest, L
<1>6. ASSUME NEW j \in 1..L, Latest(ages, j) <= w
      PROVE  j <= Len(r)
  <2> SUFFICES ASSUME ~(j <= L - n)
               PROVE  FALSE
    BY <1>1, <1>2
  <2>1. L - j + 1 \in 1..n
    BY <1>1, <1>2
  <2>2. ages[L - j + 1] > w /\ ages[L - j + 1] <= w /\ ages[L - j + 1] \in Nat
    BY <2>1, <1>1, <1>2, <1>6 DEF Latest, L
  <2> QED
    BY <2>2
<1>7. ASSUME Sorted(ages)
      PROVE  Sorted(r) /\ \A i \in DOMAIN r : r[i] <= w
  <2>1. ASSUME NEW i \in 1..Len(r), NEW j \in 1..Len(r), i < j
        PROVE  r[j] <= r[i]
    <3>1. i + n \in 1..L /\ j + n \in 1..L /\ i + n < j + n
      BY <1>1, <1>2, <2>1
    <3> QED
      BY <3>1, <1>1, <1>2, <1>7 DEF Sorted
  <2>2. ASSUME NEW i \in 1..Len(r)
        PROVE  r[i] <= w
    <3>1. i + n \in 1..L /\ n + 1 \in 1..L /\ n < L /\ (n + 1 = i + n \/ n + 1 < i + n)
      BY <1>1, <1>2
    <3>2. r[i] = ages[i + n] /\ ages[i + n] \in Nat /\ ages[n + 1] \in Nat
      BY <3>1, <1>1, <1>2
    <3>3. ages[i + n] <= ages[n + 1]
      <4>1. CASE n + 1 = i + n
        <5>1. ages[i + n] = ages[n + 1]
          BY <4>1
        <5> QED
          BY <5>1, <3>2
      <4>2. CASE n + 1 < i + n
        <5>1. \A p, q \in 1..L : p < q => ages[q] <= ages[p]
          BY <1>1, <1>7 DEF Sorted
        <5> QED
          BY <5>1, <4>2, <3>1
      <4> QED
        BY <3>1, <4>1, <4>2
    <3>4. ages[n + 1] <= w
      BY <3>1, <1>2
    <3> QED
      BY <3>2, <3>3, <3>4
  <2> QED
    BY <2>1, <2>2, <1>3 DEF Sorted
<1>8. Len(r) \in 0..L
  BY <1>1, <1>2
<1> QED
  BY <1>1, <1>4, <1>5, <1>6, <1>7, <1>8 DEF r, L

\* The latest of a list with one more, and of one that grew older.
LEMMA AppendLatest ==
  ASSUME NEW ages \in Seq(Age), NEW a \in Age
  PROVE  /\ Append(ages, a) \in Seq(Age)
         /\ Len(Append(ages, a)) = Len(ages) + 1
         /\ Latest(Append(ages, a), 1) = a
         /\ \A j \in 2..(Len(ages) + 1) : Latest(Append(ages, a), j) = Latest(ages, j - 1)
         /\ Sorted(ages) /\ (\A i \in DOMAIN ages : a <= ages[i]) => Sorted(Append(ages, a))
<1> DEFINE L == Len(ages)
           b == Append(ages, a)
<1>1. /\ L \in Nat /\ DOMAIN ages = 1..L /\ b \in Seq(Age) /\ Len(b) = L + 1 /\ DOMAIN b = 1..(L + 1)
      /\ \A i \in 1..L : b[i] = ages[i]
      /\ b[L + 1] = a
  OBVIOUS
<1> HIDE DEF b
<1>2. Latest(b, 1) = a
  <2>1. (L + 1) - 1 + 1 = L + 1
    BY <1>1
  <2> QED
    BY <2>1, <1>1 DEF Latest
<1>3. ASSUME NEW j \in 2..(L + 1)
      PROVE  Latest(b, j) = Latest(ages, j - 1)
  <2>1. (L + 1) - j + 1 = L - (j - 1) + 1 /\ (L + 1) - j + 1 \in 1..L
    BY <1>1
  <2> QED
    BY <2>1, <1>1 DEF Latest
<1>4. ASSUME Sorted(ages), \A i \in DOMAIN ages : a <= ages[i]
      PROVE  Sorted(b)
  <2> HIDE DEF L
  <2> SUFFICES ASSUME NEW i \in 1..(L + 1), NEW j \in 1..(L + 1), i < j
               PROVE  b[j] <= b[i]
    BY <1>1 DEF Sorted
  <2>1. i \in 1..L /\ (j \in 1..L \/ j = L + 1)
    BY <1>1
  <2> QED
    BY <2>1, <1>1, <1>4 DEF Sorted
<1> QED
  BY <1>1, <1>2, <1>3, <1>4 DEF b

LEMMA OlderLatest ==
  ASSUME NEW ages \in Seq(Age)
  PROVE  /\ Older(ages) \in Seq(Age) /\ Len(Older(ages)) = Len(ages)
         /\ \A i \in DOMAIN ages : Older(ages)[i] = AtMost(ages[i] + 1, Window + 1)
         /\ \A j \in 1..Len(ages) : Latest(Older(ages), j) = AtMost(Latest(ages, j) + 1, Window + 1)
         /\ \A j \in 1..Len(ages) : Latest(ages, j) \in Age
         /\ Sorted(ages) => Sorted(Older(ages))
<1>1. /\ Len(ages) \in Nat /\ DOMAIN ages = 1..Len(ages) /\ Window \in Nat
      /\ \A i \in 1..Len(ages) : ages[i] \in Age
  BY WatchdogAssumption
<1>2. \A a \in Age : AtMost(a + 1, Window + 1) \in Age
  BY <1>1 DEF AtMost, Age
<1>3. /\ Older(ages) \in Seq(Age) /\ Len(Older(ages)) = Len(ages)
      /\ \A i \in 1..Len(ages) : Older(ages)[i] = AtMost(ages[i] + 1, Window + 1)
  <2>1. Older(ages) = [i \in 1..Len(ages) |-> AtMost(ages[i] + 1, Window + 1)]
    BY <1>1 DEF Older
  <2> QED
    BY <2>1, <1>1, <1>2
<1>4. \A j \in 1..Len(ages) : Len(ages) - j + 1 \in 1..Len(ages)
  BY <1>1
<1>5. \A j \in 1..Len(ages) : Latest(Older(ages), j) = AtMost(Latest(ages, j) + 1, Window + 1)
                             /\ Latest(ages, j) \in Age
  BY <1>1, <1>3, <1>4 DEF Latest
<1>6. ASSUME Sorted(ages)
      PROVE  Sorted(Older(ages))
  <2>1. DOMAIN Older(ages) = 1..Len(ages)
    BY <1>3
  <2>2. \A a, b \in Age : a <= b => AtMost(a + 1, Window + 1) <= AtMost(b + 1, Window + 1)
    BY <1>1 DEF AtMost, Age
  <2> QED
    BY <2>1, <2>2, <1>1, <1>3, <1>6 DEF Sorted
<1> QED
  BY <1>1, <1>3, <1>5, <1>6

LEMMA LatestFacts ==
  ASSUME NEW ages \in Seq(Age)
  PROVE  /\ Len(ages) \in Nat /\ DOMAIN ages = 1..Len(ages)
         /\ \A j \in 1..Len(ages) : Latest(ages, j) \in Nat
         /\ \A j \in 1..Len(ages) : \E i \in 1..Len(ages) : Latest(ages, j) = ages[i]
         /\ Sorted(ages) => \A j \in 1..Len(ages) : j > 1 => Latest(ages, j - 1) <= Latest(ages, j)
<1> DEFINE L == Len(ages)
<1>1. L \in Nat /\ DOMAIN ages = 1..L /\ \A i \in 1..L : ages[i] \in Nat
  BY AgesAreNumbers
<1> HIDE DEF L
<1>2. \A j \in 1..L : L - j + 1 \in 1..L
  BY <1>1
<1>3. \A j \in 1..L : Latest(ages, j) \in Nat /\ \E i \in 1..L : Latest(ages, j) = ages[i]
  BY <1>1, <1>2 DEF Latest, L
<1>4. ASSUME Sorted(ages), NEW j \in 1..L, j > 1
      PROVE  Latest(ages, j - 1) <= Latest(ages, j)
  <2>1. L - j + 1 \in 1..L /\ L - (j - 1) + 1 \in 1..L /\ L - j + 1 < L - (j - 1) + 1
    BY <1>1, <1>4
  <2>2. \A p, q \in 1..L : p < q => ages[q] <= ages[p]
    BY <1>1, <1>4 DEF Sorted
  <2> QED
    BY <2>1, <2>2 DEF Latest, L
<1> QED
  BY <1>1, <1>3, <1>4 DEF L

\* What bounds every age from below still does when some are popped.
LEMMA RecentBounded ==
  ASSUME NEW ages \in Seq(Age), NEW w \in Nat, NEW t \in Nat,
         \A i \in DOMAIN ages : t <= ages[i]
  PROVE  \A i \in DOMAIN Recent(ages, w) : t <= Recent(ages, w)[i]
<1>1. Len(ages) \in Nat /\ DOMAIN ages = 1..Len(ages) /\ Recent(ages, w) \in Seq(Age)
  BY AgesAreNumbers, RecentFacts
<1>2. PICK n \in 0..Len(ages) :
         /\ Len(Recent(ages, w)) = Len(ages) - n
         /\ \A i \in 1..(Len(ages) - n) : Recent(ages, w)[i] = ages[i + n]
  BY RecentFacts
<1>3. DOMAIN Recent(ages, w) = 1..(Len(ages) - n)
  BY <1>1, <1>2
<1>4. \A i \in 1..(Len(ages) - n) : i + n \in 1..Len(ages)
  BY <1>1
<1> QED
  BY <1>1, <1>2, <1>3, <1>4

-----------------------------------------------------------------------------
(* What keeps the remembered restarts a cover of the real ones.            *)

LEMMA CoversEmpty ==
  Covers(<<>>, <<>>)
<1>1. DOMAIN <<>> = {}
  OBVIOUS
<1> QED
  BY <1>1 DEF Covers, Sorted

LEMMA CoversTick ==
  ASSUME NEW ages \in Seq(Age), NEW done \in Seq(Age), Covers(ages, done)
  PROVE  Covers(Older(ages), Recent(Older(done), Window))
<1> DEFINE a == Older(ages)
           o == Older(done)
           d == Recent(o, Window)
<1>1. Window \in Nat /\ Delay \in Nat
  BY WatchdogAssumption
<1>2. /\ a \in Seq(Age) /\ Len(a) = Len(ages) /\ Sorted(a)
      /\ \A j \in 1..Len(ages) : Latest(a, j) = AtMost(Latest(ages, j) + 1, Window + 1)
  BY OlderLatest DEF Covers
<1>3. /\ o \in Seq(Age) /\ Len(o) = Len(done) /\ Sorted(o)
      /\ \A j \in 1..Len(done) : Latest(o, j) = AtMost(Latest(done, j) + 1, Window + 1)
  BY OlderLatest DEF Covers
<1> HIDE DEF a, o
<1>4. /\ d \in Seq(Age) /\ Len(d) \in 0..Len(done)
      /\ \A j \in 1..Len(d) : Latest(d, j) = Latest(o, j)
      /\ Sorted(d) /\ \A i \in DOMAIN d : d[i] <= Window
  BY <1>1, <1>3, RecentLatest
<1> HIDE DEF d
<1>5. /\ Len(ages) \in Nat /\ \A j \in 1..Len(ages) : Latest(ages, j) \in Nat
      /\ Len(done) \in Nat /\ \A j \in 1..Len(done) : Latest(done, j) \in Nat
      /\ DOMAIN done = 1..Len(done) /\ DOMAIN d = 1..Len(d)
  BY <1>4, LatestFacts
<1>6. \A j \in 1..Len(d) : j \in 1..Len(done) /\ Latest(d, j) = AtMost(Latest(done, j) + 1, Window + 1)
  BY <1>3, <1>4, <1>5
<1>7. ASSUME NEW j \in 1..Len(d), Latest(d, j) <= Window - Delay
      PROVE  j <= Len(a) /\ Latest(a, j) <= Latest(d, j) + Delay
  <2>1. Latest(done, j) \in Nat /\ Latest(d, j) = AtMost(Latest(done, j) + 1, Window + 1)
    BY <1>5, <1>6
  <2>2. Latest(d, j) = Latest(done, j) + 1 /\ Latest(done, j) <= Window - Delay
    BY <2>1, <1>1, <1>7 DEF AtMost
  <2>3. j <= Len(ages) /\ Latest(ages, j) <= Latest(done, j) + Delay
    BY <2>2, <1>5, <1>6 DEF Covers
  <2>4. j \in 1..Len(ages)
    BY <2>3, <1>5
  <2>5. Latest(ages, j) \in Nat /\ Latest(a, j) = AtMost(Latest(ages, j) + 1, Window + 1)
    BY <2>4, <1>2, <1>5
  <2> QED
    BY <2>1, <2>2, <2>3, <2>5, <1>1, <1>2 DEF AtMost
<1>8. ASSUME NEW j \in 1..Len(d), j > 1
      PROVE  j - 1 <= Len(a) /\ Latest(a, j - 1) <= Latest(d, j)
  <2>1. Latest(done, j) \in Nat /\ Latest(d, j) = AtMost(Latest(done, j) + 1, Window + 1)
    BY <1>5, <1>6
  <2>2. j - 1 <= Len(ages) /\ Latest(ages, j - 1) <= Latest(done, j)
    BY <1>5, <1>6, <1>8 DEF Covers
  <2>3. j - 1 \in 1..Len(ages)
    BY <2>2, <1>5, <1>8
  <2>4. Latest(ages, j - 1) \in Nat /\ Latest(a, j - 1) = AtMost(Latest(ages, j - 1) + 1, Window + 1)
    BY <2>3, <1>2, <1>5
  <2> QED
    BY <2>1, <2>2, <2>4, <1>1, <1>2 DEF AtMost
<1>9. Covers(a, d)
  BY <1>2, <1>4, <1>5, <1>7, <1>8 DEF Covers
<1> QED
  BY <1>9 DEF a, d, o

LEMMA CoversPopped ==
  ASSUME NEW ages \in Seq(Age), NEW done \in Seq(Age), Covers(ages, done)
  PROVE  Covers(Recent(ages, Window), done)
<1> DEFINE r == Recent(ages, Window)
<1>1. Window \in Nat /\ Delay \in Nat
  BY WatchdogAssumption
<1>2. /\ Sorted(r)
      /\ \A j \in 1..Len(r) : Latest(r, j) = Latest(ages, j)
      /\ \A j \in 1..Len(ages) : Latest(ages, j) <= Window => j <= Len(r)
      /\ Len(r) \in 0..Len(ages)
  BY <1>1, RecentLatest DEF Covers
<1> HIDE DEF r
<1>3. /\ Len(ages) \in Nat /\ \A j \in 1..Len(ages) : Latest(ages, j) \in Nat
      /\ Len(done) \in Nat /\ \A j \in 1..Len(done) : Latest(done, j) \in Nat
      /\ DOMAIN done = 1..Len(done)
  BY LatestFacts
<1>4. \A j \in 1..Len(done) : Latest(done, j) <= Window
  BY <1>3, LatestFacts DEF Covers
<1>5. \A j \in 1..Len(ages) : Latest(ages, j) <= Window => j <= Len(r) /\ Latest(r, j) = Latest(ages, j)
  <2> TAKE j \in 1..Len(ages)
  <2> HAVE Latest(ages, j) <= Window
  <2>1. j <= Len(r)
    BY <1>2
  <2>2. j \in 1..Len(r)
    BY <2>1, <1>2, <1>3
  <2> QED
    BY <2>1, <2>2, <1>2
<1>6. ASSUME NEW j \in 1..Len(done), Latest(done, j) <= Window - Delay
      PROVE  j <= Len(r) /\ Latest(r, j) <= Latest(done, j) + Delay
  <2>1. j <= Len(ages) /\ Latest(ages, j) <= Latest(done, j) + Delay
    BY <1>3, <1>6 DEF Covers
  <2>2. j \in 1..Len(ages)
    BY <2>1, <1>3
  <2>3. Latest(ages, j) \in Nat /\ Latest(done, j) \in Nat
    BY <2>2, <1>3
  <2>4. Latest(ages, j) <= Window
    BY <2>1, <2>3, <1>1, <1>6
  <2> QED
    BY <2>1, <2>2, <2>4, <1>5
<1>7. ASSUME NEW j \in 1..Len(done), j > 1
      PROVE  j - 1 <= Len(r) /\ Latest(r, j - 1) <= Latest(done, j)
  <2>1. j - 1 <= Len(ages) /\ Latest(ages, j - 1) <= Latest(done, j)
    BY <1>3, <1>7 DEF Covers
  <2>2. j - 1 \in 1..Len(ages)
    BY <2>1, <1>3, <1>7
  <2>3. Latest(ages, j - 1) \in Nat /\ Latest(done, j) \in Nat /\ Latest(done, j) <= Window
    BY <2>2, <1>3, <1>4
  <2>4. Latest(ages, j - 1) <= Window
    BY <2>1, <2>3, <1>1
  <2> QED
    BY <2>1, <2>2, <2>4, <1>5
<1>8. Covers(r, done)
  BY <1>2, <1>3, <1>6, <1>7 DEF Covers
<1> QED
  BY <1>8 DEF r

\* A decision that was not carried out.
LEMMA CoversDecision ==
  ASSUME NEW ages \in Seq(Age), NEW done \in Seq(Age), Covers(ages, done), NEW t \in 0..Delay,
         \A i \in DOMAIN ages : t <= ages[i],
         \A i \in DOMAIN done : t <= done[i]
  PROVE  Covers(Append(ages, t), done)
<1> DEFINE a == Append(ages, t)
<1>1. Window \in Nat /\ Delay \in Nat /\ t \in Nat /\ t \in Age
  BY WatchdogAssumption DEF Age
<1>2. /\ Len(a) = Len(ages) + 1 /\ Latest(a, 1) = t /\ Sorted(a)
      /\ \A j \in 2..(Len(ages) + 1) : Latest(a, j) = Latest(ages, j - 1)
  BY <1>1, AppendLatest DEF Covers
<1> HIDE DEF a
<1>3. /\ Len(ages) \in Nat /\ \A j \in 1..Len(ages) : Latest(ages, j) \in Nat
      /\ Len(done) \in Nat /\ \A j \in 1..Len(done) : Latest(done, j) \in Nat
      /\ DOMAIN done = 1..Len(done)
  BY LatestFacts
<1>4. \A j \in 1..Len(done) : t <= Latest(done, j)
  BY <1>3, LatestFacts
<1>5. \A j \in 1..Len(done) : j > 1 => Latest(done, j - 1) <= Latest(done, j)
  BY LatestFacts DEF Covers
<1>6. \A j \in 1..Len(done) : j > 1 => j - 1 <= Len(ages) /\ Latest(ages, j - 1) <= Latest(done, j)
  BY <1>3 DEF Covers
<1>7. ASSUME NEW j \in 1..Len(done)
      PROVE  j <= Len(a) /\ Latest(a, j) <= Latest(done, j)
  <2>1. CASE j = 1
    BY <2>1, <1>2, <1>3, <1>4
  <2>2. CASE j > 1
    <3>1. j - 1 <= Len(ages) /\ Latest(ages, j - 1) <= Latest(done, j)
      BY <2>2, <1>6
    <3>2. j \in 2..(Len(ages) + 1)
      BY <3>1, <2>2, <1>3
    <3>3. Latest(a, j) = Latest(ages, j - 1)
      BY <3>2, <1>2
    <3>4. j <= Len(a)
      BY <3>2, <1>2, <1>3
    <3> QED
      BY <3>1, <3>3, <3>4
  <2> QED
    BY <2>1, <2>2
<1>8. ASSUME NEW j \in 1..Len(a)
      PROVE  Latest(a, j) \in Nat
  <2>1. j = 1 \/ (j \in 2..(Len(ages) + 1) /\ j - 1 \in 1..Len(ages))
    BY <1>2, <1>3
  <2> QED
    BY <2>1, <1>1, <1>2, <1>3
<1>9. ASSUME NEW j \in 1..Len(done)
      PROVE  j <= Len(a) /\ Latest(a, j) <= Latest(done, j) + Delay
  <2>1. j \in 1..Len(a)
    BY <1>2, <1>3, <1>7
  <2> QED
    BY <2>1, <1>1, <1>3, <1>7, <1>8
<1>10. ASSUME NEW j \in 1..Len(done), j > 1
       PROVE  j - 1 <= Len(a) /\ Latest(a, j - 1) <= Latest(done, j)
  <2>1. j - 1 \in 1..Len(done)
    BY <1>3, <1>10
  <2>2. j - 1 <= Len(a) /\ Latest(a, j - 1) <= Latest(done, j - 1)
    BY <2>1, <1>7
  <2>3. j - 1 \in 1..Len(a)
    BY <2>1, <2>2, <1>2, <1>3
  <2>4. Latest(a, j - 1) \in Nat /\ Latest(done, j - 1) \in Nat /\ Latest(done, j) \in Nat
    BY <2>1, <2>3, <1>3, <1>8
  <2>5. Latest(done, j - 1) <= Latest(done, j)
    BY <1>5, <1>10
  <2> QED
    BY <2>2, <2>4, <2>5
<1>11. Covers(a, done)
  BY <1>2, <1>3, <1>9, <1>10 DEF Covers
<1> QED
  BY <1>11 DEF a

\* One that was.
LEMMA CoversRestart ==
  ASSUME NEW ages \in Seq(Age), NEW done \in Seq(Age), Covers(ages, done), NEW t \in 0..Delay,
         \A i \in DOMAIN ages : t <= ages[i],
         \A i \in DOMAIN done : t <= done[i]
  PROVE  Covers(Append(ages, t), Append(done, 0))
<1> DEFINE a == Append(ages, t)
           d == Append(done, 0)
<1>1. Window \in Nat /\ Delay \in Nat /\ t \in Nat /\ t \in Age /\ 0 \in Age
  BY WatchdogAssumption DEF Age
<1>2. /\ Len(a) = Len(ages) + 1 /\ Latest(a, 1) = t /\ Sorted(a)
      /\ \A j \in 2..(Len(ages) + 1) : Latest(a, j) = Latest(ages, j - 1)
  BY <1>1, AppendLatest DEF Covers
<1>3. /\ Len(ages) \in Nat /\ \A j \in 1..Len(ages) : Latest(ages, j) \in Nat
      /\ Len(done) \in Nat /\ \A j \in 1..Len(done) : Latest(done, j) \in Nat
      /\ DOMAIN done = 1..Len(done) /\ \A i \in 1..Len(done) : done[i] \in Nat
  BY LatestFacts, AgesAreNumbers
<1>4. \A i \in DOMAIN done : 0 <= done[i]
  BY <1>3
<1>5. /\ Len(d) = Len(done) + 1 /\ Latest(d, 1) = 0 /\ Sorted(d) /\ d \in Seq(Age)
      /\ \A j \in 2..(Len(done) + 1) : Latest(d, j) = Latest(done, j - 1)
  BY <1>1, <1>4, AppendLatest DEF Covers
<1>6. /\ DOMAIN d = 1..(Len(done) + 1) /\ d[Len(done) + 1] = 0
      /\ \A i \in 1..Len(done) : d[i] = done[i]
  BY <1>3
<1> HIDE DEF a, d
<1>7. \A j \in 1..Len(done) : t <= Latest(done, j)
  BY <1>3, LatestFacts
<1>8. \A i \in DOMAIN d : d[i] <= Window
  <2> TAKE i \in DOMAIN d
  <2>1. i \in 1..Len(done) \/ i = Len(done) + 1
    BY <1>3, <1>6
  <2> QED
    BY <2>1, <1>1, <1>3, <1>6 DEF Covers
<1>9. ASSUME NEW j \in 1..(Len(done) + 1), Latest(d, j) <= Window - Delay
      PROVE  j <= Len(a) /\ Latest(a, j) <= Latest(d, j) + Delay
  <2>1. CASE j = 1
    BY <2>1, <1>1, <1>2, <1>3, <1>5
  <2>2. CASE j > 1
    <3>1. j \in 2..(Len(done) + 1) /\ j - 1 \in 1..Len(done)
      BY <2>2, <1>3
    <3>2. Latest(d, j) = Latest(done, j - 1)
      BY <3>1, <1>5
    <3>3. j - 1 <= Len(ages) /\ Latest(ages, j - 1) <= Latest(done, j - 1) + Delay
      BY <3>1, <3>2, <1>3, <1>9 DEF Covers
    <3>4. j \in 2..(Len(ages) + 1) /\ j <= Len(a)
      BY <3>1, <3>3, <1>2, <1>3
    <3> QED
      BY <3>2, <3>3, <3>4, <1>2
  <2> QED
    BY <2>1, <2>2
<1>10. ASSUME NEW j \in 1..(Len(done) + 1), j > 1
       PROVE  j - 1 <= Len(a) /\ Latest(a, j - 1) <= Latest(d, j)
  <2>1. j \in 2..(Len(done) + 1) /\ j - 1 \in 1..Len(done)
    BY <1>3, <1>10
  <2>2. Latest(d, j) = Latest(done, j - 1)
    BY <2>1, <1>5
  <2>3. CASE j = 2
    <3>1. j - 1 = 1
      BY <2>3
    <3>2. t <= Latest(d, j)
      BY <2>1, <2>2, <1>7
    <3> QED
      BY <3>1, <3>2, <1>2, <1>3
  <2>4. CASE j > 2
    <3>1. (j - 1) - 1 <= Len(ages) /\ Latest(ages, (j - 1) - 1) <= Latest(done, j - 1)
      <4>1. \A k \in 1..Len(done) : k > 1 => k - 1 <= Len(ages) /\ Latest(ages, k - 1) <= Latest(done, k)
        BY <1>3 DEF Covers
      <4>2. j - 1 > 1
        BY <2>4
      <4> QED
        BY <4>1, <4>2, <2>1
    <3>2. j - 1 \in 2..(Len(ages) + 1) /\ j - 1 <= Len(a)
      BY <3>1, <2>4, <1>2, <1>3
    <3> QED
      BY <2>2, <3>1, <3>2, <1>2
  <2> QED
    BY <1>10, <2>3, <2>4
<1>11. Covers(a, d)
  BY <1>2, <1>5, <1>6, <1>8, <1>9, <1>10 DEF Covers
<1> QED
  BY <1>11 DEF a, d

-----------------------------------------------------------------------------
(* The invariant is inductive.                                             *)

LEMMA InitWatch ==
  ASSUME Init
  PROVE  WatchInv
<1> USE WatchdogAssumption
<1>1. (CHOOSE u \in Unit : TRUE) \in Unit
  OBVIOUS
<1>2. TypeInv
  <2>1. <<>> \in Seq(Age)
    OBVIOUS
  <2>2. server \in [Unit -> Servers]
    <3>1. Booted \in Servers
      BY DEF Booted, Servers
    <3> QED
      BY <3>1 DEF Init
  <2>3. 0 \in 0..Strikes + 1 /\ 0 \in 0..Delay /\ 0 \in 0..MaxFaults
    OBVIOUS
  <2> QED
    BY <1>1, <2>1, <2>2, <2>3 DEF Init, TypeInv, Nobody
<1>3. StrikesInv
  BY DEF Init, StrikesInv
<1>4. SilentInv
  BY DEF Init, SilentInv
<1>5. LimitInv
  BY CoversEmpty DEF Init, LimitInv
<1> QED
  BY <1>2, <1>3, <1>4, <1>5 DEF WatchInv

LEMMA ExceptType ==
  ASSUME NEW S, NEW f \in [Unit -> S], NEW u \in Unit, NEW x \in S
  PROVE  [f EXCEPT ![u] = x] \in [Unit -> S]
OBVIOUS

LEMMA TimeFacts ==
  ASSUME TypeInv, TimePasses
  PROVE  /\ server' \in [Unit -> Servers]
         /\ worked' \in [Unit -> BOOLEAN]
         /\ restarts' \in [Unit -> Seq(Age)]
         /\ idle' \in [Unit -> 0..Strikes + 1]
         /\ issued' \in [Unit -> Seq(Age)]
         /\ \A u \in Unit :
               /\ server'[u].up = server[u].up /\ server'[u].stuck = server[u].stuck
               /\ server[u].up /\ ~worked'[u] => server[u].stuck
               /\ ~worked'[u] => ~worked[u] /\ idle'[u] = idle[u]
               /\ restarts'[u] = Older(restarts[u])
               /\ issued'[u] = Recent(Older(issued[u]), Window)
<1> USE WatchdogAssumption
<1>1. server' \in [Unit -> Servers]
  <2>1. \A u \in Unit : server[u] \in Servers
    BY DEF TypeInv
  <2>2. \A a \in 0..Grace : AtMost(a + 1, Grace) \in 0..Grace
    BY DEF AtMost
  <2>3. \A u \in Unit : [server[u] EXCEPT !.age = AtMost(@ + 1, Grace)] \in Servers
    BY <2>1, <2>2 DEF Servers
  <2> QED
    BY <2>3 DEF TimePasses
<1>2. \A u \in Unit : server'[u].up = server[u].up /\ server'[u].stuck = server[u].stuck
  BY DEF TypeInv, TimePasses, Servers
<1>3. worked' \in [Unit -> BOOLEAN]
  BY DEF TypeInv, TimePasses
<1>4. idle' \in [Unit -> 0..Strikes + 1]
  <2>1. \A u \in Unit : idle[u] \in 0..Strikes + 1 /\ 0 \in 0..Strikes + 1
    BY DEF TypeInv
  <2>2. idle' = [u \in Unit |-> IF server[u].up /\ ~server[u].stuck THEN 0 ELSE idle[u]]
    BY DEF TimePasses
  <2> QED
    BY <2>1, <2>2
<1>5. \A u \in Unit : Older(restarts[u]) \in Seq(Age) /\ Recent(Older(issued[u]), Window) \in Seq(Age)
  <2> TAKE u \in Unit
  <2>1. restarts[u] \in Seq(Age) /\ issued[u] \in Seq(Age)
    BY DEF TypeInv
  <2>2. Older(restarts[u]) \in Seq(Age) /\ Older(issued[u]) \in Seq(Age)
    BY <2>1, OlderLatest
  <2> QED
    BY <2>2, RecentFacts
<1>6. restarts' \in [Unit -> Seq(Age)] /\ issued' \in [Unit -> Seq(Age)]
  BY <1>5 DEF TimePasses
<1>7. ASSUME NEW u \in Unit
      PROVE  /\ restarts'[u] = Older(restarts[u])
             /\ issued'[u] = Recent(Older(issued[u]), Window)
  BY DEF TimePasses
<1>8. ASSUME NEW u \in Unit
      PROVE  /\ server[u].up /\ ~worked'[u] => server[u].stuck
             /\ ~worked'[u] => ~worked[u] /\ idle'[u] = idle[u]
  <2>1. worked'[u] = (worked[u] \/ (server[u].up /\ ~server[u].stuck))
    BY DEF TimePasses
  <2>2. idle'[u] = IF server[u].up /\ ~server[u].stuck THEN 0 ELSE idle[u]
    BY DEF TimePasses
  <2> QED
    BY <2>1, <2>2
<1> QED
  BY <1>1, <1>2, <1>3, <1>4, <1>6, <1>7, <1>8

\* The ages of one unit after an interval.
LEMMA TimeLimits ==
  ASSUME TypeInv, LimitInv, TimePasses, NEW u \in Unit
  PROVE  /\ Covers(restarts'[u], issued'[u])
         /\ Len(restarts'[u]) = Len(restarts[u])
         /\ \A t \in Nat :
               t + 1 <= Delay /\ (\A i \in DOMAIN restarts[u] : t <= restarts[u][i])
                              /\ (\A i \in DOMAIN issued[u] : t <= issued[u][i]) =>
                  /\ \A i \in DOMAIN restarts'[u] : t + 1 <= restarts'[u][i]
                  /\ \A i \in DOMAIN issued'[u] : t + 1 <= issued'[u][i]
<1>1. restarts[u] \in Seq(Age) /\ issued[u] \in Seq(Age) /\ Covers(restarts[u], issued[u])
  BY DEF TypeInv, LimitInv
<1>2. restarts'[u] = Older(restarts[u]) /\ issued'[u] = Recent(Older(issued[u]), Window)
  BY TimeFacts
<1>3. Covers(restarts'[u], issued'[u])
  BY <1>1, <1>2, CoversTick
<1>4. Len(restarts'[u]) = Len(restarts[u])
  BY <1>1, <1>2, OlderLatest
<1>5. ASSUME NEW ages \in Seq(Age), NEW t \in Nat, t + 1 <= Delay,
             \A i \in DOMAIN ages : t <= ages[i]
      PROVE  Older(ages) \in Seq(Age) /\ \A i \in DOMAIN Older(ages) : t + 1 <= Older(ages)[i]
  <2>1. DOMAIN Older(ages) = DOMAIN ages
    BY DEF Older
  <2>2. \A i \in DOMAIN ages : Older(ages)[i] = AtMost(ages[i] + 1, Window + 1)
    BY OlderLatest
  <2>3. \A i \in DOMAIN ages : ages[i] \in Nat
    BY AgesAreNumbers
  <2>4. \A a \in Nat : t <= a => t + 1 <= AtMost(a + 1, Window + 1)
    BY <1>5, WatchdogAssumption DEF AtMost
  <2> QED
    BY <2>1, <2>2, <2>3, <2>4, <1>5, OlderLatest
<1>6. ASSUME NEW t \in Nat, t + 1 <= Delay,
             \A i \in DOMAIN restarts[u] : t <= restarts[u][i],
             \A i \in DOMAIN issued[u] : t <= issued[u][i]
      PROVE  /\ \A i \in DOMAIN restarts'[u] : t + 1 <= restarts'[u][i]
             /\ \A i \in DOMAIN issued'[u] : t + 1 <= issued'[u][i]
  <2>1. \A i \in DOMAIN restarts'[u] : t + 1 <= restarts'[u][i]
    BY <1>1, <1>2, <1>5, <1>6
  <2>2. Older(issued[u]) \in Seq(Age) /\ \A i \in DOMAIN Older(issued[u]) : t + 1 <= Older(issued[u])[i]
    BY <1>1, <1>5, <1>6
  <2>3. t + 1 \in Nat /\ Window \in Nat
    BY WatchdogAssumption
  <2>4. \A i \in DOMAIN issued'[u] : t + 1 <= issued'[u][i]
    BY <1>2, <2>2, <2>3, RecentBounded
  <2> QED
    BY <2>1, <2>4
<1> QED
  BY <1>3, <1>4, <1>6

LEMMA SampleType ==
  ASSUME TypeInv, NEW u \in Unit, Sample(u)
  PROVE  /\ todo' \in [Unit -> {"no", "look", "skip"}]
         /\ sampled' \in [Unit -> BOOLEAN]
         /\ worked' \in [Unit -> BOOLEAN]
         /\ idle' \in [Unit -> 0..Strikes + 1]
<1>1. AtMost(idle[u] + 1, Strikes + 1) \in 0..Strikes + 1
  BY WatchdogAssumption DEF TypeInv, AtMost
<1> QED
  BY <1>1 DEF TypeInv, Sample, Turn

LEMMA TypeStep ==
  ASSUME TypeInv, [Next]_vars
  PROVE  TypeInv'
<1> USE WatchdogAssumption
<1>16. ASSUME NEW u \in Unit
       PROVE  [strikes EXCEPT ![u] = @ + 1] \in [Unit -> Nat]
  <2>1. strikes \in [Unit -> Nat] /\ strikes[u] + 1 \in Nat
    BY DEF TypeInv
  <2> QED
    BY <2>1, ExceptType
<1>17. Booted \in Servers
  BY DEF Booted, Servers
<1>1. CASE Wake
  <2>1. /\ todo' \in [Unit -> {"no", "look", "skip"}]
        /\ mishaps' \in 0..MaxFaults
    BY <1>1 DEF Wake, TypeInv, Fault
  <2>2. at' = at /\ taken' = taken /\ strikes' = strikes /\ sampled' = sampled /\ pc' = "round"
    BY <1>1 DEF Wake
  <2> QED
    BY <1>1, <2>1, <2>2, TimeFacts DEF Wake, TypeInv
<1>2. ASSUME NEW u \in Unit, Skip(u)
      PROVE  TypeInv'
  BY <1>2 DEF Skip, Turn, TypeInv, history
<1>3. ASSUME NEW u \in Unit, Gone(u)
      PROVE  TypeInv'
  BY <1>3 DEF Gone, Turn, TypeInv, history
<1>4. ASSUME NEW u \in Unit, Healthy(u)
      PROVE  TypeInv'
  <2>1. strikes' \in [Unit -> Nat]
    BY <1>4, ExceptType DEF Healthy, TypeInv
  <2> QED
    BY <1>4, <2>1, SampleType DEF Healthy, TypeInv
<1>5. ASSUME NEW u \in Unit, Suspect(u)
      PROVE  TypeInv'
  <2>1. strikes' \in [Unit -> Nat]
    BY <1>5, <1>16 DEF Suspect
  <2> QED
    BY <1>5, <2>1, SampleType DEF Suspect, TypeInv
<1>6. ASSUME NEW u \in Unit
      PROVE  Remembered(u) \in Seq(Age)
  <2>1. restarts[u] \in Seq(Age)
    BY DEF TypeInv
  <2> QED
    BY <2>1, RecentFacts DEF Remembered
<1>7. ASSUME NEW u \in Unit, GiveUp(u)
      PROVE  TypeInv'
  <2>1. strikes' \in [Unit -> Nat]
    BY <1>7, ExceptType DEF GiveUp, TypeInv
  <2>2. restarts' \in [Unit -> Seq(Age)]
    <3>1. restarts' = [restarts EXCEPT ![u] = Remembered(u)] /\ restarts \in [Unit -> Seq(Age)]
      BY <1>7 DEF GiveUp, TypeInv
    <3> QED
      BY <3>1, <1>6, ExceptType
  <2> QED
    BY <1>7, <2>1, <2>2, SampleType DEF GiveUp, TypeInv
<1>8. ASSUME NEW u \in Unit, Decide(u)
      PROVE  TypeInv'
  <2>1. strikes' \in [Unit -> Nat]
    BY <1>8, <1>16 DEF Decide, TypeInv
  <2>2. restarts' \in [Unit -> Seq(Age)]
    <3>1. restarts' = [restarts EXCEPT ![u] = Remembered(u)] /\ restarts \in [Unit -> Seq(Age)]
      BY <1>8 DEF Decide, TypeInv
    <3> QED
      BY <3>1, <1>6, ExceptType
  <2> QED
    <3>1. pc' \in {"asleep", "round", "capture"} /\ at' \in Unit /\ taken' \in 0..Delay
      BY <1>8 DEF Decide
    <3>2. server' \in [Unit -> Servers] /\ issued' \in [Unit -> Seq(Age)] /\ mishaps' \in 0..MaxFaults
      BY <1>8 DEF Decide, TypeInv
    <3> QED
      BY <1>8, <2>1, <2>2, <3>1, <3>2, SampleType DEF Decide, TypeInv
<1>9. CASE Capturing
  <2>1. taken' \in 0..Delay
    BY <1>9 DEF Capturing, TypeInv
  <2> QED
    BY <1>9, <2>1, TimeFacts DEF Capturing, TypeInv
<1>10. CASE Restart
  <2>1. taken \in Age /\ 0 \in Age
    BY DEF TypeInv, Age
  <2>2. Append(restarts[at], taken) \in Seq(Age) /\ Append(issued[at], 0) \in Seq(Age)
    BY <2>1 DEF TypeInv
  <2> DEFINE done == Append(issued[at], 0)
             ages == Append(restarts[at], taken)
  <2>6. restarts' = [restarts EXCEPT ![at] = ages] /\ restarts \in [Unit -> Seq(Age)] /\ at \in Unit
    BY <1>10 DEF Restart, TypeInv
  <2>7. /\ issued' = [issued EXCEPT ![at] = done] \/ issued' = issued
        /\ issued \in [Unit -> Seq(Age)]
    BY <1>10 DEF Restart, TypeInv
  <2> HIDE DEF ages, done
  <2>3. restarts' \in [Unit -> Seq(Age)] /\ issued' \in [Unit -> Seq(Age)]
    BY <2>2, <2>6, <2>7, ExceptType DEF ages, done
  <2>8. server' = [server EXCEPT ![at] = Booted] \/ server' = server
    BY <1>10 DEF Restart, Boot
  <2>9. server' \in [Unit -> Servers]
    BY <1>17, <2>6, <2>8, ExceptType DEF TypeInv
  <2>10. mishaps' \in 0..MaxFaults
    BY <1>10 DEF Restart, Fault, TypeInv
  <2>11. /\ worked' = worked \/ worked' = [worked EXCEPT ![at] = TRUE]
         /\ idle' = idle \/ idle' = [idle EXCEPT ![at] = 0]
    BY <1>10 DEF Restart, Boot
  <2>4. /\ worked' \in [Unit -> BOOLEAN]
        /\ idle' \in [Unit -> 0..Strikes + 1]
    <3>1. worked \in [Unit -> BOOLEAN] /\ idle \in [Unit -> 0..Strikes + 1] /\ at \in Unit
      BY DEF TypeInv
    <3>2. worked' \in [Unit -> BOOLEAN]
      BY <2>6, <2>11, <3>1
    <3>3. [idle EXCEPT ![at] = 0] \in [Unit -> 0..Strikes + 1]
      BY <3>1, ExceptType
    <3> QED
      BY <2>6, <2>11, <3>1, <3>2, <3>3
  <2>5. strikes' \in [Unit -> Nat]
    BY <1>10 DEF Restart, TypeInv
  <2> QED
    BY <1>10, <2>3, <2>4, <2>5, <2>9, <2>10 DEF Restart, TypeInv
<1>11. CASE Sleep
  BY <1>11 DEF Sleep, TypeInv, memory, history
<1>12. CASE LoopError
  <2>1. /\ todo' = [u \in Unit |-> "no"] /\ pc' = "round" /\ mishaps' \in 0..MaxFaults
        /\ UNCHANGED <<server, worked, at, taken, strikes, sampled, restarts, idle, issued>>
    BY <1>12 DEF LoopError, Fault, TypeInv, memory, Nobody
  <2>2. todo' \in [Unit -> {"no", "look", "skip"}]
    BY <2>1
  <2> QED
    BY <2>1, <2>2 DEF TypeInv
<1>13. CASE WatchdogRestarts
  <2>1. <<>> \in Seq(Age)
    OBVIOUS
  <2> QED
    BY <1>13, <2>1 DEF WatchdogRestarts, Fault, TypeInv, Nobody
<1>14. ASSUME NEW u \in Unit, Others(u)
       PROVE  TypeInv'
  <2>1. \/ server' = [server EXCEPT ![u].stuck = TRUE]
        \/ server' = [server EXCEPT ![u].stuck = FALSE]
        \/ server' = [server EXCEPT ![u].backlog = ~@]
        \/ server' = [server EXCEPT ![u] = [Booted EXCEPT !.up = FALSE]]
        \/ server' = [server EXCEPT ![u] = Booted]
    BY <1>14 DEF Others, Freeze, Thaw, Traffic, Stop, StartOrRestart, Boot
  <2>2. /\ [server[u] EXCEPT !.stuck = TRUE] \in Servers
        /\ [server[u] EXCEPT !.stuck = FALSE] \in Servers
        /\ [Booted EXCEPT !.up = FALSE] \in Servers
    BY <1>17 DEF TypeInv, Servers
  <2>3. [server[u] EXCEPT !.backlog = ~@] \in Servers
    <3>1. server[u] \in Servers
      BY DEF TypeInv
    <3>2. \A b \in BOOLEAN : [server[u] EXCEPT !.backlog = b] \in Servers
      BY <3>1 DEF Servers
    <3>3. (~server[u].backlog) \in BOOLEAN
      BY Zenon
    <3> QED
      BY <3>2, <3>3
  <2>4. server' \in [Unit -> Servers]
    BY <1>17, <2>1, <2>2, <2>3 DEF TypeInv
  <2>5. /\ worked' = worked \/ worked' = [worked EXCEPT ![u] = TRUE]
        /\ idle' = idle \/ idle' = [idle EXCEPT ![u] = 0]
        /\ UNCHANGED <<pc, todo, at, taken, strikes, sampled, restarts, issued, mishaps>>
    BY <1>14 DEF Others, Freeze, Thaw, Traffic, Stop, StartOrRestart, Boot, loop, memory, history
  <2>6. worked' \in [Unit -> BOOLEAN] /\ idle' \in [Unit -> 0..Strikes + 1]
    <3>1. worked \in [Unit -> BOOLEAN] /\ idle \in [Unit -> 0..Strikes + 1] /\ at \in Unit
      BY DEF TypeInv
    <3>2. worked' \in [Unit -> BOOLEAN]
      BY <2>5, <3>1
    <3>3. [idle EXCEPT ![u] = 0] \in [Unit -> 0..Strikes + 1]
      BY <3>1, ExceptType
    <3> QED
      BY <2>5, <3>1, <3>2, <3>3
  <2> QED
    BY <2>4, <2>5, <2>6 DEF TypeInv
<1>15. CASE UNCHANGED vars
  BY <1>15 DEF vars, loop, memory, history, TypeInv
<1> QED
  BY <1>1, <1>2, <1>3, <1>4, <1>5, <1>7, <1>8, <1>9, <1>10, <1>11, <1>12, <1>13, <1>14, <1>15
     DEF Next, Loop, Check

LEMMA StrikesStep ==
  ASSUME TypeInv, StrikesInv, [Next]_vars
  PROVE  StrikesInv'
<1> USE WatchdogAssumption
<1> SUFFICES ASSUME NEW v \in Unit
             PROVE  strikes'[v] + (IF pc' = "capture" /\ at' = v THEN 0 ELSE 1) <= Strikes + mishaps'
  BY DEF StrikesInv
<1>1. /\ strikes[v] + (IF pc = "capture" /\ at = v THEN 0 ELSE 1) <= Strikes + mishaps
      /\ strikes \in [Unit -> Nat] /\ mishaps \in Nat /\ Strikes \in Nat /\ Strikes > 0
      /\ at \in Unit
  BY DEF StrikesInv, TypeInv
<1>2. CASE Wake
  <2>1. strikes' = strikes /\ pc' = "round" /\ pc = "asleep" /\ (mishaps' = mishaps \/ mishaps' = mishaps + 1)
    BY <1>2 DEF Wake, Fault
  <2> QED
    BY <1>1, <2>1
<1>3. ASSUME NEW u \in Unit, Skip(u)
      PROVE  strikes'[v] + (IF pc' = "capture" /\ at' = v THEN 0 ELSE 1) <= Strikes + mishaps'
  BY <1>1, <1>3 DEF Skip, Turn, history
<1>4. ASSUME NEW u \in Unit, Gone(u)
      PROVE  strikes'[v] + (IF pc' = "capture" /\ at' = v THEN 0 ELSE 1) <= Strikes + mishaps'
  BY <1>1, <1>4 DEF Gone, Turn, history
<1>5. ASSUME NEW u \in Unit, Healthy(u)
      PROVE  strikes'[v] + (IF pc' = "capture" /\ at' = v THEN 0 ELSE 1) <= Strikes + mishaps'
  BY <1>1, <1>5 DEF Healthy, Sample, Turn
<1>6. ASSUME NEW u \in Unit, Suspect(u)
      PROVE  strikes'[v] + (IF pc' = "capture" /\ at' = v THEN 0 ELSE 1) <= Strikes + mishaps'
  BY <1>1, <1>6 DEF Suspect, Sample, Turn
<1>7. ASSUME NEW u \in Unit, GiveUp(u)
      PROVE  strikes'[v] + (IF pc' = "capture" /\ at' = v THEN 0 ELSE 1) <= Strikes + mishaps'
  BY <1>1, <1>7 DEF GiveUp, Sample, Turn
<1>8. ASSUME NEW u \in Unit, Decide(u)
      PROVE  strikes'[v] + (IF pc' = "capture" /\ at' = v THEN 0 ELSE 1) <= Strikes + mishaps'
  BY <1>1, <1>8 DEF Decide, Sample, Turn
<1>9. CASE Capturing
  BY <1>1, <1>9 DEF Capturing
<1>10. CASE Restart
  BY <1>1, <1>10 DEF Restart, Fault
<1>11. CASE Sleep
  BY <1>1, <1>11 DEF Sleep, memory, history
<1>12. CASE LoopError
  BY <1>1, <1>12 DEF LoopError, Fault, memory
<1>13. CASE WatchdogRestarts
  BY <1>1, <1>13 DEF WatchdogRestarts, Fault
<1>14. ASSUME NEW u \in Unit, Others(u)
       PROVE  strikes'[v] + (IF pc' = "capture" /\ at' = v THEN 0 ELSE 1) <= Strikes + mishaps'
  BY <1>1, <1>14 DEF Others, Freeze, Thaw, Traffic, Stop, StartOrRestart, loop, memory, history
<1>15. CASE UNCHANGED vars
  BY <1>1, <1>15 DEF vars, loop, memory, history
<1> QED
  BY <1>2, <1>3, <1>4, <1>5, <1>6, <1>7, <1>8, <1>9, <1>10, <1>11, <1>12, <1>13, <1>14, <1>15
     DEF Next, Loop, Check

LEMMA SampleSilent ==
  ASSUME TypeInv, SilentInv, NEW u \in Unit, Sample(u), server' = server, strikes' \in [Unit -> Nat],
         \A v \in Unit : v # u => strikes'[v] = strikes[v],
         strikes'[u] = 0 \/ (Hung(u) /\ strikes'[u] = strikes[u] + 1)
  PROVE  SilentInv'
<1> USE WatchdogAssumption
<1>1. /\ \A v \in Unit : idle[v] \in 0..Strikes + 1 /\ strikes[v] \in Nat
      /\ todo \in [Unit -> {"no", "look", "skip"}] /\ sampled \in [Unit -> BOOLEAN]
      /\ worked \in [Unit -> BOOLEAN] /\ idle \in [Unit -> 0..Strikes + 1]
  BY DEF TypeInv
<1>2. /\ todo' = [todo EXCEPT ![u] = "no"]
      /\ sampled' = [sampled EXCEPT ![u] = TRUE]
      /\ worked' = [worked EXCEPT ![u] = FALSE]
      /\ idle' = [idle EXCEPT ![u] = AtMost(@ + 1, Strikes + 1)]
  BY DEF Sample, Turn
<1>3. \A v \in Unit : v # u => todo'[v] = todo[v] /\ sampled'[v] = sampled[v]
                              /\ worked'[v] = worked[v] /\ idle'[v] = idle[v]
  BY <1>1, <1>2
<1>4. todo'[u] = "no" /\ idle'[u] = AtMost(idle[u] + 1, Strikes + 1)
  BY <1>1, <1>2
<1>5. ASSUME NEW v \in Unit
      PROVE  todo'[v] = "look" /\ server'[v].up /\ ~worked'[v] => server'[v].stuck
  BY <1>3, <1>4 DEF SilentInv
<1>6. AtMost(strikes'[u] + 1, Strikes + 1) <= idle'[u]
  <2>1. CASE strikes'[u] = 0
    BY <2>1, <1>1, <1>4 DEF AtMost
  <2>2. CASE Hung(u) /\ strikes'[u] = strikes[u] + 1
    <3>1. AtMost(strikes[u] + 1, Strikes + 1) <= idle[u]
      BY <2>2 DEF Hung, SilentInv
    <3> QED
      BY <2>2, <3>1, <1>1, <1>4 DEF AtMost
  <2> QED
    BY <2>1, <2>2
<1>7. ASSUME NEW v \in Unit, sampled'[v] /\ ~worked'[v]
      PROVE  AtMost(strikes'[v] + 1, Strikes + 1) <= idle'[v]
  <2>1. CASE v = u
    BY <2>1, <1>6
  <2>2. CASE v # u
    <3>1. sampled[v] /\ ~worked[v] /\ idle'[v] = idle[v] /\ strikes'[v] = strikes[v]
      BY <2>2, <1>3, <1>7
    <3> QED
      BY <3>1 DEF SilentInv
  <2> QED
    BY <2>1, <2>2
<1> QED
  BY <1>5, <1>7 DEF SilentInv

\* The steps in which nobody looks at a server.
LEMMA KeptSilent ==
  ASSUME TypeInv, TypeInv', SilentInv,
         \A v \in Unit :
            /\ todo'[v] = "look" => todo[v] = "look"
            /\ ~worked'[v] => /\ ~worked[v] /\ idle'[v] = idle[v]
                              /\ server'[v].up => server[v].up
                              /\ server[v].up /\ server[v].stuck => server'[v].stuck \/ ~server'[v].up
            /\ sampled'[v] => sampled[v]
            /\ strikes'[v] = strikes[v] \/ strikes'[v] = 0
  PROVE  SilentInv'
<1> USE WatchdogAssumption
<1>1. \A v \in Unit : idle[v] \in 0..Strikes + 1 /\ strikes[v] \in Nat
  BY DEF TypeInv
<1>2. ASSUME NEW v \in Unit, todo'[v] = "look", server'[v].up, ~worked'[v]
      PROVE  server'[v].stuck
  <2>1. todo[v] = "look" /\ server[v].up /\ ~worked[v]
    BY <1>2
  <2>2. server[v].stuck
    BY <2>1 DEF SilentInv
  <2> QED
    BY <2>1, <2>2, <1>2
<1>3. ASSUME NEW v \in Unit, sampled'[v], ~worked'[v]
      PROVE  AtMost(strikes'[v] + 1, Strikes + 1) <= idle'[v]
  <2>1. sampled[v] /\ ~worked[v] /\ idle'[v] = idle[v]
    BY <1>3
  <2>2. AtMost(strikes[v] + 1, Strikes + 1) <= idle[v]
    BY <2>1 DEF SilentInv
  <2>3. CASE strikes'[v] = strikes[v]
    BY <2>1, <2>2, <2>3
  <2>4. CASE strikes'[v] = 0
    BY <2>1, <2>2, <2>4, <1>1 DEF AtMost
  <2> QED
    BY <2>3, <2>4
<1> QED
  BY <1>2, <1>3 DEF SilentInv

LEMMA SilentStep ==
  ASSUME TypeInv, TypeInv', SilentInv, [Next]_vars
  PROVE  SilentInv'
<1> USE WatchdogAssumption
<1>1. /\ server \in [Unit -> Servers] /\ worked \in [Unit -> BOOLEAN]
      /\ todo \in [Unit -> {"no", "look", "skip"}] /\ strikes \in [Unit -> Nat]
      /\ sampled \in [Unit -> BOOLEAN] /\ idle \in [Unit -> 0..Strikes + 1] /\ at \in Unit
  BY DEF TypeInv
<1>2. CASE Wake
  <2>1. TimePasses /\ strikes' = strikes /\ sampled' = sampled
    BY <1>2 DEF Wake
  <2>2. ASSUME NEW v \in Unit
        PROVE  /\ todo'[v] = "look" /\ server'[v].up /\ ~worked'[v] => server'[v].stuck
               /\ sampled'[v] /\ ~worked'[v] => AtMost(strikes'[v] + 1, Strikes + 1) <= idle'[v]
    BY <2>1, TimeFacts DEF SilentInv
  <2> QED
    BY <2>2 DEF SilentInv
<1>3. CASE Capturing
  <2>1. TimePasses /\ strikes' = strikes /\ sampled' = sampled /\ todo' = todo
    BY <1>3 DEF Capturing
  <2>2. ASSUME NEW v \in Unit
        PROVE  /\ todo'[v] = "look" /\ server'[v].up /\ ~worked'[v] => server'[v].stuck
               /\ sampled'[v] /\ ~worked'[v] => AtMost(strikes'[v] + 1, Strikes + 1) <= idle'[v]
    BY <2>1, TimeFacts DEF SilentInv
  <2> QED
    BY <2>2 DEF SilentInv
<1>4. ASSUME NEW u \in Unit, Skip(u)
      PROVE  SilentInv'
  <2>1. /\ UNCHANGED <<server, worked, sampled, idle>>
        /\ todo' = [todo EXCEPT ![u] = "no"] /\ strikes' = [strikes EXCEPT ![u] = 0]
    BY <1>4 DEF Skip, Turn, history
  <2>2. \A v \in Unit : /\ todo'[v] = "look" => todo[v] = "look"
                        /\ strikes'[v] = strikes[v] \/ strikes'[v] = 0
    BY <1>1, <2>1
  <2> QED
    BY <2>1, <2>2, KeptSilent
<1>5. ASSUME NEW u \in Unit, Gone(u)
      PROVE  SilentInv'
  <2>1. /\ UNCHANGED <<server, worked, idle>> /\ sampled' = [sampled EXCEPT ![u] = FALSE]
        /\ todo' = [todo EXCEPT ![u] = "no"] /\ strikes' = [strikes EXCEPT ![u] = 0]
    BY <1>5 DEF Gone, Turn, history
  <2>2. \A v \in Unit : /\ todo'[v] = "look" => todo[v] = "look"
                        /\ sampled'[v] => sampled[v]
                        /\ strikes'[v] = strikes[v] \/ strikes'[v] = 0
    BY <1>1, <2>1
  <2> QED
    BY <2>1, <2>2, KeptSilent
<1>6. strikes' \in [Unit -> Nat]
  BY DEF TypeInv
<1>7. ASSUME NEW u \in Unit, Healthy(u)
      PROVE  SilentInv'
  <2>1. Sample(u) /\ server' = server /\ strikes' = [strikes EXCEPT ![u] = 0]
    BY <1>7 DEF Healthy
  <2>2. strikes'[u] = 0 /\ \A v \in Unit : v # u => strikes'[v] = strikes[v]
    BY <1>1, <2>1
  <2> QED
    BY <1>6, <2>1, <2>2, SampleSilent
<1>8. ASSUME NEW u \in Unit, Suspect(u) \/ Decide(u)
      PROVE  SilentInv'
  <2>1. Sample(u) /\ Hung(u) /\ server' = server /\ strikes' = [strikes EXCEPT ![u] = @ + 1]
    BY <1>8 DEF Suspect, Decide
  <2>2. strikes'[u] = strikes[u] + 1 /\ \A v \in Unit : v # u => strikes'[v] = strikes[v]
    BY <1>1, <2>1
  <2> QED
    BY <1>6, <2>1, <2>2, SampleSilent
<1>9. ASSUME NEW u \in Unit, GiveUp(u)
      PROVE  SilentInv'
  <2>1. Sample(u) /\ server' = server /\ strikes' = [strikes EXCEPT ![u] = 0]
    BY <1>9 DEF GiveUp
  <2>2. strikes'[u] = 0 /\ \A v \in Unit : v # u => strikes'[v] = strikes[v]
    BY <1>1, <2>1
  <2> QED
    BY <1>6, <2>1, <2>2, SampleSilent
<1>10. CASE Restart
  <2>1. todo' = todo /\ sampled' = sampled /\ strikes' = [strikes EXCEPT ![at] = 0]
    BY <1>10 DEF Restart
  <2>2. \/ server' = server /\ worked' = worked /\ idle' = idle
        \/ /\ server' = [server EXCEPT ![at] = Booted]
           /\ worked' = [worked EXCEPT ![at] = TRUE]
           /\ idle' = [idle EXCEPT ![at] = 0]
    BY <1>10 DEF Restart, Boot
  <2>3. \A v \in Unit :
           /\ ~worked'[v] => ~worked[v] /\ idle'[v] = idle[v] /\ server'[v] = server[v]
           /\ strikes'[v] = strikes[v] \/ strikes'[v] = 0
    BY <1>1, <2>1, <2>2
  <2> QED
    BY <2>1, <2>3, KeptSilent
<1>11. CASE Sleep
  <2>1. UNCHANGED <<server, worked, todo, strikes, sampled, idle>>
    BY <1>11 DEF Sleep, memory, history
  <2> QED
    BY <2>1, KeptSilent
<1>12. CASE LoopError
  <2>1. UNCHANGED <<server, worked, strikes, sampled, idle>> /\ \A v \in Unit : todo'[v] = "no"
    BY <1>12 DEF LoopError, memory, Nobody
  <2> QED
    BY <2>1, KeptSilent
<1>13. CASE WatchdogRestarts
  <2>1. UNCHANGED <<server, worked, idle>>
        /\ \A v \in Unit : todo'[v] = "no" /\ ~sampled'[v] /\ strikes'[v] = 0
    BY <1>13 DEF WatchdogRestarts, Nobody
  <2> QED
    BY <2>1, KeptSilent
<1>14. ASSUME NEW u \in Unit, Others(u)
       PROVE  SilentInv'
  <2>1. todo' = todo /\ sampled' = sampled /\ strikes' = strikes
    BY <1>14 DEF Others, Freeze, Thaw, Traffic, Stop, StartOrRestart, loop, memory
  <2>2. \/ /\ UNCHANGED <<worked, idle>>
           /\ \/ server[u].up /\ server' = [server EXCEPT ![u].stuck = TRUE]
              \/ server[u].up /\ server' = [server EXCEPT ![u].backlog = ~@]
              \/ server' = [server EXCEPT ![u] = [Booted EXCEPT !.up = FALSE]]
        \/ /\ worked' = [worked EXCEPT ![u] = TRUE]
           /\ idle' = [idle EXCEPT ![u] = 0]
           /\ \/ server' = [server EXCEPT ![u].stuck = FALSE]
              \/ server' = [server EXCEPT ![u] = Booted]
    BY <1>14 DEF Others, Freeze, Thaw, Traffic, Stop, StartOrRestart, Boot, history
  <2>3. \A v \in Unit : v # u => server'[v] = server[v] /\ worked'[v] = worked[v] /\ idle'[v] = idle[v]
    BY <1>1, <2>2
  <2>4. CASE /\ UNCHANGED <<worked, idle>>
             /\ \/ server[u].up /\ server' = [server EXCEPT ![u].stuck = TRUE]
                \/ server[u].up /\ server' = [server EXCEPT ![u].backlog = ~@]
                \/ server' = [server EXCEPT ![u] = [Booted EXCEPT !.up = FALSE]]
    <3>1. /\ server'[u].up => server[u].up
          /\ server[u].up /\ server[u].stuck => server'[u].stuck \/ ~server'[u].up
      <4>1. server[u] \in Servers
        BY <1>1
      <4>2. CASE server[u].up /\ server' = [server EXCEPT ![u].stuck = TRUE]
        BY <1>1, <4>1, <4>2 DEF Servers
      <4>3. CASE server[u].up /\ server' = [server EXCEPT ![u].backlog = ~@]
        <5>1. server'[u].stuck = server[u].stuck
          BY <1>1, <4>1, <4>3 DEF Servers
        <5> QED
          BY <4>3, <5>1
      <4>4. CASE server' = [server EXCEPT ![u] = [Booted EXCEPT !.up = FALSE]]
        BY <1>1, <4>4 DEF Booted
      <4> QED
        BY <2>4, <4>2, <4>3, <4>4
    <3> QED
      BY <2>1, <2>3, <2>4, <3>1, KeptSilent
  <2>5. CASE worked' = [worked EXCEPT ![u] = TRUE]
    <3>1. worked'[u]
      BY <1>1, <2>5
    <3> QED
      BY <2>1, <2>3, <3>1, KeptSilent
  <2> QED
    BY <2>2, <2>4, <2>5
<1>15. CASE UNCHANGED vars
  <2>1. UNCHANGED <<server, worked, todo, strikes, sampled, idle>>
    BY <1>15 DEF vars, loop, memory, history
  <2> QED
    BY <2>1, KeptSilent
<1> QED
  BY <1>2, <1>3, <1>4, <1>5, <1>7, <1>8, <1>9, <1>10, <1>11, <1>12, <1>13, <1>14, <1>15
     DEF Next, Loop, Check

LEMMA LimitStep ==
  ASSUME TypeInv, LimitInv, [Next]_vars
  PROVE  LimitInv'
<1> USE WatchdogAssumption
<1> DEFINE Good(v) ==
             /\ Covers(restarts'[v], issued'[v])
             /\ Len(restarts'[v]) <= RateMax
             /\ pc' = "capture" /\ at' = v =>
                   /\ Len(restarts'[v]) < RateMax
                   /\ \A i \in DOMAIN restarts'[v] : taken' <= restarts'[v][i]
                   /\ \A i \in DOMAIN issued'[v] : taken' <= issued'[v][i]
<1> SUFFICES ASSUME NEW v \in Unit
             PROVE  Good(v)
  BY DEF LimitInv
<1>1. /\ restarts \in [Unit -> Seq(Age)] /\ issued \in [Unit -> Seq(Age)]
      /\ restarts[v] \in Seq(Age) /\ issued[v] \in Seq(Age)
      /\ taken \in Nat /\ at \in Unit /\ Delay \in Nat /\ Window \in Nat
  BY DEF TypeInv
<1>2. /\ Covers(restarts[v], issued[v])
      /\ Len(restarts[v]) <= RateMax
      /\ pc = "capture" /\ at = v =>
            /\ Len(restarts[v]) < RateMax
            /\ \A i \in DOMAIN restarts[v] : taken <= restarts[v][i]
            /\ \A i \in DOMAIN issued[v] : taken <= issued[v][i]
  BY DEF LimitInv
\* Of most steps nothing shows in these lists, and none of them decides.
<1>3. ASSUME restarts' = restarts, issued' = issued,
             pc' = "capture" => pc = "capture" /\ at' = at /\ taken' = taken
      PROVE  Good(v)
  BY <1>2, <1>3
<1>4. CASE Wake
  <2>1. TimePasses /\ pc' = "round"
    BY <1>4 DEF Wake
  <2>2. Covers(restarts'[v], issued'[v]) /\ Len(restarts'[v]) = Len(restarts[v])
    BY <2>1, TimeLimits
  <2> QED
    BY <1>2, <2>1, <2>2
<1>5. CASE Capturing
  <2>1. TimePasses /\ pc = "capture" /\ pc' = pc /\ at' = at /\ taken' = taken + 1 /\ taken + 1 <= Delay
    BY <1>1, <1>5 DEF Capturing
  <2>2. Covers(restarts'[v], issued'[v]) /\ Len(restarts'[v]) = Len(restarts[v])
    BY <2>1, TimeLimits
  <2>3. ASSUME at = v
        PROVE  /\ \A i \in DOMAIN restarts'[v] : taken' <= restarts'[v][i]
               /\ \A i \in DOMAIN issued'[v] : taken' <= issued'[v][i]
    BY <1>1, <1>2, <2>1, <2>3, TimeLimits
  <2> QED
    BY <1>2, <2>1, <2>2, <2>3
\* To look at a unit may pop what is out of the window.
<1>6. ASSUME NEW u \in Unit, GiveUp(u) \/ Decide(u)
      PROVE  Good(v)
  <2>1. restarts' = [restarts EXCEPT ![u] = Recent(restarts[u], Window)] /\ issued' = issued
    BY <1>6 DEF GiveUp, Decide, Remembered
  <2>2. issued'[v] = issued[v] /\ restarts'[v] = IF u = v THEN Recent(restarts[v], Window) ELSE restarts[v]
    BY <1>1, <2>1
  <2>3. Covers(Recent(restarts[v], Window), issued[v])
    BY <1>1, <1>2, CoversPopped
  <2>4. Len(Recent(restarts[v], Window)) <= Len(restarts[v]) /\ Len(Recent(restarts[v], Window)) \in Nat
        /\ Len(restarts[v]) \in Nat
    <3>1. Len(restarts[v]) \in Nat /\ Len(Recent(restarts[v], Window)) \in 0..Len(restarts[v])
      BY <1>1, RecentLatest
    <3> QED
      BY <3>1
  <2>5. Covers(restarts'[v], issued'[v]) /\ Len(restarts'[v]) <= RateMax
    BY <1>2, <2>2, <2>3, <2>4
  <2>6. ASSUME pc' = "capture", at' = v
        PROVE  /\ Len(restarts'[v]) < RateMax
               /\ \A i \in DOMAIN restarts'[v] : taken' <= restarts'[v][i]
               /\ \A i \in DOMAIN issued'[v] : taken' <= issued'[v][i]
    <3>1. ~GiveUp(u)
      BY <2>6 DEF GiveUp, Sample, Turn
    <3>2. Decide(u)
      BY <1>6, <3>1
    <3>3. u = v /\ taken' = 0 /\ Len(Recent(restarts[u], Window)) < RateMax
      BY <2>6, <3>2 DEF Decide, Remembered
    <3>4. restarts'[v] \in Seq(Age) /\ issued'[v] \in Seq(Age)
      BY <1>1, <2>2, <3>3, RecentFacts
    <3>5. /\ \A i \in DOMAIN restarts'[v] : 0 <= restarts'[v][i]
          /\ \A i \in DOMAIN issued'[v] : 0 <= issued'[v][i]
      <4>1. ASSUME NEW ages \in Seq(Age)
            PROVE  \A i \in DOMAIN ages : 0 <= ages[i]
        BY AgesAreNumbers
      <4> QED
        BY <3>4, <4>1
    <3> QED
      BY <2>2, <3>3, <3>5
  <2> QED
    BY <2>5, <2>6
<1>7. ASSUME NEW u \in Unit, Skip(u) \/ Gone(u) \/ Healthy(u) \/ Suspect(u)
      PROVE  Good(v)
  <2>1. restarts' = restarts /\ issued' = issued /\ pc' = "round"
    BY <1>7 DEF Skip, Gone, Healthy, Suspect, Sample, Turn, history
  <2> QED
    BY <1>3, <2>1
<1>8. CASE Restart
  <2>1. pc = "capture" /\ pc' = "round"
    BY <1>8 DEF Restart
  <2>2. CASE v # at
    <3>1. restarts'[v] = restarts[v] /\ issued'[v] = issued[v]
      BY <1>1, <1>8, <2>2 DEF Restart
    <3> QED
      BY <1>2, <2>1, <3>1
  <2>3. CASE v = at
    <3>1. /\ restarts'[v] = Append(restarts[v], taken)
          /\ issued'[v] = Append(issued[v], 0) \/ issued'[v] = issued[v]
      BY <1>1, <1>8, <2>3 DEF Restart
    <3>2. /\ Len(restarts[v]) < RateMax
          /\ \A i \in DOMAIN restarts[v] : taken <= restarts[v][i]
          /\ \A i \in DOMAIN issued[v] : taken <= issued[v][i]
          /\ taken \in 0..Delay
      BY <1>2, <2>1, <2>3 DEF TypeInv
    <3>3. Covers(Append(restarts[v], taken), Append(issued[v], 0)) /\ Covers(Append(restarts[v], taken), issued[v])
      BY <1>1, <1>2, <3>2, CoversRestart, CoversDecision
    <3>4. Len(restarts'[v]) <= RateMax
      <4>1. Len(Append(restarts[v], taken)) = Len(restarts[v]) + 1 /\ Len(restarts[v]) \in Nat
        BY <1>1
      <4> QED
        BY <3>1, <3>2, <4>1
    <3> QED
      BY <2>1, <3>1, <3>3, <3>4
  <2> QED
    BY <2>2, <2>3
<1>9. CASE Sleep
  <2>1. restarts' = restarts /\ issued' = issued /\ pc' = "asleep"
    BY <1>9 DEF Sleep, memory, history
  <2> QED
    BY <1>3, <2>1
<1>10. CASE LoopError
  <2>1. restarts' = restarts /\ issued' = issued /\ pc' = "round"
    BY <1>10 DEF LoopError, memory
  <2> QED
    BY <1>3, <2>1
<1>11. CASE WatchdogRestarts
  <2>1. restarts'[v] = <<>> /\ issued'[v] = <<>> /\ pc' = "asleep"
    BY <1>11 DEF WatchdogRestarts
  <2>2. Len(<<>>) = 0 /\ Covers(<<>>, <<>>)
    BY CoversEmpty
  <2> QED
    BY <2>1, <2>2
<1>12. ASSUME NEW u \in Unit, Others(u)
       PROVE  Good(v)
  <2>1. UNCHANGED <<restarts, issued, pc, at, taken>>
    BY <1>12 DEF Others, Freeze, Thaw, Traffic, Stop, StartOrRestart, loop, memory, history
  <2> QED
    BY <1>3, <2>1
<1>13. CASE UNCHANGED vars
  <2>1. UNCHANGED <<restarts, issued, pc, at, taken>>
    BY <1>13 DEF vars, loop, memory, history
  <2> QED
    BY <1>3, <2>1
<1> QED
  BY <1>4, <1>5, <1>6, <1>7, <1>8, <1>9, <1>10, <1>11, <1>12, <1>13 DEF Next, Loop, Check

-----------------------------------------------------------------------------
(* What the watchdog promises.                                             *)

\* The invariant holds in every state: strikes are checks through which the
\* process there is now did not work, and what is remembered covers every
\* restart that was done (watchdog.py:388-450).
THEOREM Invariant ==
  Spec => []WatchInv
<1>1. Init => WatchInv
  BY InitWatch
<1>2. WatchInv /\ [Next]_vars => WatchInv'
  BY TypeStep, StrikesStep, SilentStep, LimitStep DEF WatchInv
<1> QED
  BY <1>1, <1>2, PTL DEF Spec

LEMMA BoundedList ==
  ASSUME NEW ages \in Seq(Age), Len(ages) <= RateMax + 1
  PROVE  ages \in AgeList
<1>1. Len(ages) \in 0..RateMax + 1 /\ ages \in [1..Len(ages) -> Age]
  <2>1. Len(ages) \in Nat
    OBVIOUS
  <2> QED
    BY <2>1
<1> QED
  BY <1>1 DEF AgeList, Age

\* No unit has more strikes than the errors of the watchdog allow, and it
\* remembers no more restarts of one than its rate limit (watchdog.py:418-450).
THEOREM TypeCorrect ==
  Spec => []TypeOK
<1>1. ASSUME WatchInv
      PROVE  TypeOK
  <2> USE WatchdogAssumption
  <2>1. TypeInv /\ StrikesInv /\ LimitInv
    BY <1>1 DEF WatchInv
  <2>2. strikes \in [Unit -> 0..Strikes + MaxFaults]
    <3>1. strikes \in [Unit -> Nat] /\ mishaps \in 0..MaxFaults
      BY <2>1 DEF TypeInv
    <3>2. ASSUME NEW u \in Unit
          PROVE  strikes[u] \in 0..Strikes + MaxFaults
      <4>1. strikes[u] <= Strikes + mishaps /\ strikes[u] \in Nat
        BY <2>1, <3>1 DEF StrikesInv
      <4> QED
        BY <3>1, <4>1
    <3> QED
      BY <3>1, <3>2
  <2>3. ASSUME NEW u \in Unit
        PROVE  restarts[u] \in AgeList /\ issued[u] \in AgeList
    <3>1. /\ restarts[u] \in Seq(Age) /\ issued[u] \in Seq(Age)
          /\ Covers(restarts[u], issued[u]) /\ Len(restarts[u]) <= RateMax
      BY <2>1 DEF TypeInv, LimitInv
    <3>2. Len(restarts[u]) \in Nat /\ Len(issued[u]) \in Nat /\ DOMAIN issued[u] = 1..Len(issued[u])
      BY <3>1, AgesAreNumbers
    <3>3. Len(issued[u]) <= RateMax + 1
      <4>1. CASE Len(issued[u]) > 1
        <5>1. Len(issued[u]) \in DOMAIN issued[u]
          BY <3>2, <4>1
        <5>2. Len(issued[u]) - 1 <= Len(restarts[u])
          BY <3>1, <4>1, <5>1 DEF Covers
        <5> QED
          BY <3>1, <3>2, <5>2
      <4>2. CASE ~(Len(issued[u]) > 1)
        BY <3>2, <4>2
      <4> QED
        BY <4>1, <4>2
    <3>4. Len(restarts[u]) <= RateMax + 1
      BY <3>1, <3>2
    <3> QED
      BY <3>1, <3>3, <3>4, BoundedList
  <2>4. restarts \in [Unit -> AgeList] /\ issued \in [Unit -> AgeList]
    BY <2>1, <2>3 DEF TypeInv
  <2> QED
    BY <2>1, <2>2, <2>4 DEF TypeInv, TypeOK, Servers
<1> QED
  BY <1>1, Invariant, PTL

\* Whatever servers and users do, and however long a capture takes, no unit is
\* restarted more than RATE_MAX times within RATE_WINDOW less that delay by one
\* watchdog process (watchdog.py:78-80, 418-450).
THEOREM RateLimit ==
  Spec => []RateLimited
<1>1. ASSUME WatchInv
      PROVE  RateLimited
  <2> SUFFICES ASSUME NEW u \in Unit
               PROVE  Len(Recent(issued[u], Window - Delay)) <= RateMax
    BY DEF RateLimited
  <2> DEFINE k == Len(Recent(issued[u], Window - Delay))
  <2>1. /\ restarts[u] \in Seq(Age) /\ issued[u] \in Seq(Age)
        /\ Covers(restarts[u], issued[u]) /\ Len(restarts[u]) <= RateMax
    BY <1>1 DEF WatchInv, TypeInv, LimitInv
  <2>2. Window - Delay \in Nat /\ RateMax \in Nat
    BY WatchdogAssumption
  <2>3. k \in 0..Len(issued[u]) /\ (k > 0 => Latest(issued[u], k) <= Window - Delay)
    <3>1. /\ k \in 0..Len(issued[u])
          /\ \A j \in 1..k : Latest(Recent(issued[u], Window - Delay), j) = Latest(issued[u], j)
          /\ k > 0 => Latest(issued[u], k) <= Window - Delay
      BY <2>1, <2>2, RecentLatest
    <3> QED
      BY <3>1
  <2> HIDE DEF k
  <2>4. Len(restarts[u]) \in Nat /\ Len(issued[u]) \in Nat /\ DOMAIN issued[u] = 1..Len(issued[u])
    BY <2>1, AgesAreNumbers
  <2>5. CASE k > 0
    <3>1. k \in DOMAIN issued[u]
      BY <2>3, <2>4, <2>5
    <3>2. k <= Len(restarts[u])
      BY <2>1, <2>3, <2>5, <3>1 DEF Covers
    <3> QED
      BY <2>1, <2>2, <2>3, <2>4, <3>2 DEF k
  <2>6. CASE ~(k > 0)
    BY <2>2, <2>3, <2>4, <2>6 DEF k
  <2> QED
    BY <2>5, <2>6
<1> QED
  BY <1>1, Invariant, PTL

\* The watchdog decides to restart only a server that is up and stuck, and of
\* which as many whole checks in a row as there are strikes saw no CPU time used
\* (watchdog.py:20-25, 388-416).
THEOREM OnlyStuckRestarted ==
  Spec => RestartsOnlyTheStuck
<1>1. ASSUME WatchInv, WatchInv', [Next]_vars, pc # "capture", pc' = "capture"
      PROVE  idle'[at'] > Strikes /\ server[at'].up /\ server[at'].stuck
  <2> USE WatchdogAssumption
  <2>1. PICK u \in Unit : Decide(u)
    <3>1. ~Wake /\ ~Capturing /\ ~Restart /\ ~Sleep /\ ~LoopError /\ ~WatchdogRestarts
      BY <1>1 DEF Wake, Capturing, Restart, Sleep, LoopError, WatchdogRestarts
    <3>2. \A u \in Unit : ~Skip(u) /\ ~Gone(u) /\ ~Healthy(u) /\ ~Suspect(u) /\ ~GiveUp(u)
      BY <1>1 DEF Skip, Gone, Healthy, Suspect, GiveUp
    <3>3. \A u \in Unit : ~Others(u)
      BY <1>1 DEF Others, Freeze, Thaw, Traffic, Stop, StartOrRestart, loop
    <3>4. ~UNCHANGED vars
      BY <1>1 DEF vars, loop
    <3> QED
      BY <1>1, <3>1, <3>2, <3>3, <3>4 DEF Next, Loop, Check
  <2>2. /\ at' = u /\ server[u].up /\ todo[u] = "look" /\ sampled[u] /\ ~worked[u]
        /\ strikes[u] + 1 >= Strikes
        /\ idle' = [idle EXCEPT ![u] = AtMost(@ + 1, Strikes + 1)]
    BY <2>1 DEF Decide, Sample, Turn, Hung
  <2>3. server[u].stuck /\ AtMost(strikes[u] + 1, Strikes + 1) <= idle[u]
    BY <1>1, <2>2 DEF WatchInv, SilentInv
  <2>4. strikes[u] \in Nat /\ idle[u] \in 0..Strikes + 1 /\ idle \in [Unit -> 0..Strikes + 1]
    BY <1>1 DEF WatchInv, TypeInv
  <2>5. idle'[u] = AtMost(idle[u] + 1, Strikes + 1)
    BY <2>2, <2>4
  <2>6. idle'[u] > Strikes
    BY <2>2, <2>3, <2>4, <2>5 DEF AtMost
  <2> QED
    BY <2>2, <2>3, <2>6
<1>2. WatchInv /\ WatchInv' /\ [Next]_vars =>
        [pc # "capture" /\ pc' = "capture" =>
           idle'[at'] > Strikes /\ server[at'].up /\ server[at'].stuck]_vars
  BY <1>1
<1> QED
  BY <1>2, Invariant, PTL DEF Spec, RestartsOnlyTheStuck
=============================================================================
