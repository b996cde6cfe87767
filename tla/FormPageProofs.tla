---------------------------- MODULE FormPageProofs ---------------------------
(* What the pages with forms do for any texts, tables, rows, pages and     *)
(* gestures: the rules judge any value as their messages say, a save is    *)
(* complete and asked for, and the list's requests carry no leftovers.     *)
EXTENDS FormPage, FiniteSetTheorems, WellFoundedInduction, TLAPS

\* Every set of natural numbers that is not empty has a least member.
LEMMA LeastOf ==
  ASSUME NEW S \in SUBSET Nat, S # {}
  PROVE  Least(S) \in S /\ \A j \in S : Least(S) <= j
<1>1. \E x \in S : \A y \in S : ~(<<y, x>> \in OpToRel(<, Nat))
  <2>1. IsWellFoundedOn(OpToRel(<, Nat), Nat)
    BY NatLessThanWellFounded, Zenon
  <2> QED BY <2>1, WFMin, Zenon
<1>2. \A x, y \in Nat : y < x => <<y, x>> \in OpToRel(<, Nat)
  BY Zenon DEF OpToRel
<1>3. \E x \in S : \A y \in S : x <= y
  <2>1. PICK x \in S : \A y \in S : ~(<<y, x>> \in OpToRel(<, Nat))
    BY <1>1, Zenon
  <2>2. ASSUME NEW y \in S PROVE ~(y < x)
    BY <1>2, <2>1
  <2> QED BY <2>2
<1> QED BY <1>3 DEF Least

\* Induction, about a set instead of a predicate.
LEMMA Induction ==
  ASSUME NEW n \in Nat, NEW S, 0 \in S, \A k \in 0 .. n - 1 : k \in S => k + 1 \in S
  PROVE  0 .. n \subseteq S
<1> SUFFICES ASSUME (0 .. n) \ S # {} PROVE FALSE
  OBVIOUS
<1> DEFINE T == (0 .. n) \ S
           k == Least(T)
<1>1. T \in SUBSET Nat /\ T # {}
  OBVIOUS
<1> HIDE DEF T
<1>2. k \in T /\ \A j \in T : k <= j
  BY <1>1, LeastOf
<1> HIDE DEF k
<1>3. k \in 1 .. n /\ k \notin S
  BY <1>2 DEF T
<1>4. k - 1 \in 0 .. n - 1 /\ k - 1 \notin T
  BY <1>2, <1>3
<1>5. k - 1 \in S
  BY <1>3, <1>4 DEF T
<1> QED BY <1>3, <1>4, <1>5

\* A function defined by recursion on a number, from value b with the steps F.
StepsOn(n, V) == [1 .. n -> [V -> V]]
ByRecursion(f, n, V, b, F) ==
  f \in [0 .. n -> V] /\ f[0] = b /\ \A i \in 1 .. n : f[i] = F[i][f[i - 1]]

\* There is one.
LEMMA Recursion ==
  ASSUME NEW n \in Nat, NEW V, NEW b \in V, NEW F \in StepsOn(n, V)
  PROVE  \E f : ByRecursion(f, n, V, b, F)
<1> USE DEF StepsOn, ByRecursion
<1> DEFINE Upto(k, f) == f[0] = b /\ \A i \in 1 .. k : f[i] = F[i][f[i - 1]]
           S == {k \in 0 .. n : \E f \in [0 .. k -> V] : Upto(k, f)}
<1>1. 0 \in S
  <2> DEFINE f == [i \in 0 .. 0 |-> b]
  <2>1. f \in [0 .. 0 -> V] /\ f[0] = b
    OBVIOUS
  <2> HIDE DEF f
  <2>2. Upto(0, f)
    BY <2>1
  <2> HIDE DEF Upto
  <2> QED BY <2>1, <2>2
<1>2. ASSUME NEW k \in 0 .. n - 1, k \in S PROVE k + 1 \in S
  <2>1. PICK f \in [0 .. k -> V] : Upto(k, f)
    BY <1>2
  <2> DEFINE g == [i \in 0 .. k + 1 |-> IF i = k + 1 THEN F[k + 1][f[k]] ELSE f[i]]
  <2>2. k \in 0 .. k /\ k + 1 \in 1 .. n /\ 0 \in 0 .. k + 1 /\ 0 # k + 1
    OBVIOUS
  <2>3. F[k + 1] \in [V -> V] /\ f[k] \in V
    BY <2>2
  <2>4. g \in [0 .. k + 1 -> V]
    BY <2>3
  <2>5. g[0] = b
    BY <2>1, <2>2
  <2>6. ASSUME NEW i \in 1 .. k + 1 PROVE g[i] = F[i][g[i - 1]]
    <3>1. CASE i = k + 1
      BY <2>2, <3>1
    <3>2. CASE i # k + 1
      <4>1. i \in 1 .. k /\ i \in 0 .. k + 1 /\ i - 1 \in 0 .. k + 1 /\ i - 1 # k + 1
        BY <3>2
      <4>2. g[i] = f[i] /\ g[i - 1] = f[i - 1]
        BY <3>2, <4>1
      <4> QED BY <2>1, <4>1, <4>2
    <3> QED BY <3>1, <3>2
  <2>7. Upto(k + 1, g)
    BY <2>5, <2>6
  <2>8. k + 1 \in 0 .. n
    OBVIOUS
  <2> HIDE DEF g, Upto
  <2> QED BY <2>4, <2>7, <2>8
<1> HIDE DEF S, Upto
<1>3. 0 .. n \subseteq S
  BY <1>1, <1>2, Induction
<1>4. n \in S
  BY <1>3
<1> QED BY <1>4 DEF S, Upto

-----------------------------------------------------------------------------
(* The rules, for a value of any length *)

\* Characters i - m + 1 to i of value v are a run of m with the given step.
EndsRun(v, i, m, step) ==
  /\ i \in DOMAIN v /\ m <= i
  /\ \A j \in i - m + 2 .. i : v[j] - v[j - 1] = step

LEMMA RunsEnd ==
  ASSUME NEW v \in Seq(Nat), NEW m \in {3, 4}, NEW step \in {-1, 0, 1}
  PROVE  RunOf(v, m, step) <=> \E i \in m .. Len(v) : EndsRun(v, i, m, step)
<1>1. ASSUME RunOf(v, m, step) PROVE \E i \in m .. Len(v) : EndsRun(v, i, m, step)
  <2>1. PICK i \in 1 .. Len(v) - m + 1 : \A j \in i .. i + m - 2 : v[j + 1] - v[j] = step
    BY <1>1 DEF RunOf
  <2> DEFINE e == i + m - 1
  <2>2. e \in m .. Len(v) /\ e \in DOMAIN v
    OBVIOUS
  <2>3. ASSUME NEW j \in e - m + 2 .. e PROVE v[j] - v[j - 1] = step
    <3>1. j - 1 \in i .. i + m - 2 /\ (j - 1) + 1 = j
      OBVIOUS
    <3> QED BY <2>1, <3>1
  <2> HIDE DEF e
  <2>4. EndsRun(v, e, m, step)
    BY <2>2, <2>3 DEF EndsRun
  <2> QED BY <2>2, <2>4
<1>2. ASSUME NEW i \in m .. Len(v), EndsRun(v, i, m, step) PROVE RunOf(v, m, step)
  <2> DEFINE b == i - m + 1
  <2>1. b \in 1 .. Len(v) - m + 1
    OBVIOUS
  <2>2. ASSUME NEW j \in b .. b + m - 2 PROVE v[j + 1] - v[j] = step
    <3>1. j + 1 \in i - m + 2 .. i /\ (j + 1) - 1 = j
      OBVIOUS
    <3> QED BY <1>2, <3>1 DEF EndsRun
  <2> QED BY <2>1, <2>2 DEF RunOf
<1> QED BY <1>1, <1>2

\* The counters of password3 after character i.
Counters == (1 .. 4) \X (1 .. 4)

LEMMA CountsExist ==
  ASSUME NEW v \in Seq(Nat)
  PROVE  \E c \in [0 .. Len(v) -> Counters] :
           /\ \A i \in 0 .. Len(v) :
                c[i] = IF i <= 1 THEN <<1, 1>> ELSE CountRuns(v, c[i - 1], i)
           /\ Password3(v) <=> 4 \notin {c[Len(v)][1], c[Len(v)][2]}
<1> DEFINE n == Len(v)
           F == [i \in 1 .. n |-> [s \in Counters |-> IF i <= 1 THEN <<1, 1>> ELSE CountRuns(v, s, i)]]
           E(f) == [i \in 0 .. n |-> IF i <= 1 THEN <<1, 1>> ELSE CountRuns(v, f[i - 1], i)]
           c == CHOOSE f : f = E(f)
<1>1. n \in Nat /\ <<1, 1>> \in Counters
  BY DEF Counters
<1>2. ASSUME NEW i \in 2 .. n, NEW s \in Counters PROVE CountRuns(v, s, i) \in Counters
  BY DEF CountRuns, Counters
<1>3. F \in [1 .. n -> [Counters -> Counters]]
  BY <1>1, <1>2
<1>4. PICK f \in [0 .. n -> Counters] :
        f[0] = <<1, 1>> /\ \A i \in 1 .. n : f[i] = F[i][f[i - 1]]
  <2> HIDE DEF F, n
  <2>1. F \in StepsOn(n, Counters)
    BY <1>3 DEF StepsOn
  <2>2. \E f : ByRecursion(f, n, Counters, <<1, 1>>, F)
    BY <1>1, <2>1, Recursion
  <2> QED BY <2>2 DEF ByRecursion
<1>5. ASSUME NEW i \in 0 .. n PROVE f[i] = IF i <= 1 THEN <<1, 1>> ELSE CountRuns(v, f[i - 1], i)
  <2>1. CASE i = 0
    BY <1>4, <2>1
  <2>2. CASE i # 0
    <3>1. i \in 1 .. n /\ f[i - 1] \in Counters
      BY <2>2
    <3> QED BY <1>4, <3>1
  <2> QED BY <2>1, <2>2
<1>6. f = E(f)
  BY <1>5
<1>7. c = E(c)
  BY <1>6
<1>8. Password3(v) <=> 4 \notin {c[n][1], c[n][2]}
  BY DEF Password3
<1> HIDE DEF c
<1>9. \A i \in 0 .. n : c[i] = IF i <= 1 THEN <<1, 1>> ELSE CountRuns(v, c[i - 1], i)
  BY <1>7
<1>10. c \in [0 .. n -> Counters]
  <2> DEFINE S == {i \in 0 .. n : c[i] \in Counters}
  <2>1. 0 \in S
    BY <1>1, <1>9
  <2>2. ASSUME NEW k \in 0 .. n - 1, k \in S PROVE k + 1 \in S
    <3>1. k + 1 \in 0 .. n /\ (k + 1) - 1 = k /\ c[k] \in Counters
      BY <2>2
    <3>2. c[k + 1] = IF k + 1 <= 1 THEN <<1, 1>> ELSE CountRuns(v, c[k], k + 1)
      BY <1>9, <3>1
    <3>3. c[k + 1] \in Counters
      BY <1>1, <1>2, <3>1, <3>2
    <3> QED BY <3>1, <3>3
  <2> HIDE DEF S
  <2>3. 0 .. n \subseteq S
    BY <1>1, <2>1, <2>2, Induction
  <2>4. \A i \in 0 .. n : c[i] \in Counters
    BY <2>3 DEF S
  <2> QED BY <1>7, <2>4
<1> QED BY <1>8, <1>9, <1>10

\* A run grows by a character that continues it.
LEMMA RunsGrow ==
  ASSUME NEW v \in Seq(Nat), NEW i \in 1 .. Len(v), NEW step \in {-1, 0, 1}
  PROVE  /\ EndsRun(v, i, 1, step)
         /\ i < Len(v) => \A m \in 1 .. 3 :
              EndsRun(v, i + 1, m + 1, step) <=> v[i + 1] - v[i] = step /\ EndsRun(v, i, m, step)
<1>1. EndsRun(v, i, 1, step)
  BY DEF EndsRun
<1>2. ASSUME i < Len(v), NEW m \in 1 .. 3, EndsRun(v, i + 1, m + 1, step)
      PROVE  v[i + 1] - v[i] = step /\ EndsRun(v, i, m, step)
  <2>1. m <= i /\ \A j \in i - m + 2 .. i + 1 : v[j] - v[j - 1] = step
    BY <1>2 DEF EndsRun
  <2>2. i + 1 \in i - m + 2 .. i + 1 /\ (i + 1) - 1 = i
    OBVIOUS
  <2>3. v[i + 1] - v[i] = step
    BY <2>1, <2>2
  <2> QED BY <2>1, <2>3 DEF EndsRun
<1>3. ASSUME i < Len(v), NEW m \in 1 .. 3, v[i + 1] - v[i] = step, EndsRun(v, i, m, step)
      PROVE  EndsRun(v, i + 1, m + 1, step)
  <2>1. m <= i /\ \A j \in i - m + 2 .. i : v[j] - v[j - 1] = step
    BY <1>3 DEF EndsRun
  <2>2. ASSUME NEW j \in i - m + 2 .. i + 1 PROVE v[j] - v[j - 1] = step
    <3>1. CASE j = i + 1
      BY <1>3, <3>1
    <3>2. CASE j # i + 1
      BY <2>1, <3>2
    <3> QED BY <3>1, <3>2
  <2> DEFINE e == i + 1
             w == m + 1
  <2>3. e \in DOMAIN v /\ w <= e /\ e - w + 2 = i - m + 2
    BY <1>3, <2>1
  <2>4. \A j \in e - w + 2 .. e : v[j] - v[j - 1] = step
    BY <2>2, <2>3
  <2> HIDE DEF e, w
  <2>5. EndsRun(v, e, w, step)
    BY <2>3, <2>4 DEF EndsRun
  <2> QED BY <2>5 DEF e, w
<1> QED BY <1>1, <1>2, <1>3

\* What the counters of password3 tell after the first i characters: either a run
\* of four was found, or they count the runs that end there.
FoundBy(v, i) == \E k \in 4 .. i : EndsRun(v, k, 4, 1) \/ EndsRun(v, k, 4, -1)
Counting(v, i, s) ==
  \A m \in 1 .. 3 : (s[1] >= m <=> EndsRun(v, i, m, 1)) /\ (s[2] >= m <=> EndsRun(v, i, m, -1))
Telling(v, i, s) == /\ 4 \in {s[1], s[2]} <=> FoundBy(v, i)
                    /\ i >= 1 /\ ~FoundBy(v, i) => Counting(v, i, s)

LEMMA CountsStart ==
  ASSUME NEW v \in Seq(Nat)
  PROVE  /\ Telling(v, 0, <<1, 1>>)
         /\ 1 <= Len(v) => Telling(v, 1, <<1, 1>>)
<1>1. ~FoundBy(v, 0) /\ ~FoundBy(v, 1)
  BY DEF FoundBy
<1>2. ASSUME 1 <= Len(v), NEW step \in {-1, 1} PROVE \A m \in 1 .. 3 : EndsRun(v, 1, m, step) <=> 1 >= m
  BY <1>2 DEF EndsRun
<1>3. 1 <= Len(v) => Counting(v, 1, <<1, 1>>)
  BY <1>2 DEF Counting
<1> QED BY <1>1, <1>3 DEF Telling

LEMMA CountsContinue ==
  ASSUME NEW v \in Seq(Nat), NEW i \in 1 .. Len(v), i < Len(v), NEW s \in Counters, Telling(v, i, s)
  PROVE  Telling(v, i + 1, CountRuns(v, s, i + 1))
<1> DEFINE d == v[i + 1] - v[i]
           q == CountRuns(v, s, i + 1)
<1>1. i + 1 \in 2 .. Len(v) /\ (i + 1) - 1 = i /\ d \in Int /\ s[1] \in 1 .. 4 /\ s[2] \in 1 .. 4
  BY DEF Counters
<1>2. FoundBy(v, i + 1)
        <=> FoundBy(v, i) \/ EndsRun(v, i + 1, 4, 1) \/ EndsRun(v, i + 1, 4, -1)
  <2>1. ASSUME EndsRun(v, i + 1, 4, 1) \/ EndsRun(v, i + 1, 4, -1) PROVE i + 1 \in 4 .. i + 1
    BY <2>1 DEF EndsRun
  <2>2. \A k \in 4 .. i + 1 : k \in 4 .. i \/ k = i + 1
    OBVIOUS
  <2>3. \A k \in 4 .. i : k \in 4 .. i + 1
    OBVIOUS
  <2> QED BY <2>1, <2>2, <2>3 DEF FoundBy
<1>3. CASE FoundBy(v, i)
  <2>1. 4 \in {s[1], s[2]}
    BY <1>3 DEF Telling
  <2>2. q = s
    BY <2>1 DEF CountRuns
  <2> QED BY <1>2, <1>3, <2>1, <2>2 DEF Telling
<1>4. CASE ~FoundBy(v, i)
  <2>1. 4 \notin {s[1], s[2]} /\ Counting(v, i, s)
    BY <1>4 DEF Telling
  <2>2. q = <<IF d = 1 THEN s[1] + 1 ELSE 1, IF d = -1 THEN s[2] + 1 ELSE 1>>
    BY <1>1, <2>1 DEF CountRuns
  <2>3. /\ q[1] = IF d = 1 THEN s[1] + 1 ELSE 1
        /\ q[2] = IF d = -1 THEN s[2] + 1 ELSE 1
    BY <2>2
  <2>4. ASSUME NEW m \in 1 .. 3
        PROVE  /\ EndsRun(v, i + 1, m + 1, 1) <=> d = 1 /\ EndsRun(v, i, m, 1)
               /\ EndsRun(v, i + 1, m + 1, -1) <=> d = -1 /\ EndsRun(v, i, m, -1)
    BY RunsGrow
  <2>5. EndsRun(v, i + 1, 1, 1) /\ EndsRun(v, i + 1, 1, -1)
    BY <1>1, RunsGrow
  <2> HIDE DEF d, q
  <2>6. ASSUME NEW m \in 1 .. 3
        PROVE  /\ q[1] >= m + 1 <=> EndsRun(v, i + 1, m + 1, 1)
               /\ q[2] >= m + 1 <=> EndsRun(v, i + 1, m + 1, -1)
    <3>1. (s[1] >= m <=> EndsRun(v, i, m, 1)) /\ (s[2] >= m <=> EndsRun(v, i, m, -1))
      BY <2>1 DEF Counting
    <3>2. q[1] >= m + 1 <=> d = 1 /\ s[1] >= m
      BY <1>1, <2>3
    <3>3. q[2] >= m + 1 <=> d = -1 /\ s[2] >= m
      BY <1>1, <2>3
    <3> QED BY <2>4, <3>1, <3>2, <3>3
  <2>7. q[1] \in 1 .. 4 /\ q[2] \in 1 .. 4
    BY <1>1, <2>1, <2>3
  <2>8. /\ q[1] >= 4 <=> EndsRun(v, i + 1, 4, 1)
        /\ q[2] >= 4 <=> EndsRun(v, i + 1, 4, -1)
    <3>1. 3 \in 1 .. 3 /\ 3 + 1 = 4
      OBVIOUS
    <3> QED BY <2>6, <3>1
  <2>9. Counting(v, i + 1, q)
    <3>1. ASSUME NEW m \in 1 .. 3
          PROVE  (q[1] >= m <=> EndsRun(v, i + 1, m, 1)) /\ (q[2] >= m <=> EndsRun(v, i + 1, m, -1))
      <4>1. CASE m = 1
        BY <2>5, <2>7, <4>1
      <4>2. CASE m # 1
        <5>1. m - 1 \in 1 .. 3 /\ (m - 1) + 1 = m
          BY <4>2
        <5> QED BY <2>6, <5>1
      <4> QED BY <4>1, <4>2
    <3> QED BY <3>1 DEF Counting
  <2>10. 4 \in {q[1], q[2]} <=> q[1] >= 4 \/ q[2] >= 4
    BY <2>7
  <2>11. Telling(v, i + 1, q)
    BY <1>2, <1>4, <2>8, <2>9, <2>10 DEF Telling
  <2> QED BY <2>11 DEF q
<1> QED BY <1>3, <1>4

LEMMA CountsTell ==
  ASSUME NEW v \in Seq(Nat), NEW c \in [0 .. Len(v) -> Counters],
         \A i \in 0 .. Len(v) : c[i] = IF i <= 1 THEN <<1, 1>> ELSE CountRuns(v, c[i - 1], i)
  PROVE  4 \in {c[Len(v)][1], c[Len(v)][2]} <=> RunOf(v, 4, 1) \/ RunOf(v, 4, -1)
<1> DEFINE n == Len(v)
           S == {i \in 0 .. n : Telling(v, i, c[i])}
<1>1. n \in Nat
  OBVIOUS
<1>2. 0 \in S
  <2>1. c[0] = <<1, 1>>
    BY <1>1
  <2>2. Telling(v, 0, <<1, 1>>)
    BY CountsStart
  <2>3. Telling(v, 0, c[0]) /\ 0 \in 0 .. n
    BY <1>1, <2>1, <2>2
  <2> HIDE DEF n
  <2> QED BY <2>3
<1>3. ASSUME NEW k \in 0 .. n - 1, k \in S PROVE k + 1 \in S
  <2>1. k + 1 \in 1 .. n /\ k + 1 \in 0 .. n /\ (k + 1) - 1 = k /\ c[k] \in Counters /\ Telling(v, k, c[k])
    BY <1>3
  <2>2. CASE k = 0
    <3>1. k + 1 = 1 /\ 1 <= Len(v) /\ c[1] = <<1, 1>>
      BY <2>1, <2>2
    <3>2. Telling(v, 1, <<1, 1>>)
      BY <3>1, CountsStart
    <3> QED BY <2>1, <3>1, <3>2
  <2>3. CASE k # 0
    <3>1. k \in 1 .. Len(v) /\ k < Len(v)
      BY <2>3
    <3>2. c[k + 1] = CountRuns(v, c[k], k + 1)
      <4>1. ~(k + 1 <= 1)
        BY <3>1
      <4> QED BY <2>1, <4>1
    <3>3. Telling(v, k + 1, CountRuns(v, c[k], k + 1))
      BY <2>1, <3>1, CountsContinue
    <3> QED BY <2>1, <3>2, <3>3
  <2> QED BY <2>2, <2>3
<1>4. n \in S
  <2> HIDE DEF S
  <2>1. 0 .. n \subseteq S
    BY <1>1, <1>2, <1>3, Induction
  <2> QED BY <1>1, <2>1
<1>5. FoundBy(v, n) <=> RunOf(v, 4, 1) \/ RunOf(v, 4, -1)
  BY <1>1, RunsEnd DEF FoundBy
<1> QED BY <1>4, <1>5 DEF Telling

\* The rules against sequences and repetitions find the runs of their messages.
LEMMA RunsAreFound ==
  ASSUME NEW v \in Seq(Nat)
  PROVE  /\ Password3(v) <=> ~RunOf(v, 4, 1) /\ ~RunOf(v, 4, -1)
         /\ Password4(v) <=> ~RunOf(v, 4, 0)
         /\ PwdCheckSeries(v) <=> ~RunOf(v, 3, 1) /\ ~RunOf(v, 3, -1)
         /\ PwdCheckRepeat(v) <=> ~RunOf(v, 3, 0)
<1>1. Password3(v) <=> ~RunOf(v, 4, 1) /\ ~RunOf(v, 4, -1)
  <2>1. PICK c \in [0 .. Len(v) -> Counters] :
           /\ \A i \in 0 .. Len(v) :
                c[i] = IF i <= 1 THEN <<1, 1>> ELSE CountRuns(v, c[i - 1], i)
           /\ Password3(v) <=> 4 \notin {c[Len(v)][1], c[Len(v)][2]}
    BY CountsExist
  <2>2. 4 \in {c[Len(v)][1], c[Len(v)][2]} <=> RunOf(v, 4, 1) \/ RunOf(v, 4, -1)
    BY <2>1, CountsTell
  <2> QED BY <2>1, <2>2
<1>2. ASSUME NEW i \in 1 .. Len(v) - 3, NEW step \in Int
      PROVE  (\A j \in i .. i + 2 : v[j + 1] - v[j] = step)
               <=> v[i + 1] - v[i] = step /\ v[i + 2] - v[i + 1] = step /\ v[i + 3] - v[i + 2] = step
  <2>1. i \in i .. i + 2 /\ i + 1 \in i .. i + 2 /\ i + 2 \in i .. i + 2
    OBVIOUS
  <2>2. (i + 1) + 1 = i + 2 /\ (i + 2) + 1 = i + 3
    OBVIOUS
  <2>3. \A j \in i .. i + 2 : j = i \/ j = i + 1 \/ j = i + 2
    OBVIOUS
  <2>4. ASSUME v[i + 1] - v[i] = step, v[i + 2] - v[i + 1] = step, v[i + 3] - v[i + 2] = step,
               NEW j \in i .. i + 2
        PROVE  v[j + 1] - v[j] = step
    BY <2>2, <2>3, <2>4
  <2>5. ASSUME \A j \in i .. i + 2 : v[j + 1] - v[j] = step
        PROVE  v[i + 1] - v[i] = step /\ v[i + 2] - v[i + 1] = step /\ v[i + 3] - v[i + 2] = step
    <3>1. v[(i + 1) + 1] - v[i + 1] = step /\ v[(i + 2) + 1] - v[i + 2] = step /\ v[i + 1] - v[i] = step
      BY <2>1, <2>5
    <3> QED BY <2>2, <3>1
  <2> QED BY <2>4, <2>5
<1>3. ASSUME NEW i \in 1 .. Len(v) - 2, NEW step \in Int
      PROVE  (\A j \in i .. i + 1 : v[j + 1] - v[j] = step)
               <=> v[i + 1] - v[i] = step /\ v[i + 2] - v[i + 1] = step
  <2>1. i \in i .. i + 1 /\ i + 1 \in i .. i + 1 /\ (i + 1) + 1 = i + 2
    OBVIOUS
  <2>2. \A j \in i .. i + 1 : j = i \/ j = i + 1
    OBVIOUS
  <2>3. ASSUME v[i + 1] - v[i] = step, v[i + 2] - v[i + 1] = step, NEW j \in i .. i + 1
        PROVE  v[j + 1] - v[j] = step
    BY <2>1, <2>2, <2>3
  <2>4. ASSUME \A j \in i .. i + 1 : v[j + 1] - v[j] = step
        PROVE  v[i + 1] - v[i] = step /\ v[i + 2] - v[i + 1] = step
    <3>1. v[(i + 1) + 1] - v[i + 1] = step /\ v[i + 1] - v[i] = step
      BY <2>1, <2>4
    <3> QED BY <2>1, <3>1
  <2> QED BY <2>3, <2>4
<1>4. /\ Len(v) \in Nat /\ Len(v) - 4 + 1 = Len(v) - 3 /\ Len(v) - 3 + 1 = Len(v) - 2
      /\ \A i \in Int : i + 4 - 2 = i + 2 /\ i + 3 - 2 = i + 1
  OBVIOUS
<1>5. \A k \in 1 .. Len(v) : v[k] \in Nat
  OBVIOUS
<1>6. ASSUME NEW step \in Int
      PROVE  RunOf(v, 4, step) <=> \E i \in 1 .. Len(v) - 3 :
               v[i + 1] - v[i] = step /\ v[i + 2] - v[i + 1] = step /\ v[i + 3] - v[i + 2] = step
  <2>1. \A i \in 1 .. Len(v) - 3 : i + 4 - 2 = i + 2
    BY <1>4
  <2>2. RunOf(v, 4, step) <=> \E i \in 1 .. Len(v) - 3 : \A j \in i .. i + 4 - 2 : v[j + 1] - v[j] = step
    BY <1>4 DEF RunOf
  <2>3. RunOf(v, 4, step) <=> \E i \in 1 .. Len(v) - 3 : \A j \in i .. i + 2 : v[j + 1] - v[j] = step
    BY <2>1, <2>2
  <2> QED BY <1>2, <2>3
<1>7. ASSUME NEW step \in Int
      PROVE  RunOf(v, 3, step) <=> \E i \in 1 .. Len(v) - 2 :
               v[i + 1] - v[i] = step /\ v[i + 2] - v[i + 1] = step
  <2>1. \A i \in 1 .. Len(v) - 2 : i + 3 - 2 = i + 1
    BY <1>4
  <2>2. RunOf(v, 3, step) <=> \E i \in 1 .. Len(v) - 2 : \A j \in i .. i + 3 - 2 : v[j + 1] - v[j] = step
    BY <1>4 DEF RunOf
  <2>3. RunOf(v, 3, step) <=> \E i \in 1 .. Len(v) - 2 : \A j \in i .. i + 1 : v[j + 1] - v[j] = step
    BY <2>1, <2>2
  <2> QED BY <1>3, <2>3
<1>8. ASSUME NEW i \in 1 .. Len(v) - 2
      PROVE  v[i] \in Nat /\ v[i + 1] \in Nat /\ v[i + 2] \in Nat
  <2>1. i \in 1 .. Len(v) /\ i + 1 \in 1 .. Len(v) /\ i + 2 \in 1 .. Len(v)
    BY <1>4
  <2> QED BY <1>5, <2>1
<1>9. Password4(v) <=> ~RunOf(v, 4, 0)
  <2>1. ASSUME NEW i \in 1 .. Len(v) - 3
        PROVE  v[i] = v[i + 1] /\ v[i] = v[i + 2] /\ v[i] = v[i + 3]
                 <=> v[i + 1] - v[i] = 0 /\ v[i + 2] - v[i + 1] = 0 /\ v[i + 3] - v[i + 2] = 0
    <3>1. i \in 1 .. Len(v) - 2 /\ i + 3 \in 1 .. Len(v)
      BY <1>4
    <3>2. v[i] \in Nat /\ v[i + 1] \in Nat /\ v[i + 2] \in Nat /\ v[i + 3] \in Nat
      BY <1>5, <1>8, <3>1
    <3> QED BY <3>2
  <2> QED BY <1>6, <2>1 DEF Password4
<1>10. PwdCheckSeries(v) <=> ~RunOf(v, 3, 1) /\ ~RunOf(v, 3, -1)
  <2>1. ASSUME NEW i \in 1 .. Len(v) - 2
        PROVE  v[i] - v[i + 1] = 1 /\ v[i + 1] - v[i + 2] = 1
                 <=> v[i + 1] - v[i] = -1 /\ v[i + 2] - v[i + 1] = -1
    <3> DEFINE a == v[i]   b == v[i + 1]   e == v[i + 2]
    <3>1. a \in Nat /\ b \in Nat /\ e \in Nat
      BY <1>8
    <3> HIDE DEF a, b, e
    <3>2. (a - b = 1 <=> b - a = -1) /\ (b - e = 1 <=> e - b = -1)
      BY <3>1
    <3> QED BY <3>2 DEF a, b, e
  <2> QED BY <1>7, <2>1 DEF PwdCheckSeries
<1>11. PwdCheckRepeat(v) <=> ~RunOf(v, 3, 0)
  <2>1. ASSUME NEW i \in 1 .. Len(v) - 2
        PROVE  v[i] = v[i + 1] /\ v[i] = v[i + 2]
                 <=> v[i + 1] - v[i] = 0 /\ v[i + 2] - v[i + 1] = 0
    BY <1>8
  <2> QED BY <1>7, <2>1 DEF PwdCheckRepeat
<1> QED BY <1>1, <1>9, <1>10, <1>11

LEMMA Counted3 ==
  ASSUME NEW a, NEW b, NEW c, a # b, a # c, b # c
  PROVE  IsFiniteSet({a, b, c}) /\ Cardinality({a, b, c}) = 3
<1>1. IsFiniteSet({}) /\ Cardinality({}) = 0
  BY FS_EmptySet
<1>2. IsFiniteSet({a}) /\ Cardinality({a}) = 1
  BY FS_Singleton
<1>3. IsFiniteSet({a, b}) /\ Cardinality({a, b}) = 2
  <2>1. {a} \cup {b} = {a, b} /\ b \notin {a}
    OBVIOUS
  <2> QED BY <1>2, <2>1, FS_AddElement
<1>4. {a, b} \cup {c} = {a, b, c} /\ c \notin {a, b}
  OBVIOUS
<1> QED BY <1>3, <1>4, FS_AddElement

\* The rules for combinations ask for a character of each of their classes.
LEMMA CombinationsAsk ==
  ASSUME NEW v
  PROVE  /\ PwdCheckComb3(v) <=> (v = <<>> \/ (Has(v, Letters) /\ Has(v, Digits) /\ Has(v, Counted)))
         /\ PwdCheckComb4(v) => (v = <<>> \/ (/\ Has(v, Uppers) /\ Has(v, Lowers)
                                              /\ Has(v, Digits) /\ Has(v, Counted)))
<1>1. /\ 97 \in Letters /\ 97 \in Lowers /\ 65 \in Letters /\ 65 \in Uppers /\ 48 \in Digits /\ 33 \in Counted
      /\ 97 \notin Uppers /\ 97 \notin Digits /\ 97 \notin Counted
      /\ 65 \notin Lowers /\ 65 \notin Digits /\ 65 \notin Counted
      /\ 48 \notin Letters /\ 48 \notin Uppers /\ 48 \notin Lowers /\ 48 \notin Counted
  BY DEF Letters, Uppers, Lowers, Digits, Counted
<1>2. /\ Letters # Digits /\ Letters # Counted /\ Digits # Counted
      /\ Uppers # Lowers /\ Uppers # Digits /\ Uppers # Counted /\ Lowers # Digits /\ Lowers # Counted
  BY <1>1
<1>3. Kinds(v, {Letters, Digits, Counted}) >= 3
        <=> Has(v, Letters) /\ Has(v, Digits) /\ Has(v, Counted)
  <2> DEFINE T == {Letters, Digits, Counted}
             H == {c \in T : Has(v, c)}
  <2>1. IsFiniteSet(T) /\ Cardinality(T) = 3
    BY <1>2, Counted3
  <2>2. H \subseteq T /\ Kinds(v, T) = Cardinality(H)
    BY DEF Kinds
  <2>3. H = T <=> Has(v, Letters) /\ Has(v, Digits) /\ Has(v, Counted)
    OBVIOUS
  <2> HIDE DEF T, H
  <2>4. IsFiniteSet(H) /\ Cardinality(H) <= 3 /\ (Cardinality(H) = 3 => H = T)
    BY <2>1, <2>2, FS_Subset
  <2>5. Cardinality(H) \in Nat
    BY <2>4, FS_CardinalityType
  <2>6. Kinds(v, T) >= 3 <=> H = T
    BY <2>1, <2>2, <2>4, <2>5
  <2> QED BY <2>3, <2>6 DEF T
<1>4. ASSUME NEW c \in {Uppers, Lowers, Digits, Counted}, ~Has(v, c)
      PROVE  ~(Kinds(v, {Uppers, Lowers, Digits, Counted}) >= 4)
  <2> DEFINE T == {Uppers, Lowers, Digits, Counted}
             H == {k \in T : Has(v, k)}
  <2>1. PICK R \in SUBSET T : H \subseteq R /\ IsFiniteSet(R) /\ Cardinality(R) = 3
    <3>1. /\ IsFiniteSet({Uppers, Lowers, Digits}) /\ Cardinality({Uppers, Lowers, Digits}) = 3
          /\ IsFiniteSet({Uppers, Lowers, Counted}) /\ Cardinality({Uppers, Lowers, Counted}) = 3
          /\ IsFiniteSet({Uppers, Digits, Counted}) /\ Cardinality({Uppers, Digits, Counted}) = 3
          /\ IsFiniteSet({Lowers, Digits, Counted}) /\ Cardinality({Lowers, Digits, Counted}) = 3
      BY <1>2, Counted3
    <3>2. CASE c = Uppers
      <4>1. H \subseteq {Lowers, Digits, Counted}
        BY <1>4, <3>2
      <4> QED BY <3>1, <4>1
    <3>3. CASE c = Lowers
      <4>1. H \subseteq {Uppers, Digits, Counted}
        BY <1>4, <3>3
      <4> QED BY <3>1, <4>1
    <3>4. CASE c = Digits
      <4>1. H \subseteq {Uppers, Lowers, Counted}
        BY <1>4, <3>4
      <4> QED BY <3>1, <4>1
    <3>5. CASE c = Counted
      <4>1. H \subseteq {Uppers, Lowers, Digits}
        BY <1>4, <3>5
      <4> QED BY <3>1, <4>1
    <3> QED BY <3>2, <3>3, <3>4, <3>5
  <2>2. Kinds(v, T) = Cardinality(H)
    BY DEF Kinds
  <2> HIDE DEF T, H
  <2>3. IsFiniteSet(H) /\ Cardinality(H) <= 3
    BY <2>1, FS_Subset
  <2>4. Cardinality(H) \in Nat
    BY <2>3, FS_CardinalityType
  <2> QED BY <2>2, <2>3, <2>4 DEF T
<1> QED BY <1>3, <1>4 DEF PwdCheckComb3, PwdCheckComb4

LEMMA StricterRulesHold ==
  ASSUME typed \in Seq(Nat)
  PROVE  StricterRules
<1>1. ASSUME NEW step \in {-1, 0, 1}, RunOf(typed, 4, step) PROVE RunOf(typed, 3, step)
  <2>1. PICK i \in 1 .. Len(typed) - 4 + 1 : \A j \in i .. i + 4 - 2 : typed[j + 1] - typed[j] = step
    BY <1>1 DEF RunOf
  <2>2. i \in 1 .. Len(typed) - 3 + 1 /\ \A j \in i .. i + 3 - 2 : j \in i .. i + 4 - 2
    OBVIOUS
  <2> QED BY <2>1, <2>2 DEF RunOf
<1>2. /\ PwdCheckSeries(typed) => Password3(typed)
      /\ PwdCheckRepeat(typed) => Password4(typed)
  BY <1>1, RunsAreFound
<1>3. PwdCheckComb4(typed) => PwdCheckComb3(typed)
  <2>1. Has(typed, Uppers) => Has(typed, Letters)
    BY DEF Has, Letters
  <2> QED BY <2>1, CombinationsAsk
<1>4. PwdCheckComb3(typed) /\ Password2(typed) => typed = <<>>
  <2>1. Counted \subseteq Specials
    BY DEF Counted, Specials
  <2>2. Has(typed, Counted) => Has(typed, Specials)
    BY <2>1 DEF Has
  <2> QED BY <2>2, CombinationsAsk DEF Password2
<1>5. Digits \cap Specials = {} /\ Letters \cap Specials = {} /\ Digits \cap Letters = {}
  BY DEF Digits, Letters, Uppers, Lowers, Specials
<1>6. IsInteger(typed) \/ English(typed) => Password2(typed)
  BY <1>5 DEF IsInteger, English, Password2, Only, Has
<1>7. IsInteger(typed) /\ English(typed) => typed = <<>>
  <2> SUFFICES ASSUME IsInteger(typed), English(typed), typed # <<>> PROVE FALSE
    OBVIOUS
  <2>1. 1 \in DOMAIN typed
    OBVIOUS
  <2>2. typed[1] \in Codes(typed)
    BY <2>1 DEF Codes
  <2> QED BY <1>5, <2>2 DEF IsInteger, English, Only
<1> QED BY <1>2, <1>3, <1>4, <1>6, <1>7 DEF StricterRules

\* Whether each of characters i to j may be part of an address beside its @.
Free(v, i, j) == i <= j /\ \A k \in i .. j : v[k] \notin Blanks \cup {At}

LEMMA EmailParts ==
  ASSUME NEW v
  PROVE  Email(v) <=> v = <<>> \/ \E a, d \in DOMAIN v :
           /\ v[a] = At /\ v[d] = Dot
           /\ Free(v, 1, a - 1) /\ Free(v, a + 1, d - 1) /\ Free(v, d + 1, Len(v))
BY DEF Email, Free

LEMMA AddressShapeHolds ==
  ASSUME typed \in Seq(Nat)
  PROVE  AddressShape
<1> DEFINE v == typed
           n == Len(v)
           ats == {i \in DOMAIN v : v[i] = At}
<1> SUFFICES ASSUME v # <<>>
             PROVE  Email(v) <=> /\ Cardinality(ats) = 1 /\ ~Has(v, Blanks) /\ 1 \notin ats
                                 /\ \E a \in ats : \E d \in a + 2 .. Len(v) - 1 : v[d] = Dot
  BY DEF AddressShape
<1>1. n \in Nat /\ DOMAIN v = 1 .. n /\ At \notin Blanks /\ Dot \notin Blanks /\ At # Dot
  BY DEF At, Dot, Blanks
<1>2. ASSUME Email(v)
      PROVE  /\ Cardinality(ats) = 1 /\ ~Has(v, Blanks) /\ 1 \notin ats
             /\ \E a \in ats : \E d \in a + 2 .. Len(v) - 1 : v[d] = Dot
  <2>1. PICK a \in 1 .. n, d \in 1 .. n :
               /\ v[a] = At /\ v[d] = Dot
               /\ Free(v, 1, a - 1) /\ Free(v, a + 1, d - 1) /\ Free(v, d + 1, n)
    BY <1>1, <1>2, EmailParts
  <2>2. a >= 2 /\ d >= a + 2 /\ d <= n - 1
    BY <1>1, <2>1 DEF Free
  <2>3. ASSUME NEW i \in 1 .. n, i # a, i # d PROVE v[i] \notin Blanks \cup {At}
    <3>1. i \in 1 .. a - 1 \/ i \in a + 1 .. d - 1 \/ i \in d + 1 .. n
      BY <1>1, <2>2, <2>3
    <3> QED BY <2>1, <3>1 DEF Free
  <2>4. ats = {a}
    BY <1>1, <2>1, <2>3
  <2>5. ~Has(v, Blanks)
    BY <1>1, <2>1, <2>3 DEF Has, Codes
  <2>6. Cardinality(ats) = 1
    BY <2>4, FS_Singleton
  <2>7. d \in a + 2 .. n - 1
    BY <1>1, <2>2
  <2>8. a \in ats /\ 1 \notin ats
    BY <1>1, <2>2, <2>4
  <2>9. \E a_1 \in ats : \E d_1 \in a_1 + 2 .. n - 1 : v[d_1] = Dot
    BY <2>1, <2>7, <2>8
  <2> HIDE DEF ats
  <2> QED BY <2>5, <2>6, <2>8, <2>9
<1>3. ASSUME Cardinality(ats) = 1, ~Has(v, Blanks), 1 \notin ats,
             NEW a \in ats, NEW d \in a + 2 .. n - 1, v[d] = Dot
      PROVE  Email(v)
  <2>1. IsFiniteSet(ats)
    <3>1. IsFiniteSet(1 .. n)
      BY <1>1, FS_Interval
    <3> QED BY <1>1, <3>1, FS_Subset
  <2>2. ats = {a}
    <3>1. \E x : ats = {x}
      BY <1>3, <2>1, FS_Singleton
    <3> QED BY <3>1
  <2>3. a \in 1 .. n /\ v[a] = At /\ a # 1 /\ d \in 1 .. n
    BY <1>1, <1>3
  <2>4. ASSUME NEW i \in 1 .. n, i # a PROVE v[i] \notin Blanks \cup {At}
    <3>1. v[i] \notin Blanks
      BY <1>1, <1>3 DEF Has, Codes
    <3>2. v[i] # At
      BY <1>1, <2>2, <2>4
    <3> QED BY <3>1, <3>2
  <2>5. Free(v, 1, a - 1) /\ Free(v, a + 1, d - 1) /\ Free(v, d + 1, n)
    <3>1. ASSUME NEW i \in Int, NEW j \in Int, i <= j, 1 <= i, j <= n, ~(i <= a /\ a <= j)
          PROVE  Free(v, i, j)
      <4>1. \A k \in i .. j : k \in 1 .. n /\ k # a
        BY <1>1, <2>3, <3>1
      <4> QED BY <2>4, <3>1, <4>1 DEF Free
    <3> HIDE DEF n
    <3>2. a \in Int /\ d \in Int /\ 2 <= a /\ a + 2 <= d /\ d <= n - 1
      BY <1>1, <1>3, <2>3
    <3>3. /\ 1 <= a - 1 /\ a - 1 <= n /\ ~(1 <= a /\ a <= a - 1)
          /\ a + 1 <= d - 1 /\ 1 <= a + 1 /\ d - 1 <= n /\ ~(a + 1 <= a /\ a <= d - 1)
          /\ d + 1 <= n /\ 1 <= d + 1 /\ ~(d + 1 <= a /\ a <= n)
      BY <1>1, <3>2
    <3>4. a - 1 \in Int /\ a + 1 \in Int /\ d - 1 \in Int /\ d + 1 \in Int /\ 1 <= 1 /\ n <= n
      BY <1>1, <3>2
    <3>5. Free(v, 1, a - 1)
      BY <3>1, <3>3, <3>4
    <3>6. Free(v, a + 1, d - 1)
      BY <3>1, <3>3, <3>4
    <3>7. Free(v, d + 1, n)
      BY <1>1, <3>1, <3>3, <3>4
    <3> QED BY <3>5, <3>6, <3>7
  <2> QED BY <1>1, <1>3, <2>3, <2>5, EmailParts
<1> HIDE DEF ats
<1> QED BY <1>2, <1>3

-----------------------------------------------------------------------------
(* The validation of a form, by any table of rules *)

\* What validateForm has found after some fields of the table.
Fails(frm, row) == row.field \in DOMAIN frm /\ Broken(frm, row) # {}
Messages(frm, table) ==
  {Message(frm, table[k]) : k \in {j \in 1 .. Len(table) : Fails(frm, table[j])}}
Outcomes(frm, table) == [errors : Seq(Messages(frm, table)), first : SUBSET DOMAIN frm]
Judged(frm, table, n, out) ==
  /\ out \in Outcomes(frm, table)
  /\ out.errors = <<>> <=> \A k \in 1 .. n : ~Fails(frm, table[k])
  /\ out.errors = <<>> => out.first = {}
  /\ out.errors # <<>> => out.first = {out.errors[1][1]}

LEMMA CheckFieldType ==
  ASSUME NEW frm, NEW table, NEW i \in 1 .. Len(table), NEW out \in Outcomes(frm, table)
  PROVE  CheckField(frm, out, table[i]) \in Outcomes(frm, table)
<1>1. CASE ~Fails(frm, table[i])
  BY <1>1 DEF Fails, CheckField
<1>2. CASE Fails(frm, table[i])
  <2> DEFINE m == Message(frm, table[i])
             x == table[i].field
  <2>1. m \in Messages(frm, table)
    BY <1>2 DEF Messages
  <2>2. CheckField(frm, out, table[i]) = [errors |-> Append(out.errors, m),
                                          first |-> IF out.first = {} THEN {x} ELSE out.first]
    BY <1>2 DEF Fails, CheckField
  <2>3. x \in DOMAIN frm
    BY <1>2 DEF Fails
  <2> HIDE DEF m, x
  <2> QED BY <2>1, <2>2, <2>3 DEF Outcomes
<1> QED BY <1>1, <1>2

LEMMA CheckFieldJudges ==
  ASSUME NEW frm, NEW table, NEW n \in Nat, NEW out, Judged(frm, table, n, out),
         n + 1 \in 1 .. Len(table)
  PROVE  Judged(frm, table, n + 1, CheckField(frm, out, table[n + 1]))
<1> DEFINE row == table[n + 1]
           next == CheckField(frm, out, row)
<1>1. out \in Outcomes(frm, table)
  BY DEF Judged
<1>2. next \in Outcomes(frm, table)
  BY <1>1, CheckFieldType
<1>3. \A k \in 1 .. n + 1 : k \in 1 .. n \/ k = n + 1
  OBVIOUS
<1>4. n + 1 \in 1 .. n + 1 /\ \A k \in 1 .. n : k \in 1 .. n + 1
  OBVIOUS
<1>5. CASE ~Fails(frm, row)
  <2>1. next = out
    BY <1>5 DEF Fails, CheckField
  <2>2. (\A k \in 1 .. n + 1 : ~Fails(frm, table[k])) <=> \A k \in 1 .. n : ~Fails(frm, table[k])
    BY <1>3, <1>4, <1>5
  <2> HIDE DEF next
  <2>3. Judged(frm, table, n + 1, next)
    BY <2>1, <2>2 DEF Judged
  <2> QED BY <2>3 DEF next
<1>6. CASE Fails(frm, row)
  <2> DEFINE m == Message(frm, row)
  <2>1. /\ next = [errors |-> Append(out.errors, m),
                   first |-> IF out.first = {} THEN {row.field} ELSE out.first]
        /\ m \in Messages(frm, table) /\ m[1] = row.field
    BY <1>6 DEF Fails, CheckField, Message, Messages
  <2>2. ~\A k \in 1 .. n + 1 : ~Fails(frm, table[k])
    BY <1>4, <1>6
  <2> HIDE DEF m, next
  <2>3. out.errors \in Seq(Messages(frm, table)) /\ next.errors = Append(out.errors, m)
    BY <1>1, <2>1 DEF Outcomes
  <2>4. next.errors # <<>>
    BY <2>1, <2>3
  <2>5. CASE out.errors = <<>>
    <3>1. next.errors = <<m>> /\ next.first = {row.field}
      BY <2>1, <2>3, <2>5 DEF Judged
    <3>2. next.first = {next.errors[1][1]}
      BY <2>1, <3>1
    <3>3. Judged(frm, table, n + 1, next)
      BY <1>2, <2>2, <2>4, <3>2 DEF Judged
    <3> QED BY <3>3 DEF next
  <2>6. CASE out.errors # <<>>
    <3>1. next.errors[1] = out.errors[1]
      BY <2>1, <2>3, <2>6
    <3>2. next.first = out.first /\ out.first = {out.errors[1][1]}
      BY <2>1, <2>6 DEF Judged
    <3>3. Judged(frm, table, n + 1, next)
      BY <1>2, <2>2, <2>4, <3>1, <3>2 DEF Judged
    <3> QED BY <3>3 DEF next
  <2> QED BY <2>5, <2>6
<1> QED BY <1>5, <1>6

\* validateForm judges every field of the table.
LEMMA FormsAreJudged ==
  ASSUME NEW frm, NEW table, IsTable(table)
  PROVE  Judged(frm, table, Len(table), ValidateForm(frm, table))
<1> DEFINE n == Len(table)
           V == Outcomes(frm, table)
           b == [errors |-> <<>>, first |-> {}]
           F == [i \in 1 .. n |-> [s \in V |-> CheckField(frm, s, table[i])]]
           E(f) == [i \in 0 .. n |-> IF i = 0 THEN b ELSE CheckField(frm, f[i - 1], table[i])]
           c == CHOOSE f : f = E(f)
<1>1. n \in Nat /\ b \in V
  <2>1. <<>> \in Seq(Messages(frm, table))
    OBVIOUS
  <2> QED BY <2>1 DEF IsTable, Outcomes
<1>2. ASSUME NEW i \in 1 .. n, NEW s \in V PROVE CheckField(frm, s, table[i]) \in V
  BY <1>1, CheckFieldType
<1>3. F \in StepsOn(n, V)
  BY <1>2 DEF StepsOn
<1>4. PICK f : ByRecursion(f, n, V, b, F)
  <2> HIDE DEF n, V, b, F
  <2> QED BY <1>1, <1>3, Recursion
<1>5. f \in [0 .. n -> V] /\ f[0] = b
  BY <1>4 DEF ByRecursion
<1>6. ASSUME NEW i \in 1 .. n PROVE f[i] = CheckField(frm, f[i - 1], table[i])
  <2>1. i - 1 \in 0 .. n
    BY <1>1
  <2>2. f[i] = F[i][f[i - 1]] /\ f[i - 1] \in V
    BY <1>4, <1>5, <2>1 DEF ByRecursion
  <2> HIDE DEF V
  <2> QED BY <2>2
<1>7. f = E(f)
  <2>1. ASSUME NEW i \in 0 .. n PROVE f[i] = IF i = 0 THEN b ELSE CheckField(frm, f[i - 1], table[i])
    <3>1. CASE i = 0
      BY <1>5, <3>1
    <3>2. CASE i # 0
      <4>1. i \in 1 .. n
        BY <1>1, <3>2
      <4> QED BY <1>6, <3>2, <4>1
    <3> QED BY <3>1, <3>2
  <2> HIDE DEF b, V
  <2> QED BY <1>5, <2>1
<1>8. c = E(c)
  BY <1>7
<1>9. ValidateForm(frm, table) = c[n]
  BY DEF ValidateForm
<1> HIDE DEF c
<1>10. \A i \in 0 .. n : c[i] = IF i = 0 THEN b ELSE CheckField(frm, c[i - 1], table[i])
  BY <1>8
<1> DEFINE S == {i \in 0 .. n : Judged(frm, table, i, c[i])}
<1>11. 0 \in S
  <2>1. c[0] = b /\ 0 \in 0 .. n
    BY <1>1, <1>10
  <2>2. Judged(frm, table, 0, b)
    BY <1>1 DEF Judged
  <2> HIDE DEF b, n
  <2> QED BY <2>1, <2>2
<1>12. ASSUME NEW k \in 0 .. n - 1, k \in S PROVE k + 1 \in S
  <2>1. k \in Nat /\ k + 1 \in 1 .. n /\ k + 1 \in 0 .. n /\ (k + 1) - 1 = k /\ k + 1 # 0
    BY <1>1
  <2>2. Judged(frm, table, k, c[k]) /\ c[k + 1] = CheckField(frm, c[k], table[k + 1])
    BY <1>10, <1>12, <2>1
  <2>3. Judged(frm, table, k + 1, c[k + 1])
    BY <1>1, <2>1, <2>2, CheckFieldJudges
  <2> QED BY <2>1, <2>3
<1>13. n \in S
  <2> HIDE DEF S, n
  <2>1. 0 .. n \subseteq S
    BY <1>1, <1>11, <1>12, Induction
  <2> QED BY <1>1, <2>1
<1> QED BY <1>9, <1>13

\* A form of the board that passes validateSampleVO has its three texts.
TextFields == [kind : {"text"}, entered : Seq(Nat)]

LEMMA SampleTableJudges ==
  ASSUME NEW frm \in [Fields -> TextFields]
  PROVE  LET out == ValidateForm(frm, SampleTable)
         IN  /\ out.errors = <<>> => \A x \in Fields : Required(frm[x].entered)
             /\ out.errors # <<>> => \E x \in Fields : x \in out.first
<1> DEFINE out == ValidateForm(frm, SampleTable)
<1>1. /\ Len(SampleTable) = 3 /\ DOMAIN SampleTable = 1 .. 3
      /\ SampleTable[1] = [field |-> "name",        rules |-> <<Rule("required")>>]
      /\ SampleTable[2] = [field |-> "description", rules |-> <<Rule("required")>>]
      /\ SampleTable[3] = [field |-> "regUser",     rules |-> <<Rule("required")>>]
  BY DEF SampleTable
<1>2. \A k \in 1 .. 3 : /\ SampleTable[k].rules = <<Rule("required")>>
                        /\ DOMAIN SampleTable[k].rules = {1}
                        /\ SampleTable[k].rules[1].name = "required"
  <2>1. \A k \in 1 .. 3 : k = 1 \/ k = 2 \/ k = 3
    OBVIOUS
  <2>2. DOMAIN <<Rule("required")>> = {1} /\ <<Rule("required")>>[1].name = "required"
    BY DEF Rule
  <2>3. \A k \in 1 .. 3 : SampleTable[k].rules = <<Rule("required")>>
    BY <1>1, <2>1
  <2> QED BY <2>2, <2>3
<1>3. IsTable(SampleTable)
  BY <1>1 DEF IsTable
<1>4. Judged(frm, SampleTable, 3, out)
  BY <1>1, <1>3, FormsAreJudged
<1> HIDE DEF out
<1>5. ASSUME out.errors = <<>>, NEW x \in Fields PROVE Required(frm[x].entered)
  <2>1. PICK k \in 1 .. 3 : SampleTable[k].field = x
    BY <1>1 DEF Fields
  <2>2. ~Fails(frm, SampleTable[k])
    BY <1>4, <1>5 DEF Judged
  <2>3. x \in DOMAIN frm /\ Broken(frm, SampleTable[k]) = {}
    BY <2>1, <2>2 DEF Fails
  <2>4. Holds(SampleTable[k].rules[1], GetFieldValue(frm[x]))
    BY <1>2, <2>1, <2>3 DEF Broken
  <2>5. Required(GetFieldValue(frm[x]))
    BY <1>2, <2>4 DEF Holds
  <2>6. GetFieldValue(frm[x]) = frm[x].entered
    BY DEF GetFieldValue, TextFields
  <2> QED BY <2>5, <2>6
<1>6. ASSUME out.errors # <<>> PROVE \E x \in Fields : x \in out.first
  BY <1>4, <1>6 DEF Judged, Outcomes
<1> QED BY <1>5, <1>6 DEF out

-----------------------------------------------------------------------------
(* The form of a row *)

Submitters == {"sampleAdd", "sampleUpdate", "sampleDelete", "sampleList"}
AllButtons == Submitters \cup {"sampleReset"}
Submissions == [do : Submitters, complete : BOOLEAN]
Forms == [new : BOOLEAN, form : [Fields -> TextFields], default : [Fields -> TextFields],
          focus : Fields \cup AllButtons \cup {"none"},
          asking : AllButtons \cup {"none"}, next : AllButtons \cup {"none"},
          planned : SUBSET Submissions, sent : Seq(Submissions),
          keys : Nat, clicks : Nat, yes : Nat, asked : Nat, refused : BOOLEAN]

\* A form that its buttons can have led to.
FormTyped(f) ==
  /\ f \in Forms
  /\ f.asking \in Saves(f) \cup {"none"} /\ f.next \in Buttons(f) \cup {"none"}
  /\ \A x \in ReadOnly(f) : f.form[x] = f.default[x]
  /\ \A r, s \in f.planned : r = s
AllComplete(f) ==
  \A r \in {f.sent[k] : k \in DOMAIN f.sent} \cup f.planned :
    r.do \in {"sampleAdd", "sampleUpdate"} => r.complete
\* A refused form has the focus on a field, and no dialog.
Refusal(f) == f.refused => f.focus \in Fields /\ f.asking = "none"

SentOf(f)    == {k \in DOMAIN f.sent : IsSave(f.sent[k])}
PlannedOf(f) == {r \in f.planned : IsSave(r)}
CountOf(f)   == Cardinality(SentOf(f)) + Cardinality(PlannedOf(f))
One(p)       == IF p THEN 1 ELSE 0

\* What was saved, asked and is still to be asked by the key that Enter has
\* pressed is covered by answers and gestures, with room for more of both.
Within(f, saves, questions) ==
  /\ CountOf(f) + saves <= f.yes
  /\ CountOf(f) + saves + questions + One(f.asking # "none") + One(f.next # "none")
       <= f.clicks + 2 * f.keys
  /\ f.asked + questions + One(f.next # "none") <= IF f.keys = 0 THEN 1 ELSE 2
  /\ f.next # "none" => f.keys > 0

GoodForm(f) == FormTyped(f) /\ AllComplete(f) /\ Refusal(f) /\ Within(f, 0, 0)

LEMMA CountOfType ==
  ASSUME NEW f, FormTyped(f)
  PROVE  /\ IsFiniteSet(SentOf(f)) /\ Cardinality(SentOf(f)) \in Nat
         /\ Cardinality(PlannedOf(f)) \in Nat /\ CountOf(f) \in Nat
         /\ SentOf(f) \subseteq 1 .. Len(f.sent)
<1>1. f.sent \in Seq(Submissions) /\ \A r, s \in f.planned : r = s
  BY DEF FormTyped, Forms
<1>2. Len(f.sent) \in Nat /\ SentOf(f) \subseteq 1 .. Len(f.sent)
  BY <1>1 DEF SentOf
<1>3. IsFiniteSet(1 .. Len(f.sent))
  BY <1>2, FS_Interval
<1>4. IsFiniteSet(SentOf(f))
  BY <1>2, <1>3, FS_Subset
<1>5. Cardinality(SentOf(f)) \in Nat
  BY <1>4, FS_CardinalityType
<1>6. PlannedOf(f) = {} \/ \E r : PlannedOf(f) = {r}
  BY <1>1 DEF PlannedOf
<1>7. Cardinality(PlannedOf(f)) \in Nat
  <2>1. CASE PlannedOf(f) = {}
    BY <2>1, FS_EmptySet
  <2>2. CASE \E r : PlannedOf(f) = {r}
    <3>1. PICK r : PlannedOf(f) = {r}
      BY <2>2
    <3>2. Cardinality(PlannedOf(f)) = 1
      BY <3>1, FS_Singleton
    <3> QED BY <3>2
  <2> QED BY <1>6, <2>1, <2>2
<1> QED BY <1>2, <1>4, <1>5, <1>7 DEF CountOf

\* submit() plans a request instead of one that is planned.
LEMMA SubmitKeeps ==
  ASSUME NEW f, FormTyped(f), AllComplete(f), Refusal(f), NEW do \in Submitters,
         do \in {"sampleAdd", "sampleUpdate"} => \A x \in Fields : Required(f.form[x].entered),
         Within(f, 1, 0) \/ (Within(f, 0, 0) /\ do = "sampleList")
  PROVE  GoodForm(Submit(f, do))
<1> DEFINE r == [do |-> do, complete |-> \A x \in Fields : Required(f.form[x].entered)]
           q == Submit(f, do)
<1>1. f \in Forms /\ f.sent \in Seq(Submissions)
  BY DEF FormTyped, Forms
<1>2. r \in Submissions /\ r.do = do /\ r.complete = \A x \in Fields : Required(f.form[x].entered)
  BY DEF Submissions
<1>3. q = [f EXCEPT !.planned = {r}]
  BY DEF Submit
<1> HIDE DEF r, q
<1>4. /\ q \in Forms /\ q.planned = {r} /\ q.sent = f.sent /\ q.new = f.new /\ q.form = f.form
      /\ q.default = f.default /\ q.focus = f.focus /\ q.asking = f.asking /\ q.next = f.next
      /\ q.keys = f.keys /\ q.clicks = f.clicks /\ q.yes = f.yes /\ q.asked = f.asked
      /\ q.refused = f.refused
  BY <1>1, <1>2, <1>3 DEF Forms
<1>5. FormTyped(q)
  BY <1>4 DEF FormTyped, Saves, Buttons, ReadOnly
<1>6. AllComplete(q)
  BY <1>2, <1>4 DEF AllComplete
<1>7. Refusal(q)
  BY <1>4 DEF Refusal
<1>8. SentOf(q) = SentOf(f)
  BY <1>4 DEF SentOf
<1>9. Cardinality(PlannedOf(q)) <= (IF do = "sampleList" THEN 0 ELSE 1)
  <2>1. CASE do = "sampleList"
    <3>1. PlannedOf(q) = {}
      BY <1>2, <1>4, <2>1 DEF PlannedOf, IsSave
    <3> QED BY <2>1, <3>1, FS_EmptySet
  <2>2. CASE do # "sampleList"
    <3>1. PlannedOf(q) = {r}
      BY <1>2, <1>4, <2>2 DEF PlannedOf, IsSave, Submitters
    <3> QED BY <2>2, <3>1, FS_Singleton
  <2> QED BY <2>1, <2>2
<1>10. /\ Cardinality(SentOf(f)) \in Nat /\ Cardinality(PlannedOf(f)) \in Nat
       /\ Cardinality(PlannedOf(q)) \in Nat
  BY <1>5, CountOfType
<1>11. CountOf(q) \in Nat /\ CountOf(f) \in Nat /\ CountOf(q) <= CountOf(f) + (IF do = "sampleList" THEN 0 ELSE 1)
  BY <1>8, <1>9, <1>10 DEF CountOf
<1>12. /\ f.yes \in Nat /\ f.clicks \in Nat /\ f.keys \in Nat /\ f.asked \in Nat
  BY <1>1 DEF Forms
<1>13. Within(q, 0, 0)
  BY <1>4, <1>11, <1>12 DEF Within, One
<1> QED BY <1>5, <1>6, <1>7, <1>13 DEF GoodForm, q

\* onclick of a button asks, submits or resets.
LEMMA CallKeeps ==
  ASSUME NEW f, FormTyped(f), AllComplete(f), f.refused = FALSE, f.asking = "none",
         Within(f, 0, 1), NEW do \in Buttons(f)
  PROVE  GoodForm(Call(f, do))
<1>1. f \in Forms /\ do \in AllButtons
  BY DEF FormTyped, Buttons, Saves, AllButtons, Submitters
<1>2. CountOf(f) \in Nat /\ f.yes \in Nat /\ f.clicks \in Nat /\ f.keys \in Nat /\ f.asked \in Nat
  BY <1>1, CountOfType DEF Forms
<1>3. CASE do = "sampleList"
  <2>1. Within(f, 0, 0)
    BY <1>2 DEF Within, One
  <2>2. Call(f, do) = Submit(f, do) /\ do \in Submitters
    BY <1>3 DEF Call, Submitters
  <2>3. GoodForm(Submit(f, do))
    BY <1>3, <2>1, <2>2, SubmitKeeps DEF Refusal
  <2> QED BY <2>2, <2>3
<1>4. CASE do = "sampleReset"
  <2> DEFINE q == Call(f, do)
  <2>1. q = [f EXCEPT !.form = f.default]
    BY <1>4 DEF Call
  <2> HIDE DEF q
  <2>2. /\ q \in Forms /\ q.planned = f.planned /\ q.sent = f.sent /\ q.new = f.new /\ q.form = f.default
        /\ q.default = f.default /\ q.focus = f.focus /\ q.asking = f.asking /\ q.next = f.next
        /\ q.keys = f.keys /\ q.clicks = f.clicks /\ q.yes = f.yes /\ q.asked = f.asked
        /\ q.refused = f.refused
    BY <1>1, <2>1 DEF Forms
  <2>3. FormTyped(q)
    BY <2>2 DEF FormTyped, Saves, Buttons, ReadOnly
  <2>4. AllComplete(q) /\ Refusal(q)
    BY <2>2 DEF AllComplete, Refusal
  <2>5. CountOf(q) = CountOf(f)
    BY <2>2 DEF CountOf, SentOf, PlannedOf
  <2>6. Within(q, 0, 0)
    BY <1>2, <2>2, <2>5 DEF Within, One
  <2> QED BY <2>3, <2>4, <2>6 DEF GoodForm, q
<1>5. CASE do \notin {"sampleList", "sampleReset"}
  <2> DEFINE q == Call(f, do)
  <2>1. q = [f EXCEPT !.asking = do, !.asked = f.asked + 1]
    BY <1>5 DEF Call
  <2> HIDE DEF q
  <2>2. /\ q \in Forms /\ q.planned = f.planned /\ q.sent = f.sent /\ q.new = f.new /\ q.form = f.form
        /\ q.default = f.default /\ q.focus = f.focus /\ q.asking = do /\ q.next = f.next
        /\ q.keys = f.keys /\ q.clicks = f.clicks /\ q.yes = f.yes /\ q.asked = f.asked + 1
        /\ q.refused = f.refused
    <3>1. f.asked + 1 \in Nat /\ do \in AllButtons \cup {"none"}
      BY <1>1, <1>2
    <3> QED BY <1>1, <2>1, <3>1 DEF Forms
  <2>3. do \in Saves(f)
    BY <1>5 DEF Buttons
  <2>4. FormTyped(q)
    BY <2>2, <2>3 DEF FormTyped, Saves, Buttons, ReadOnly
  <2>5. AllComplete(q) /\ Refusal(q)
    BY <2>2 DEF AllComplete, Refusal
  <2>6. CountOf(q) = CountOf(f)
    BY <2>2 DEF CountOf, SentOf, PlannedOf
  <2>7. Within(q, 0, 0)
    BY <1>2, <2>2, <2>6 DEF Within, One
  <2> QED BY <2>4, <2>5, <2>7 DEF GoodForm, q
<1> QED BY <1>3, <1>4, <1>5

\* After a yes a valid form is submitted, and the focus goes to the first field
\* of another one.
LEMMA ConfirmedKeeps ==
  ASSUME NEW f, FormTyped(f), AllComplete(f), f.refused = FALSE, f.asking = "none",
         Within(f, 1, 0), NEW do \in Saves(f)
  PROVE  GoodForm(Confirmed(f, do))
<1> DEFINE out == ValidateForm(f.form, SampleTable)
<1>1. f \in Forms /\ do \in Submitters /\ f.form \in [Fields -> TextFields]
  BY DEF FormTyped, Saves, Submitters, Forms
<1>2. /\ out.errors = <<>> => \A x \in Fields : Required(f.form[x].entered)
      /\ out.errors # <<>> => \E x \in Fields : x \in out.first
  BY <1>1, SampleTableJudges
<1> HIDE DEF out
<1>3. CASE do = "sampleDelete" \/ out.errors = <<>>
  <2>1. Confirmed(f, do) = Submit(f, do)
    BY <1>3 DEF Confirmed, out
  <2>2. do \in {"sampleAdd", "sampleUpdate"} => \A x \in Fields : Required(f.form[x].entered)
    BY <1>2, <1>3
  <2>3. GoodForm(Submit(f, do))
    BY <1>1, <2>2, SubmitKeeps DEF Refusal
  <2> QED BY <2>1, <2>3
<1>4. CASE ~(do = "sampleDelete" \/ out.errors = <<>>)
  <2> DEFINE x == CHOOSE y \in Fields : y \in out.first
             q == Confirmed(f, do)
  <2>1. q = [f EXCEPT !.focus = x, !.refused = TRUE]
    BY <1>4 DEF Confirmed, out
  <2>2. x \in Fields
    BY <1>2, <1>4
  <2> HIDE DEF q, x
  <2>3. /\ q \in Forms /\ q.planned = f.planned /\ q.sent = f.sent /\ q.new = f.new /\ q.form = f.form
        /\ q.default = f.default /\ q.focus = x /\ q.asking = f.asking /\ q.next = f.next
        /\ q.keys = f.keys /\ q.clicks = f.clicks /\ q.yes = f.yes /\ q.asked = f.asked
    BY <1>1, <2>1, <2>2 DEF Forms
  <2>4. FormTyped(q)
    BY <2>3 DEF FormTyped, Saves, Buttons, ReadOnly
  <2>5. AllComplete(q) /\ Refusal(q)
    BY <2>2, <2>3 DEF AllComplete, Refusal
  <2>6. CountOf(q) = CountOf(f)
    BY <2>3 DEF CountOf, SentOf, PlannedOf
  <2>7. CountOf(f) \in Nat /\ f.yes \in Nat /\ f.clicks \in Nat /\ f.keys \in Nat /\ f.asked \in Nat
    BY <1>1, CountOfType DEF Forms
  <2>8. Within(q, 0, 0)
    BY <2>3, <2>6, <2>7 DEF Within, One
  <2> QED BY <2>4, <2>5, <2>8 DEF GoodForm, q
<1> QED BY <1>3, <1>4

\* Sending a planned request changes no count.
LEMMA SendKeeps ==
  ASSUME GoodForm(form), Send
  PROVE  GoodForm(form')
<1> DEFINE f == form   q == form'
           r == CHOOSE s \in f.planned : TRUE
           n == Len(f.sent)
<1>1. f \in Forms /\ FormTyped(f) /\ f.planned \in SUBSET Submissions /\ f.sent \in Seq(Submissions)
  BY DEF GoodForm, FormTyped, Forms
<1>2. r \in f.planned /\ r \in Submissions /\ f.planned = {r}
  BY <1>1 DEF Send, FormTyped
<1>3. q = [f EXCEPT !.planned = {}, !.sent = Append(f.sent, r)]
  BY DEF Send
<1> HIDE DEF r
<1>4. Append(f.sent, r) \in Seq(Submissions)
  BY <1>1, <1>2
<1>5. /\ q \in Forms /\ q.planned = {} /\ q.sent = Append(f.sent, r) /\ q.new = f.new /\ q.form = f.form
      /\ q.default = f.default /\ q.focus = f.focus /\ q.asking = f.asking /\ q.next = f.next
      /\ q.keys = f.keys /\ q.clicks = f.clicks /\ q.yes = f.yes /\ q.asked = f.asked
      /\ q.refused = f.refused
  BY <1>1, <1>3, <1>4 DEF Forms
<1>6. FormTyped(q)
  BY <1>1, <1>5 DEF FormTyped, Saves, Buttons, ReadOnly
<1>7. /\ n \in Nat /\ DOMAIN f.sent = 1 .. n /\ DOMAIN q.sent = 1 .. n + 1
      /\ \A k \in 1 .. n : q.sent[k] = f.sent[k]
      /\ q.sent[n + 1] = r
  BY <1>1, <1>5
<1> HIDE DEF n
<1>8. AllComplete(q)
  <2>1. ASSUME NEW s \in {q.sent[k] : k \in DOMAIN q.sent} PROVE s \in {f.sent[k] : k \in DOMAIN f.sent} \cup f.planned
    <3>1. PICK k \in 1 .. n + 1 : s = q.sent[k]
      BY <1>7, <2>1
    <3>2. CASE k = n + 1
      BY <1>2, <1>7, <3>1, <3>2
    <3>3. CASE k # n + 1
      <4>1. k \in 1 .. n
        BY <1>7, <3>3
      <4> QED BY <1>7, <3>1, <4>1
    <3> QED BY <3>2, <3>3
  <2> QED BY <1>5, <2>1 DEF GoodForm, AllComplete
<1>9. Refusal(q)
  BY <1>5 DEF GoodForm, Refusal
<1>10. CountOf(q) = CountOf(f)
  <2>1. /\ IsFiniteSet(SentOf(f)) /\ Cardinality(SentOf(f)) \in Nat /\ SentOf(f) \subseteq 1 .. n
    BY <1>1, CountOfType DEF n
  <2>2. PlannedOf(q) = {} /\ Cardinality(PlannedOf(q)) = 0
    BY <1>5, FS_EmptySet DEF PlannedOf
  <2>3. CASE IsSave(r)
    <3>1. PlannedOf(f) = {r}
      BY <1>2, <2>3 DEF PlannedOf
    <3>2. Cardinality(PlannedOf(f)) = 1
      BY <3>1, FS_Singleton
    <3>3. SentOf(q) = SentOf(f) \cup {n + 1}
      BY <1>7, <2>3 DEF SentOf
    <3>4. n + 1 \notin SentOf(f)
      BY <1>7, <2>1
    <3>5. Cardinality(SentOf(q)) = Cardinality(SentOf(f)) + 1
      BY <2>1, <3>3, <3>4, FS_AddElement
    <3> QED BY <2>1, <2>2, <3>2, <3>5 DEF CountOf
  <2>4. CASE ~IsSave(r)
    <3>1. PlannedOf(f) = {}
      BY <1>2, <2>4 DEF PlannedOf
    <3>2. SentOf(q) = SentOf(f)
      BY <1>7, <2>4 DEF SentOf
    <3> QED BY <2>1, <2>2, <3>1, <3>2 DEF CountOf
  <2> QED BY <2>3, <2>4
<1>11. Within(q, 0, 0)
  BY <1>5, <1>10 DEF GoodForm, Within
<1> QED BY <1>6, <1>8, <1>9, <1>11 DEF GoodForm

\* A new form is empty; the one of a stored row has its texts.
LEMMA FormStarts ==
  ASSUME form \in FormInits
  PROVE  GoodForm(form)
<1>1. PICK n \in BOOLEAN :
        form = [new |-> n, form |-> [x \in Fields |-> IF n THEN Blank ELSE Stored],
                default |-> [x \in Fields |-> IF n THEN Blank ELSE Stored],
                focus |-> "none", asking |-> "none", next |-> "none", planned |-> {}, sent |-> <<>>,
                keys |-> 0, clicks |-> 0, yes |-> 0, asked |-> 0, refused |-> FALSE]
  BY DEF FormInits
<1>2. Blank \in TextFields /\ Stored \in TextFields
  <2>1. (CHOOSE v \in Texts : Required(v)) \in Seq(Nat)
    BY TextsAssumption
  <2> QED BY <2>1 DEF Blank, Stored, Texted, TextFields
<1>3. [x \in Fields |-> IF n THEN Blank ELSE Stored] \in [Fields -> TextFields]
  BY <1>2
<1>4. form.sent \in Seq(Submissions)
  BY <1>1
<1>5. form \in Forms
  <2> HIDE DEF Blank, Stored
  <2> QED BY <1>1, <1>3, <1>4 DEF Forms
<1>6. FormTyped(form)
  BY <1>1, <1>5 DEF FormTyped, Saves, Buttons, ReadOnly
<1>7. AllComplete(form) /\ Refusal(form)
  BY <1>1 DEF AllComplete, Refusal
<1>8. SentOf(form) = {} /\ PlannedOf(form) = {}
  BY <1>1 DEF SentOf, PlannedOf
<1>9. CountOf(form) = 0
  BY <1>8, FS_EmptySet DEF CountOf
<1>10. Within(form, 0, 0)
  BY <1>1, <1>9 DEF Within, One
<1> QED BY <1>6, <1>7, <1>10 DEF GoodForm

\* What a step changes of a form beside its requests and history.
Alike(q, f) ==
  /\ q \in Forms /\ q.planned = f.planned /\ q.sent = f.sent /\ q.new = f.new
  /\ q.default = f.default /\ q.asking = f.asking /\ q.yes = f.yes

LEMMA AlikeForms ==
  ASSUME NEW f, NEW q, GoodForm(f), Alike(q, f),
         q.next \in Buttons(f) \cup {"none"},
         \A x \in ReadOnly(f) : q.form[x] = f.form[x]
  PROVE  FormTyped(q) /\ AllComplete(q) /\ CountOf(q) = CountOf(f)
<1>1. FormTyped(q)
  BY DEF GoodForm, FormTyped, Alike, Saves, Buttons, ReadOnly
<1>2. AllComplete(q)
  BY DEF GoodForm, AllComplete, Alike
<1>3. CountOf(q) = CountOf(f)
  BY DEF CountOf, SentOf, PlannedOf, Alike
<1> QED BY <1>1, <1>2, <1>3

\* Every event on the form keeps it good.
LEMMA FormKeeps ==
  ASSUME GoodForm(form), FormNext
  PROVE  GoodForm(form')
<1> DEFINE f == form   q == form'
<1>0. /\ f \in Forms /\ FormTyped(f) /\ CountOf(f) \in Nat
      /\ f.yes \in Nat /\ f.clicks \in Nat /\ f.keys \in Nat /\ f.asked \in Nat
  <2>1. FormTyped(f)
    BY DEF GoodForm
  <2>2. f \in Forms
    BY <2>1 DEF FormTyped
  <2> QED BY <2>1, <2>2, CountOfType DEF Forms
<1>1. ASSUME NEW x \in Fields, NEW v \in Texts, TypeText(x, v) PROVE GoodForm(q)
  <2>1. Texted(v) \in TextFields
    BY TextsAssumption DEF Texted, TextFields
  <2>2. q = [f EXCEPT !.form = [f.form EXCEPT ![x] = Texted(v)], !.focus = x]
    BY <1>1 DEF TypeText
  <2>3. /\ Alike(q, f) /\ q.next = f.next /\ q.focus = x /\ q.keys = f.keys /\ q.clicks = f.clicks
        /\ q.asked = f.asked /\ q.refused = f.refused /\ q.form = [f.form EXCEPT ![x] = Texted(v)]
    BY <1>0, <2>1, <2>2 DEF Forms, Alike
  <2>4. \A y \in ReadOnly(f) : q.form[y] = f.form[y]
    BY <1>0, <1>1, <2>3 DEF TypeText, ReadOnly, Forms
  <2>5. f.next \in Buttons(f) \cup {"none"}
    BY <1>0 DEF FormTyped
  <2>6. FormTyped(q) /\ AllComplete(q) /\ CountOf(q) = CountOf(f)
    BY <2>3, <2>4, <2>5, AlikeForms
  <2>7. Refusal(q)
    BY <1>1, <2>3 DEF Refusal, TypeText, Idle, Alike
  <2>8. Within(q, 0, 0)
    BY <2>3, <2>6 DEF Within, GoodForm, Alike
  <2> QED BY <2>6, <2>7, <2>8 DEF GoodForm
<1>2. ASSUME NEW b \in Buttons(form), ClickButton(b) PROVE GoodForm(q)
  <2> DEFINE p == [f EXCEPT !.focus = b, !.clicks = @ + 1, !.asked = 0, !.refused = FALSE]
  <2>1. b \in AllButtons /\ f.clicks + 1 \in Nat
    BY <1>0, <1>2 DEF Buttons, Saves, AllButtons, Submitters
  <2>2. /\ Alike(p, f) /\ p.next = f.next /\ p.keys = f.keys /\ p.clicks = f.clicks + 1
        /\ p.asked = 0 /\ p.refused = FALSE /\ p.form = f.form
    BY <1>0, <2>1 DEF Forms, Alike
  <2>3. q = Call(p, b)
    BY <1>2 DEF ClickButton
  <2> HIDE DEF p, q
  <2>4. f.next = "none" /\ f.asking = "none"
    BY <1>2 DEF ClickButton, Idle
  <2>5. FormTyped(p) /\ AllComplete(p) /\ CountOf(p) = CountOf(f)
    BY <2>2, <2>4, AlikeForms
  <2>6. Within(p, 0, 1)
    BY <1>0, <2>2, <2>4, <2>5 DEF Within, GoodForm, Alike, One
  <2>7. b \in Buttons(p) /\ p.asking = "none"
    BY <2>2, <2>4 DEF Buttons, Saves, Alike
  <2>8. GoodForm(Call(p, b))
    BY <2>2, <2>5, <2>6, <2>7, CallKeeps
  <2> QED BY <2>3, <2>8
<1>3. ASSUME NEW b \in Buttons(form), PressEnter(b) PROVE GoodForm(q)
  <2> DEFINE p == [f EXCEPT !.focus = b, !.keys = @ + 1, !.asked = 0, !.refused = FALSE, !.next = b]
  <2>1. b \in AllButtons /\ f.keys + 1 \in Nat /\ b # "none"
    BY <1>0, <1>3 DEF Buttons, Saves, AllButtons, Submitters
  <2>2. /\ Alike(p, f) /\ p.next = b /\ p.keys = f.keys + 1 /\ p.clicks = f.clicks
        /\ p.asked = 0 /\ p.refused = FALSE /\ p.form = f.form
    BY <1>0, <2>1 DEF Forms, Alike
  <2>3. q = Call(p, b)
    BY <1>3 DEF PressEnter
  <2> HIDE DEF p, q
  <2>4. f.next = "none" /\ f.asking = "none"
    BY <1>3 DEF PressEnter, Idle
  <2>5. FormTyped(p) /\ AllComplete(p) /\ CountOf(p) = CountOf(f)
    BY <2>2, <2>4, AlikeForms
  <2>6. Within(p, 0, 1)
    BY <1>0, <2>1, <2>2, <2>4, <2>5 DEF Within, GoodForm, Alike, One
  <2>7. b \in Buttons(p) /\ p.asking = "none"
    BY <2>2, <2>4 DEF Buttons, Saves, Alike
  <2>8. GoodForm(Call(p, b))
    BY <2>2, <2>5, <2>6, <2>7, CallKeeps
  <2> QED BY <2>3, <2>8
<1>4. ASSUME f.next # "none", f.asking = "none", NEW p, p = [f EXCEPT !.next = "none"]
      PROVE  /\ GoodForm(p) /\ Within(p, 0, 1) /\ Alike(p, f) /\ p.asking = "none" /\ p.next = "none"
             /\ p.focus = f.focus /\ p.refused = f.refused /\ p.form = f.form
             /\ p.keys = f.keys /\ p.clicks = f.clicks /\ p.asked = f.asked
  <2>1. /\ Alike(p, f) /\ p.next = "none" /\ p.focus = f.focus /\ p.keys = f.keys /\ p.clicks = f.clicks
        /\ p.asked = f.asked /\ p.refused = f.refused /\ p.form = f.form
    BY <1>0, <1>4 DEF Forms, Alike
  <2>2. FormTyped(p) /\ AllComplete(p) /\ CountOf(p) = CountOf(f)
    BY <2>1, AlikeForms
  <2>3. Refusal(p)
    BY <2>1 DEF Refusal, GoodForm, Alike
  <2>4. Within(p, 0, 1) /\ Within(p, 0, 0)
    BY <1>0, <1>4, <2>1, <2>2 DEF Within, GoodForm, Alike, One
  <2> QED BY <1>4, <2>1, <2>2, <2>3, <2>4 DEF GoodForm, Alike
<1>5. CASE DefaultAction
  <2> DEFINE p == [f EXCEPT !.next = "none"]
  <2>1. f.next # "none" /\ f.asking = "none"
    BY <1>5 DEF DefaultAction
  <2>2. /\ GoodForm(p) /\ Within(p, 0, 1) /\ Alike(p, f) /\ p.asking = "none" /\ p.next = "none"
        /\ p.focus = f.focus /\ p.refused = f.refused /\ p.form = f.form
        /\ p.keys = f.keys /\ p.clicks = f.clicks /\ p.asked = f.asked
    BY <1>4, <2>1
  <2>3. /\ f.focus \in Buttons(f) => q = Call(p, f.focus)
        /\ f.focus \notin Buttons(f) /\ f.focus = "description"
             => q = [p EXCEPT !.form["description"].entered = Append(@, NewLine)]
        /\ f.focus \notin Buttons(f) /\ f.focus # "description" => q = p
    <3>1. q = CASE f.focus \in Buttons(f) -> Call(p, f.focus)
                [] f.focus = "description" -> [p EXCEPT !.form["description"].entered = Append(@, NewLine)]
                [] OTHER                   -> p
      BY <1>5 DEF DefaultAction
    <3>2. ~("description" \in Buttons(f))
      BY DEF Buttons, Saves
    <3> HIDE DEF p, q
    <3> QED BY <3>1, <3>2
  <2> HIDE DEF p, q
  <2>4. CASE f.focus \in Buttons(f)
    <3>1. f.focus \notin Fields
      BY <2>4 DEF Buttons, Saves, Fields
    <3>2. f.refused = FALSE
      BY <1>0, <3>1 DEF GoodForm, Refusal, Forms
    <3>3. f.focus \in Buttons(p)
      BY <2>2, <2>4 DEF Buttons, Saves, Alike
    <3>4. GoodForm(Call(p, f.focus))
      BY <2>2, <3>2, <3>3, CallKeeps DEF GoodForm
    <3> QED BY <2>3, <2>4, <3>4 DEF q
  <2>5. CASE f.focus \notin Buttons(f) /\ f.focus = "description"
    <3> DEFINE d == p.form["description"]
    <3>1. p \in Forms /\ "description" \in Fields /\ d \in TextFields /\ p.form \in [Fields -> TextFields]
      BY <2>2 DEF GoodForm, FormTyped, Forms, Fields
    <3>2. [d EXCEPT !.entered = Append(d.entered, NewLine)] \in TextFields
      <4>1. d.entered \in Seq(Nat) /\ NewLine \in Nat
        BY <3>1 DEF TextFields, NewLine
      <4>2. Append(d.entered, NewLine) \in Seq(Nat)
        BY <4>1
      <4> HIDE DEF d
      <4> QED BY <3>1, <4>2 DEF TextFields
    <3>3. q = [p EXCEPT !.form = [p.form EXCEPT !["description"] = [d EXCEPT !.entered = Append(d.entered, NewLine)]]]
      BY <2>3, <2>5
    <3> HIDE DEF d
    <3>4. /\ Alike(q, p) /\ q.next = p.next /\ q.focus = p.focus /\ q.keys = p.keys /\ q.clicks = p.clicks
          /\ q.asked = p.asked /\ q.refused = p.refused
          /\ q.form = [p.form EXCEPT !["description"] = [d EXCEPT !.entered = Append(d.entered, NewLine)]]
      BY <3>1, <3>2, <3>3 DEF Forms, Alike
    <3>5. \A y \in ReadOnly(p) : q.form[y] = p.form[y]
      BY <3>1, <3>4 DEF ReadOnly, Fields
    <3>6. q.next \in Buttons(p) \cup {"none"}
      BY <2>2, <3>4
    <3>7. FormTyped(q) /\ AllComplete(q) /\ CountOf(q) = CountOf(p)
      BY <2>2, <3>4, <3>5, <3>6, AlikeForms
    <3>8. Refusal(q) /\ Within(q, 0, 0)
      BY <2>2, <3>4, <3>7 DEF Refusal, Within, GoodForm, Alike
    <3> QED BY <3>7, <3>8 DEF GoodForm, q
  <2>6. CASE f.focus \notin Buttons(f) /\ f.focus # "description"
    BY <2>2, <2>3, <2>6 DEF q
  <2> QED BY <2>4, <2>5, <2>6
<1>6. CASE KeyDropped
  <2>1. f.next # "none" /\ f.asking = "none" /\ q = [f EXCEPT !.next = "none"]
    BY <1>6 DEF KeyDropped
  <2> QED BY <1>4, <2>1
<1>7. ASSUME NEW yes \in BOOLEAN, Answer(yes) PROVE GoodForm(q)
  <2> DEFINE do == f.asking
             h == [f EXCEPT !.asking = "none"]
             p == [h EXCEPT !.yes = @ + 1]
  <2>1. do # "none" /\ do \in Saves(f) /\ f.refused = FALSE
    BY <1>0, <1>7 DEF Answer, FormTyped, Refusal, GoodForm, Forms
  <2>2. /\ h \in Forms /\ h.planned = f.planned /\ h.sent = f.sent /\ h.new = f.new /\ h.form = f.form
        /\ h.default = f.default /\ h.focus = f.focus /\ h.asking = "none" /\ h.next = f.next
        /\ h.keys = f.keys /\ h.clicks = f.clicks /\ h.yes = f.yes /\ h.asked = f.asked
        /\ h.refused = f.refused
    BY <1>0 DEF Forms
  <2>3. /\ p \in Forms /\ p.planned = f.planned /\ p.sent = f.sent /\ p.new = f.new /\ p.form = f.form
        /\ p.default = f.default /\ p.focus = f.focus /\ p.asking = "none" /\ p.next = f.next
        /\ p.keys = f.keys /\ p.clicks = f.clicks /\ p.yes = f.yes + 1 /\ p.asked = f.asked
        /\ p.refused = f.refused
    <3> HIDE DEF h
    <3>1. f.yes + 1 \in Nat
      BY <1>0
    <3> QED BY <2>2, <3>1 DEF Forms
  <2>4. q = IF yes THEN Confirmed(p, do) ELSE h
    BY <1>7 DEF Answer
  <2> HIDE DEF do, h, p, q
  <2>5. FormTyped(h) /\ FormTyped(p) /\ AllComplete(h) /\ AllComplete(p)
    <3>1. FormTyped(h)
      BY <1>0, <2>2 DEF FormTyped, Saves, Buttons, ReadOnly
    <3>2. FormTyped(p)
      BY <1>0, <2>3 DEF FormTyped, Saves, Buttons, ReadOnly
    <3>3. AllComplete(h) /\ AllComplete(p)
      BY <2>2, <2>3 DEF AllComplete, GoodForm
    <3> QED BY <3>1, <3>2, <3>3
  <2>6. Refusal(h)
    BY <2>1, <2>2 DEF Refusal
  <2>7. CountOf(h) = CountOf(f) /\ CountOf(p) = CountOf(f)
    BY <2>2, <2>3 DEF CountOf, SentOf, PlannedOf
  <2>8. Within(h, 0, 0)
    BY <1>0, <2>1, <2>2, <2>7 DEF Within, GoodForm, One
  <2>9. Within(p, 1, 0)
    BY <1>0, <2>1, <2>3, <2>7 DEF Within, GoodForm, One, do
  <2>10. do \in Saves(p)
    BY <2>1, <2>3 DEF Saves
  <2>11. GoodForm(Confirmed(p, do))
    BY <2>1, <2>3, <2>5, <2>9, <2>10, ConfirmedKeeps
  <2> QED BY <2>4, <2>5, <2>6, <2>8, <2>11 DEF GoodForm
<1>8. CASE Send
  BY <1>8, SendKeeps
<1> QED BY <1>1, <1>2, <1>3, <1>5, <1>6, <1>7, <1>8 DEF FormNext

-----------------------------------------------------------------------------
(* The list of rows *)

Calls == {"sampleSearch", "sampleCreate", "submit", "samplePagination", "sampleDetail"}
Requests == [do : Calls, keyword : Texts \cup {<<>>}, id : Ids \cup {NoId}, page : ListPages \cup {1}]
Lists == [keyword : Texts \cup {<<>>}, id : Ids \cup {NoId}, page : ListPages \cup {1},
          last : SUBSET Requests, paged : BOOLEAN]

\* Only a link to another page makes the hidden page number another one.
FirstPageUnlessPaged == list.page = 1 \/ list.paged

ListInv == list \in Lists /\ FirstPageUnlessPaged /\ ListRequests

\* The list starts at its first page, and has asked for nothing.
LEMMA InitListInv == Init => ListInv
<1> SUFFICES ASSUME Init PROVE ListInv
  OBVIOUS
<1>1. list = [keyword |-> <<>>, id |-> NoId, page |-> 1, last |-> {}, paged |-> FALSE]
  BY DEF Init, ListInits
<1>2. list \in Lists
  BY <1>1 DEF Lists
<1> QED BY <1>1, <1>2 DEF ListInv, FirstPageUnlessPaged, ListRequests, SearchesAreChecked, NewRowsHaveNoId

\* A request takes the hidden fields of the list as they are.
LEMMA RequestOf ==
  ASSUME NEW l \in Lists, NEW do \in Calls
  PROVE  /\ Request(l, do) \in Lists
         /\ Request(l, do).page = l.page /\ Request(l, do).paged = l.paged
         /\ Request(l, do).last = {[do |-> do, keyword |-> l.keyword, id |-> l.id, page |-> l.page]}
<1>1. [do |-> do, keyword |-> l.keyword, id |-> l.id, page |-> l.page] \in Requests
  BY DEF Lists, Requests
<1> QED BY <1>1 DEF Request, Lists

\* What a request must not carry is told from the fields it takes.
LEMMA RequestKeeps ==
  ASSUME NEW l \in Lists, NEW do \in Calls, list' = Request(l, do),
         l.page = 1 \/ l.paged,
         do = "sampleSearch" => l.keyword # <<>>,
         do = "sampleCreate" => l.id = NoId
  PROVE  ListInv'
<1> DEFINE r == [do |-> do, keyword |-> l.keyword, id |-> l.id, page |-> l.page]
<1>1. list' \in Lists /\ list'.page = l.page /\ list'.paged = l.paged /\ list'.last = {r}
  BY RequestOf
<1>2. r.do = do /\ r.keyword = l.keyword /\ r.id = l.id /\ r.page = l.page
  OBVIOUS
<1> HIDE DEF r
<1> QED BY <1>1, <1>2 DEF ListInv, FirstPageUnlessPaged, ListRequests, SearchesAreChecked, NewRowsHaveNoId

\* Every event on the list keeps the invariant.
LEMMA ListKeepsInv ==
  ASSUME ListInv, ListNext
  PROVE  ListInv'
<1>0. list \in Lists /\ (list.page = 1 \/ list.paged)
  BY DEF ListInv, FirstPageUnlessPaged
<1>1. ASSUME NEW v \in Texts, TypeKeyword(v) PROVE ListInv'
  <2>1. list' \in Lists /\ list'.page = list.page /\ list'.paged = list.paged /\ list'.last = list.last
    BY <1>0, <1>1 DEF TypeKeyword, Lists
  <2> QED BY <2>1 DEF ListInv, FirstPageUnlessPaged, ListRequests, SearchesAreChecked, NewRowsHaveNoId
<1>2. CASE SampleSearch
  <2>1. list' = Request(list, "sampleSearch") /\ list.keyword # <<>>
    BY <1>2 DEF SampleSearch, NotNullCheck
  <2> QED BY <1>0, <2>1, RequestKeeps DEF Calls
<1>3. CASE SampleCreate
  <2> DEFINE l == [list EXCEPT !.id = NoId]
  <2>1. l \in Lists /\ l.page = list.page /\ l.paged = list.paged /\ l.id = NoId
    BY <1>0 DEF Lists
  <2>2. list' = Request(l, "sampleCreate")
    BY <1>3 DEF SampleCreate
  <2> HIDE DEF l
  <2> QED BY <1>0, <2>1, <2>2, RequestKeeps DEF Calls
<1>4. CASE EnterInField
  <2>1. list' = Request(list, "submit")
    BY <1>4 DEF EnterInField
  <2> QED BY <1>0, <2>1, RequestKeeps DEF Calls
<1>5. ASSUME NEW p \in ListPages, SamplePagination(p) PROVE ListInv'
  <2> DEFINE l == [list EXCEPT !.page = p, !.paged = TRUE]
  <2>1. l \in Lists /\ l.paged
    BY <1>0 DEF Lists
  <2>2. list' = Request(l, "samplePagination")
    BY <1>5 DEF SamplePagination
  <2> HIDE DEF l
  <2> QED BY <1>0, <2>1, <2>2, RequestKeeps DEF Calls
<1>6. ASSUME NEW id \in Ids, SampleDetail(id) PROVE ListInv'
  <2> DEFINE l == [list EXCEPT !.id = id]
  <2>1. l \in Lists /\ l.page = list.page /\ l.paged = list.paged
    BY <1>0 DEF Lists
  <2>2. list' = Request(l, "sampleDetail")
    BY <1>6 DEF SampleDetail
  <2> HIDE DEF l
  <2> QED BY <1>0, <2>1, <2>2, RequestKeeps DEF Calls
<1> QED BY <1>1, <1>2, <1>3, <1>4, <1>5, <1>6 DEF ListNext

\* So does every event on another form, which the list is not on.
LEMMA NextListInv ==
  ASSUME ListInv, Next \/ UNCHANGED vars
  PROVE  ListInv'
<1>1. CASE UseList
  BY <1>1, ListKeepsInv DEF UseList
<1>2. CASE UNCHANGED list
  BY <1>2 DEF ListInv, FirstPageUnlessPaged, ListRequests, SearchesAreChecked, NewRowsHaveNoId
<1>3. UseList \/ UNCHANGED list
  BY DEF Next, UseTyped, UseEntry, UseForm, vars
<1> QED BY <1>1, <1>2, <1>3

-----------------------------------------------------------------------------
(* The form with a table of rules, the page, and its theorems *)

EntryGood(e) ==
  /\ e = [form |-> e.form, table |-> e.table, errors |-> e.errors, focus |-> e.focus, thrown |-> e.thrown]
  /\ DOMAIN e.form = DOMAIN Elements /\ e.table \in Tables /\ e.focus \subseteq DOMAIN Elements

LEMMA EntryStarts ==
  ASSUME entry \in EntryInits
  PROVE  EntryGood(entry)
<1>1. PICK t \in Tables :
        entry = [form   |-> [f \in DOMAIN Elements |-> [kind |-> Elements[f].kind, values |-> Elements[f].values,
                                           entered |-> CHOOSE x \in Entries(Elements[f]) : TRUE]],
                 table  |-> t, errors |-> <<>>, focus |-> {}, thrown |-> FALSE]
  BY DEF EntryInits
<1> QED BY <1>1 DEF EntryGood

\* What a validation leaves on the page.
LEMMA ValidateTells ==
  ASSUME EntryGood(entry), Validate
  PROVE  LET out == ValidateForm(entry.form, entry.table)
         IN  /\ Judged(entry.form, entry.table, Len(entry.table), out)
             /\ EntryGood(entry') /\ entry'.errors = out.errors
             /\ entry'.focus = IF out.first # {} /\ \A f \in out.first : HasFocusMethod(f)
                               THEN out.first ELSE {}
             /\ entry'.thrown = \E f \in out.first : ~HasFocusMethod(f)
<1> DEFINE out == ValidateForm(entry.form, entry.table)
           got == IF out.first # {} /\ \A f \in out.first : HasFocusMethod(f) THEN out.first ELSE {}
           bad == \E f \in out.first : ~HasFocusMethod(f)
<1>1. Judged(entry.form, entry.table, Len(entry.table), out)
  BY TablesAssumption, FormsAreJudged DEF EntryGood
<1>2. out.first \subseteq DOMAIN Elements
  BY <1>1 DEF Judged, Outcomes, EntryGood
<1>3. got \subseteq DOMAIN Elements
  BY <1>2
<1>4. entry' = [entry EXCEPT !.errors = out.errors, !.focus = got, !.thrown = bad]
  BY DEF Validate
<1> HIDE DEF out, got, bad
<1>5. entry' = [form |-> entry.form, table |-> entry.table, errors |-> out.errors, focus |-> got, thrown |-> bad]
  BY <1>4 DEF EntryGood
<1>6. EntryGood(entry') /\ entry'.errors = out.errors /\ entry'.focus = got /\ entry'.thrown = bad
  BY <1>3, <1>5 DEF EntryGood
<1> QED BY <1>1, <1>6 DEF out, got, bad

LEMMA EntryKeeps ==
  ASSUME EntryGood(entry), EntryNext
  PROVE  EntryGood(entry')
<1>1. ASSUME NEW f \in DOMAIN Elements, NEW x, Fill(f, x) PROVE EntryGood(entry')
  <2> DEFINE frm == Filled(entry.form, f, x)
  <2>1. DOMAIN frm = DOMAIN Elements
    BY DEF Filled, EntryGood
  <2>2. entry' = [entry EXCEPT !.form = frm, !.focus = {}, !.errors = <<>>, !.thrown = FALSE]
    BY <1>1 DEF Fill
  <2> HIDE DEF frm
  <2>3. entry' = [form |-> frm, table |-> entry.table, errors |-> <<>>, focus |-> {}, thrown |-> FALSE]
    BY <2>2 DEF EntryGood
  <2> QED BY <2>1, <2>3 DEF EntryGood
<1>2. CASE Validate
  BY <1>2, ValidateTells
<1> QED BY <1>1, <1>2 DEF EntryNext

IInv == typed \in Seq(Nat) /\ EntryGood(entry) /\ GoodForm(form) /\ ListInv

LEMMA InitIInv == Init => IInv
<1> SUFFICES ASSUME Init PROVE IInv
  OBVIOUS
<1>1. typed \in Seq(Nat)
  BY DEF Init, TypedInits
<1>2. EntryGood(entry)
  BY EntryStarts DEF Init
<1>3. GoodForm(form)
  BY FormStarts DEF Init
<1> QED BY <1>1, <1>2, <1>3, InitListInv DEF IInv

LEMMA NextIInv == IInv /\ [Next]_vars => IInv'
<1> SUFFICES ASSUME IInv, [Next]_vars PROVE IInv'
  OBVIOUS
<1>1. typed' \in Seq(Nat)
  <2>1. CASE UseTyped
    <3>1. ASSUME NEW c \in Alphabet, Type(c) PROVE typed' \in Seq(Nat)
      BY <3>1, TypedAssumption DEF Type, IInv
    <3>2. ASSUME NEW v \in Pasted, Paste(v) PROVE typed' \in Seq(Nat)
      BY <3>2, TypedAssumption DEF Paste
    <3> QED BY <2>1, <3>1, <3>2 DEF UseTyped, TypedNext
  <2>2. CASE UNCHANGED typed
    BY <2>2 DEF IInv
  <2> QED BY <2>1, <2>2 DEF Next, UseEntry, UseForm, UseList, vars
<1>2. EntryGood(entry')
  <2>1. CASE UseEntry
    BY <2>1, EntryKeeps DEF UseEntry, IInv
  <2>2. CASE UNCHANGED entry
    BY <2>2 DEF IInv
  <2> QED BY <2>1, <2>2 DEF Next, UseTyped, UseForm, UseList, vars
<1>3. GoodForm(form')
  <2>1. CASE UseForm
    BY <2>1, FormKeeps DEF UseForm, IInv
  <2>2. CASE UNCHANGED form
    BY <2>2 DEF IInv
  <2> QED BY <2>1, <2>2 DEF Next, UseTyped, UseEntry, UseList, vars
<1>4. ListInv'
  BY NextListInv DEF IInv
<1>5. EntryGood(entry)' /\ GoodForm(form)'
  BY <1>2, <1>3 DEF EntryGood, GoodForm, FormTyped, AllComplete, Refusal, Within, CountOf, SentOf,
     PlannedOf
<1> QED BY <1>1, <1>4, <1>5 DEF IInv

\* The invariant holds in every state.
THEOREM Invariance == Spec => []IInv
BY InitIInv, NextIInv, PTL DEF Spec

\* Types, and the rules: whatever is typed, of any length, the loops against
\* sequences and repetitions find the runs of their messages, the rule of an
\* address has the shape it is for, and the stricter rules imply the others.
THEOREM RulesHold == Spec => []RulesAsDescribed
<1>1. IInv => RulesAsDescribed
  <2> SUFFICES ASSUME IInv PROVE RulesAsDescribed
    OBVIOUS
  <2>1. typed \in Seq(Nat) /\ EntryGood(entry) /\ FormTyped(form) /\ list \in Lists
    BY DEF IInv, GoodForm, ListInv
  <2>2. TypeOK
    BY <2>1, TextsAssumption DEF TypeOK, EntryGood, FormTyped, Lists
  <2>3. RunsFound
    BY <2>1, RunsAreFound DEF RunsFound
  <2> QED BY <2>1, <2>2, <2>3, AddressShapeHolds, StricterRulesHold DEF RulesAsDescribed
<1> QED BY Invariance, <1>1, PTL

\* Every save that leaves the page is complete, has been answered with yes, and
\* was asked for by a click or a key of its own, whatever the user types and
\* clicks while a dialog, a request or the rest of a key is pending.
THEOREM SavesHold == Spec => []SavesAsAsked
<1>1. IInv => SavesAsAsked
  <2> SUFFICES ASSUME IInv PROVE SavesAsAsked
    OBVIOUS
  <2>1. FormTyped(form) /\ AllComplete(form) /\ Within(form, 0, 0) /\ form \in Forms
    BY DEF IInv, GoodForm, FormTyped
  <2>2. CountOf(form) \in Nat /\ SaveCount = CountOf(form)
    BY <2>1, CountOfType DEF SaveCount, CountOf, SentSaves, SentOf, PlannedSaves, PlannedOf
  <2>3. form.yes \in Nat /\ form.clicks \in Nat /\ form.keys \in Nat /\ form.asked \in Nat
    BY <2>1 DEF Forms
  <2>4. SavesAreComplete
    BY <2>1 DEF SavesAreComplete, AllComplete
  <2>5. SavesAreConfirmed
    BY <2>1, <2>2, <2>3 DEF SavesAreConfirmed, Within
  <2>6. AskedOncePerClick
    BY <2>1, <2>2, <2>3 DEF AskedOncePerClick, Within, One
  <2> QED BY <2>4, <2>5, <2>6 DEF SavesAsAsked
<1> QED BY Invariance, <1>1, PTL

\* No request of the list asks for nothing or for a page the user did not
\* choose, and none carries the id of a row looked at before.
THEOREM ListRequestsHold == Spec => []ListRequests
<1>1. IInv => ListRequests
  BY DEF IInv, ListInv
<1> QED BY Invariance, <1>1, PTL

\* Enter on a button whose form was refused does not ask again: by the time the
\* browser clicks, the focus is on a field.
THEOREM NotAskedTwice == Spec => NotAskedAgain
<1>1. IInv /\ [Next]_vars
        => [form.next # "none" /\ form.refused
              => form'.asking = "none" /\ form'.planned \subseteq form.planned]_form
  <2> SUFFICES ASSUME IInv, Next, form' # form, form.next # "none", form.refused
               PROVE  form'.asking = "none" /\ form'.planned \subseteq form.planned
    BY DEF vars
  <2>1. /\ FormNext /\ form \in Forms /\ form.asking = "none" /\ form.focus \in Fields
    BY DEF Next, UseTyped, UseEntry, UseForm, UseList, IInv, GoodForm, FormTyped, Refusal
  <2>2. form.focus \notin Buttons(form)
    BY <2>1 DEF Fields, Buttons, Saves
  <2>3. CASE DefaultAction
    <3> DEFINE p == [form EXCEPT !.next = "none"]
    <3>1. p.asking = "none" /\ p.planned = form.planned /\ p \in Forms
      BY <2>1 DEF Forms
    <3>2. form' = p \/ form' = [p EXCEPT !.form["description"].entered = Append(@, NewLine)]
      BY <2>2, <2>3 DEF DefaultAction
    <3> HIDE DEF p
    <3>3. form'.asking = p.asking /\ form'.planned = p.planned
      BY <3>1, <3>2 DEF Forms
    <3> QED BY <3>1, <3>3
  <2>4. CASE KeyDropped
    BY <2>1, <2>4 DEF KeyDropped, Forms
  <2>5. CASE Send
    BY <2>1, <2>5 DEF Send, Forms
  <2> QED BY <2>1, <2>3, <2>4, <2>5 DEF FormNext, TypeText, ClickButton, PressEnter, Idle, Answer
<1> QED BY Invariance, <1>1, PTL DEF Spec, NotAskedAgain

\* For any form and any table of rules, a validation has no message exactly if no
\* field breaks a rule, has only messages of fields that do, and gives the focus
\* to the field of the first one; an exception needs a failing field.
ValidationTold ==
  LET told == entry'.errors
  IN  /\ told = <<>> <=> \A k \in 1 .. Len(entry.table) : ~Fails(entry.form, entry.table[k])
      /\ told \in Seq(Messages(entry.form, entry.table))
      /\ told # <<>> => entry'.focus = {told[1][1]} \/ entry'.thrown
      /\ told = <<>> => entry'.focus = {} /\ ~entry'.thrown

THEOREM ValidationsTell == Spec => [][Validate => ValidationTold]_entry
<1>1. IInv /\ [Next]_vars => [Validate => ValidationTold]_entry
  <2> SUFFICES ASSUME IInv, Validate PROVE ValidationTold
    OBVIOUS
  <2> DEFINE out == ValidateForm(entry.form, entry.table)
  <2>1. /\ Judged(entry.form, entry.table, Len(entry.table), out)
        /\ entry'.errors = out.errors
        /\ entry'.focus = IF out.first # {} /\ \A f \in out.first : HasFocusMethod(f)
                          THEN out.first ELSE {}
        /\ entry'.thrown = \E f \in out.first : ~HasFocusMethod(f)
    BY ValidateTells DEF IInv
  <2> HIDE DEF out
  <2> QED BY <2>1 DEF Judged, Outcomes, ValidationTold
<1> QED BY Invariance, <1>1, PTL DEF Spec
=============================================================================
