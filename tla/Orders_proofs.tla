--------------------------- MODULE Orders_proofs ---------------------------
(***************************************************************************)
(* Proofs about the orders and the library, for every number of nodes,     *)
(* orders, templates, keys and writes, and all projects and reports.       *)
(***************************************************************************)
EXTENDS Orders, SequenceTheorems, FiniteSetTheorems, TLAPS

-----------------------------------------------------------------------------
(* Numbers and recursions.                                                  *)

(* A set of numbers that is not empty has a least one: what is shown by induction below is
   shown of the least counterexample. *)
LEMMA LeastNumber ==
  ASSUME NEW T \in SUBSET Nat, T # {}
  PROVE  \E n \in T : \A m \in T : n <= m
<1> DEFINE R == {ss \in Nat \X Nat : ss[1] < ss[2]}
<1>1. IsWellFoundedOn(R, Nat)
  BY NatLessThanWellFounded DEF OpToRel
<1>2. \A m, n \in Nat : m < n => <<m, n>> \in R
  OBVIOUS
<1> HIDE DEF R
<1>3. PICK n \in T : \A m \in T : ~(<<m, n>> \in R)
  BY <1>1, WFMin
<1>4. ASSUME NEW m \in T PROVE n <= m
  <2>1. m \in Nat /\ n \in Nat
    OBVIOUS
  <2>2. ~(m < n)
    BY <1>2, <1>3, <2>1
  <2> QED BY <2>1, <2>2
<1> QED BY <1>4

(* A finite set of numbers has a greatest one, by induction on its size. *)
LEMMA Greatest ==
  ASSUME NEW S \in SUBSET Nat, IsFiniteSet(S), S # {}
  PROVE  \E x \in S : \A y \in S : y <= x
<1> DEFINE Wrong(Q) ==
             /\ IsFiniteSet(Q) /\ Q # {}
             /\ ~\E x \in Q : \A y \in Q : y <= x
           T == {k \in Nat : \E Q \in SUBSET Nat : Wrong(Q) /\ Cardinality(Q) = k}
<1> SUFFICES ASSUME Wrong(S) PROVE FALSE
  OBVIOUS
<1>1. Cardinality(S) \in T
  BY FS_CardinalityType
<1>2. PICK k \in T : \A l \in T : k <= l
  <2>1. T \in SUBSET Nat /\ T # {}
    BY <1>1
  <2> HIDE DEF T
  <2> QED BY <2>1, LeastNumber
<1>3. PICK Q \in SUBSET Nat : Wrong(Q) /\ Cardinality(Q) = k
  OBVIOUS
<1>4. PICK x \in Q : TRUE
  BY <1>3
<1>5. IsFiniteSet(Q \ {x}) /\ Cardinality(Q \ {x}) = k - 1 /\ k \in Nat
  BY <1>3, <1>4, FS_RemoveElement, FS_CardinalityType
<1>6. k - 1 \notin T
  BY <1>2, <1>5
<1>7. k - 1 \in Nat
  BY <1>5, FS_CardinalityType
<1>8. ~Wrong(Q \ {x})
  BY <1>5, <1>6, <1>7
<1>9. CASE Q \ {x} = {}
  <2>1. \A y \in Q : y = x
    BY <1>9
  <2>2. \A y \in Q : y <= x
    BY <2>1
  <2> QED BY <1>3, <2>2
<1>10. CASE Q \ {x} # {}
  <2>1. PICK z \in Q \ {x} : \A y \in Q \ {x} : y <= z
    BY <1>5, <1>8, <1>10
  <2>2. x \in Nat /\ z \in Nat
    OBVIOUS
  <2>3. CASE x <= z
    <3>1. \A y \in Q : y <= z
      BY <2>1, <2>3
    <3> QED BY <1>3, <3>1
  <2>4. CASE z <= x
    <3>1. \A y \in Q : y <= x
      BY <2>1, <2>2, <2>4
    <3> QED BY <1>3, <3>1
  <2> QED BY <2>2, <2>3, <2>4
<1> QED BY <1>9, <1>10

LEMMA MaxOf ==
  ASSUME NEW S \in SUBSET Nat, IsFiniteSet(S), S # {}
  PROVE  Max(S) \in S /\ \A y \in S : y <= Max(S)
<1>1. PICK x \in S : \A y \in S : y <= x
  BY Greatest
<1>2. \A y \in S : x >= y
  BY <1>1
<1> QED BY <1>2 DEF Max

(* A recursion along a rank that is bounded has a solution, a function that satisfies its
   equation: the functions that satisfy it below a rank are extended one rank at a time. *)
Local(D, S, rank, step) ==
  \A x \in D : \A g, h \in [D -> S] :
    (\A y \in D : rank[y] < rank[x] => g[y] = h[y]) => step[x][g] = step[x][h]

Descends(D, S, rank, bound, step) ==
  /\ S # {} /\ bound \in Nat /\ rank \in [D -> 0..bound]
  /\ step \in [D -> [[D -> S] -> S]]
  /\ Local(D, S, rank, step)

LEMMA Recursion ==
  ASSUME NEW D, NEW S, NEW rank, NEW bound, NEW step, Descends(D, S, rank, bound, step)
  PROVE  \E f \in [D -> S] : \A x \in D : f[x] = step[x][f]
<1> USE DEF Descends
<1> PICK s \in S : TRUE
  OBVIOUS
<1> DEFINE Good(k, f) == \A x \in D : rank[x] < k => f[x] = step[x][f]
           T == {k \in Nat : ~\E f \in [D -> S] : Good(k, f)}
<1>1. T = {}
  <2> SUFFICES ASSUME T # {} PROVE FALSE
    OBVIOUS
  <2>1. PICK k \in T : \A l \in T : k <= l
    <3>1. T \in SUBSET Nat
      OBVIOUS
    <3> HIDE DEF T
    <3> QED BY <3>1, LeastNumber
  <2>2. k # 0
    <3>1. [x \in D |-> s] \in [D -> S]
      OBVIOUS
    <3>2. Good(0, [x \in D |-> s])
      OBVIOUS
    <3> QED BY <3>1, <3>2
  <2>3. k \in Nat /\ k - 1 \in Nat /\ k - 1 \notin T
    <3>1. T \subseteq Nat
      OBVIOUS
    <3> HIDE DEF T
    <3> QED BY <2>1, <2>2, <3>1
  <2>4. PICK g \in [D -> S] : Good(k - 1, g)
    BY <2>3
  <2> DEFINE f == [x \in D |-> IF rank[x] < k - 1 THEN g[x] ELSE step[x][g]]
  <2>5. \A x \in D : f[x] = IF rank[x] < k - 1 THEN g[x] ELSE step[x][g]
    OBVIOUS
  <2>6. f \in [D -> S]
    OBVIOUS
  <2> HIDE DEF f
  <2>7. ASSUME NEW x \in D, rank[x] < k
        PROVE  f[x] = step[x][f]
    <3>1. \A y \in D : rank[y] < rank[x] => g[y] = f[y]
      BY <2>3, <2>5, <2>7
    <3>2. step[x][g] = step[x][f]
      BY <2>6, <3>1 DEF Local
    <3>3. f[x] = step[x][g]
      BY <2>4, <2>5
    <3> QED BY <3>2, <3>3
  <2> QED BY <2>3, <2>6, <2>7
<1>2. PICK f \in [D -> S] : Good(bound + 1, f)
  <2>1. bound + 1 \in Nat /\ bound + 1 \notin T
    <3> HIDE DEF T
    <3> QED BY <1>1
  <2> HIDE DEF Good
  <2>2. ASSUME NEW k \in Nat, k \notin T
        PROVE  \E f \in [D -> S] : Good(k, f)
    BY <2>2, Zenon
  <2> QED BY <2>1, <2>2
<1>3. \A x \in D : rank[x] < bound + 1
  OBVIOUS
<1> QED BY <1>2, <1>3

-----------------------------------------------------------------------------
(* The working calendar.                                                    *)

(* What validateProject lets pass. *)
Usable(calendar) ==
  /\ calendar \in Calendar
  /\ calendar.weekdays # {}
  /\ IsFiniteSet(calendar.holidays) /\ Cardinality(calendar.holidays) <= 366

(* From this day on, every seventh day is that weekday. *)
Weekly(w, e) == \A k \in Nat : (e + 7 * k) % 7 = w

LEMMA WeekdayComes ==
  ASSUME NEW w \in 0..6, NEW day \in Nat
  PROVE  \E e \in day..(day + 6) : Weekly(w, e)
<1> DEFINE r == day % 7
           e == IF w >= r THEN day + (w - r) ELSE day + (w - r + 7)
<1>1. r \in 0..6 /\ day = 7 * (day \div 7) + r /\ day \div 7 \in Int
  OBVIOUS
<1>2. e \in day..(day + 6)
  BY <1>1
<1>3. \A k \in Nat : (e + 7 * k) % 7 = w
  BY <1>1
<1> HIDE DEF e
<1> QED BY <1>2, <1>3 DEF Weekly

(* One of 367 weeks has its weekday free. *)
LEMMA WorkdayExists ==
  ASSUME NEW calendar, Usable(calendar), NEW day \in Nat
  PROVE  \E e \in day..(day + 3659) : Working(calendar, e)
<1> SUFFICES ASSUME \A e \in day..(day + 3659) : ~Working(calendar, e) PROVE FALSE
  OBVIOUS
<1>1. PICK w \in calendar.weekdays : w \in 0..6
  BY DEF Usable, Calendar
<1>2. PICK e \in day..(day + 6) : Weekly(w, e)
  BY <1>1, WeekdayComes
<1> DEFINE weeks == 0..366
           f == [k \in weeks |-> e + 7 * k]
<1>3. ASSUME NEW k \in 0..366
      PROVE  e + 7 * k \in calendar.holidays
  <2>1. e + 7 * k \in day..(day + 3659)
    OBVIOUS
  <2> QED BY <1>1, <1>2, <2>1 DEF Working, Weekly
<1>4. f \in [weeks -> calendar.holidays]
  BY <1>3
<1>5. IsFiniteSet(weeks) /\ Cardinality(weeks) = 367
  <2>1. PICK last \in Nat : last = 366
    OBVIOUS
  <2>2. IsFiniteSet(0..last) /\ Cardinality(0..last) = last + 1
    BY FS_Interval
  <2> QED BY <2>1, <2>2
<1>6. IsFiniteSet(calendar.holidays) /\ Cardinality(calendar.holidays) < Cardinality(weeks)
  BY <1>5, FS_CardinalityType DEF Usable
<1>7. \A x, y \in weeks : f[x] = f[y] => x = y
  OBVIOUS
<1> HIDE DEF f, weeks
<1>8. \E x, y \in weeks : x # y /\ f[x] = f[y]
  BY <1>4, <1>5, <1>6, FS_PigeonHole
<1> QED BY <1>7, <1>8

(* The search for a working day ends with the first one: a calendar that validateProject
   let pass has one in ten years, and workday never throws (schedule.ts:9,
   project-validation.ts:12). *)
THEOREM WorkdayFound ==
  ASSUME NEW calendar, Usable(calendar), NEW day \in Nat
  PROVE  LET found == Workday(calendar, day)
         IN  /\ found \in day..(day + 3659)
             /\ Working(calendar, found)
             /\ \A e \in day..(found - 1) : ~Working(calendar, e)
<1> DEFINE T == {e \in day..(day + 3659) : Working(calendar, e)}
<1>1. T \in SUBSET Nat /\ T # {}
  <2>1. T # {}
    BY WorkdayExists
  <2> QED BY <2>1
<1>2. PICK d \in T : \A e \in T : d <= e
  <2> HIDE DEF T
  <2> QED BY <1>1, LeastNumber
<1>3. \A e \in day..(d - 1) : e \in day..(day + 3659) /\ ~(d <= e)
  OBVIOUS
<1>4. \A e \in day..(d - 1) : ~Working(calendar, e)
  BY <1>2, <1>3
<1> HIDE DEF T
<1>5. d \in day..(day + 3659) /\ Working(calendar, d)
  BY <1>2 DEF T
<1> QED BY <1>4, <1>5 DEF Workday

LEMMA WorkdayType ==
  ASSUME NEW calendar, Usable(calendar), NEW day \in Nat
  PROVE  /\ Workday(calendar, day) \in Nat
         /\ day <= Workday(calendar, day)
         /\ Working(calendar, Workday(calendar, day))
  BY WorkdayFound

LEMMA WorkdayFirst ==
  ASSUME NEW calendar, Usable(calendar), NEW day \in Nat,
         NEW e \in Nat, day <= e, Working(calendar, e)
  PROVE  Workday(calendar, day) <= e
<1> DEFINE x == Workday(calendar, day)
<1>1. x \in Nat /\ \A f \in day..(x - 1) : ~Working(calendar, f)
  BY WorkdayFound
<1> HIDE DEF x
<1>2. e < x => e \in day..(x - 1)
  BY <1>1
<1>3. ~(e < x)
  BY <1>1, <1>2
<1> QED BY <1>1, <1>3 DEF x

(* A later day does not have an earlier working day. *)
LEMMA WorkdayGrows ==
  ASSUME NEW calendar, Usable(calendar), NEW a \in Nat, NEW b \in Nat, a <= b
  PROVE  Workday(calendar, a) <= Workday(calendar, b)
<1>1. Workday(calendar, b) \in Nat /\ a <= Workday(calendar, b)
  BY WorkdayType
<1>2. Working(calendar, Workday(calendar, b))
  BY WorkdayType
<1> QED BY <1>1, <1>2, WorkdayFirst

(* Working days from one day to another. *)
Between(calendar, from, to) == Cardinality({day \in from..to : Working(calendar, day)})

LEMMA LongerBetween ==
  ASSUME NEW calendar, NEW a \in Nat, NEW b \in Nat, NEW c \in Nat, NEW d \in Nat,
         a <= b, c <= d
  PROVE  /\ Between(calendar, a, d) \in Nat
         /\ Between(calendar, b, c) \in Nat
         /\ Between(calendar, b, c) <= Between(calendar, a, d)
<1> DEFINE S(from, to) == {day \in from..to : Working(calendar, day)}
<1>1. S(b, c) \in SUBSET S(a, d)
  OBVIOUS
<1>2. IsFiniteSet(a..d) /\ S(a, d) \in SUBSET (a..d)
  BY FS_Interval
<1>3. IsFiniteSet(S(a, d))
  BY <1>2, FS_Subset
<1>4. IsFiniteSet(S(b, c)) /\ Cardinality(S(b, c)) <= Cardinality(S(a, d))
  BY <1>1, <1>3, FS_Subset
<1> QED BY <1>3, <1>4, FS_CardinalityType DEF Between

LEMMA OneMore ==
  ASSUME NEW calendar, NEW start \in Nat, NEW d \in Nat, NEW e \in Nat, start <= d, d < e,
         Working(calendar, e)
  PROVE  Between(calendar, start, e) >= Between(calendar, start, d) + 1
<1> DEFINE S(to) == {day \in start..to : Working(calendar, day)}
<1>1. IsFiniteSet(start..e)
  BY FS_Interval
<1>2. IsFiniteSet(S(e)) /\ IsFiniteSet(S(d))
  <2>1. S(e) \in SUBSET (start..e) /\ S(d) \in SUBSET (start..e)
    OBVIOUS
  <2> HIDE DEF S
  <2> QED BY <1>1, <2>1, FS_Subset
<1>3. S(d) \cup {e} \in SUBSET S(e) /\ e \notin S(d)
  OBVIOUS
<1> HIDE DEF S
<1>4. Cardinality(S(d) \cup {e}) = Cardinality(S(d)) + 1
  BY <1>2, <1>3, FS_AddElement
<1>5. Cardinality(S(d) \cup {e}) <= Cardinality(S(e))
  BY <1>2, <1>3, FS_Subset
<1>6. Cardinality(S(d)) \in Nat /\ Cardinality(S(e)) \in Nat
  BY <1>2, FS_CardinalityType
<1> QED BY <1>4, <1>5, <1>6 DEF Between, S

(* The next working day adds one to the count. *)
LEMMA NextOne ==
  ASSUME NEW calendar, NEW start \in Nat, NEW d \in Nat, NEW e \in Nat, start <= d, d < e,
         Working(calendar, e), \A x \in Nat : d < x /\ Working(calendar, x) => e <= x
  PROVE  Between(calendar, start, e) = Between(calendar, start, d) + 1
<1> DEFINE S(to) == {day \in start..to : Working(calendar, day)}
<1>1. IsFiniteSet(S(d))
  <2>1. IsFiniteSet(start..d) /\ S(d) \in SUBSET (start..d)
    BY FS_Interval
  <2> HIDE DEF S
  <2> QED BY <2>1, FS_Subset
<1>2. ASSUME NEW x \in S(e), x # e
      PROVE  x \in S(d)
  <2>1. x \in Nat /\ start <= x /\ x < e /\ Working(calendar, x)
    BY <1>2
  <2>2. ~(d < x)
    BY <2>1
  <2> QED BY <2>1, <2>2
<1>3. S(d) \cup {e} \in SUBSET S(e) /\ e \notin S(d)
  OBVIOUS
<1>4. S(e) = S(d) \cup {e}
  <2> HIDE DEF S
  <2> QED BY <1>2, <1>3
<1> HIDE DEF S
<1>5. Cardinality(S(d) \cup {e}) = Cardinality(S(d)) + 1
  BY <1>1, <1>3, FS_AddElement
<1> QED BY <1>4, <1>5 DEF Between, S

(* The recursion of WorkEnd has a solution. *)
LEMMA WorkEndSolved ==
  ASSUME NEW calendar, Usable(calendar), NEW start \in Nat, NEW days \in Nat \ {0}
  PROVE  \E end : /\ WorkEnd(calendar, start, days) = end[days]
                  /\ end[1] = start
                  /\ \A i \in 2..days : end[i] = Workday(calendar, end[i - 1] + 1)
<1> DEFINE D == 1..days
           next(g, i) == IF i = 1 THEN start ELSE Workday(calendar, g[i - 1] + 1)
           step == [i \in D |-> [g \in [D -> Nat] |-> next(g, i)]]
           rank == [i \in D |-> i]
<1>1. ASSUME NEW g \in [D -> Nat], NEW i \in D
      PROVE  next(g, i) \in Nat
  <2>1. CASE i = 1
    BY <2>1
  <2>2. CASE i # 1
    <3>1. g[i - 1] + 1 \in Nat
      BY <2>2
    <3>2. Workday(calendar, g[i - 1] + 1) \in Nat
      BY <3>1, WorkdayType
    <3> QED BY <2>2, <3>2
  <2> QED BY <2>1, <2>2
<1>2. PICK f \in [D -> Nat] : \A i \in D : f[i] = next(f, i)
  <2>1. step \in [D -> [[D -> Nat] -> Nat]]
    BY <1>1
  <2>2. rank \in [D -> 0..days] /\ \A i \in D : rank[i] = i
    OBVIOUS
  <2>3. \A i \in D, g \in [D -> Nat] : step[i][g] = next(g, i)
    OBVIOUS
  <2>4. ASSUME NEW i \in D, NEW g \in [D -> Nat], NEW h \in [D -> Nat],
               \A j \in D : rank[j] < rank[i] => g[j] = h[j]
        PROVE  step[i][g] = step[i][h]
    <3>1. i # 1 => g[i - 1] = h[i - 1]
      BY <2>2, <2>4
    <3>2. next(g, i) = next(h, i)
      BY <3>1
    <3> QED BY <2>3, <3>2
  <2> HIDE DEF step, rank, D, next
  <2>5. Descends(D, Nat, rank, days, step)
    BY <2>1, <2>2, <2>4 DEF Local, Descends
  <2>6. \E f \in [D -> Nat] : \A i \in D : f[i] = step[i][f]
    BY <2>5, Recursion
  <2> QED BY <2>3, <2>6
<1>3. f = [i \in 1..days |-> IF i = 1 THEN start ELSE Workday(calendar, f[i - 1] + 1)]
  BY <1>2
<1>4. PICK end : /\ end = [i \in 1..days |->
                            IF i = 1 THEN start ELSE Workday(calendar, end[i - 1] + 1)]
                 /\ WorkEnd(calendar, start, days) = end[days]
  BY <1>3 DEF WorkEnd
<1>5. /\ end[1] = start
      /\ \A i \in 2..days : end[i] = Workday(calendar, end[i - 1] + 1)
  BY <1>4
<1> QED BY <1>4, <1>5

(* The work of so many days takes so many working days. *)
LEMMA WorkEndCounts ==
  ASSUME NEW calendar, Usable(calendar), NEW start \in Nat, Working(calendar, start),
         NEW days \in Nat \ {0}
  PROVE  LET last == WorkEnd(calendar, start, days)
         IN  /\ last \in Nat /\ start <= last
             /\ Working(calendar, last)
             /\ Between(calendar, start, last) = days
<1> DEFINE D == 1..days
<1>5. PICK end : /\ WorkEnd(calendar, start, days) = end[days]
                 /\ end[1] = start
                 /\ \A i \in 2..days : end[i] = Workday(calendar, end[i - 1] + 1)
  BY WorkEndSolved
<1> DEFINE Fine(i) == /\ end[i] \in Nat /\ start <= end[i]
                      /\ Working(calendar, end[i])
                      /\ Between(calendar, start, end[i]) = i
           T == {i \in D : ~Fine(i)}
<1>6. T = {}
  <2> SUFFICES ASSUME T # {} PROVE FALSE
    OBVIOUS
  <2>1. PICK i \in T : \A j \in T : i <= j
    <3>1. T \in SUBSET Nat
      OBVIOUS
    <3> HIDE DEF T
    <3> QED BY <3>1, LeastNumber
  <2>2. i \in D /\ ~Fine(i)
    OBVIOUS
  <2>3. CASE i = 1
    <3>1. {day \in start..start : Working(calendar, day)} = {start}
      OBVIOUS
    <3>2. Between(calendar, start, start) = 1
      BY <3>1, FS_Singleton DEF Between
    <3> QED BY <1>5, <2>2, <2>3, <3>2
  <2>4. CASE i # 1
    <3>1. i - 1 \in D /\ i \in 2..days /\ ~(i <= i - 1)
      BY <2>2, <2>4
    <3>2. Fine(i - 1)
      BY <2>1, <3>1
    <3> DEFINE d == end[i - 1]
               e == end[i]
    <3>3. /\ d \in Nat /\ start <= d
          /\ e = Workday(calendar, d + 1)
          /\ Between(calendar, start, d) = i - 1
      BY <1>5, <3>1, <3>2
    <3> HIDE DEF d, e
    <3>4. e \in Nat /\ d + 1 <= e /\ Working(calendar, e)
      BY <3>3, WorkdayType
    <3>5. \A x \in Nat : d < x /\ Working(calendar, x) => e <= x
      <4>1. \A x \in Nat : d < x => d + 1 <= x
        BY <3>3
      <4>2. d + 1 \in Nat
        BY <3>3
      <4> QED BY <3>3, <4>1, <4>2, WorkdayFirst
    <3>6. Between(calendar, start, e) = Between(calendar, start, d) + 1
      BY <3>3, <3>4, <3>5, NextOne
    <3>7. Between(calendar, start, e) = i /\ start <= e
      BY <3>1, <3>3, <3>4, <3>6
    <3> QED BY <2>2, <3>4, <3>7 DEF e
  <2> QED BY <2>3, <2>4
<1>7. Fine(days)
  BY <1>6
<1> QED BY <1>5, <1>7

(* Work that starts later does not end earlier. *)
LEMMA WorkEndGrows ==
  ASSUME NEW calendar, Usable(calendar), NEW a \in Nat, NEW b \in Nat, a <= b,
         NEW days \in Nat \ {0}
  PROVE  WorkEnd(calendar, a, days) <= WorkEnd(calendar, b, days)
<1>1. PICK x : /\ WorkEnd(calendar, a, days) = x[days]
               /\ x[1] = a
               /\ \A i \in 2..days : x[i] = Workday(calendar, x[i - 1] + 1)
  BY WorkEndSolved
<1>2. PICK y : /\ WorkEnd(calendar, b, days) = y[days]
               /\ y[1] = b
               /\ \A i \in 2..days : y[i] = Workday(calendar, y[i - 1] + 1)
  BY WorkEndSolved
<1> DEFINE Fine(i) == x[i] \in Nat /\ y[i] \in Nat /\ x[i] <= y[i]
           T == {i \in 1..days : ~Fine(i)}
<1>3. T = {}
  <2> SUFFICES ASSUME T # {} PROVE FALSE
    OBVIOUS
  <2>1. PICK i \in T : \A j \in T : i <= j
    <3>1. T \in SUBSET Nat
      OBVIOUS
    <3> HIDE DEF T
    <3> QED BY <3>1, LeastNumber
  <2>2. i \in 1..days /\ ~Fine(i)
    OBVIOUS
  <2>3. i # 1
    BY <1>1, <1>2, <2>2
  <2>4. i - 1 \in 1..days /\ i \in 2..days /\ ~(i <= i - 1)
    BY <2>2, <2>3
  <2>5. Fine(i - 1)
    BY <2>1, <2>4
  <2>6. /\ x[i] = Workday(calendar, x[i - 1] + 1)
        /\ y[i] = Workday(calendar, y[i - 1] + 1)
    BY <1>1, <1>2, <2>4
  <2>7. /\ x[i - 1] + 1 \in Nat /\ y[i - 1] + 1 \in Nat
        /\ x[i - 1] + 1 <= y[i - 1] + 1
    BY <2>5
  <2>8. ASSUME NEW e \in Nat, NEW f \in Nat, e <= f
        PROVE  /\ Workday(calendar, e) \in Nat /\ Workday(calendar, f) \in Nat
               /\ Workday(calendar, e) <= Workday(calendar, f)
    BY <2>8, WorkdayType, WorkdayGrows
  <2>9. Fine(i)
    BY <2>6, <2>7, <2>8
  <2> QED BY <2>2, <2>9
<1>4. Fine(days)
  BY <1>3
<1> QED BY <1>1, <1>2, <1>4

-----------------------------------------------------------------------------
(* The estimate of one node.                                                *)

LEMMA ImageFinite ==
  ASSUME NEW S, IsFiniteSet(S), NEW f
  PROVE  IsFiniteSet({f[x] : x \in S})
<1> DEFINE T == {f[x] : x \in S}
           g == [x \in S |-> f[x]]
<1>1. g \in Surjection(S, T)
  BY DEF Surjection
<1> HIDE DEF g, T
<1>2. IsFiniteSet(T)
  BY <1>1, FS_Surjection
<1> QED BY <1>2 DEF T

LEMMA RemainingType ==
  ASSUME NEW row, row.duration \in Nat, row.percent \in Int
  PROVE  Remaining(row) \in Nat \ {0}
<1> DEFINE days == (row.duration * (100 - row.percent) + 99) \div 100
<1>1. days \in Int
  OBVIOUS
<1> HIDE DEF days
<1>2. Max({1, days}) = IF days > 1 THEN days ELSE 1
  BY <1>1 DEF Max
<1> QED BY <1>1, <1>2 DEF Remaining, days

LEMMA BoundariesFinite ==
  ASSUME NEW row \in NodeRow, NEW asOf \in Nat, NEW ends \in SUBSET Nat, IsFiniteSet(ends)
  PROVE  LET B == Boundaries(row, asOf, ends)
         IN  B \in SUBSET Nat /\ IsFiniteSet(B) /\ asOf \in B
<1> DEFINE later == [e \in ends |-> e + 1]
           after == {later[e] : e \in ends}
           given == {row.planned, row.eta}
<1>1. IsFiniteSet(after)
  <2> HIDE DEF later
  <2> QED BY ImageFinite
<1>2. after = {e + 1 : e \in ends} /\ after \in SUBSET Nat
  OBVIOUS
<1>3. IsFiniteSet(Given(given)) /\ Given(given) \in SUBSET Nat
  <2>1. IsFiniteSet({row.planned} \cup {row.eta})
    BY FS_Singleton, FS_Union
  <2>2. given = {row.planned} \cup {row.eta}
    OBVIOUS
  <2>3. IsFiniteSet(given)
    BY <2>1, <2>2
  <2>4. Given(given) \in SUBSET given
    BY DEF Given
  <2>5. Given(given) \in SUBSET Nat
    BY DEF Given, NodeRow, DateOrNone
  <2> HIDE DEF given
  <2> QED BY <2>3, <2>4, <2>5, FS_Subset
<1>4. IsFiniteSet({asOf})
  BY FS_Singleton
<1>5. Boundaries(row, asOf, ends) = ({asOf} \cup after) \cup Given(given)
  BY <1>2 DEF Boundaries
<1> HIDE DEF after, given
<1>6. IsFiniteSet({asOf} \cup after)
  BY <1>1, <1>4, FS_Union
<1>7. IsFiniteSet(({asOf} \cup after) \cup Given(given))
  BY <1>3, <1>6, FS_Union
<1> QED BY <1>2, <1>3, <1>5, <1>7

(* The estimate is a working day that leaves, after each of its boundaries, the working
   days that the rest of the work takes. *)
LEMMA EstimateFits ==
  ASSUME NEW plan \in OrderRow, NEW n \in Nodes, Usable(plan.calendar),
         plan.node[n].duration \in Nat,
         NEW asOf \in Nat, NEW ends \in SUBSET Nat, IsFiniteSet(ends)
  PROVE  LET row == plan.node[n]
             day == Estimate(plan, n, asOf, ends)
         IN  /\ day \in Nat
             /\ Working(plan.calendar, day)
             /\ \A b \in Boundaries(row, asOf, ends) :
                  Between(plan.calendar, b, day) >= Remaining(row)
             /\ row.expected # None => row.expected <= day
<1> DEFINE row == plan.node[n]
           calendar == plan.calendar
           B == Boundaries(row, asOf, ends)
           first == Max(B)
           start == Workday(calendar, first)
           last == WorkEnd(calendar, start, Remaining(row))
           day == Estimate(plan, n, asOf, ends)
<1>1. row \in NodeRow /\ row.expected \in DateOrNone /\ row.percent \in Int
  BY DEF OrderRow, NodeRow
<1>2. Remaining(row) \in Nat \ {0}
  BY <1>1, RemainingType
<1>3. B \in SUBSET Nat /\ IsFiniteSet(B) /\ asOf \in B
  BY <1>1, BoundariesFinite
<1>4. day = IF row.expected = None THEN last
                                   ELSE Workday(calendar, Max({last, row.expected}))
  BY DEF Estimate
<1> HIDE DEF row, calendar, B, day
<1>5. first \in Nat /\ \A b \in B : b <= first
  BY <1>3, MaxOf
<1> HIDE DEF first
<1>6. Usable(calendar)
  BY DEF calendar
<1>7. start \in Nat /\ first <= start /\ Working(calendar, start)
  BY <1>5, <1>6, WorkdayType
<1> HIDE DEF start
<1>8. /\ last \in Nat /\ start <= last
      /\ Working(calendar, last)
      /\ Between(calendar, start, last) >= Remaining(row)
  BY <1>2, <1>6, <1>7, WorkEndCounts
<1> HIDE DEF last
<1>9. /\ day \in Nat /\ last <= day
      /\ Working(calendar, day)
      /\ row.expected # None => row.expected <= day
  <2>1. CASE row.expected = None
    BY <1>4, <1>8, <2>1
  <2>2. CASE row.expected # None
    <3> DEFINE later == Max({last, row.expected})
    <3>1. row.expected \in Nat
      BY <1>1, <2>2 DEF DateOrNone
    <3>2. later = IF last >= row.expected THEN last ELSE row.expected
      BY <1>8, <3>1 DEF Max
    <3>3. later \in Nat /\ last <= later /\ row.expected <= later
      BY <1>8, <3>1, <3>2
    <3> HIDE DEF later
    <3>4. day = Workday(calendar, later)
      BY <1>4, <2>2 DEF later
    <3>5. day \in Nat /\ later <= day /\ Working(calendar, day)
      BY <1>6, <3>3, <3>4, WorkdayType
    <3> QED BY <1>8, <3>1, <3>3, <3>5
  <2> QED BY <2>1, <2>2
<1>10. ASSUME NEW b \in B
       PROVE  Between(calendar, b, day) >= Remaining(row)
  <2>1. b \in Nat /\ b <= start
    BY <1>3, <1>5, <1>7
  <2>2. /\ Between(calendar, b, day) \in Nat
        /\ Between(calendar, start, last) \in Nat
        /\ Between(calendar, start, last) <= Between(calendar, b, day)
    BY <1>7, <1>8, <1>9, <2>1, LongerBetween
  <2> QED BY <1>2, <1>8, <2>2
<1> QED BY <1>9, <1>10 DEF row, calendar, B, day

(* No earlier working day leaves the days that the work takes. *)
LEMMA EstimateFirst ==
  ASSUME NEW plan \in OrderRow, NEW n \in Nodes, Usable(plan.calendar),
         plan.node[n].duration \in Nat,
         NEW asOf \in Nat, NEW ends \in SUBSET Nat, IsFiniteSet(ends),
         NEW e \in Nat, e < Estimate(plan, n, asOf, ends), Working(plan.calendar, e),
         plan.node[n].expected # None => plan.node[n].expected <= e
  PROVE  \E b \in Boundaries(plan.node[n], asOf, ends) :
           Between(plan.calendar, b, e) < Remaining(plan.node[n])
<1> DEFINE row == plan.node[n]
           calendar == plan.calendar
           B == Boundaries(row, asOf, ends)
           first == Max(B)
           start == Workday(calendar, first)
           last == WorkEnd(calendar, start, Remaining(row))
           day == Estimate(plan, n, asOf, ends)
<1>1. row \in NodeRow /\ row.expected \in DateOrNone /\ row.percent \in Int
  BY DEF OrderRow, NodeRow
<1>2. Remaining(row) \in Nat \ {0}
  BY <1>1, RemainingType
<1>3. B \in SUBSET Nat /\ IsFiniteSet(B) /\ asOf \in B
  BY <1>1, BoundariesFinite
<1>4. /\ day = IF row.expected = None THEN last
                                      ELSE Workday(calendar, Max({last, row.expected}))
      /\ e < day /\ Working(calendar, e) /\ (row.expected # None => row.expected <= e)
  BY DEF Estimate
<1>5. Usable(calendar)
  OBVIOUS
<1> HIDE DEF row, calendar, B, day
<1>6. first \in Nat /\ first \in B
  BY <1>3, MaxOf
<1> HIDE DEF first
<1>7. /\ start \in Nat /\ first <= start /\ Working(calendar, start)
      /\ \A x \in Nat : first <= x /\ Working(calendar, x) => start <= x
  BY <1>5, <1>6, WorkdayType, WorkdayFirst
<1> HIDE DEF start
<1>8. /\ last \in Nat /\ start <= last /\ Working(calendar, last)
      /\ Between(calendar, start, last) = Remaining(row)
  BY <1>2, <1>5, <1>7, WorkEndCounts
<1> HIDE DEF last
<1>9. e < last
  <2>1. CASE row.expected = None
    BY <1>4, <2>1
  <2>2. CASE row.expected # None
    <3> DEFINE later == Max({last, row.expected})
    <3>1. row.expected \in Nat
      BY <1>1, <2>2 DEF DateOrNone
    <3>2. later = IF last >= row.expected THEN last ELSE row.expected
      BY <1>8, <3>1 DEF Max
    <3>3. later \in Nat /\ row.expected <= e
      BY <1>4, <1>8, <2>2, <3>1, <3>2
    <3> HIDE DEF later
    <3>4. day = Workday(calendar, later)
      BY <1>4, <2>2 DEF later
    <3>5. day \in Nat
      BY <1>5, <3>3, <3>4, WorkdayType
    <3>6. ~(later <= e)
      <4>1. later <= e => day <= e
        BY <1>4, <1>5, <3>3, <3>4, WorkdayFirst
      <4> QED BY <1>4, <3>5, <4>1
    <3> QED BY <1>8, <3>1, <3>2, <3>3, <3>6
  <2> QED BY <2>1, <2>2
<1>10. Between(calendar, first, last) = Remaining(row)
  <2>1. ASSUME NEW x \in first..last, Working(calendar, x)
        PROVE  x \in start..last
    <3>1. x \in Nat /\ first <= x /\ x <= last
      BY <1>6, <1>8, <2>1
    <3>2. start <= x
      BY <1>7, <2>1, <3>1
    <3> QED BY <1>7, <1>8, <3>1, <3>2
  <2>2. {x \in first..last : Working(calendar, x)} = {x \in start..last : Working(calendar, x)}
    BY <1>6, <1>7, <1>8, <2>1
  <2> QED BY <1>8, <2>2 DEF Between
<1>11. Between(calendar, first, e) < Remaining(row)
  <2>1. CASE first <= e
    <3>1. Between(calendar, first, last) >= Between(calendar, first, e) + 1
      BY <1>6, <1>8, <1>9, <2>1, OneMore
    <3>2. Between(calendar, first, e) \in Nat
      BY <1>6, LongerBetween
    <3> QED BY <1>2, <1>10, <3>1, <3>2
  <2>2. CASE ~(first <= e)
    <3>1. {x \in first..e : Working(calendar, x)} = {}
      BY <1>6, <2>2
    <3>2. Between(calendar, first, e) = 0
      BY <3>1, FS_EmptySet DEF Between
    <3> QED BY <1>2, <3>2
  <2> QED BY <2>1, <2>2
<1> QED BY <1>6, <1>11 DEF row, calendar, B

(* Of two finite sets of numbers, the one that exceeds every number of the other has the
   greater maximum. *)
LEMMA MaxGrows ==
  ASSUME NEW S \in SUBSET Nat, IsFiniteSet(S), S # {},
         NEW T \in SUBSET Nat, IsFiniteSet(T), T # {},
         \A x \in S : \E y \in T : x <= y
  PROVE  Max(S) \in Nat /\ Max(T) \in Nat /\ Max(S) <= Max(T)
<1> DEFINE a == Max(S)
           b == Max(T)
<1>1. a \in S
  BY MaxOf
<1>2. b \in T /\ \A y \in T : y <= b
  BY MaxOf
<1> HIDE DEF a, b
<1>3. PICK y \in T : a <= y
  BY <1>1
<1>4. a \in Nat /\ b \in Nat /\ y \in Nat /\ y <= b
  BY <1>1, <1>2
<1>5. a <= b
  BY <1>3, <1>4
<1> QED BY <1>4, <1>5 DEF a, b

(* The later the evaluation and the dependencies, the later the estimate. *)
LEMMA EstimateGrows ==
  ASSUME NEW plan \in OrderRow, NEW n \in Nodes, Usable(plan.calendar),
         plan.node[n].duration \in Nat,
         NEW a \in Nat, NEW b \in Nat, a <= b,
         NEW before \in SUBSET Nat, IsFiniteSet(before),
         NEW after \in SUBSET Nat, IsFiniteSet(after),
         \A e \in before : \E f \in after : e <= f
  PROVE  /\ Estimate(plan, n, a, before) \in Nat
         /\ Estimate(plan, n, b, after) \in Nat
         /\ Estimate(plan, n, a, before) <= Estimate(plan, n, b, after)
<1> DEFINE row == plan.node[n]
           calendar == plan.calendar
           A == Boundaries(row, a, before)
           B == Boundaries(row, b, after)
           last(S) == WorkEnd(calendar, Workday(calendar, Max(S)), Remaining(row))
           later(S) == Max({last(S), row.expected})
<1>1. row \in NodeRow /\ row.expected \in DateOrNone /\ row.percent \in Int
  BY DEF OrderRow, NodeRow
<1>2. Remaining(row) \in Nat \ {0}
  BY <1>1, RemainingType
<1>3. /\ A \in SUBSET Nat /\ IsFiniteSet(A) /\ a \in A
      /\ B \in SUBSET Nat /\ IsFiniteSet(B) /\ b \in B
  BY <1>1, BoundariesFinite
<1>4. ASSUME NEW x \in A
      PROVE  \E y \in B : x <= y
  <2>1. CASE x = a
    BY <1>3, <2>1
  <2>2. CASE \E e \in before : x = e + 1
    <3>1. PICK e \in before : x = e + 1
      BY <2>2
    <3>2. PICK f \in after : e <= f
      OBVIOUS
    <3>3. f + 1 \in B /\ x <= f + 1
      BY <3>1, <3>2 DEF Boundaries
    <3> QED BY <3>3
  <2>3. CASE x \in Given({row.planned, row.eta})
    <3>1. x \in B /\ x \in Nat
      BY <1>3, <2>3 DEF Boundaries
    <3> QED BY <3>1
  <2> QED BY <2>1, <2>2, <2>3 DEF Boundaries
<1>5. /\ Estimate(plan, n, a, before) =
           IF row.expected = None THEN last(A) ELSE Workday(calendar, later(A))
      /\ Estimate(plan, n, b, after) =
           IF row.expected = None THEN last(B) ELSE Workday(calendar, later(B))
  BY DEF Estimate
<1>6. Usable(calendar)
  OBVIOUS
<1> HIDE DEF row, calendar, A, B
<1>7. Max(A) \in Nat /\ Max(B) \in Nat /\ Max(A) <= Max(B)
  BY <1>3, <1>4, MaxGrows
<1>8. /\ Workday(calendar, Max(A)) \in Nat /\ Working(calendar, Workday(calendar, Max(A)))
      /\ Workday(calendar, Max(B)) \in Nat /\ Working(calendar, Workday(calendar, Max(B)))
      /\ Workday(calendar, Max(A)) <= Workday(calendar, Max(B))
  BY <1>6, <1>7, WorkdayType, WorkdayGrows
<1>9. last(A) \in Nat /\ last(B) \in Nat /\ last(A) <= last(B)
  BY <1>2, <1>6, <1>8, WorkEndCounts, WorkEndGrows
<1> HIDE DEF last
<1>10. CASE row.expected = None
  BY <1>5, <1>9, <1>10
<1>11. CASE row.expected # None
  <2>1. row.expected \in Nat
    BY <1>1, <1>11 DEF DateOrNone
  <2>2. /\ later(A) = IF last(A) >= row.expected THEN last(A) ELSE row.expected
        /\ later(B) = IF last(B) >= row.expected THEN last(B) ELSE row.expected
    BY <1>9, <2>1 DEF Max
  <2>3. later(A) \in Nat /\ later(B) \in Nat /\ later(A) <= later(B)
    BY <1>9, <2>1, <2>2
  <2> HIDE DEF later
  <2> QED BY <1>5, <1>6, <1>11, <2>3, WorkdayType, WorkdayGrows
<1> QED BY <1>10, <1>11

-----------------------------------------------------------------------------
(* The recursions over the nodes being visited.                             *)

(* Of the sets of nodes in a collection, one is in it with none of its larger
   neighbours. *)
LEMMA Outermost ==
  ASSUME NEW B \in SUBSET (SUBSET Nodes), B # {}
  PROVE  \E v \in B : \A n \in Nodes \ v : v \cup {n} \notin B
<1> DEFINE T == {Cardinality(v) : v \in B}
<1>1. \A v \in SUBSET Nodes : IsFiniteSet(v) /\ Cardinality(v) \in 0..Cardinality(Nodes)
  <2> SUFFICES ASSUME NEW v \in SUBSET Nodes
               PROVE  IsFiniteSet(v) /\ Cardinality(v) \in 0..Cardinality(Nodes)
    OBVIOUS
  <2>1. IsFiniteSet(v) /\ Cardinality(v) <= Cardinality(Nodes)
    BY NodesAssumption, FS_Subset
  <2> QED BY <2>1, NodesAssumption, FS_CardinalityType
<1>2. T \in SUBSET Nat /\ T # {} /\ \A k \in T : k <= Cardinality(Nodes)
  BY <1>1
<1>3. \E k \in T : \A l \in T : l <= k
  <2>1. Cardinality(Nodes) \in Nat
    BY NodesAssumption, FS_CardinalityType
  <2> HIDE DEF T
  <2>2. IsFiniteSet(T)
    BY <1>2, <2>1, FS_BoundedSetOfNaturals
  <2> QED BY <1>2, <2>2, Greatest
<1>4. PICK v \in B : \A w \in B : Cardinality(w) <= Cardinality(v)
  BY <1>3
<1>5. ASSUME NEW n \in Nodes \ v, v \cup {n} \in B
      PROVE  FALSE
  <2>1. Cardinality(v \cup {n}) = Cardinality(v) + 1 /\ Cardinality(v) \in Nat
    BY <1>1, FS_AddElement
  <2>2. Cardinality(v \cup {n}) <= Cardinality(v)
    BY <1>4, <1>5
  <2> QED BY <2>1, <2>2
<1> QED BY <1>5

(* A recursion that asks for more nodes being visited has a solution. *)
Outside == [v \in SUBSET Nodes |-> Cardinality(Nodes \ v)]

LEMMA OutsideType ==
  /\ Cardinality(Nodes) \in Nat
  /\ Outside \in [SUBSET Nodes -> 0..Cardinality(Nodes)]
  /\ \A v \in SUBSET Nodes : \A n \in Nodes \ v : Outside[v \cup {n}] < Outside[v]
<1>1. Cardinality(Nodes) \in Nat
  BY NodesAssumption, FS_CardinalityType
<1>2. ASSUME NEW v \in SUBSET Nodes
      PROVE  /\ IsFiniteSet(Nodes \ v) /\ Cardinality(Nodes \ v) \in Nat
             /\ Cardinality(Nodes \ v) <= Cardinality(Nodes)
  <2>1. Nodes \ v \in SUBSET Nodes
    OBVIOUS
  <2>2. IsFiniteSet(Nodes \ v) /\ Cardinality(Nodes \ v) <= Cardinality(Nodes)
    BY <2>1, NodesAssumption, FS_Subset
  <2> QED BY <2>2, FS_CardinalityType
<1>3. ASSUME NEW v \in SUBSET Nodes, NEW n \in Nodes \ v
      PROVE  Cardinality(Nodes \ (v \cup {n})) < Cardinality(Nodes \ v)
  <2> DEFINE rest == Nodes \ v
             fewer == Nodes \ (v \cup {n})
  <2>1. fewer = rest \ {n} /\ n \in rest
    OBVIOUS
  <2>2. IsFiniteSet(rest) /\ Cardinality(rest) \in Nat
    BY <1>2
  <2> HIDE DEF rest, fewer
  <2>3. Cardinality(fewer) = Cardinality(rest) - 1
    BY <2>1, <2>2, FS_RemoveElement
  <2>4. Cardinality(fewer) < Cardinality(rest)
    BY <2>2, <2>3
  <2> QED BY <2>4 DEF rest, fewer
<1>4. Outside \in [SUBSET Nodes -> 0..Cardinality(Nodes)]
  BY <1>1, <1>2 DEF Outside
<1> QED BY <1>1, <1>3, <1>4 DEF Outside

LEMMA VisitSolved ==
  ASSUME NEW deps
  PROVE  \E f : /\ \A v \in SUBSET Nodes :
                     f[v] = {m \in Nodes \ v : \A d \in deps[m] : d \in f[v \cup {m}]}
                /\ \A n : Visit(deps, n) <=> n \in f[{}]
<1> DEFINE D == SUBSET Nodes
           next(g, v) == {m \in Nodes \ v : \A d \in deps[m] : d \in g[v \cup {m}]}
           step == [v \in D |-> [g \in [D -> D] |-> next(g, v)]]
<1>1. step \in [D -> [[D -> D] -> D]]
  OBVIOUS
<1>2. \A v \in D, g \in [D -> D] : step[v][g] = next(g, v)
  OBVIOUS
<1>3. ASSUME NEW v \in D, NEW g \in [D -> D], NEW h \in [D -> D],
             \A w \in D : Outside[w] < Outside[v] => g[w] = h[w]
      PROVE  step[v][g] = step[v][h]
  <2>1. \A m \in Nodes \ v : g[v \cup {m}] = h[v \cup {m}]
    BY <1>3, OutsideType
  <2>2. next(g, v) = next(h, v)
    BY <2>1
  <2> HIDE DEF next, step
  <2> QED BY <1>2, <2>2
<1>4. {} \in D
  OBVIOUS
<1>5. PICK f \in [D -> D] : \A v \in D : f[v] = next(f, v)
  <2> HIDE DEF step, next, D
  <2>1. Descends(D, D, Outside, Cardinality(Nodes), step)
    BY <1>1, <1>3, <1>4, OutsideType DEF Descends, Local, D
  <2> QED BY <1>2, <2>1, Recursion
<1>6. f = [v \in SUBSET Nodes |-> {m \in Nodes \ v : \A d \in deps[m] : d \in f[v \cup {m}]}]
  BY <1>5
<1>7. PICK g : /\ g = [v \in SUBSET Nodes |->
                        {m \in Nodes \ v : \A d \in deps[m] : d \in g[v \cup {m}]}]
               /\ \A n : Visit(deps, n) <=> n \in g[{}]
  BY <1>6 DEF Visit
<1> QED BY <1>7

(* Dependencies have no cycle when no nodes, however chosen, all wait for one another: of any
   of them, one depends on none of the rest. *)
Acyclic(deps) ==
  \A C \in SUBSET Nodes : C # {} => \E n \in C : deps[n] \cap C = {}

(* validateProject accepts the dependencies that have no cycle and no others
   (project-validation.ts:19-21). *)
THEOREM VisitFindsCycles ==
  ASSUME NEW deps \in [Nodes -> SUBSET Nodes]
  PROVE  (\A n \in Nodes : Visit(deps, n)) <=> Acyclic(deps)
<1>1. PICK g : /\ \A v \in SUBSET Nodes :
                    g[v] = {m \in Nodes \ v : \A d \in deps[m] : d \in g[v \cup {m}]}
               /\ \A n : Visit(deps, n) <=> n \in g[{}]
  BY VisitSolved
<1>2. ASSUME \A n \in Nodes : Visit(deps, n), NEW C \in SUBSET Nodes, C # {},
             \A n \in C : deps[n] \cap C # {}
      PROVE  FALSE
  <2> DEFINE B == {v \in SUBSET Nodes : g[v] \cap C # {}}
  <2>1. B # {}
    <3>1. {} \in SUBSET Nodes /\ g[{}] \cap C # {}
      BY <1>1, <1>2
    <3> QED BY <3>1
  <2>2. PICK v \in B : \A m \in Nodes \ v : v \cup {m} \notin B
    <3>1. B \in SUBSET (SUBSET Nodes)
      OBVIOUS
    <3> HIDE DEF B
    <3> QED BY <2>1, <3>1, Outermost
  <2>3. PICK n \in C : n \in g[v]
    OBVIOUS
  <2>4. n \in Nodes \ v /\ \A d \in deps[n] : d \in g[v \cup {n}]
    BY <1>1, <2>3
  <2>5. PICK d \in deps[n] : d \in C
    BY <1>2
  <2>6. v \cup {n} \in B
    BY <2>4, <2>5
  <2> QED BY <2>2, <2>4, <2>6
<1>3. ASSUME Acyclic(deps)
      PROVE  \A n \in Nodes : n \in g[{}]
  <2> DEFINE Path(v, n) == \A m \in v : deps[m] \cap (v \cup {n}) # {}
             B == {v \in SUBSET Nodes : \E n \in Nodes : n \notin g[v] /\ Path(v, n)}
  <2>1. B = {}
    <3> SUFFICES ASSUME B # {} PROVE FALSE
      OBVIOUS
    <3>1. PICK v \in B : \A m \in Nodes \ v : v \cup {m} \notin B
      <4>1. B \in SUBSET (SUBSET Nodes)
        OBVIOUS
      <4> HIDE DEF B
      <4> QED BY <4>1, Outermost
    <3>2. PICK n \in Nodes : n \notin g[v] /\ Path(v, n)
      OBVIOUS
    <3>3. CASE n \in v
      <4>1. v \cup {n} = v /\ v # {} /\ v \in SUBSET Nodes
        BY <3>3
      <4>2. \A m \in v : deps[m] \cap v # {}
        BY <3>2, <4>1
      <4> QED BY <1>3, <4>1, <4>2 DEF Acyclic
    <3>4. CASE n \notin v
      <4>1. PICK d \in deps[n] : d \notin g[v \cup {n}]
        BY <1>1, <3>2, <3>4
      <4>2. d \in Nodes /\ Path(v \cup {n}, d)
        BY <3>2
      <4>3. v \cup {n} \in B
        BY <4>1, <4>2
      <4> QED BY <3>1, <3>4, <4>3
    <3> QED BY <3>3, <3>4
  <2>2. ASSUME NEW n \in Nodes
        PROVE  n \in g[{}]
    <3>1. {} \in SUBSET Nodes /\ Path({}, n) /\ {} \notin B
      BY <2>1
    <3> QED BY <3>1
  <2> QED BY <2>2
<1>4. (\A n \in Nodes : Visit(deps, n)) => Acyclic(deps)
  BY <1>2 DEF Acyclic
<1> QED BY <1>1, <1>3, <1>4

(* An order that was configured was validated. *)
Plans ==
  {plan \in OrderRow :
     plan.calendar # None =>
       /\ Usable(plan.calendar)
       /\ \A n \in Nodes : /\ plan.node[n].dependencies \in SUBSET Nodes
                           /\ plan.node[n].duration \in Nat
       /\ \A n \in Nodes : Visit([m \in Nodes |-> plan.node[m].dependencies], n)}

Ends == Nat \cup {None, Invalid}

(* What finish returns is a day, None or a failure, and the failure comes from a node that
   is being visited. *)
LEMMA NodeEndType ==
  ASSUME NEW plan \in Plans, NEW asOf \in Nat, NEW n \in Nodes, NEW v, NEW end,
         n \notin v => end \in [Nodes -> Ends]
  PROVE  /\ NodeEnd(plan, asOf, n, v, end) \in Ends
         /\ n \notin v /\ (\A d \in plan.node[n].dependencies : end[d] # Invalid) =>
              NodeEnd(plan, asOf, n, v, end) # Invalid
<1> DEFINE row == plan.node[n]
           open == {d \in row.dependencies : plan.node[d].status # "accepted"}
           ends == {end[d] : d \in open}
<1>1. CASE n \in v
  BY <1>1 DEF NodeEnd, Ends
<1>2. CASE row.status = "accepted"
  <2>1. row \in NodeRow
    BY DEF Plans, OrderRow
  <2>2. row.acceptance # None => row.acceptance.at \in Nat
    BY <2>1, OrdersAssumption DEF NodeRow
  <2> QED BY <1>2, <2>2, NodesAssumption DEF NodeEnd, Ends, Invalid
<1>3. CASE row.status # "accepted" /\ ~Configured(plan, n)
  BY <1>3, <1>2, <1>1, NodesAssumption DEF NodeEnd, Ends, Invalid
<1>4. CASE n \notin v /\ row.status # "accepted" /\ Configured(plan, n)
  <2>1. /\ plan \in OrderRow /\ Usable(plan.calendar)
        /\ row.dependencies \in SUBSET Nodes /\ row.duration \in Nat
    BY <1>4 DEF Configured, Plans
  <2>2. CASE (\E d \in row.dependencies : end[d] = Invalid) \/ (\E d \in open : end[d] = None)
    BY <1>4, <2>2, NodesAssumption DEF NodeEnd, Ends, Invalid
  <2>3. CASE ~(\E d \in row.dependencies : end[d] = Invalid) /\ ~(\E d \in open : end[d] = None)
    <3>1. ends \in SUBSET Nat
      BY <1>4, <2>1, <2>3 DEF Ends
    <3>2. IsFiniteSet(ends)
      <4>1. open \in SUBSET Nodes
        BY <2>1
      <4> HIDE DEF open
      <4>2. IsFiniteSet(open)
        BY <4>1, NodesAssumption, FS_Subset
      <4> QED BY <4>2, ImageFinite
    <3>3. Estimate(plan, n, asOf, ends) \in Nat
      <4> HIDE DEF ends
      <4> QED BY <2>1, <3>1, <3>2, EstimateFits
    <3>4. NodeEnd(plan, asOf, n, v, end) \in {None, Estimate(plan, n, asOf, ends)}
      BY <1>4, <2>3 DEF NodeEnd
    <3> QED BY <3>3, <3>4, NodesAssumption DEF Ends, Invalid
  <2> QED BY <2>2, <2>3
<1> QED BY <1>1, <1>2, <1>3, <1>4

(* The function that finish computes, for every set of nodes that led to a node. *)
Solves(f, plan, asOf) ==
  /\ \A v \in SUBSET Nodes : f[v] \in [Nodes -> Ends]
  /\ \A v \in SUBSET Nodes, n \in Nodes :
       f[v][n] = NodeEnd(plan, asOf, n, v, f[v \cup {n}])

LEMMA FinishSolved ==
  ASSUME NEW plan \in Plans, NEW asOf \in Nat
  PROVE  \E f : Solves(f, plan, asOf) /\ Finish(plan, asOf) = f[{}]
<1> DEFINE D == SUBSET Nodes
           S == [Nodes -> Ends]
           next(g, v) == [n \in Nodes |-> NodeEnd(plan, asOf, n, v, g[v \cup {n}])]
           step == [v \in D |-> [g \in [D -> S] |-> next(g, v)]]
<1>1. ASSUME NEW g \in [D -> S], NEW v \in D
      PROVE  next(g, v) \in S
  <2>1. \A n \in Nodes : g[v \cup {n}] \in S
    OBVIOUS
  <2>2. \A n \in Nodes : NodeEnd(plan, asOf, n, v, g[v \cup {n}]) \in Ends
    BY <2>1, NodeEndType
  <2> QED BY <2>2
<1>2. step \in [D -> [[D -> S] -> S]]
  <2> HIDE DEF next, D, S
  <2> QED BY <1>1
<1>3. \A v \in D, g \in [D -> S] : step[v][g] = next(g, v)
  OBVIOUS
<1>4. ASSUME NEW v \in D, NEW g \in [D -> S], NEW h \in [D -> S],
             \A w \in D : Outside[w] < Outside[v] => g[w] = h[w]
      PROVE  step[v][g] = step[v][h]
  <2>1. ASSUME NEW n \in Nodes
        PROVE  NodeEnd(plan, asOf, n, v, g[v \cup {n}]) = NodeEnd(plan, asOf, n, v, h[v \cup {n}])
    <3>1. CASE n \in v
      BY <3>1 DEF NodeEnd
    <3>2. CASE n \notin v
      BY <1>4, <3>2, OutsideType
    <3> QED BY <3>1, <3>2
  <2>2. next(g, v) = next(h, v)
    BY <2>1
  <2> HIDE DEF next, step
  <2> QED BY <1>3, <2>2
<1>5. [n \in Nodes |-> None] \in S
  BY DEF Ends
<1>6. PICK f \in [D -> S] : \A v \in D : f[v] = next(f, v)
  <2> HIDE DEF step, next, D, S
  <2>1. Descends(D, S, Outside, Cardinality(Nodes), step)
    BY <1>2, <1>4, <1>5, OutsideType DEF Descends, Local, D
  <2> QED BY <1>3, <2>1, Recursion
<1>7. f = [v \in SUBSET Nodes |-> [n \in Nodes |-> NodeEnd(plan, asOf, n, v, f[v \cup {n}])]]
  BY <1>6
<1>8. PICK g : /\ g = [v \in SUBSET Nodes |->
                        [n \in Nodes |-> NodeEnd(plan, asOf, n, v, g[v \cup {n}])]]
               /\ Finish(plan, asOf) = g[{}]
  BY <1>7 DEF Finish
<1>9. \A v \in SUBSET Nodes : g[v] = next(g, v)
  BY <1>8
<1> DEFINE B == {v \in SUBSET Nodes : g[v] \notin S}
<1>10. B = {}
  <2> SUFFICES ASSUME B # {} PROVE FALSE
    OBVIOUS
  <2>1. PICK v \in B : \A n \in Nodes \ v : v \cup {n} \notin B
    <3>1. B \in SUBSET (SUBSET Nodes)
      OBVIOUS
    <3> HIDE DEF B
    <3> QED BY <3>1, Outermost
  <2>2. ASSUME NEW n \in Nodes
        PROVE  NodeEnd(plan, asOf, n, v, g[v \cup {n}]) \in Ends
    <3>1. n \notin v => g[v \cup {n}] \in S
      BY <2>1
    <3> QED BY <3>1, NodeEndType
  <2>3. next(g, v) \in S
    BY <2>2
  <2> HIDE DEF next
  <2> QED BY <1>9, <2>3
<1>11. \A v \in SUBSET Nodes : g[v] \in S
  BY <1>10
<1>12. \A v \in SUBSET Nodes, n \in Nodes :
         g[v][n] = NodeEnd(plan, asOf, n, v, g[v \cup {n}])
  BY <1>9
<1> QED BY <1>8, <1>11, <1>12 DEF Solves

(* A node that was validated has an end that is no failure. *)
LEMMA VisitedEnds ==
  ASSUME NEW plan \in Plans, plan.calendar # None, NEW asOf \in Nat,
         NEW f, Solves(f, plan, asOf)
  PROVE  \A n \in Nodes : f[{}][n] # Invalid
<1> DEFINE deps == [m \in Nodes |-> plan.node[m].dependencies]
<1>1. PICK g : /\ \A v \in SUBSET Nodes :
                    g[v] = {m \in Nodes \ v : \A d \in deps[m] : d \in g[v \cup {m}]}
               /\ \A n : Visit(deps, n) <=> n \in g[{}]
  BY VisitSolved
<1>2. \A n \in Nodes : n \in g[{}]
  BY <1>1 DEF Plans
<1> DEFINE B == {v \in SUBSET Nodes : \E n \in g[v] : f[v][n] = Invalid}
<1>3. B = {}
  <2> SUFFICES ASSUME B # {} PROVE FALSE
    OBVIOUS
  <2>1. PICK v \in B : \A n \in Nodes \ v : v \cup {n} \notin B
    <3>1. B \in SUBSET (SUBSET Nodes)
      OBVIOUS
    <3> HIDE DEF B
    <3> QED BY <3>1, Outermost
  <2>2. PICK n \in g[v] : f[v][n] = Invalid
    OBVIOUS
  <2>3. v \in SUBSET Nodes /\ n \in Nodes \ v /\ \A d \in deps[n] : d \in g[v \cup {n}]
    BY <1>1
  <2> DEFINE end == f[v \cup {n}]
  <2>4. \A d \in plan.node[n].dependencies : end[d] # Invalid
    BY <2>1, <2>3
  <2> HIDE DEF B, deps
  <2>5. /\ end \in [Nodes -> Ends] /\ n \in Nodes /\ n \notin v
        /\ f[v][n] = NodeEnd(plan, asOf, n, v, end)
    BY <2>3 DEF Solves
  <2> HIDE DEF end
  <2>6. NodeEnd(plan, asOf, n, v, end) # Invalid
    BY <2>4, <2>5, NodeEndType
  <2> QED BY <2>2, <2>5, <2>6
<1> QED BY <1>2, <1>3

(* What finish returns does not depend on the nodes that led to this one, unless it fails. *)
LEMMA SameEnd ==
  ASSUME NEW plan, NEW asOf, NEW n, NEW v, NEW w, n \notin v, n \notin w, NEW e1, NEW e2,
         plan.node[n].status # "accepted" /\ Configured(plan, n) =>
           \A d \in plan.node[n].dependencies : e1[d] = e2[d]
  PROVE  NodeEnd(plan, asOf, n, v, e1) = NodeEnd(plan, asOf, n, w, e2)
<1> DEFINE deps == plan.node[n].dependencies
           open == {d \in deps : plan.node[d].status # "accepted"}
<1>1. CASE plan.node[n].status = "accepted" \/ ~Configured(plan, n)
  BY <1>1 DEF NodeEnd
<1>2. CASE plan.node[n].status # "accepted" /\ Configured(plan, n)
  <2>1. {e1[d] : d \in open} = {e2[d] : d \in open}
    BY <1>2
  <2>2. /\ (\E d \in deps : e1[d] = Invalid) <=> (\E d \in deps : e2[d] = Invalid)
        /\ (\E d \in open : e1[d] = None) <=> (\E d \in open : e2[d] = None)
    BY <1>2
  <2> QED BY <1>2, <2>1, <2>2 DEF NodeEnd
<1> QED BY <1>1, <1>2

LEMMA PathFree ==
  ASSUME NEW plan \in Plans, NEW asOf \in Nat,
         NEW f, Solves(f, plan, asOf)
  PROVE  \A w \in SUBSET Nodes, n \in Nodes : f[w][n] # Invalid => f[{}][n] = f[w][n]
<1> DEFINE Differs(w, v, n) == f[w][n] # Invalid /\ f[v][n] # f[w][n]
           B == {w \in SUBSET Nodes : \E v \in SUBSET w, n \in Nodes : Differs(w, v, n)}
<1>1. B = {}
  <2> SUFFICES ASSUME B # {} PROVE FALSE
    OBVIOUS
  <2>1. PICK w \in B : \A n \in Nodes \ w : w \cup {n} \notin B
    <3>1. B \in SUBSET (SUBSET Nodes)
      OBVIOUS
    <3> HIDE DEF B
    <3> QED BY <3>1, Outermost
  <2>2. PICK v \in SUBSET w, n \in Nodes : Differs(w, v, n)
    OBVIOUS
  <2>3. w \in SUBSET Nodes /\ v \in SUBSET Nodes
    OBVIOUS
  <2> DEFINE e1 == f[v \cup {n}]
             e2 == f[w \cup {n}]
  <2>4. /\ f[v][n] = NodeEnd(plan, asOf, n, v, e1)
        /\ f[w][n] = NodeEnd(plan, asOf, n, w, e2)
    BY <2>3 DEF Solves
  <2>5. n \notin w /\ n \notin v
    BY <2>2, <2>4 DEF NodeEnd
  <2>6. \A d \in Nodes : e2[d] # Invalid => e1[d] = e2[d]
    <3>1. w \cup {n} \in SUBSET Nodes /\ w \cup {n} \notin B /\ v \cup {n} \in SUBSET (w \cup {n})
      BY <2>1, <2>3, <2>5
    <3>2. \A d \in Nodes : ~Differs(w \cup {n}, v \cup {n}, d)
      BY <3>1
    <3> QED BY <3>2
  <2> HIDE DEF B, e1, e2
  <2>7. ASSUME plan.node[n].status # "accepted", Configured(plan, n)
        PROVE  \A d \in plan.node[n].dependencies : e1[d] = e2[d]
    <3>1. plan.node[n].dependencies \in SUBSET Nodes
      BY <2>7 DEF Configured, Plans
    <3>2. \A d \in plan.node[n].dependencies : e2[d] # Invalid
      <4>1. NodeEnd(plan, asOf, n, w, e2) # Invalid
        BY <2>2, <2>4
      <4> QED BY <2>5, <2>7, <4>1 DEF NodeEnd
    <3> QED BY <2>6, <3>1, <3>2
  <2>8. NodeEnd(plan, asOf, n, v, e1) = NodeEnd(plan, asOf, n, w, e2)
    BY <2>5, <2>7, SameEnd
  <2> QED BY <2>2, <2>4, <2>8
<1>2. ASSUME NEW w \in SUBSET Nodes, NEW n \in Nodes
      PROVE  ~Differs(w, {}, n)
  <2>1. w \notin B
    <3> HIDE DEF B
    <3> QED BY <1>1
  <2>2. {} \in SUBSET w
    OBVIOUS
  <2> QED BY <2>1, <2>2
<1> QED BY <1>2

(* Every project that was validated has a forecast: evaluateSchedule throws neither for a
   cycle nor for a calendar (schedule.ts:9-14, project-validation.ts:19-21). *)
THEOREM FinishDefined ==
  ASSUME NEW plan \in Plans, NEW asOf \in Nat
  PROVE  Finish(plan, asOf) \in [Nodes -> Nat \cup {None}]
<1>1. PICK f : Solves(f, plan, asOf) /\ Finish(plan, asOf) = f[{}]
  BY FinishSolved
<1>2. ASSUME NEW n \in Nodes
      PROVE  f[{}][n] # Invalid
  <2>1. CASE plan.calendar # None
    BY <1>1, <2>1, VisitedEnds
  <2>2. CASE plan.calendar = None
    <3>1. ~Configured(plan, n)
      BY <2>2 DEF Configured
    <3>2. plan.node[n] \in NodeRow
      BY DEF Plans, OrderRow
    <3>3. plan.node[n].acceptance # None => plan.node[n].acceptance.at \in Nat
      BY <3>2, OrdersAssumption DEF NodeRow
    <3>4. f[{}][n] = NodeEnd(plan, asOf, n, {}, f[{} \cup {n}])
      BY <1>1 DEF Solves
    <3> QED BY <3>1, <3>3, <3>4, NodesAssumption DEF NodeEnd, Invalid
  <2> QED BY <2>1, <2>2
<1>3. f[{}] \in [Nodes -> Ends]
  BY <1>1 DEF Solves
<1>4. f[{}] \in [Nodes -> Nat \cup {None}]
  BY <1>2, <1>3 DEF Ends
<1> QED BY <1>1, <1>4

(* What finish returns for a node is made of what it returned for its dependencies, whichever
   path led to them first: the map "done" only spares repeated visits (schedule.ts:10-12). *)
THEOREM FinishEquation ==
  ASSUME NEW plan \in Plans, NEW asOf \in Nat, NEW n \in Nodes
  PROVE  LET ends == Finish(plan, asOf)
         IN  ends[n] = NodeEnd(plan, asOf, n, {}, ends)
<1>1. PICK f : Solves(f, plan, asOf) /\ Finish(plan, asOf) = f[{}]
  BY FinishSolved
<1> DEFINE ends == Finish(plan, asOf)
           end == f[{n}]
<1>2. ends[n] # Invalid
  <2>1. ends \in [Nodes -> Nat \cup {None}]
    BY FinishDefined
  <2> QED BY <2>1, NodesAssumption DEF Invalid
<1>3. ends[n] = NodeEnd(plan, asOf, n, {}, end)
  <2>1. {} \in SUBSET Nodes /\ {} \cup {n} = {n}
    OBVIOUS
  <2> QED BY <1>1, <2>1 DEF Solves
<1>4. \A d \in Nodes : end[d] # Invalid => ends[d] = end[d]
  <2>1. {n} \in SUBSET Nodes
    OBVIOUS
  <2>2. \A w \in SUBSET Nodes, m \in Nodes : f[w][m] # Invalid => f[{}][m] = f[w][m]
    BY <1>1, PathFree
  <2> QED BY <1>1, <2>1, <2>2
<1> HIDE DEF end, ends
<1>5. ASSUME plan.node[n].status # "accepted", Configured(plan, n)
      PROVE  \A d \in plan.node[n].dependencies : end[d] = ends[d]
  <2>1. plan.node[n].dependencies \in SUBSET Nodes
    BY <1>5 DEF Configured, Plans
  <2>2. \A d \in plan.node[n].dependencies : end[d] # Invalid
    BY <1>2, <1>3, <1>5 DEF NodeEnd
  <2> QED BY <1>4, <2>1, <2>2
<1>6. NodeEnd(plan, asOf, n, {}, end) = NodeEnd(plan, asOf, n, {}, ends)
  BY <1>5, SameEnd
<1> QED BY <1>3, <1>6 DEF ends

Ahead(plan, n) == {d \in plan.node[n].dependencies : plan.node[d].status # "accepted"}

(* An end that is known, of a node that is not accepted, is an estimate. *)
LEMMA FinishEstimate ==
  ASSUME NEW plan \in Plans, NEW asOf \in Nat, NEW ends, ends = Finish(plan, asOf),
         NEW n \in Nodes, plan.node[n].status # "accepted", ends[n] # None
  PROVE  LET days == {ends[d] : d \in Ahead(plan, n)}
         IN  /\ ends[n] = Estimate(plan, n, asOf, days)
             /\ days \in SUBSET Nat /\ IsFiniteSet(days)
             /\ \A d \in Ahead(plan, n) : ends[d] # None
             /\ plan \in OrderRow /\ Usable(plan.calendar) /\ plan.node[n].duration \in Nat
             /\ Ahead(plan, n) \in SUBSET Nodes
<1> DEFINE days == {ends[d] : d \in Ahead(plan, n)}
<1>1. ends \in [Nodes -> Nat \cup {None}]
  BY FinishDefined
<1>2. ends[n] # Invalid
  BY <1>1, NodesAssumption DEF Invalid
<1>3. ends[n] = NodeEnd(plan, asOf, n, {}, ends)
  BY FinishEquation
<1>4. /\ Configured(plan, n)
      /\ \A d \in Ahead(plan, n) : ends[d] # None
      /\ ends[n] = Estimate(plan, n, asOf, days)
  BY <1>2, <1>3 DEF NodeEnd, Ahead
<1>5. /\ plan \in OrderRow /\ Usable(plan.calendar) /\ plan.node[n].duration \in Nat
      /\ Ahead(plan, n) \in SUBSET Nodes
  BY <1>4 DEF Configured, Plans, Ahead
<1>6. days \in SUBSET Nat
  BY <1>1, <1>4, <1>5
<1>7. IsFiniteSet(Ahead(plan, n))
  BY <1>5, NodesAssumption, FS_Subset
<1>8. IsFiniteSet(days)
  BY <1>7, ImageFinite
<1> QED BY <1>4, <1>5, <1>6, <1>8

(* The days on which the work that is left of a node could be done. *)
Feasible(plan, asOf, ends, n, day) ==
  LET row == plan.node[n]
  IN  /\ Working(plan.calendar, day)
      /\ \A b \in {asOf} \cup Given({row.planned, row.eta}) :
           Between(plan.calendar, b, day) >= Remaining(row)
      /\ row.expected # None => row.expected <= day
      /\ \A d \in Ahead(plan, n) : Between(plan.calendar, ends[d] + 1, day) >= Remaining(row)

LEMMA FeasibleBoundaries ==
  ASSUME NEW plan, NEW asOf, NEW ends, NEW n, NEW day
  PROVE  Feasible(plan, asOf, ends, n, day) <=>
           LET row == plan.node[n]
           IN  /\ Working(plan.calendar, day)
               /\ \A b \in Boundaries(row, asOf, {ends[d] : d \in Ahead(plan, n)}) :
                    Between(plan.calendar, b, day) >= Remaining(row)
               /\ row.expected # None => row.expected <= day
  BY DEF Feasible, Boundaries

(* A known end of a node that is not accepted is the first day that is feasible: the forecast
   neither promises what cannot be done nor holds back what can (schedule.ts:29-35). *)
THEOREM EarliestEnd ==
  ASSUME NEW plan \in Plans, NEW asOf \in Nat, NEW ends, ends = Finish(plan, asOf),
         NEW n \in Nodes, plan.node[n].status # "accepted", ends[n] # None
  PROVE  /\ Feasible(plan, asOf, ends, n, ends[n])
         /\ \A day \in 0..(ends[n] - 1) : ~Feasible(plan, asOf, ends, n, day)
<1> DEFINE row == plan.node[n]
           days == {ends[d] : d \in Ahead(plan, n)}
           B == Boundaries(row, asOf, days)
<1>1. /\ ends[n] = Estimate(plan, n, asOf, days)
      /\ days \in SUBSET Nat /\ IsFiniteSet(days)
      /\ plan \in OrderRow /\ Usable(plan.calendar) /\ row.duration \in Nat
  BY FinishEstimate
<1> HIDE DEF days
<1>2. /\ ends[n] \in Nat
      /\ Working(plan.calendar, ends[n])
      /\ \A b \in B : Between(plan.calendar, b, ends[n]) >= Remaining(row)
      /\ row.expected # None => row.expected <= ends[n]
  BY <1>1, EstimateFits
<1>3. ASSUME NEW day \in 0..(ends[n] - 1), Working(plan.calendar, day),
             row.expected # None => row.expected <= day
      PROVE  ~\A b \in B : Between(plan.calendar, b, day) >= Remaining(row)
  <2>1. day \in Nat /\ day < Estimate(plan, n, asOf, days)
    BY <1>1, <1>2, <1>3
  <2>2. PICK b \in B : Between(plan.calendar, b, day) < Remaining(row)
    BY <1>1, <1>3, <2>1, EstimateFirst
  <2>3. B \in SUBSET Nat
    <3>1. row \in NodeRow
      BY <1>1 DEF OrderRow
    <3> QED BY <1>1, <3>1, BoundariesFinite
  <2>4. Between(plan.calendar, b, day) \in Nat
    BY <2>1, <2>3, LongerBetween
  <2>5. Remaining(row) \in Nat
    BY <1>1, RemainingType DEF OrderRow, NodeRow
  <2> QED BY <2>2, <2>4, <2>5
<1> HIDE DEF row
<1> QED BY <1>2, <1>3, FeasibleBoundaries DEF days, B, row

(* Two ends of which the second is known when the first is, and is no earlier. *)
NoEarlier(x, y) ==
  /\ x = Invalid <=> y = Invalid
  /\ x = None <=> y = None
  /\ x \in Nat => x <= y

LEMMA NodeEndGrows ==
  ASSUME NEW plan \in Plans, NEW a \in Nat, NEW b \in Nat, a <= b, NEW n \in Nodes, NEW v,
         NEW e1, NEW e2, n \notin v => e1 \in [Nodes -> Ends] /\ e2 \in [Nodes -> Ends],
         n \notin v => \A d \in Nodes : NoEarlier(e1[d], e2[d])
  PROVE  NoEarlier(NodeEnd(plan, a, n, v, e1), NodeEnd(plan, b, n, v, e2))
<1> DEFINE row == plan.node[n]
           deps == row.dependencies
           open == {d \in deps : plan.node[d].status # "accepted"}
           before == {e1[d] : d \in open}
           after == {e2[d] : d \in open}
<1>1. Invalid \notin Nat /\ None \notin Nat /\ None # Invalid
  BY NodesAssumption DEF Invalid
<1>2. CASE n \in v \/ row.status = "accepted" \/ ~Configured(plan, n)
  <2>1. NodeEnd(plan, a, n, v, e1) = NodeEnd(plan, b, n, v, e2)
    BY <1>2 DEF NodeEnd
  <2>2. NodeEnd(plan, a, n, v, e1) \in Ends
    BY NodeEndType
  <2> QED BY <2>1, <2>2 DEF NoEarlier
<1>3. CASE n \notin v /\ row.status # "accepted" /\ Configured(plan, n)
  <2>1. /\ plan \in OrderRow /\ Usable(plan.calendar)
        /\ deps \in SUBSET Nodes /\ row.duration \in Nat
    BY <1>3 DEF Configured, Plans
  <2>2. \A d \in deps : /\ e1[d] \in Ends /\ e2[d] \in Ends
                        /\ e1[d] = Invalid <=> e2[d] = Invalid
                        /\ e1[d] = None <=> e2[d] = None
                        /\ e1[d] \in Nat => e1[d] <= e2[d]
    BY <1>3, <2>1 DEF NoEarlier
  <2>3. CASE (\E d \in deps : e1[d] = Invalid) \/ (\E d \in open : e1[d] = None) \/ Waits(row)
    <3>1. /\ (\E d \in deps : e1[d] = Invalid) <=> (\E d \in deps : e2[d] = Invalid)
          /\ (\E d \in open : e1[d] = None) <=> (\E d \in open : e2[d] = None)
      BY <2>2
    <3>2. \/ NodeEnd(plan, a, n, v, e1) = Invalid /\ NodeEnd(plan, b, n, v, e2) = Invalid
          \/ NodeEnd(plan, a, n, v, e1) = None /\ NodeEnd(plan, b, n, v, e2) = None
      BY <1>3, <2>3, <3>1 DEF NodeEnd
    <3> QED BY <1>1, <3>2 DEF NoEarlier
  <2>4. CASE ~((\E d \in deps : e1[d] = Invalid) \/ (\E d \in open : e1[d] = None) \/ Waits(row))
    <3>1. /\ ~\E d \in deps : e2[d] = Invalid
          /\ ~\E d \in open : e2[d] = None
      BY <2>2, <2>4
    <3>2. /\ NodeEnd(plan, a, n, v, e1) = Estimate(plan, n, a, before)
          /\ NodeEnd(plan, b, n, v, e2) = Estimate(plan, n, b, after)
      BY <1>3, <2>4, <3>1 DEF NodeEnd
    <3>3. \A d \in open : e1[d] \in Nat /\ e2[d] \in Nat /\ e1[d] <= e2[d]
      BY <2>2, <2>4, <3>1 DEF Ends
    <3>4. before \in SUBSET Nat /\ after \in SUBSET Nat /\ \A e \in before : \E f \in after : e <= f
      BY <3>3
    <3>5. IsFiniteSet(before) /\ IsFiniteSet(after)
      <4>1. open \in SUBSET Nodes
        BY <2>1
      <4> HIDE DEF open
      <4>2. IsFiniteSet(open)
        BY <4>1, NodesAssumption, FS_Subset
      <4> QED BY <4>2, ImageFinite
    <3> HIDE DEF before, after
    <3>6. /\ Estimate(plan, n, a, before) \in Nat
          /\ Estimate(plan, n, b, after) \in Nat
          /\ Estimate(plan, n, a, before) <= Estimate(plan, n, b, after)
      BY <2>1, <3>4, <3>5, EstimateGrows
    <3> QED BY <1>1, <3>2, <3>6 DEF NoEarlier
  <2> QED BY <2>3, <2>4
<1> QED BY <1>2, <1>3

LEMMA FinishGrows ==
  ASSUME NEW plan \in Plans, NEW a \in Nat, NEW b \in Nat, a <= b, NEW n \in Nodes
  PROVE  NoEarlier(Finish(plan, a)[n], Finish(plan, b)[n])
<1>1. PICK f : Solves(f, plan, a) /\ Finish(plan, a) = f[{}]
  BY FinishSolved
<1>2. PICK g : Solves(g, plan, b) /\ Finish(plan, b) = g[{}]
  BY FinishSolved
<1> DEFINE B == {v \in SUBSET Nodes : \E m \in Nodes : ~NoEarlier(f[v][m], g[v][m])}
<1>3. B = {}
  <2> SUFFICES ASSUME B # {} PROVE FALSE
    OBVIOUS
  <2>1. PICK v \in B : \A m \in Nodes \ v : v \cup {m} \notin B
    <3>1. B \in SUBSET (SUBSET Nodes)
      OBVIOUS
    <3> HIDE DEF B
    <3> QED BY <3>1, Outermost
  <2>2. PICK m \in Nodes : ~NoEarlier(f[v][m], g[v][m])
    OBVIOUS
  <2> DEFINE e1 == f[v \cup {m}]
             e2 == g[v \cup {m}]
  <2>3. m \notin v => \A d \in Nodes : NoEarlier(e1[d], e2[d])
    BY <2>1
  <2>4. v \in SUBSET Nodes /\ v \cup {m} \in SUBSET Nodes
    OBVIOUS
  <2> HIDE DEF B
  <2>5. /\ e1 \in [Nodes -> Ends] /\ e2 \in [Nodes -> Ends]
        /\ f[v][m] = NodeEnd(plan, a, m, v, e1)
        /\ g[v][m] = NodeEnd(plan, b, m, v, e2)
    BY <1>1, <1>2, <2>4 DEF Solves
  <2> HIDE DEF e1, e2
  <2>6. NoEarlier(NodeEnd(plan, a, m, v, e1), NodeEnd(plan, b, m, v, e2))
    BY <2>3, <2>5, NodeEndGrows
  <2> QED BY <2>2, <2>5, <2>6
<1>4. {} \in SUBSET Nodes
  OBVIOUS
<1>5. NoEarlier(f[{}][n], g[{}][n])
  BY <1>3, <1>4
<1> QED BY <1>1, <1>2, <1>5

LEMMA TodayType == Today \in Nat
  BY OrdersAssumption, MaxOf DEF Today

(* The dates of a forecast, and the latest of them. *)
LEMMA LatestDate ==
  ASSUME NEW ends \in [Nodes -> Nat \cup {None}], Dates(ends) # {}
  PROVE  /\ Max(Dates(ends)) \in Nat /\ Max(Dates(ends)) \in Dates(ends)
         /\ \A date \in Dates(ends) : date <= Max(Dates(ends))
<1> DEFINE all == {ends[n] : n \in Nodes}
<1>1. IsFiniteSet(all)
  BY NodesAssumption, ImageFinite
<1>2. Dates(ends) \in SUBSET all /\ Dates(ends) \in SUBSET Nat
  BY DEF Dates, Given
<1> HIDE DEF all
<1>3. IsFiniteSet(Dates(ends))
  BY <1>1, <1>2, FS_Subset
<1> QED BY <1>2, <1>3, MaxOf

LEMMA RiskOf ==
  ASSUME NEW plan, plan.due \in Nat, NEW ends \in [Nodes -> Nat \cup {None}]
  PROVE  LET forecast == Forecast(plan, ends)
             risk == Risk(plan, ends)
         IN  /\ risk = "normal" =>
                  forecast # None /\ \A n \in Nodes : ends[n] # None /\ ends[n] <= plan.due
             /\ forecast # None =>
                  /\ \A n \in Unfinished(plan) : ends[n] # None /\ ends[n] <= forecast
                  /\ forecast > plan.due => risk = "risk"
<1> DEFINE dates == Dates(ends)
           forecast == Forecast(plan, ends)
           risk == Risk(plan, ends)
<1>1. \A n \in Nodes : ends[n] # None => ends[n] \in dates /\ ends[n] \in Nat
  BY DEF Dates, Given
<1>2. \A n \in Nodes : ends[n] = None <=> n \in Unknown(ends)
  BY DEF Unknown
<1>3. Unfinished(plan) \in SUBSET Nodes
  BY DEF Unfinished
<1>4. Known(plan, ends) => dates # {} /\ \A n \in Unfinished(plan) : ends[n] # None
  <2>1. CASE Unfinished(plan) # {}
    BY <1>1, <1>2, <1>3, <2>1 DEF Known
  <2>2. CASE Unfinished(plan) = {}
    BY <1>1, <1>2, <2>2, NodesAssumption DEF Known
  <2> QED BY <2>1, <2>2
<1>5. forecast = IF Known(plan, ends) THEN Max(dates) ELSE None
  BY DEF Forecast
<1>6. dates # {} => /\ Max(dates) \in Nat /\ Max(dates) \in dates
                    /\ \A date \in dates : date <= Max(dates)
  BY LatestDate
<1>7. risk = IF \E date \in dates : date > plan.due THEN "risk"
             ELSE IF Unknown(ends) # {} THEN "attention" ELSE "normal"
  BY DEF Risk
<1>8. Unknown(ends) = {} => Known(plan, ends)
  BY DEF Known
<1> HIDE DEF dates, forecast, risk
<1>9. ASSUME risk = "normal"
      PROVE  forecast # None /\ \A n \in Nodes : ends[n] # None /\ ends[n] <= plan.due
  <2>1. Unknown(ends) = {} /\ \A date \in dates : ~(date > plan.due)
    BY <1>7, <1>9
  <2>2. forecast # None
    BY <1>4, <1>5, <1>6, <1>8, <2>1, NodesAssumption
  <2> QED BY <1>1, <1>2, <2>1, <2>2
<1>10. ASSUME forecast # None
       PROVE  /\ \A n \in Unfinished(plan) : ends[n] # None /\ ends[n] <= forecast
              /\ forecast > plan.due => risk = "risk"
  BY <1>1, <1>3, <1>4, <1>5, <1>6, <1>7, <1>10
<1> QED BY <1>9, <1>10 DEF forecast, risk

(* While an order does not change, its forecast does not get earlier as the days pass, it is
   not known on one day and unknown on another, and a risk stays a risk: the calendar alone
   never improves what a person was told (schedule.ts:30-45). *)
THEOREM ForecastGrows ==
  ASSUME NEW plan \in Plans, NEW a \in Nat, NEW b \in Nat, a <= b,
         NEW before, before = Finish(plan, a), NEW after, after = Finish(plan, b)
  PROVE  /\ Forecast(plan, before) = None <=> Forecast(plan, after) = None
         /\ Forecast(plan, before) # None => Forecast(plan, before) <= Forecast(plan, after)
         /\ Risk(plan, before) = "risk" => Risk(plan, after) = "risk"
         /\ Risk(plan, after) = "normal" => Risk(plan, before) = "normal"
<1>1. /\ before \in [Nodes -> Nat \cup {None}]
      /\ after \in [Nodes -> Nat \cup {None}]
  BY FinishDefined
<1>2. \A n \in Nodes : NoEarlier(before[n], after[n])
  BY FinishGrows
<1>3. \A n \in Nodes : /\ before[n] = None <=> after[n] = None
                       /\ before[n] # None => before[n] <= after[n]
  BY <1>1, <1>2 DEF NoEarlier
<1>4. Unknown(before) = Unknown(after)
  BY <1>3 DEF Unknown
<1>5. Known(plan, before) <=> Known(plan, after)
  BY <1>4 DEF Known
<1> DEFINE B == Dates(before)
           A == Dates(after)
<1>6. B \in SUBSET Nat /\ A \in SUBSET Nat
  BY <1>1 DEF Dates, Given
<1>7. ASSUME NEW x \in B
      PROVE  \E y \in A : x <= y
  <2>1. PICK n \in Nodes : x = before[n] /\ before[n] # None
    BY DEF Dates, Given
  <2>2. after[n] \in A /\ x <= after[n]
    BY <1>3, <2>1 DEF Dates, Given
  <2> QED BY <2>2
<1>8. ASSUME Known(plan, before)
      PROVE  B # {} /\ A # {}
  <2>1. PICK n \in Nodes : before[n] # None
    <3>1. CASE Unfinished(plan) = {}
      BY <1>8, <3>1, NodesAssumption DEF Known, Unknown
    <3>2. CASE Unfinished(plan) # {}
      BY <1>8, <3>2 DEF Known, Unknown, Unfinished
    <3> QED BY <3>1, <3>2
  <2>2. before[n] \in B /\ after[n] \in A
    BY <1>3, <2>1 DEF Dates, Given
  <2> QED BY <2>2
<1>9. ASSUME Known(plan, before)
      PROVE  /\ Max(B) \in Nat /\ Max(A) \in Nat /\ Max(B) <= Max(A)
             /\ Forecast(plan, before) = Max(B) /\ Forecast(plan, after) = Max(A)
  <2>1. B # {} /\ A # {}
    BY <1>8, <1>9
  <2>2. Max(B) \in Nat /\ Max(B) \in B
    BY <1>1, <2>1, LatestDate
  <2>3. Max(A) \in Nat /\ \A date \in A : date <= Max(A)
    BY <1>1, <2>1, LatestDate
  <2>4. PICK y \in A : Max(B) <= y
    BY <1>7, <2>2
  <2>5. Forecast(plan, before) = Max(B) /\ Forecast(plan, after) = Max(A)
    BY <1>5, <1>9 DEF Forecast
  <2> DEFINE s == Max(B)
             t == Max(A)
  <2> HIDE DEF s, t, A, B
  <2>6. s \in Nat /\ t \in Nat /\ y \in Nat /\ s <= y /\ y <= t
    BY <1>6, <2>2, <2>3, <2>4 DEF s, t
  <2> QED BY <2>5, <2>6 DEF s, t
<1>10. ~Known(plan, before) => Forecast(plan, before) = None /\ Forecast(plan, after) = None
  BY <1>5 DEF Forecast
<1>11. /\ Forecast(plan, before) = None <=> Forecast(plan, after) = None
       /\ Forecast(plan, before) # None => Forecast(plan, before) <= Forecast(plan, after)
  BY <1>9, <1>10, NodesAssumption
<1>12. plan.due \in Nat
  BY DEF Plans, OrderRow
<1>13. (\E date \in B : date > plan.due) => \E date \in A : date > plan.due
  BY <1>6, <1>7, <1>12
<1>14. /\ Risk(plan, before) = "risk" <=> \E date \in B : date > plan.due
       /\ Risk(plan, after) = "risk" <=> \E date \in A : date > plan.due
       /\ Risk(plan, before) \in {"risk", "attention", "normal"}
       /\ Risk(plan, before) = "attention" => Unknown(before) # {}
       /\ Risk(plan, after) = "normal" => Unknown(after) = {}
  BY DEF Risk
<1> QED BY <1>4, <1>11, <1>13, <1>14

-----------------------------------------------------------------------------
(* Keys and what they tell of.                                              *)

LibraryTold ==
  \A t \in Templates, i \in Nat \ {0} : <<t, i>> \in Told <=> i <= Len(audit[t])

OrdersTold ==
  /\ outbox = Told \cap (OrderIds \X (1..MaxVersion))
  /\ \A o \in OrderIds, v \in Nat \ {0} : <<o, v>> \in Told => v <= MaxVersion
  /\ \A o \in Existing : \A v \in 2..order[o].version : <<o, v>> \in outbox
  /\ \A o \in OrderIds, v \in 1..MaxVersion :
       <<o, v>> \in outbox => order[o] # None /\ v <= order[o].version

Disjoint ==
  \A k, l \in Keys : k # l /\ mutations[k] # None /\ mutations[l] # None =>
    mutations[k].writes \cap mutations[l].writes = {}

Keyed == Disjoint /\ LibraryTold /\ OrdersTold

LEMMA ToldOf ==
  \A x : x \in Told <=> \E k \in Keys : mutations[k] # None /\ x \in mutations[k].writes
  BY DEF Told

(* A key that was free tells of something that no key told of. *)
LEMMA KeyTaken ==
  ASSUME TypeOK, Disjoint, NEW k \in Keys, KeyFree(k), NEW W \in SUBSET Writes,
         W \cap Told = {},
         mutations' = [mutations EXCEPT ![k] = [writes |-> W]]
  PROVE  /\ mutations' \in [Keys -> [writes: SUBSET Writes] \cup {None}]
         /\ Disjoint'
         /\ Told' = Told \cup W
<1> DEFINE new == [writes |-> W]
<1>1. new \in [writes: SUBSET Writes] /\ new.writes = W /\ new # None
  BY OrdersAssumption
<1>2. /\ mutations' \in [Keys -> [writes: SUBSET Writes] \cup {None}]
      /\ mutations'[k] = new
      /\ \A l \in Keys \ {k} : mutations'[l] = mutations[l]
  BY <1>1 DEF TypeOK
<1>3. mutations[k] = None
  BY DEF KeyFree
<1> HIDE DEF new
<1>4. \A x : x \in Told' <=> \E l \in Keys : mutations'[l] # None /\ x \in mutations'[l].writes
  BY DEF Told
<1>5. \A x : x \in Told' <=> x \in Told \/ x \in W
  BY <1>1, <1>2, <1>3, <1>4, ToldOf
<1>6. Disjoint'
  <2> SUFFICES ASSUME NEW i \in Keys, NEW j \in Keys, i # j,
                      mutations'[i] # None, mutations'[j] # None,
                      NEW x, x \in mutations'[i].writes, x \in mutations'[j].writes
               PROVE  FALSE
    BY DEF Disjoint
  <2>1. CASE i # k /\ j # k
    BY <1>2, <2>1 DEF Disjoint
  <2>2. CASE i = k
    BY <1>1, <1>2, <2>2, ToldOf
  <2>3. CASE j = k
    BY <1>1, <1>2, <2>3, ToldOf
  <2> QED BY <2>1, <2>2, <2>3
<1> QED BY <1>2, <1>5, <1>6

(* A write of an order keeps the keys in order. *)
LEMMA Raised ==
  ASSUME NEW row \in OrderRow, NEW v \in Nat
  PROVE  /\ [row EXCEPT !.version = v] \in OrderRow
         /\ [row EXCEPT !.version = v].version = v
         /\ [row EXCEPT !.version = v].feedback = row.feedback
         /\ [row EXCEPT !.version = v].node = row.node
         /\ [row EXCEPT !.version = v].calendar = row.calendar
  BY DEF OrderRow

LEMMA Written ==
  ASSUME TypeOK, Keyed, NEW o \in OrderIds, NEW k \in Keys, KeyFree(k), order[o] # None,
         NEW row \in OrderRow, Update(o, k, row)
  PROVE  /\ order' \in [OrderIds -> OrderRow \cup {None}]
         /\ order[o] \in OrderRow /\ order'[o] \in OrderRow /\ order'[o] # None
         /\ order'[o].version = order[o].version + 1
         /\ order'[o].feedback = row.feedback /\ order'[o].node = row.node
         /\ order'[o].calendar = row.calendar
         /\ \A p \in OrderIds \ {o} : order'[p] = order[p]
         /\ template' = template /\ audit' = audit
         /\ mutations' \in [Keys -> [writes: SUBSET Writes] \cup {None}]
         /\ outbox' \subseteq OrderIds \X (1..MaxVersion)
         /\ Keyed'
<1> DEFINE v == order[o].version + 1
           new == [row EXCEPT !.version = v]
           W == {<<o, v>>}
<1>1. order[o] \in OrderRow /\ order[o].version \in Nat
  BY DEF TypeOK, OrderRow
<1>2. /\ v \in 1..MaxVersion
      /\ order' = [order EXCEPT ![o] = new]
      /\ mutations' = [mutations EXCEPT ![k] = [writes |-> W]]
      /\ outbox' = outbox \cup W
      /\ template' = template /\ audit' = audit
  BY <1>1, OrdersAssumption DEF Update, Record
<1>3. /\ new \in OrderRow /\ new.version = v /\ new.feedback = row.feedback
      /\ new.node = row.node /\ new.calendar = row.calendar /\ new # None
  BY <1>1, <1>2, Raised, OrdersAssumption
<1> HIDE DEF new
<1>4. /\ order' \in [OrderIds -> OrderRow \cup {None}]
      /\ order'[o] = new
      /\ \A p \in OrderIds \ {o} : order'[p] = order[p]
  BY <1>2, <1>3 DEF TypeOK
<1>5. <<o, v>> \notin Told
  <2>1. <<o, v>> \in Told => <<o, v>> \in outbox
    BY <1>2 DEF Keyed, OrdersTold
  <2>2. <<o, v>> \notin outbox
    BY <1>1, <1>2 DEF Keyed, OrdersTold
  <2> QED BY <2>1, <2>2
<1>6. W \in SUBSET Writes /\ W \cap Told = {}
  BY <1>2, <1>5, OrdersAssumption DEF Writes
<1>7. /\ mutations' \in [Keys -> [writes: SUBSET Writes] \cup {None}]
      /\ Disjoint'
      /\ Told' = Told \cup W
  BY <1>2, <1>6, KeyTaken DEF Keyed
<1>8. outbox' \subseteq OrderIds \X (1..MaxVersion)
  BY <1>2, OrdersAssumption DEF TypeOK
<1>9. LibraryTold'
  BY <1>2, <1>7, OrdersAssumption DEF Keyed, LibraryTold
<1>10. OrdersTold'
  <2>1. outbox' = Told' \cap (OrderIds \X (1..MaxVersion))
    BY <1>2, <1>7, OrdersAssumption DEF Keyed, OrdersTold
  <2>2. \A p \in OrderIds, u \in Nat \ {0} : <<p, u>> \in Told' => u <= MaxVersion
    BY <1>2, <1>7, OrdersAssumption DEF Keyed, OrdersTold
  <2>3. ASSUME NEW p \in OrderIds, order'[p] # None, NEW u \in 2..order'[p].version
        PROVE  <<p, u>> \in outbox'
    <3>1. CASE p = o /\ u = v
      BY <1>2, <3>1
    <3>2. CASE p = o /\ u # v
      <4>1. u \in 2..order[o].version
        BY <1>1, <1>3, <1>4, <2>3, <3>2
      <4> QED BY <1>2, <4>1, <3>2 DEF Keyed, OrdersTold, Existing
    <3>3. CASE p # o
      BY <1>2, <1>4, <2>3, <3>3 DEF Keyed, OrdersTold, Existing
    <3> QED BY <3>1, <3>2, <3>3
  <2>4. ASSUME NEW p \in OrderIds, NEW u \in 1..MaxVersion, <<p, u>> \in outbox'
        PROVE  order'[p] # None /\ u <= order'[p].version
    <3>1. CASE p = o
      <4>1. u = v \/ <<o, u>> \in outbox
        BY <1>2, <2>4, <3>1
      <4>2. u = v \/ u <= order[o].version
        BY <4>1 DEF Keyed, OrdersTold
      <4> QED BY <1>1, <1>3, <1>4, <3>1, <4>2
    <3>2. CASE p # o
      BY <1>2, <1>4, <2>4, <3>2 DEF Keyed, OrdersTold
    <3> QED BY <3>1, <3>2
  <2> QED BY <2>1, <2>2, <2>3, <2>4 DEF OrdersTold, Existing
<1> QED BY <1>1, <1>2, <1>3, <1>4, <1>7, <1>8, <1>9, <1>10 DEF Keyed

LEMMA ProposeKeyed ==
  ASSUME TypeOK, Keyed, NEW k \in Keys, KeyFree(k), Propose(k)
  PROVE  /\ mutations' \in [Keys -> [writes: SUBSET Writes] \cup {None}]
         /\ Keyed'
<1>1. /\ mutations' = [mutations EXCEPT ![k] = [writes |-> {}]]
      /\ UNCHANGED <<order, audit, outbox>>
  BY DEF Propose
<1>2. /\ mutations' \in [Keys -> [writes: SUBSET Writes] \cup {None}]
      /\ Disjoint'
      /\ Told' = Told \cup {}
  BY <1>1, KeyTaken DEF Keyed
<1> QED BY <1>1, <1>2 DEF Keyed, LibraryTold, OrdersTold, Existing

LEMMA LibraryKeyed ==
  ASSUME TypeOK, Keyed, NEW t \in Templates, NEW k \in Keys, KeyFree(k),
         NEW after \in Nat \cup {None}, LibraryMutation(t, k, after)
  PROVE  TypeOK' /\ Keyed'
<1> DEFINE i == Len(audit[t]) + 1
           entry == <<template[t], after>>
<1>1. /\ template' = [template EXCEPT ![t] = after]
      /\ audit' = [audit EXCEPT ![t] = Append(audit[t], entry)]
      /\ mutations' = [mutations EXCEPT ![k] = [writes |-> {<<t, i>>}]]
      /\ UNCHANGED <<order, file, outbox>>
  BY DEF LibraryMutation
<1>2. /\ audit[t] \in Seq((Nat \cup {None}) \X (Nat \cup {None}))
      /\ entry \in (Nat \cup {None}) \X (Nat \cup {None})
      /\ Len(audit[t]) \in Nat
  BY DEF TypeOK
<1>3. /\ Append(audit[t], entry) \in Seq((Nat \cup {None}) \X (Nat \cup {None}))
      /\ Len(Append(audit[t], entry)) = i
  BY <1>2, AppendProperties
<1> HIDE DEF entry
<1>4. /\ audit' \in [Templates -> Seq((Nat \cup {None}) \X (Nat \cup {None}))]
      /\ Len(audit'[t]) = i
      /\ \A u \in Templates \ {t} : audit'[u] = audit[u]
  BY <1>1, <1>3 DEF TypeOK
<1>5. {<<t, i>>} \in SUBSET Writes /\ {<<t, i>>} \cap Told = {}
  BY <1>2 DEF Writes, Keyed, LibraryTold
<1>6. /\ mutations' \in [Keys -> [writes: SUBSET Writes] \cup {None}]
      /\ Disjoint'
      /\ Told' = Told \cup {<<t, i>>}
  BY <1>1, <1>5, KeyTaken DEF Keyed
<1>7. TypeOK'
  BY <1>1, <1>4, <1>6 DEF TypeOK
<1>8. LibraryTold'
  <2> SUFFICES ASSUME NEW u \in Templates, NEW j \in Nat \ {0}
               PROVE  <<u, j>> \in Told' <=> j <= Len(audit'[u])
    BY DEF LibraryTold
  <2>1. <<u, j>> \in Told <=> j <= Len(audit[u])
    BY DEF Keyed, LibraryTold
  <2>2. <<u, j>> \in Told' <=> <<u, j>> \in Told \/ (u = t /\ j = i)
    BY <1>6
  <2>3. CASE u = t
    BY <1>2, <1>4, <2>1, <2>2, <2>3
  <2>4. CASE u # t
    BY <1>4, <2>1, <2>2, <2>4
  <2> QED BY <2>3, <2>4
<1>9. OrdersTold'
  BY <1>1, <1>6, OrdersAssumption DEF Keyed, OrdersTold, Existing
<1> QED BY <1>6, <1>7, <1>8, <1>9 DEF Keyed

-----------------------------------------------------------------------------
(* Nodes and their reports.                                                 *)

(* The newest report of a node says that its present round is complete. *)
Shown(feedback, n, round, bound) ==
  \E i \in DOMAIN feedback :
    /\ Newest(feedback, n, i)
    /\ feedback[i].report.completed = feedback[i].report.total
    /\ ~feedback[i].report.blocked
    /\ feedback[i].round = round
    /\ feedback[i].version <= bound

Expects(feedback, n, round, date) ==
  \E i \in DOMAIN feedback :
    Recent(feedback, n, round, i) /\ feedback[i].report.expected = date

Arrives(feedback, n, round, date) ==
  \E i \in DOMAIN feedback : Recent(feedback, n, round, i) /\ feedback[i].report.eta = date

NodeOK(feedback, version, n, row) ==
  /\ row.status = "reported_complete" => Shown(feedback, n, row.rounds, version)
  /\ row.status = "accepted" /\ row.acceptance # None =>
       Shown(feedback, n, row.rounds, row.acceptance.seen)
  /\ row.expected # None => Expects(feedback, n, row.rounds, row.expected)
  /\ row.eta # None => Arrives(feedback, n, row.rounds, row.eta)

WorkOK ==
  \A o \in Existing, n \in Nodes :
    NodeOK(order[o].feedback, order[o].version, n, order[o].node[n])

(* A file came before the version of its order, and before the acceptance of its node. *)
FilesOK ==
  \A f \in file :
    /\ order[f.order] # None
    /\ f.version < order[f.order].version
    /\ LET row == order[f.order].node[f.node]
       IN  row.status = "accepted" /\ row.acceptance # None => f.version < row.acceptance.seen

(* What is configured was validated. *)
PlansOK == \A o \in Existing : order[o] \in Plans

IInv == TypeOK /\ Keyed /\ WorkOK /\ FilesOK /\ PlansOK

(* A report is put before the others. *)
LEMMA Fronted ==
  ASSUME NEW feedback \in Seq(FeedbackRow), NEW f \in FeedbackRow
  PROVE  /\ <<f>> \o feedback \in Seq(FeedbackRow)
         /\ DOMAIN feedback = 1..Len(feedback) /\ Len(feedback) \in Nat
         /\ DOMAIN (<<f>> \o feedback) = 1..(Len(feedback) + 1)
         /\ (<<f>> \o feedback)[1] = f
         /\ \A i \in 1..Len(feedback) : (<<f>> \o feedback)[i + 1] = feedback[i]
  OBVIOUS

LEMMA ShownLater ==
  ASSUME NEW feedback \in Seq(FeedbackRow), NEW n \in Nodes, NEW round \in Nat, NEW b \in Nat,
         NEW c \in Nat, b <= c, Shown(feedback, n, round, b)
  PROVE  Shown(feedback, n, round, c)
<1>1. PICK i \in DOMAIN feedback :
        /\ Newest(feedback, n, i)
        /\ feedback[i].report.completed = feedback[i].report.total
        /\ ~feedback[i].report.blocked
        /\ feedback[i].round = round
        /\ feedback[i].version <= b
  BY DEF Shown
<1>2. feedback[i] \in FeedbackRow
  OBVIOUS
<1>3. feedback[i].version <= c
  BY <1>1, <1>2 DEF FeedbackRow
<1> QED BY <1>1, <1>3 DEF Shown

(* The report of another node, or one without a blocker, leaves older ones what they are. *)
LEMMA RecentStays ==
  ASSUME NEW feedback \in Seq(FeedbackRow), NEW f \in FeedbackRow, NEW n \in Nodes, NEW round \in Nat,
         f.node = n => ~f.report.blocked, NEW i \in DOMAIN feedback, Recent(feedback, n, round, i)
  PROVE  /\ i + 1 \in DOMAIN (<<f>> \o feedback)
         /\ (<<f>> \o feedback)[i + 1] = feedback[i]
         /\ Recent(<<f>> \o feedback, n, round, i + 1)
<1> DEFINE longer == <<f>> \o feedback
<1>1. /\ DOMAIN feedback = 1..Len(feedback) /\ Len(feedback) \in Nat
      /\ DOMAIN longer = 1..(Len(feedback) + 1)
      /\ longer[1] = f
      /\ \A j \in 1..Len(feedback) : longer[j + 1] = feedback[j]
  BY Fronted
<1> HIDE DEF longer
<1>2. ASSUME NEW j \in 1..i, longer[j].node = n
      PROVE  ~longer[j].report.blocked
  <2>1. CASE j = 1
    BY <1>1, <1>2, <2>1
  <2>2. CASE j # 1
    <3>1. j - 1 \in 1..Len(feedback) /\ j - 1 \in 1..(i - 1) /\ longer[(j - 1) + 1] = feedback[j - 1]
      BY <1>1, <2>2
    <3>2. longer[j] = feedback[j - 1]
      BY <3>1
    <3> QED BY <1>2, <3>1, <3>2 DEF Recent
  <2> QED BY <2>1, <2>2
<1>3. Recent(longer, n, round, i + 1)
  BY <1>1, <1>2 DEF Recent
<1> QED BY <1>1, <1>3 DEF longer

LEMMA ShownStays ==
  ASSUME NEW feedback \in Seq(FeedbackRow), NEW f \in FeedbackRow, NEW n \in Nodes, f.node # n,
         NEW round \in Nat, NEW b \in Nat, Shown(feedback, n, round, b)
  PROVE  Shown(<<f>> \o feedback, n, round, b)
<1> DEFINE longer == <<f>> \o feedback
<1>1. /\ DOMAIN feedback = 1..Len(feedback) /\ Len(feedback) \in Nat
      /\ DOMAIN longer = 1..(Len(feedback) + 1)
      /\ longer[1] = f
      /\ \A j \in 1..Len(feedback) : longer[j + 1] = feedback[j]
  BY Fronted
<1> HIDE DEF longer
<1>2. PICK i \in DOMAIN feedback :
        /\ Newest(feedback, n, i)
        /\ feedback[i].report.completed = feedback[i].report.total
        /\ ~feedback[i].report.blocked
        /\ feedback[i].round = round
        /\ feedback[i].version <= b
  BY DEF Shown
<1>3. ASSUME NEW j \in 1..i PROVE longer[j].node # n
  <2>1. CASE j = 1
    BY <1>1, <2>1
  <2>2. CASE j # 1
    <3>1. j - 1 \in 1..Len(feedback) /\ j - 1 \in 1..(i - 1) /\ longer[(j - 1) + 1] = feedback[j - 1]
      BY <1>1, <2>2
    <3>2. longer[j] = feedback[j - 1]
      BY <3>1
    <3> QED BY <1>2, <3>1, <3>2 DEF Newest
  <2> QED BY <2>1, <2>2
<1>4. i + 1 \in DOMAIN longer /\ longer[i + 1] = feedback[i]
  BY <1>1
<1>5. Newest(longer, n, i + 1)
  BY <1>1, <1>2, <1>3, <1>4 DEF Newest
<1>6. Shown(longer, n, round, b)
  BY <1>2, <1>4, <1>5 DEF Shown
<1> QED BY <1>6 DEF longer

LEMMA DatesStay ==
  ASSUME NEW feedback \in Seq(FeedbackRow), NEW f \in FeedbackRow, NEW n \in Nodes,
         f.node = n => ~f.report.blocked, NEW round \in Nat, NEW date
  PROVE  /\ Expects(feedback, n, round, date) => Expects(<<f>> \o feedback, n, round, date)
         /\ Arrives(feedback, n, round, date) => Arrives(<<f>> \o feedback, n, round, date)
<1>1. ASSUME Expects(feedback, n, round, date)
      PROVE  Expects(<<f>> \o feedback, n, round, date)
  <2>1. PICK i \in DOMAIN feedback :
          Recent(feedback, n, round, i) /\ feedback[i].report.expected = date
    BY <1>1 DEF Expects
  <2> QED BY <2>1, RecentStays DEF Expects
<1>2. ASSUME Arrives(feedback, n, round, date)
      PROVE  Arrives(<<f>> \o feedback, n, round, date)
  <2>1. PICK i \in DOMAIN feedback :
          Recent(feedback, n, round, i) /\ feedback[i].report.eta = date
    BY <1>2 DEF Arrives
  <2> QED BY <2>1, RecentStays DEF Arrives
<1> QED BY <1>1, <1>2

LEMMA NodeLater ==
  ASSUME NEW feedback \in Seq(FeedbackRow), NEW n \in Nodes, NEW row \in NodeRow,
         NEW v \in Nat, NodeOK(feedback, v, n, row)
  PROVE  NodeOK(feedback, v + 1, n, row)
<1>1. row.rounds \in Nat
  BY DEF NodeRow
<1>2. ASSUME row.status = "reported_complete" PROVE Shown(feedback, n, row.rounds, v + 1)
  BY <1>1, <1>2, ShownLater DEF NodeOK
<1> QED BY <1>2 DEF NodeOK

-----------------------------------------------------------------------------
(* Writes of one order.                                                     *)

(* A node that is accepted by this write, or was so before, as it was. *)
AcceptedAs(o, row) ==
  \A n \in Nodes : row.node[n].status = "accepted" /\ row.node[n].acceptance # None =>
    \/ row.node[n].acceptance.seen = order[o].version
    \/ /\ order[o].node[n].status = "accepted"
       /\ order[o].node[n].acceptance = row.node[n].acceptance

(* A write that leaves the configuration as it was. *)
SamePlan(plan, other) ==
  /\ other.calendar = plan.calendar
  /\ \A n \in Nodes : /\ other.node[n].dependencies = plan.node[n].dependencies
                      /\ other.node[n].duration = plan.node[n].duration

LEMMA PlanKept ==
  ASSUME NEW plan \in Plans, NEW other \in OrderRow, SamePlan(plan, other)
  PROVE  other \in Plans
<1> DEFINE deps == [n \in Nodes |-> plan.node[n].dependencies]
           same == [n \in Nodes |-> other.node[n].dependencies]
<1>1. same = deps
  BY DEF SamePlan
<1>2. ASSUME other.calendar # None
      PROVE  /\ Usable(other.calendar)
             /\ \A n \in Nodes : /\ other.node[n].dependencies \in SUBSET Nodes
                                 /\ other.node[n].duration \in Nat
             /\ \A n \in Nodes : Visit(deps, n)
  BY <1>2 DEF SamePlan, Plans
<1> HIDE DEF deps, same
<1>3. other.calendar # None => \A n \in Nodes : Visit(same, n)
  BY <1>1, <1>2
<1> QED BY <1>2, <1>3 DEF Plans, same

(* What was validated is fit to be configured. *)
LEMMA ValidPlan ==
  ASSUME NEW p \in ProjectRow, Valid(p), NEW row \in OrderRow,
         row.calendar = p.calendar,
         \A n \in Nodes : /\ row.node[n].dependencies = p.node[n].dependencies
                         /\ row.node[n].duration = p.node[n].duration
  PROVE  row \in Plans
<1> DEFINE deps == [n \in Nodes |-> p.node[n].dependencies]
           same == [n \in Nodes |-> row.node[n].dependencies]
<1>1. same = deps
  OBVIOUS
<1>2. /\ Usable(row.calendar)
      /\ \A n \in Nodes : /\ row.node[n].dependencies \in SUBSET Nodes
                          /\ row.node[n].duration \in Nat
      /\ \A n \in Nodes : Visit(deps, n)
  BY DEF Valid, Usable, ProjectRow
<1> HIDE DEF deps, same
<1>3. \A n \in Nodes : Visit(same, n)
  BY <1>1, <1>2
<1> QED BY <1>2, <1>3 DEF Plans, same

LEMMA UpdateSafe ==
  ASSUME IInv, NEW o \in OrderIds, NEW k \in Keys, KeyFree(k), order[o] # None,
         NEW row \in Plans, Update(o, k, row), UNCHANGED file,
         \A n \in Nodes : NodeOK(row.feedback, order[o].version + 1, n, row.node[n]),
         AcceptedAs(o, row)
  PROVE  IInv'
<1>1. /\ order' \in [OrderIds -> OrderRow \cup {None}]
      /\ order[o] \in OrderRow /\ order'[o] \in OrderRow /\ order'[o] # None
      /\ order'[o].version = order[o].version + 1
      /\ order'[o].feedback = row.feedback /\ order'[o].node = row.node
      /\ order'[o].calendar = row.calendar
      /\ \A p \in OrderIds \ {o} : order'[p] = order[p]
      /\ template' = template /\ audit' = audit
      /\ mutations' \in [Keys -> [writes: SUBSET Writes] \cup {None}]
      /\ outbox' \subseteq OrderIds \X (1..MaxVersion)
      /\ Keyed'
  <2>1. row \in OrderRow
    BY DEF Plans
  <2> QED BY <2>1, Written DEF IInv
<1>2. order[o].version \in Nat
  BY <1>1 DEF OrderRow
<1>3. TypeOK'
  BY <1>1 DEF IInv, TypeOK
<1>4. WorkOK'
  <2> SUFFICES ASSUME NEW p \in OrderIds, order'[p] # None, NEW n \in Nodes
               PROVE  NodeOK(order'[p].feedback, order'[p].version, n, order'[p].node[n])
    BY DEF WorkOK, Existing, NodeOK, Shown, Newest, Expects, Arrives, Recent
  <2>1. CASE p = o
    BY <1>1, <2>1
  <2>2. CASE p # o
    BY <1>1, <2>2 DEF IInv, WorkOK, Existing
  <2> QED BY <2>1, <2>2
<1>5. FilesOK'
  <2> SUFFICES ASSUME NEW f \in file
               PROVE  /\ order'[f.order] # None
                      /\ f.version < order'[f.order].version
                      /\ LET new == order'[f.order].node[f.node]
                         IN  new.status = "accepted" /\ new.acceptance # None =>
                               f.version < new.acceptance.seen
    BY DEF FilesOK
  <2>1. f.order \in OrderIds /\ f.node \in Nodes /\ f.version \in Nat
    BY DEF IInv, TypeOK
  <2>2. /\ order[f.order] # None
        /\ f.version < order[f.order].version
        /\ LET old == order[f.order].node[f.node]
           IN  old.status = "accepted" /\ old.acceptance # None => f.version < old.acceptance.seen
    BY DEF IInv, FilesOK
  <2>3. CASE f.order = o
    BY <1>1, <1>2, <2>1, <2>2, <2>3 DEF AcceptedAs
  <2>4. CASE f.order # o
    BY <1>1, <2>1, <2>2, <2>4
  <2> QED BY <2>3, <2>4
<1>6. PlansOK'
  <2> SUFFICES ASSUME NEW p \in OrderIds, order'[p] # None
               PROVE  order'[p] \in Plans
    BY DEF PlansOK, Existing
  <2>1. CASE p = o
    <3>1. SamePlan(row, order'[o])
      BY <1>1 DEF SamePlan
    <3> QED BY <1>1, <2>1, <3>1, PlanKept
  <2>2. CASE p # o
    BY <1>1, <2>2 DEF IInv, PlansOK, Existing
  <2> QED BY <2>1, <2>2
<1> QED BY <1>1, <1>3, <1>4, <1>5, <1>6 DEF IInv

(* A write that leaves the work as it was. *)
SameWork(x, y) ==
  /\ x.status = y.status
  /\ x.acceptance = y.acceptance
  /\ x.rounds = y.rounds
  /\ x.expected = y.expected
  /\ x.eta = y.eta

LEMMA WorkKept ==
  ASSUME IInv, NEW o \in OrderIds, order[o] # None, NEW row \in OrderRow,
         row.feedback = order[o].feedback,
         \A n \in Nodes : SameWork(row.node[n], order[o].node[n])
  PROVE  /\ \A n \in Nodes : NodeOK(row.feedback, order[o].version + 1, n, row.node[n])
         /\ AcceptedAs(o, row)
<1>1. order[o] \in OrderRow
  BY DEF IInv, TypeOK
<1>2. /\ order[o].feedback \in Seq(FeedbackRow)
      /\ order[o].version \in Nat
      /\ \A n \in Nodes : order[o].node[n] \in NodeRow
  BY <1>1 DEF OrderRow
<1>3. ASSUME NEW n \in Nodes
      PROVE  NodeOK(row.feedback, order[o].version + 1, n, row.node[n])
  <2>1. NodeOK(order[o].feedback, order[o].version, n, order[o].node[n])
    BY DEF IInv, WorkOK, Existing
  <2>2. NodeOK(order[o].feedback, order[o].version + 1, n, order[o].node[n])
    BY <1>2, <2>1, NodeLater
  <2> QED BY <2>2 DEF NodeOK, SameWork
<1> QED BY <1>3 DEF AcceptedAs, SameWork

LEMMA Untouched ==
  ASSUME IInv, NEW o \in OrderIds, NEW k \in Keys, KeyFree(k), order[o] # None,
         NEW row \in OrderRow, row.feedback = order[o].feedback,
         row.node = order[o].node, row.calendar = order[o].calendar,
         Update(o, k, row), UNCHANGED file
  PROVE  IInv'
<1>1. order[o] \in Plans
  BY DEF IInv, PlansOK, Existing
<1>2. row \in Plans
  BY <1>1, PlanKept DEF SamePlan
<1> QED BY <1>2, WorkKept, UpdateSafe DEF SameWork

LEMMA ConfigureStep ==
  ASSUME IInv, NEW o \in OrderIds, NEW k \in Keys, KeyFree(k), order[o] # None,
         NEW p \in Projects, Configure(o, p, k)
  PROVE  IInv'
<1> DEFINE node(n) == [order[o].node[n] EXCEPT !.dependencies = p.node[n].dependencies,
                         !.duration = p.node[n].duration, !.planned = p.node[n].planned]
           row == Reconfigured(order[o], p)
<1>1. order[o] \in OrderRow /\ p \in ProjectRow
  BY OrdersAssumption DEF IInv, TypeOK
<1>2. /\ p.calendar \in Calendar
      /\ \A n \in Nodes : p.node[n].dependencies \in SUBSET Nodes /\ p.node[n].duration \in Nat
                          /\ p.node[n].planned \in DateOrNone
  BY <1>1 DEF ProjectRow
<1>3. ASSUME NEW n \in Nodes
      PROVE  node(n) \in NodeRow /\ SameWork(node(n), order[o].node[n])
  <2>1. order[o].node[n] \in NodeRow
    BY <1>1 DEF OrderRow
  <2> QED BY <1>2, <2>1 DEF NodeRow, SameWork, DateOrNone
<1> HIDE DEF node
<1>4. /\ row \in OrderRow
      /\ row.feedback = order[o].feedback
      /\ row.calendar = p.calendar
      /\ \A n \in Nodes : row.node[n] = node(n)
  BY <1>1, <1>2, <1>3 DEF OrderRow, Reconfigured, node
<1> HIDE DEF row
<1>5. Update(o, k, row) /\ UNCHANGED file /\ Valid(p)
  BY DEF Configure, row
<1>6. \A n \in Nodes : /\ row.node[n].dependencies = p.node[n].dependencies
                      /\ row.node[n].duration = p.node[n].duration
  <2> SUFFICES ASSUME NEW n \in Nodes
               PROVE  /\ node(n).dependencies = p.node[n].dependencies
                      /\ node(n).duration = p.node[n].duration
    BY <1>4
  <2>1. order[o].node[n] \in NodeRow
    BY <1>1 DEF OrderRow
  <2> QED BY <2>1 DEF node, NodeRow
<1>7. row \in Plans
  BY <1>1, <1>4, <1>5, <1>6, ValidPlan
<1> QED BY <1>3, <1>4, <1>5, <1>7, WorkKept, UpdateSafe

(* A write of one node: the others stay, and the reports of this one are as "row" says. *)
LEMMA NodeWritten ==
  ASSUME IInv, NEW o \in OrderIds, NEW k \in Keys, KeyFree(k), order[o] # None,
         NEW n \in Nodes, NEW x \in NodeRow, NEW row \in OrderRow,
         row.feedback = order[o].feedback,
         row.calendar = order[o].calendar,
         row.node = [order[o].node EXCEPT ![n] = x],
         x.dependencies = order[o].node[n].dependencies,
         x.duration = order[o].node[n].duration,
         Update(o, k, row), UNCHANGED file,
         NodeOK(order[o].feedback, order[o].version + 1, n, x),
         x.status = "accepted" => x.acceptance = None \/ x.acceptance.seen = order[o].version
  PROVE  IInv'
<1>1. order[o] \in OrderRow
  BY DEF IInv, TypeOK
<1>2. /\ order[o].feedback \in Seq(FeedbackRow) /\ order[o].version \in Nat
      /\ order[o].node \in [Nodes -> NodeRow]
  BY <1>1 DEF OrderRow
<1>3. row.node[n] = x /\ \A m \in Nodes \ {n} : row.node[m] = order[o].node[m]
  BY <1>2
<1>4. ASSUME NEW m \in Nodes
      PROVE  NodeOK(row.feedback, order[o].version + 1, m, row.node[m])
  <2>1. CASE m = n
    BY <1>3, <2>1
  <2>2. CASE m # n
    <3>1. NodeOK(order[o].feedback, order[o].version, m, order[o].node[m])
      BY DEF IInv, WorkOK, Existing
    <3> QED BY <1>2, <1>3, <2>2, <3>1, NodeLater
  <2> QED BY <2>1, <2>2
<1>5. AcceptedAs(o, row)
  BY <1>3 DEF AcceptedAs
<1>6. row \in Plans
  <2>1. order[o] \in Plans /\ SamePlan(order[o], row)
    BY <1>3 DEF IInv, PlansOK, Existing, SamePlan
  <2> QED BY <2>1, PlanKept
<1> QED BY <1>4, <1>5, <1>6, UpdateSafe

LEMMA AcceptStep ==
  ASSUME IInv, NEW o \in OrderIds, NEW k \in Keys, KeyFree(k),
         NEW n \in Nodes, NEW day \in Days, NEW expected \in Nat, Current(o, expected),
         Accept(o, n, day, expected, k)
  PROVE  IInv'
<1> DEFINE old == order[o].node[n]
           given == [at |-> day, sourceVersion |-> order[o].version, seen |-> expected]
           x == [[old EXCEPT !.status = "accepted"] EXCEPT !.acceptance = given]
           row == [order[o] EXCEPT !.node[n].status = "accepted", !.node[n].acceptance = given]
<1>1. order[o] # None /\ expected = order[o].version
  BY DEF Current
<1>2. order[o] \in OrderRow
  BY <1>1 DEF IInv, TypeOK
<1>3. old \in NodeRow /\ order[o].version \in Nat /\ order[o].node \in [Nodes -> NodeRow]
      /\ order[o].feedback \in Seq(FeedbackRow)
  BY <1>2 DEF OrderRow
<1>4. given \in [at: Days, sourceVersion: Nat, seen: Nat] /\ given.seen = order[o].version
  BY <1>1, <1>3
<1> HIDE DEF given
<1>5. /\ x \in NodeRow /\ x.status = "accepted" /\ x.acceptance = given
      /\ x.rounds = old.rounds /\ x.expected = old.expected /\ x.eta = old.eta
      /\ x.dependencies = old.dependencies /\ x.duration = old.duration
  BY <1>3, <1>4 DEF NodeRow, Statuses
<1>6. row.node = [order[o].node EXCEPT ![n] = x] /\ row.feedback = order[o].feedback
      /\ row.calendar = order[o].calendar /\ row \in OrderRow
  <2>1. row = [order[o] EXCEPT !.node = [order[o].node EXCEPT ![n] = x]]
    BY <1>2, <1>3 DEF OrderRow
  <2>2. [order[o].node EXCEPT ![n] = x] \in [Nodes -> NodeRow]
    BY <1>3, <1>5
  <2> HIDE DEF x, row
  <2> QED BY <1>2, <2>1, <2>2 DEF OrderRow
<1>7. old.status = "reported_complete" /\ Update(o, k, row) /\ UNCHANGED file
  BY DEF Accept, Ready, given
<1>8. NodeOK(order[o].feedback, order[o].version, n, old)
  BY <1>1 DEF IInv, WorkOK, Existing
<1>9. NodeOK(order[o].feedback, order[o].version + 1, n, x)
  BY <1>4, <1>5, <1>7, <1>8 DEF NodeOK
<1> HIDE DEF x, row
<1> QED BY <1>1, <1>4, <1>5, <1>6, <1>7, <1>9, NodeWritten

LEMMA ReturnedRow ==
  ASSUME NEW old \in NodeRow
  PROVE  /\ Returned(old) \in NodeRow
         /\ Returned(old).status = "rework"
         /\ Returned(old).expected = None /\ Returned(old).eta = None
         /\ Returned(old).dependencies = old.dependencies
         /\ Returned(old).duration = old.duration
<1>1. old.rounds + 1 \in Nat /\ "rework" \in Statuses /\ None \in DateOrNone /\ 0 \in Int
  BY DEF NodeRow, Statuses, DateOrNone
<1>2. ASSUME NEW rounds \in Nat
      PROVE  [old EXCEPT !.status = "rework", !.percent = 0, !.rounds = rounds,
                         !.expected = None, !.eta = None] \in NodeRow
  BY <1>1 DEF NodeRow
<1>3. Returned(old) \in NodeRow
  BY <1>1, <1>2 DEF Returned
<1>4. /\ Returned(old).status = "rework"
      /\ Returned(old).expected = None /\ Returned(old).eta = None
      /\ Returned(old).dependencies = old.dependencies
      /\ Returned(old).duration = old.duration
  BY DEF Returned, NodeRow
<1> QED BY <1>3, <1>4

LEMMA ReturnStep ==
  ASSUME IInv, NEW o \in OrderIds, NEW k \in Keys, KeyFree(k), order[o] # None,
         NEW n \in Nodes, Return(o, n, k)
  PROVE  IInv'
<1> DEFINE old == order[o].node[n]
           x == Returned(old)
           row == [order[o] EXCEPT !.node[n] = Returned(@)]
<1>1. order[o] \in OrderRow
  BY DEF IInv, TypeOK
<1>2. old \in NodeRow /\ order[o].node \in [Nodes -> NodeRow]
  BY <1>1 DEF OrderRow
<1>3. /\ x \in NodeRow /\ x.status = "rework" /\ x.expected = None /\ x.eta = None
      /\ x.dependencies = old.dependencies /\ x.duration = old.duration
  BY <1>2, ReturnedRow
<1>4. row.node = [order[o].node EXCEPT ![n] = x] /\ row.feedback = order[o].feedback
      /\ row.calendar = order[o].calendar /\ row \in OrderRow
  <2>1. row = [order[o] EXCEPT !.node = [order[o].node EXCEPT ![n] = x]]
    BY <1>1 DEF OrderRow
  <2>2. [order[o].node EXCEPT ![n] = x] \in [Nodes -> NodeRow]
    BY <1>2, <1>3
  <2> HIDE DEF x, row
  <2> QED BY <1>1, <2>1, <2>2 DEF OrderRow
<1>5. Update(o, k, row) /\ UNCHANGED file
  BY DEF Return
<1>6. NodeOK(order[o].feedback, order[o].version + 1, n, x)
  BY <1>3 DEF NodeOK
<1> HIDE DEF x, row
<1> QED BY <1>3, <1>4, <1>5, <1>6, NodeWritten

(* What a report makes of its node. *)
Reported(old, r) ==
  [old EXCEPT !.percent = Percent(r), !.status = StatusAfter(r),
              !.expected = Evidence(r, r.expected, old.expected),
              !.eta = Evidence(r, r.eta, old.eta)]

LEMMA ReportedRow ==
  ASSUME NEW old \in NodeRow, NEW r \in ReportRow
  PROVE  /\ Reported(old, r) \in NodeRow
         /\ Reported(old, r).status = StatusAfter(r)
         /\ Reported(old, r).rounds = old.rounds
         /\ Reported(old, r).expected = Evidence(r, r.expected, old.expected)
         /\ Reported(old, r).eta = Evidence(r, r.eta, old.eta)
         /\ Reported(old, r).dependencies = old.dependencies
         /\ Reported(old, r).duration = old.duration
<1> DEFINE percent == Percent(r)
           status == StatusAfter(r)
           expected == Evidence(r, r.expected, old.expected)
           eta == Evidence(r, r.eta, old.eta)
<1>1. percent \in Int
  BY DEF Percent, ReportRow
<1>2. status \in Statuses
  BY DEF StatusAfter, Statuses
<1>3. expected \in DateOrNone /\ eta \in DateOrNone
  BY DEF Evidence, Kept, ReportRow, NodeRow, DateOrNone
<1>4. Reported(old, r) = [old EXCEPT !.percent = percent, !.status = status,
                                     !.expected = expected, !.eta = eta]
  BY DEF Reported
<1> HIDE DEF percent, status, expected, eta
<1>5. /\ Reported(old, r) \in NodeRow
      /\ Reported(old, r).status = status
      /\ Reported(old, r).rounds = old.rounds
      /\ Reported(old, r).expected = expected
      /\ Reported(old, r).eta = eta
      /\ Reported(old, r).dependencies = old.dependencies
      /\ Reported(old, r).duration = old.duration
  BY <1>1, <1>2, <1>3, <1>4 DEF NodeRow
<1> QED BY <1>5 DEF status, expected, eta

(* The node of a new report. *)
LEMMA ReportedOK ==
  ASSUME NEW feedback \in Seq(FeedbackRow), NEW n \in Nodes, NEW old \in NodeRow, NEW v \in Nat,
         NEW r \in Reports, NodeOK(feedback, v, n, old),
         NEW f \in FeedbackRow, f = [node |-> n, report |-> r, round |-> old.rounds, version |-> v + 1]
  PROVE  NodeOK(<<f>> \o feedback, v + 1, n, Reported(old, r))
<1> DEFINE longer == <<f>> \o feedback
           x == Reported(old, r)
<1>1. /\ x.status = StatusAfter(r) /\ x.rounds = old.rounds
      /\ x.expected = Evidence(r, r.expected, old.expected)
      /\ x.eta = Evidence(r, r.eta, old.eta)
  BY ReportedRow, OrdersAssumption
<1>2. /\ 1 \in DOMAIN longer /\ longer[1] = f
      /\ f.node = n /\ f.report = r /\ f.round = old.rounds /\ f.version = v + 1
  BY Fronted
<1>3. Newest(longer, n, 1) /\ Recent(longer, n, old.rounds, 1)
  <2>1. 1..(1 - 1) = {}
    OBVIOUS
  <2> HIDE DEF longer
  <2> QED BY <1>2, <2>1 DEF Newest, Recent
<1>4. old.rounds \in Nat
  BY DEF NodeRow
<1> HIDE DEF longer, x
<1>5. ASSUME x.status = "reported_complete" PROVE Shown(longer, n, x.rounds, v + 1)
  <2>1. r.completed = r.total /\ ~r.blocked
    BY <1>1, <1>5 DEF StatusAfter
  <2> QED BY <1>1, <1>2, <1>3, <2>1 DEF Shown
<1>6. x.status # "accepted"
  BY <1>1 DEF StatusAfter
<1>7. ASSUME x.expected # None PROVE Expects(longer, n, x.rounds, x.expected)
  <2>1. CASE r.expected # None
    BY <1>1, <1>2, <1>3, <2>1 DEF Evidence, Expects
  <2>2. CASE r.expected = None
    <3>1. ~r.blocked /\ x.expected = old.expected
      BY <1>1, <1>7, <2>2 DEF Evidence, Kept
    <3>2. Expects(feedback, n, old.rounds, old.expected)
      BY <1>7, <3>1 DEF NodeOK
    <3> QED BY <1>1, <1>2, <1>4, <3>1, <3>2, DatesStay DEF longer
  <2> QED BY <2>1, <2>2
<1>8. ASSUME x.eta # None PROVE Arrives(longer, n, x.rounds, x.eta)
  <2>1. CASE r.eta # None
    BY <1>1, <1>2, <1>3, <2>1 DEF Evidence, Arrives
  <2>2. CASE r.eta = None
    <3>1. ~r.blocked /\ x.eta = old.eta
      BY <1>1, <1>8, <2>2 DEF Evidence, Kept
    <3>2. Arrives(feedback, n, old.rounds, old.eta)
      BY <1>8, <3>1 DEF NodeOK
    <3> QED BY <1>1, <1>2, <1>4, <3>1, <3>2, DatesStay DEF longer
  <2> QED BY <2>1, <2>2
<1>9. NodeOK(longer, v + 1, n, x)
  BY <1>5, <1>6, <1>7, <1>8 DEF NodeOK
<1> QED BY <1>9 DEF longer, x

(* The other nodes of the order. *)
LEMMA OthersOK ==
  ASSUME NEW feedback \in Seq(FeedbackRow), NEW m \in Nodes, NEW row \in NodeRow, NEW v \in Nat,
         NodeOK(feedback, v, m, row), NEW f \in FeedbackRow, f.node # m
  PROVE  NodeOK(<<f>> \o feedback, v + 1, m, row)
<1>1. row.rounds \in Nat
  BY DEF NodeRow
<1>2. ASSUME row.status = "reported_complete"
      PROVE  Shown(<<f>> \o feedback, m, row.rounds, v + 1)
  <2>1. Shown(feedback, m, row.rounds, v + 1)
    BY <1>1, <1>2, ShownLater DEF NodeOK
  <2> QED BY <1>1, <2>1, ShownStays
<1>3. ASSUME row.status = "accepted", row.acceptance # None
      PROVE  Shown(<<f>> \o feedback, m, row.rounds, row.acceptance.seen)
  <2>1. Shown(feedback, m, row.rounds, row.acceptance.seen)
    BY <1>3 DEF NodeOK
  <2>2. row.acceptance \in [at: Days, sourceVersion: Nat, seen: Nat]
    BY <1>3 DEF NodeRow
  <2>3. row.acceptance.seen \in Nat
    BY <2>2
  <2> QED BY <1>1, <2>1, <2>3, ShownStays
<1>4. row.expected # None => Expects(<<f>> \o feedback, m, row.rounds, row.expected)
  BY <1>1, DatesStay DEF NodeOK
<1>5. row.eta # None => Arrives(<<f>> \o feedback, m, row.rounds, row.eta)
  BY <1>1, DatesStay DEF NodeOK
<1> QED BY <1>2, <1>3, <1>4, <1>5 DEF NodeOK

LEMMA FeedbackStep ==
  ASSUME IInv, NEW o \in OrderIds, NEW k \in Keys, KeyFree(k), order[o] # None,
         NEW n \in Nodes, NEW r \in Reports, Feedback(o, n, r, k)
  PROVE  IInv'
<1> DEFINE old == order[o].node[n]
           x == Reported(old, r)
           f == [node |-> n, report |-> r, round |-> old.rounds, version |-> order[o].version + 1]
           longer == <<f>> \o order[o].feedback
           row == [order[o] EXCEPT !.node[n] = x, !.feedback = longer]
<1>1. order[o] \in OrderRow
  BY DEF IInv, TypeOK
<1>2. old \in NodeRow /\ order[o].node \in [Nodes -> NodeRow] /\ order[o].version \in Nat
      /\ order[o].feedback \in Seq(FeedbackRow) /\ old.rounds \in Nat
  BY <1>1 DEF OrderRow, NodeRow
<1>3. f \in FeedbackRow
  BY <1>2 DEF FeedbackRow
<1>4. /\ x \in NodeRow /\ x.status = StatusAfter(r)
      /\ x.dependencies = old.dependencies /\ x.duration = old.duration
  BY <1>2, ReportedRow, OrdersAssumption
<1>5. longer \in Seq(FeedbackRow)
  BY <1>2, <1>3, Fronted
<1>6. Update(o, k, row) /\ UNCHANGED file
  BY DEF Feedback, Reported
<1>7. row.node = [order[o].node EXCEPT ![n] = x] /\ row.feedback = longer
      /\ row.calendar = order[o].calendar /\ row \in OrderRow
  <2> HIDE DEF x, longer
  <2>1. row = [order[o] EXCEPT !.node = [order[o].node EXCEPT ![n] = x], !.feedback = longer]
    BY <1>1, <1>2 DEF OrderRow
  <2>2. [order[o].node EXCEPT ![n] = x] \in [Nodes -> NodeRow]
    BY <1>2, <1>4
  <2> HIDE DEF row
  <2> QED BY <1>1, <1>5, <2>1, <2>2 DEF OrderRow
<1>8. row.node[n] = x /\ \A m \in Nodes \ {n} : row.node[m] = order[o].node[m]
  BY <1>2, <1>7
<1>9. ASSUME NEW m \in Nodes
      PROVE  NodeOK(row.feedback, order[o].version + 1, m, row.node[m])
  <2>1. NodeOK(order[o].feedback, order[o].version, m, order[o].node[m])
    BY DEF IInv, WorkOK, Existing
  <2>2. CASE m = n
    <3>1. NodeOK(longer, order[o].version + 1, n, x)
      BY <1>2, <1>3, <2>1, <2>2, ReportedOK
    <3> QED BY <1>7, <1>8, <2>2, <3>1
  <2>3. CASE m # n
    <3>1. order[o].node[m] \in NodeRow /\ f.node # m
      BY <1>2, <2>3
    <3>2. NodeOK(longer, order[o].version + 1, m, order[o].node[m])
      BY <1>2, <1>3, <2>1, <3>1, OthersOK
    <3> QED BY <1>7, <1>8, <2>3, <3>2
  <2> QED BY <2>2, <2>3
<1> HIDE DEF x, row, longer, f
<1>10. AcceptedAs(o, row)
  <2>1. x.status # "accepted"
    BY <1>4 DEF StatusAfter
  <2> QED BY <1>8, <2>1 DEF AcceptedAs
<1>11. row \in Plans
  <2>1. order[o] \in Plans /\ SamePlan(order[o], row)
    BY <1>4, <1>7, <1>8 DEF IInv, PlansOK, Existing, SamePlan
  <2> QED BY <1>7, <2>1, PlanKept
<1> HIDE DEF old
<1> QED BY <1>6, <1>7, <1>9, <1>10, <1>11, UpdateSafe

LEMMA AttachStep ==
  ASSUME IInv, NEW o \in OrderIds, NEW k \in Keys, KeyFree(k), order[o] # None,
         NEW n \in Nodes, Attach(o, n, k)
  PROVE  IInv'
<1> DEFINE new == [order |-> o, node |-> n, version |-> order[o].version]
<1>1. order[o] \in OrderRow /\ order[o].version \in Nat
  BY DEF IInv, TypeOK, OrderRow
<1>2. Update(o, k, order[o]) /\ file' = file \cup {new} /\ order[o].node[n].status # "accepted"
  BY DEF Attach, Open
<1>3. /\ order' \in [OrderIds -> OrderRow \cup {None}]
      /\ order'[o] # None
      /\ order'[o].version = order[o].version + 1
      /\ order'[o].feedback = order[o].feedback /\ order'[o].node = order[o].node
      /\ order'[o].calendar = order[o].calendar
      /\ \A p \in OrderIds \ {o} : order'[p] = order[p]
      /\ template' = template /\ audit' = audit
      /\ mutations' \in [Keys -> [writes: SUBSET Writes] \cup {None}]
      /\ outbox' \subseteq OrderIds \X (1..MaxVersion)
      /\ Keyed'
  BY <1>1, <1>2, Written DEF IInv
<1>4. new \in [order: OrderIds, node: Nodes, version: Nat]
      /\ new.order = o /\ new.node = n /\ new.version = order[o].version
  BY <1>1
<1> HIDE DEF new
<1>5. TypeOK'
  BY <1>2, <1>3, <1>4 DEF IInv, TypeOK
<1>6. WorkOK'
  <2> SUFFICES ASSUME NEW p \in OrderIds, order'[p] # None, NEW m \in Nodes
               PROVE  NodeOK(order'[p].feedback, order'[p].version, m, order'[p].node[m])
    BY DEF WorkOK, Existing, NodeOK, Shown, Newest, Expects, Arrives, Recent
  <2>1. CASE p = o
    <3>1. NodeOK(order[o].feedback, order[o].version + 1, m, order[o].node[m])
      BY <1>1, WorkKept DEF SameWork
    <3> QED BY <1>3, <2>1, <3>1
  <2>2. CASE p # o
    BY <1>3, <2>2 DEF IInv, WorkOK, Existing
  <2> QED BY <2>1, <2>2
<1>7. FilesOK'
  <2> SUFFICES ASSUME NEW f \in file \cup {new}
               PROVE  /\ order'[f.order] # None
                      /\ f.version < order'[f.order].version
                      /\ order'[f.order].node[f.node].status = "accepted"
                           /\ order'[f.order].node[f.node].acceptance # None =>
                             f.version < order'[f.order].node[f.node].acceptance.seen
    BY <1>2 DEF FilesOK
  <2>1. CASE f = new
    BY <1>1, <1>2, <1>3, <1>4, <2>1
  <2>2. CASE f \in file
    <3>1. f.order \in OrderIds /\ f.node \in Nodes /\ f.version \in Nat
      BY <2>2 DEF IInv, TypeOK
    <3>2. /\ order[f.order] # None
          /\ f.version < order[f.order].version
          /\ order[f.order].node[f.node].status = "accepted"
               /\ order[f.order].node[f.node].acceptance # None =>
                 f.version < order[f.order].node[f.node].acceptance.seen
      BY <2>2 DEF IInv, FilesOK
    <3> QED BY <1>1, <1>3, <3>1, <3>2
  <2> QED BY <2>1, <2>2
<1>8. PlansOK'
  <2> SUFFICES ASSUME NEW p \in OrderIds, order'[p] # None
               PROVE  order'[p] \in Plans
    BY DEF PlansOK, Existing
  <2>1. CASE p = o
    <3>1. order[o] \in Plans /\ SamePlan(order[o], order'[o]) /\ order'[o] \in OrderRow
      BY <1>3 DEF IInv, PlansOK, Existing, SamePlan
    <3> QED BY <2>1, <3>1, PlanKept
  <2>2. CASE p # o
    BY <1>3, <2>2 DEF IInv, PlansOK, Existing
  <2> QED BY <2>1, <2>2
<1> QED BY <1>3, <1>5, <1>6, <1>7, <1>8 DEF IInv

LEMMA ProposeStep ==
  ASSUME IInv, NEW k \in Keys, KeyFree(k), Propose(k)
  PROVE  IInv'
<1>1. UNCHANGED <<order, file, template, audit, outbox>>
  BY DEF Propose
<1>2. mutations' \in [Keys -> [writes: SUBSET Writes] \cup {None}] /\ Keyed'
  BY ProposeKeyed DEF IInv
<1>3. TypeOK'
  BY <1>1, <1>2 DEF IInv, TypeOK
<1> QED BY <1>1, <1>2, <1>3
    DEF IInv, WorkOK, FilesOK, PlansOK, Existing, NodeOK, Shown, Newest, Expects, Arrives, Recent

LEMMA LibraryStep ==
  ASSUME IInv, NEW t \in Templates, NEW k \in Keys, KeyFree(k), NEW after \in Nat \cup {None},
         LibraryMutation(t, k, after)
  PROVE  IInv'
<1>1. UNCHANGED <<order, file>>
  BY DEF LibraryMutation
<1>2. TypeOK' /\ Keyed'
  BY LibraryKeyed DEF IInv
<1> QED BY <1>1, <1>2
    DEF IInv, WorkOK, FilesOK, PlansOK, Existing, NodeOK, Shown, Newest, Expects, Arrives, Recent

-----------------------------------------------------------------------------
(* New orders.                                                              *)

(* A node on which nothing was reported; a seed that is accepted has no acceptance. *)
Untold(row) ==
  /\ row.status # "reported_complete"
  /\ row.acceptance = None
  /\ row.expected = None
  /\ row.eta = None

LEMMA UntoldOK ==
  ASSUME NEW row, Untold(row), NEW n, NEW feedback, NEW v
  PROVE  NodeOK(feedback, v, n, row)
  BY DEF Untold, NodeOK

LEMMA SeedRow ==
  ASSUME NEW status \in Statuses \ {"reported_complete"}, NEW percent \in Int
  PROVE  SeedNode(status, percent) \in NodeRow /\ Untold(SeedNode(status, percent))
  BY DEF SeedNode, NodeRow, Untold, DateOrNone

LEMMA NewRow ==
  ASSUME NEW p \in Projects
  PROVE  /\ NewOrder(p) \in OrderRow /\ NewOrder(p).version = 1
         /\ \A n \in Nodes : Untold(NewOrder(p).node[n])
         /\ Valid(p) => NewOrder(p) \in Plans
<1> DEFINE seed == SeedNode("not_started", 0)
           node(n) == [seed EXCEPT !.dependencies = p.node[n].dependencies,
                         !.duration = p.node[n].duration, !.planned = p.node[n].planned]
<1>1. seed \in NodeRow /\ Untold(seed)
  BY SeedRow DEF Statuses
<1>2. /\ p.calendar \in Calendar /\ p.due \in Nat
      /\ \A n \in Nodes : p.node[n].dependencies \in SUBSET Nodes /\ p.node[n].duration \in Nat
                          /\ p.node[n].planned \in DateOrNone
  BY OrdersAssumption DEF ProjectRow
<1> HIDE DEF seed
<1>3. ASSUME NEW n \in Nodes
      PROVE  /\ node(n) \in NodeRow /\ Untold(node(n))
             /\ node(n).dependencies = p.node[n].dependencies
             /\ node(n).duration = p.node[n].duration
  BY <1>1, <1>2 DEF NodeRow, Untold, DateOrNone
<1>4. NewOrder(p) = [version |-> 1, due |-> p.due, calendar |-> p.calendar, feedback |-> <<>>,
                     node |-> [n \in Nodes |-> node(n)]]
  BY DEF NewOrder, seed
<1> HIDE DEF node
<1>5. [n \in Nodes |-> node(n)] \in [Nodes -> NodeRow]
  BY <1>3
<1>6. <<>> \in Seq(FeedbackRow)
  OBVIOUS
<1>7. /\ NewOrder(p) \in OrderRow /\ NewOrder(p).version = 1
      /\ NewOrder(p).calendar = p.calendar
      /\ \A n \in Nodes : NewOrder(p).node[n] = node(n)
  BY <1>2, <1>4, <1>5, <1>6 DEF OrderRow
<1>8. Valid(p) => NewOrder(p) \in Plans
  <2>1. p \in ProjectRow
    BY OrdersAssumption
  <2> QED BY <1>3, <1>7, <2>1, ValidPlan
<1> QED BY <1>3, <1>7, <1>8

LEMMA CreateStep ==
  ASSUME IInv, NEW S \in SUBSET OrderIds, NEW input \in [S -> Projects], NEW k \in Keys,
         KeyFree(k), Create(input, k)
  PROVE  IInv'
<1> DEFINE W == S \X {1}
<1>1. /\ \A o \in S : order[o] = None /\ Valid(input[o])
      /\ order' = [o \in OrderIds |-> IF o \in S THEN NewOrder(input[o]) ELSE order[o]]
      /\ mutations' = [mutations EXCEPT ![k] = [writes |-> W]]
      /\ outbox' = outbox \cup W
      /\ UNCHANGED <<file, template, audit>>
  BY DEF Create, Record
<1>2. \A o \in S : /\ NewOrder(input[o]) \in OrderRow
                   /\ NewOrder(input[o]) # None
                   /\ NewOrder(input[o]).version = 1
                   /\ \A n \in Nodes : Untold(NewOrder(input[o]).node[n])
                   /\ NewOrder(input[o]) \in Plans
  BY <1>1, NewRow, OrdersAssumption
<1>3. /\ order' \in [OrderIds -> OrderRow \cup {None}]
      /\ \A o \in S : order'[o] = NewOrder(input[o])
      /\ \A o \in OrderIds \ S : order'[o] = order[o]
  BY <1>1, <1>2 DEF IInv, TypeOK
<1>4. 1 \in 1..MaxVersion
  BY OrdersAssumption
<1>5. ASSUME NEW o \in S, <<o, 1>> \in Told PROVE FALSE
  <2>1. <<o, 1>> \in outbox
    BY <1>4, <1>5 DEF IInv, Keyed, OrdersTold
  <2> QED BY <1>1, <1>4, <2>1 DEF IInv, Keyed, OrdersTold
<1>6. W \in SUBSET Writes /\ W \cap Told = {}
  BY <1>5 DEF Writes
<1>7. /\ mutations' \in [Keys -> [writes: SUBSET Writes] \cup {None}]
      /\ Disjoint'
      /\ Told' = Told \cup W
  BY <1>1, <1>6, KeyTaken DEF IInv, Keyed
<1>8. W \subseteq OrderIds \X (1..MaxVersion)
  BY <1>4
<1>9. TypeOK'
  BY <1>1, <1>3, <1>7, <1>8 DEF IInv, TypeOK
<1>10. LibraryTold'
  BY <1>1, <1>7, OrdersAssumption DEF IInv, Keyed, LibraryTold
<1>11. OrdersTold'
  <2>1. outbox' = Told' \cap (OrderIds \X (1..MaxVersion))
    BY <1>1, <1>7, <1>8 DEF IInv, Keyed, OrdersTold
  <2>2. \A o \in OrderIds, v \in Nat \ {0} : <<o, v>> \in Told' => v <= MaxVersion
    BY <1>4, <1>7 DEF IInv, Keyed, OrdersTold
  <2>3. ASSUME NEW o \in OrderIds, order'[o] # None, NEW v \in 2..order'[o].version
        PROVE  <<o, v>> \in outbox'
    <3>1. o \notin S
      BY <1>2, <1>3, <2>3
    <3> QED BY <1>1, <1>3, <2>3, <3>1 DEF IInv, Keyed, OrdersTold, Existing
  <2>4. ASSUME NEW o \in OrderIds, NEW v \in 1..MaxVersion, <<o, v>> \in outbox'
        PROVE  order'[o] # None /\ v <= order'[o].version
    <3>1. CASE o \in S
      <4>1. <<o, v>> \notin outbox
        BY <1>1, <3>1 DEF IInv, Keyed, OrdersTold
      <4>2. v = 1
        BY <1>1, <2>4, <4>1
      <4> QED BY <1>2, <1>3, <3>1, <4>2
    <3>2. CASE o \notin S
      BY <1>1, <1>3, <2>4, <3>2 DEF IInv, Keyed, OrdersTold
    <3> QED BY <3>1, <3>2
  <2> QED BY <2>1, <2>2, <2>3, <2>4 DEF OrdersTold, Existing
<1>12. WorkOK'
  <2> SUFFICES ASSUME NEW o \in OrderIds, order'[o] # None, NEW n \in Nodes
               PROVE  NodeOK(order'[o].feedback, order'[o].version, n, order'[o].node[n])
    BY DEF WorkOK, Existing, NodeOK, Shown, Newest, Expects, Arrives, Recent
  <2>1. CASE o \in S
    BY <1>2, <1>3, <2>1, UntoldOK
  <2>2. CASE o \notin S
    BY <1>3, <2>2 DEF IInv, WorkOK, Existing
  <2> QED BY <2>1, <2>2
<1>13. FilesOK'
  <2> SUFFICES ASSUME NEW f \in file
               PROVE  /\ order'[f.order] # None
                      /\ f.version < order'[f.order].version
                      /\ LET row == order'[f.order].node[f.node]
                         IN  row.status = "accepted" /\ row.acceptance # None =>
                               f.version < row.acceptance.seen
    BY <1>1 DEF FilesOK
  <2>1. f.order \in OrderIds /\ order[f.order] # None
    BY DEF IInv, TypeOK, FilesOK
  <2>2. order'[f.order] = order[f.order]
    BY <1>1, <1>3, <2>1
  <2> QED BY <2>2 DEF IInv, FilesOK
<1>14. PlansOK'
  <2> SUFFICES ASSUME NEW o \in OrderIds, order'[o] # None
               PROVE  order'[o] \in Plans
    BY DEF PlansOK, Existing
  <2>1. CASE o \in S
    BY <1>2, <1>3, <2>1
  <2>2. CASE o \notin S
    BY <1>3, <2>2 DEF IInv, PlansOK, Existing
  <2> QED BY <2>1, <2>2
<1> QED BY <1>7, <1>9, <1>10, <1>11, <1>12, <1>13, <1>14 DEF IInv, Keyed

-----------------------------------------------------------------------------
(* The invariant.                                                           *)

LEMMA SeedsOK ==
  ASSUME NEW row \in Seeds
  PROVE  /\ row \in OrderRow /\ row.version = 1
         /\ \A n \in Nodes : Untold(row.node[n])
         /\ row \in Plans
<1>1. PICK m \in Nodes, done \in SUBSET Nodes : row = Seed(m, done)
  BY DEF Seeds
<1> DEFINE node == [n \in Nodes |-> IF n = m THEN SeedNode("in_progress", 40)
                                    ELSE IF n \in done THEN SeedNode("accepted", 100)
                                    ELSE SeedNode("not_started", 0)]
<1>2. /\ SeedNode("in_progress", 40) \in NodeRow /\ Untold(SeedNode("in_progress", 40))
      /\ SeedNode("accepted", 100) \in NodeRow /\ Untold(SeedNode("accepted", 100))
      /\ SeedNode("not_started", 0) \in NodeRow /\ Untold(SeedNode("not_started", 0))
  BY SeedRow DEF Statuses
<1>3. node \in [Nodes -> NodeRow] /\ \A n \in Nodes : Untold(node[n])
  BY <1>2
<1>4. <<>> \in Seq(FeedbackRow)
  OBVIOUS
<1>5. row = [version |-> 1, due |-> 6, calendar |-> None, feedback |-> <<>>, node |-> node]
  BY <1>1 DEF Seed
<1> HIDE DEF node
<1>6. row \in OrderRow /\ row.calendar = None
  BY <1>3, <1>4, <1>5 DEF OrderRow
<1> QED BY <1>3, <1>5, <1>6 DEF Plans

LEMMA Initial == Init => IInv
<1> SUFFICES ASSUME Init PROVE IInv
  OBVIOUS
<1>1. /\ order \in [OrderIds -> Seeds \cup {None}]
      /\ file = {}
      /\ template = [t \in Templates |-> None]
      /\ audit = [t \in Templates |-> <<>>]
      /\ mutations = [k \in Keys |-> None]
      /\ outbox = {}
  BY DEF Init
<1>2. \A o \in OrderIds : order[o] # None =>
        /\ order[o] \in OrderRow /\ order[o].version = 1
        /\ \A n \in Nodes : Untold(order[o].node[n])
        /\ order[o] \in Plans
  BY <1>1, SeedsOK
<1>3. Told = {}
  BY <1>1 DEF Told
<1>4. TypeOK
  <2>1. order \in [OrderIds -> OrderRow \cup {None}]
    BY <1>1, <1>2
  <2>2. <<>> \in Seq((Nat \cup {None}) \X (Nat \cup {None}))
    OBVIOUS
  <2> QED BY <1>1, <2>1, <2>2 DEF TypeOK
<1>5. Keyed
  <2>1. Disjoint
    BY <1>1 DEF Disjoint
  <2>2. LibraryTold
    BY <1>1, <1>3 DEF LibraryTold
  <2>3. OrdersTold
    BY <1>1, <1>2, <1>3 DEF OrdersTold, Existing
  <2> QED BY <2>1, <2>2, <2>3 DEF Keyed
<1>6. WorkOK
  BY <1>2, UntoldOK DEF WorkOK, Existing
<1>7. FilesOK
  BY <1>1 DEF FilesOK
<1>8. PlansOK
  BY <1>2 DEF PlansOK, Existing
<1> QED BY <1>4, <1>5, <1>6, <1>7, <1>8 DEF IInv

LEMMA WriteStep ==
  ASSUME IInv, NEW o \in OrderIds, NEW k \in Keys, KeyFree(k), NEW expected \in Nat,
         Current(o, expected), Write(o, expected, k)
  PROVE  IInv'
<1>1. order[o] # None
  BY DEF Current
<1>2. ASSUME NEW p \in Projects, Configure(o, p, k) PROVE IInv'
  BY <1>1, <1>2, ConfigureStep
<1>3. ASSUME NEW n \in Nodes, NEW r \in Reports, Feedback(o, n, r, k) PROVE IInv'
  BY <1>1, <1>3, FeedbackStep
<1>4. ASSUME NEW n \in Nodes, NEW day \in Days, Accept(o, n, day, expected, k) PROVE IInv'
  BY <1>4, AcceptStep
<1>5. ASSUME NEW n \in Nodes, Return(o, n, k) PROVE IInv'
  BY <1>1, <1>5, ReturnStep
<1>6. ASSUME NEW n \in Nodes, Attach(o, n, k) PROVE IInv'
  BY <1>1, <1>6, AttachStep
<1>7. ASSUME Assign(o, k) PROVE IInv'
  <2>1. order[o] \in OrderRow
    BY <1>1 DEF IInv, TypeOK
  <2> QED BY <1>1, <1>7, <2>1, Untouched DEF Assign
<1>8. ASSUME Propose(k) PROVE IInv'
  BY <1>8, ProposeStep
<1>9. ASSUME NEW due \in Dues, ApplyChange(o, due, k) PROVE IInv'
  <2> DEFINE row == [order[o] EXCEPT !.due = due]
  <2>1. order[o] \in OrderRow /\ due \in Nat
    BY <1>1, OrdersAssumption DEF IInv, TypeOK
  <2>2. /\ row \in OrderRow /\ row.feedback = order[o].feedback
        /\ row.node = order[o].node /\ row.calendar = order[o].calendar
    BY <2>1 DEF OrderRow
  <2>3. Update(o, k, row) /\ UNCHANGED file
    BY <1>9 DEF ApplyChange
  <2> HIDE DEF row
  <2> QED BY <1>1, <2>2, <2>3, Untouched
<1> QED BY <1>2, <1>3, <1>4, <1>5, <1>6, <1>7, <1>8, <1>9 DEF Write

LEMMA Preserved == IInv /\ [Next]_vars => IInv'
<1>1. ASSUME IInv, Next PROVE IInv'
  <2>1. PICK k \in Keys :
          /\ KeyFree(k)
          /\ \/ \E S \in SUBSET OrderIds \ {{}} : \E input \in [S -> Projects] : Create(input, k)
             \/ \E o \in OrderIds, expected \in 1..MaxVersion :
                  Current(o, expected) /\ Write(o, expected, k)
             \/ \E t \in Templates, expected \in (1..MaxVersion) \cup {None} :
                  \/ \E p \in Projects : SaveTemplate(t, p, expected, k)
                  \/ DeleteTemplate(t, expected, k)
    BY <1>1 DEF Next
  <2>2. ASSUME NEW S \in SUBSET OrderIds, NEW input \in [S -> Projects], Create(input, k)
        PROVE  IInv'
    BY <1>1, <2>1, <2>2, CreateStep
  <2>3. ASSUME NEW o \in OrderIds, NEW expected \in 1..MaxVersion,
               Current(o, expected), Write(o, expected, k)
        PROVE  IInv'
    BY <1>1, <2>1, <2>3, WriteStep
  <2>4. ASSUME NEW t \in Templates, NEW p \in Projects, NEW expected, SaveTemplate(t, p, expected, k)
        PROVE  IInv'
    <3>1. template[t] \in Nat \cup {None}
      BY <1>1 DEF IInv, TypeOK
    <3>2. (IF template[t] = None THEN 1 ELSE template[t] + 1) \in Nat \cup {None}
      BY <3>1
    <3> QED BY <1>1, <2>1, <2>4, <3>2, LibraryStep DEF SaveTemplate
  <2>5. ASSUME NEW t \in Templates, NEW expected, DeleteTemplate(t, expected, k)
        PROVE  IInv'
    BY <1>1, <2>1, <2>5, LibraryStep DEF DeleteTemplate
  <2> QED BY <2>1, <2>2, <2>3, <2>4, <2>5
<1>2. ASSUME IInv, UNCHANGED vars PROVE IInv'
  <2>1. UNCHANGED <<order, file, template, audit, mutations, outbox>>
    BY <1>2 DEF vars
  <2>2. TypeOK'
    BY <1>2, <2>1 DEF IInv, TypeOK
  <2>3. Disjoint' /\ LibraryTold'
    BY <1>2, <2>1 DEF IInv, Keyed, Disjoint, LibraryTold, Told
  <2>4. OrdersTold'
    BY <1>2, <2>1 DEF IInv, Keyed, OrdersTold, Told, Existing
  <2>5. Keyed'
    BY <2>3, <2>4 DEF Keyed
  <2> QED BY <1>2, <2>1, <2>2, <2>5
      DEF IInv, WorkOK, FilesOK, PlansOK, Existing, NodeOK, Shown, Newest, Expects, Arrives, Recent
<1> QED BY <1>1, <1>2

LEMMA Invariance == Spec => []IInv
  BY Initial, Preserved, PTL DEF Spec

(* The rows are what the handlers take them for. *)
THEOREM TypeCorrect == Spec => []TypeOK
<1>1. IInv => TypeOK
  BY DEF IInv
<1> QED BY <1>1, Invariance, PTL

(* Every write of an order or of the library has a key of its own, and every version is
   announced (store.ts:49-60). *)
THEOREM KeysCorrect == Spec => []EveryWriteHasItsKey
<1>1. ASSUME IInv PROVE EveryWriteHasItsKey
  <2>1. ASSUME NEW t \in Templates, NEW i \in Keys
        PROVE  <<t, i>> \in Told <=> i <= Len(audit[t])
    <3>1. i \in Nat \ {0}
      BY OrdersAssumption DEF Keys
    <3> QED BY <1>1, <3>1 DEF IInv, Keyed, LibraryTold
  <2> QED BY <1>1, <2>1 DEF IInv, Keyed, Disjoint, OrdersTold, EveryWriteHasItsKey
<1> QED BY <1>1, Invariance, PTL

(* What was accepted had been shown complete to the manager (domain.ts acceptNode). *)
THEOREM AcceptanceCorrect == Spec => []AcceptanceEarned
<1>1. ASSUME IInv PROVE AcceptanceEarned
  <2> SUFFICES ASSUME NEW o \in Existing, NEW n \in Nodes,
                      order[o].node[n].status = "accepted", order[o].node[n].acceptance # None
               PROVE  /\ Shown(order[o].feedback, n, order[o].node[n].rounds,
                               order[o].node[n].acceptance.seen)
                      /\ \A f \in file : f.order = o /\ f.node = n =>
                           f.version < order[o].node[n].acceptance.seen
    BY DEF AcceptanceEarned, Shown
  <2>1. NodeOK(order[o].feedback, order[o].version, n, order[o].node[n])
    BY <1>1 DEF IInv, WorkOK
  <2> QED BY <1>1, <2>1 DEF NodeOK, IInv, FilesOK
<1> QED BY <1>1, Invariance, PTL

(* Recovery evidence is of the present round and newer than every blocker
   (domain.ts:37-38). *)
THEOREM EvidenceCorrect == Spec => []RecoveryEvidenceFresh
<1>1. ASSUME IInv PROVE RecoveryEvidenceFresh
  <2> SUFFICES ASSUME NEW o \in Existing, NEW n \in Nodes
               PROVE  LET row == order[o].node[n]
                          feedback == order[o].feedback
                          recent == {i \in DOMAIN feedback : Recent(feedback, n, row.rounds, i)}
                      IN  /\ row.expected # None =>
                               \E i \in recent : feedback[i].report.expected = row.expected
                          /\ row.eta # None =>
                               \E i \in recent : feedback[i].report.eta = row.eta
    BY DEF RecoveryEvidenceFresh
  <2>1. NodeOK(order[o].feedback, order[o].version, n, order[o].node[n])
    BY <1>1 DEF IInv, WorkOK
  <2> QED BY <2>1 DEF NodeOK, Expects, Arrives
<1> QED BY <1>1, Invariance, PTL

(* Every order has a forecast, on days that leave room for the work (schedule.ts:30-34). *)
THEOREM ForecastCorrect == Spec => []ForecastFeasible
<1>1. ASSUME IInv PROVE ForecastFeasible
  <2> DEFINE Fits(o, ends, n) ==
        LET row == order[o].node[n]
            fits(from) == Between(order[o].calendar, from, ends[n]) >= Remaining(row)
        IN  row.status # "accepted" /\ ends[n] # None =>
              /\ Working(order[o].calendar, ends[n])
              /\ fits(Today)
              /\ \A date \in Given({row.planned, row.eta}) : fits(date)
              /\ \A date \in Given({row.expected}) : date <= ends[n]
              /\ \A d \in row.dependencies : order[o].node[d].status # "accepted" =>
                   ends[d] # None /\ fits(ends[d] + 1)
  <2> SUFFICES ASSUME NEW o \in Existing, NEW ends, ends = Finish(order[o], Today)
               PROVE  /\ ends \in [Nodes -> Nat \cup {None}]
                      /\ \A n \in Nodes : Fits(o, ends, n)
    BY DEF ForecastFeasible, Between
  <2>1. order[o] \in Plans /\ Today \in Nat
    BY <1>1, TodayType DEF IInv, PlansOK
  <2>2. ends \in [Nodes -> Nat \cup {None}]
    BY <2>1, FinishDefined
  <2>3. ASSUME NEW n \in Nodes, order[o].node[n].status # "accepted", ends[n] # None
        PROVE  /\ Feasible(order[o], Today, ends, n, ends[n])
               /\ \A d \in Ahead(order[o], n) : ends[d] # None
    <3>1. Feasible(order[o], Today, ends, n, ends[n])
      BY <2>1, <2>3, EarliestEnd
    <3>2. \A d \in Ahead(order[o], n) : ends[d] # None
      BY <2>1, <2>3, FinishEstimate
    <3> QED BY <3>1, <3>2
  <2>4. \A n \in Nodes : Fits(o, ends, n)
    BY <2>3 DEF Feasible, Ahead, Given
  <2> QED BY <2>2, <2>4
<1> QED BY <1>1, Invariance, PTL

(* The risk and the forecast of an order hide nothing (schedule.ts:41-45). *)
THEOREM RiskCorrect == Spec => []RiskHonest
<1>1. ASSUME IInv PROVE RiskHonest
  <2> SUFFICES ASSUME NEW o \in Existing, NEW ends, ends = Finish(order[o], Today)
               PROVE  LET forecast == Forecast(order[o], ends)
                          risk == Risk(order[o], ends)
                      IN  /\ risk = "normal" =>
                               /\ forecast # None
                               /\ \A n \in Nodes : ends[n] # None /\ ends[n] <= order[o].due
                          /\ forecast # None =>
                               /\ \A n \in Unfinished(order[o]) :
                                    ends[n] # None /\ ends[n] <= forecast
                               /\ forecast > order[o].due => risk = "risk"
    BY DEF RiskHonest
  <2>1. order[o] \in Plans /\ Today \in Nat
    BY <1>1, TodayType DEF IInv, PlansOK
  <2>2. order[o].due \in Nat
    BY <2>1 DEF Plans, OrderRow
  <2>3. ends \in [Nodes -> Nat \cup {None}]
    BY <2>1, FinishDefined
  <2> QED BY <2>2, <2>3, RiskOf
<1> QED BY <1>1, Invariance, PTL
=============================================================================
