-------------------------- MODULE SweepPlanProofs ---------------------------
(***************************************************************************)
(* Where the bins of a sweep go in the inverse FFT's input, for every FFT  *)
(* size, number of tuning steps and first frequency.                       *)
(*                                                                         *)
(* An FFT of 4 * m bins keeps two runs of m.  Counted in runs, the blocks  *)
(* of a sweep of s tuning steps have 4 * s runs; the run number e is put   *)
(* at place(e, s), half the input away.                                    *)
(***************************************************************************)
EXTENDS SweepPlan, FiniteSetTheorems, TLAPS

place(e, s) == IF e < 2 * s THEN e + 2 * s ELSE e - 2 * s

(* x % z for x below twice z.                                              *)
LEMMA WrapOnce ==
  ASSUME NEW x \in Nat, NEW z \in Nat \ {0}, x < 2 * z
  PROVE  x % z = IF x < z THEN x ELSE x - z
<1>1. CASE x < z
  BY <1>1
<1>2. CASE x >= z
  <2>1. x - z \in 0 .. z - 1 /\ x = 1 * z + (x - z)
    BY <1>2
  <2> QED
    BY <1>2, <2>1
<1> QED
  BY <1>1, <1>2

(* Products keep the order, by a whole factor.                             *)
LEMMA Products ==
  ASSUME NEW m \in Nat \ {0}, NEW a \in Int, NEW b \in Int, a < b
  PROVE  m * a + m <= m * b
<1>1. PICK c \in Nat : b = a + 1 + c
  <2>1. b - a - 1 \in Nat /\ b = a + 1 + (b - a - 1)
    OBVIOUS
  <2> QED
    BY <2>1
<1>2. m * b = m * a + m + m * c
  BY <1>1
<1>3. m * c >= 0
  OBVIOUS
<1> QED
  BY <1>2, <1>3

(* A bin is in one run only, at one place in it.                           *)
LEMMA OneRun ==
  ASSUME NEW m \in Nat \ {0}, NEW a \in Int, NEW b \in Int,
         NEW i \in 0 .. m - 1, NEW j \in 0 .. m - 1,
         m * a + i = m * b + j
  PROVE  a = b /\ i = j
<1> DEFINE x == m * a
           y == m * b
<1>0. x \in Int /\ y \in Int /\ x + i = y + j
  OBVIOUS
<1>1. a < b => x + m <= y
  BY Products
<1>2. b < a => y + m <= x
  BY Products
<1>3. a = b => x = y
  OBVIOUS
<1> HIDE DEF x, y
<1> QED
  BY <1>0, <1>1, <1>2, <1>3

(* place moves the runs around and loses none.                             *)
LEMMA PlaceType ==
  ASSUME NEW s \in Nat, NEW e \in 0 .. 4 * s - 1
  PROVE  place(e, s) \in 0 .. 4 * s - 1 /\ place(place(e, s), s) = e
BY DEF place

(* A run moved by half of the input, and by two more runs.                 *)
LEMMA Moved ==
  ASSUME NEW m \in Nat \ {0}, NEW s \in Nat \ {0}, NEW a \in Nat, a < 8 * s
  PROVE  (m * a) % (m * (4 * s)) = m * (IF a < 4 * s THEN a ELSE a - 4 * s)
<1> DEFINE x == m * a
           z == m * (4 * s)
           w == m * (a - 4 * s)
<1>1. x \in Nat /\ z \in Nat \ {0} /\ x + m <= 2 * z
  <2>1. m * (2 * (4 * s)) = 2 * z
    OBVIOUS
  <2>2. x + m <= m * (2 * (4 * s))
    BY Products
  <2>3. m * 0 + m <= z
    BY Products
  <2> HIDE DEF x, z
  <2>4. x \in Nat /\ z \in Int
    BY DEF x, z
  <2> QED
    BY <2>1, <2>2, <2>3, <2>4
<1>2. a < 4 * s => x + m <= z
  BY Products
<1>3. w = x - z
  OBVIOUS
<1>4. a >= 4 * s => x >= z
  <2>1. CASE a = 4 * s
    BY <2>1
  <2>2. CASE 4 * s < a
    <3>1. z + m <= x
      BY <2>2, Products
    <3> HIDE DEF x, z
    <3> QED
      BY <3>1, <1>1
  <2> QED
    BY <2>1, <2>2
<1> HIDE DEF x, z, w
<1>5. x % z = IF x < z THEN x ELSE x - z
  <2>1. x < 2 * z
    BY <1>1
  <2> QED
    BY <1>1, <2>1, WrapOnce, Zenon
<1>6. CASE a < 4 * s
  BY <1>6, <1>5, <1>2, <1>1 DEF x, z
<1>7. CASE a >= 4 * s
  BY <1>7, <1>5, <1>4, <1>1, <1>3 DEF x, z, w
<1> QED
  BY <1>6, <1>7

(* The header of tuning step k, or the one a quarter of a step further on, *)
(* puts its two runs at the places of runs 4 * k + q and 4 * k + q + 2.    *)
LEMMA IdxIsPlace ==
  ASSUME NEW m \in Nat \ {0}, NEW s \in Nat \ {0}, NEW lo \in Nat,
         NEW k \in 0 .. s - 1, NEW q \in {0, 1}
  PROVE  ifft_idx(lo + 20 * k + 5 * q, lo, 4 * m, 4 * m * s)
           = <<m * place(4 * k + q, s), m * place(4 * k + q + 2, s)>>
<1> DEFINE e == 4 * k + q
           b == 4 * m * s
           off == ((lo + 20 * k + 5 * q) - lo) * (4 * m) + 10
           p1 == IF e + 2 * s < 4 * s THEN e + 2 * s ELSE e + 2 * s - 4 * s
<1>0. e \in 0 .. 4 * s - 3
  OBVIOUS
<1>1. off \div 20 = m * e
  <2>1. off = 20 * (m * e) + 10
    <3>1. ((lo + 20 * k + 5 * q) - lo) * (4 * m) = 20 * (m * (4 * k + q))
      OBVIOUS
    <3> QED
      BY <3>1
  <2>2. m * e \in Nat
    OBVIOUS
  <2> HIDE DEF off
  <2>3. ASSUME NEW y \in Nat PROVE (20 * y + 10) \div 20 = y
    OBVIOUS
  <2> HIDE DEF e
  <2> QED
    BY <2>1, <2>2, <2>3
<1>2. b = m * (4 * s) /\ b \div 2 = m * (2 * s)
  <2>1. b = 2 * (m * (2 * s)) /\ m * (2 * s) \in Nat
    OBVIOUS
  <2>2. ASSUME NEW y \in Nat PROVE (2 * y) \div 2 = y
    OBVIOUS
  <2>3. b = m * (4 * s)
    OBVIOUS
  <2> HIDE DEF b
  <2> QED
    BY <2>1, <2>2, <2>3
<1>3. off \div 20 + b \div 2 = m * (e + 2 * s)
  <2>1. m * e + m * (2 * s) = m * (e + 2 * s)
    OBVIOUS
  <2> HIDE DEF off, b, e
  <2> QED
    BY <1>1, <1>2, <2>1
<1>4. (off \div 20 + b \div 2) % b = m * p1
  <2>1. (m * (e + 2 * s)) % (m * (4 * s)) = m * p1
    <3>1. e + 2 * s \in Nat /\ e + 2 * s < 8 * s
      BY <1>0
    <3>2. \A a \in Nat : a < 8 * s =>
            (m * a) % (m * (4 * s)) = m * (IF a < 4 * s THEN a ELSE a - 4 * s)
      BY Moved
    <3> QED
      BY <3>1, <3>2
  <2> HIDE DEF off, b, e, p1
  <2> QED
    BY <1>2, <1>3, <2>1
<1>5. p1 = place(e, s) /\ p1 \in 0 .. 4 * s - 1
  BY <1>0 DEF place
<1>6. (m * p1 + (4 * m) \div 2) % b = m * place(e + 2, s)
  <2>1. (4 * m) \div 2 = 2 * m
    OBVIOUS
  <2>2. m * p1 + 2 * m = m * (p1 + 2)
    BY <1>5
  <2>3. (m * (p1 + 2)) % (m * (4 * s)) = m * (IF p1 + 2 < 4 * s THEN p1 + 2 ELSE p1 + 2 - 4 * s)
    <3>1. p1 \in Int /\ p1 + 2 \in Nat /\ p1 + 2 < 8 * s
      BY <1>5
    <3>2. \A a \in Nat : a < 8 * s =>
            (m * a) % (m * (4 * s)) = m * (IF a < 4 * s THEN a ELSE a - 4 * s)
      BY Moved
    <3> HIDE DEF p1
    <3> QED
      BY <3>1, <3>2
  <2>4. (IF p1 + 2 < 4 * s THEN p1 + 2 ELSE p1 + 2 - 4 * s) = place(e + 2, s)
    BY <1>0, <1>5 DEF place
  <2> HIDE DEF p1, b, e
  <2> QED
    BY <2>1, <2>2, <2>3, <2>4, <1>2
<1>7. ifft_idx(lo + 20 * k + 5 * q, lo, 4 * m, b)
        = LET first == (off \div 20 + b \div 2) % b
          IN  <<first, (first + (4 * m) \div 2) % b>>
  <2>1. 20 \div 2 = 10
    OBVIOUS
  <2> QED
    BY <2>1, Zenon DEF ifft_idx, TUNE_STEP
<1> HIDE DEF off, b, p1
<1> QED
  BY <1>4, <1>5, <1>6, <1>7 DEF b

-----------------------------------------------------------------------------
(* Runs are numbered: that of the k-th run of the block with header f; and *)
(* which header and which of its two runs has number e.                    *)
number(f, lo, k) == 4 * ((f - lo) \div 20) + ((f - lo) % 20) \div 5 + 2 * (k - 1)

header(e, lo) == lo + 20 * (e \div 4) + 5 * (e % 2)

half(e) == 1 + (e % 4) \div 2

(* The headers of s tuning steps from lo.                                  *)
LEMMA HeaderForm ==
  ASSUME NEW lo \in Nat, NEW s \in Nat, NEW f
  PROVE  f \in Headers(<<lo, lo + s * 20>>)
           <=> \E t \in 0 .. s - 1, q \in {0, 1} : f = lo + 20 * t + 5 * q
<1>1. ((lo + s * 20) - lo) \div 20 = s /\ 20 \div 4 = 5
  OBVIOUS
<1>2. Headers(<<lo, lo + s * 20>>)
        = {lo + 20 * t : t \in 0 .. s - 1} \cup {lo + 20 * t + 5 : t \in 0 .. s - 1}
  BY <1>1 DEF Headers, TUNE_STEP
<1> QED
  BY <1>2

(* The numbers of a header's runs are those of the input, they tell the    *)
(* runs apart, and they say where the code puts them.                      *)
LEMMA RunNumber ==
  ASSUME NEW m \in Nat \ {0}, NEW s \in Nat \ {0}, NEW lo \in Nat,
         NEW f \in Headers(<<lo, lo + s * 20>>), NEW k \in 1 .. 2
  PROVE  /\ number(f, lo, k) \in 0 .. 4 * s - 1
         /\ header(number(f, lo, k), lo) = f
         /\ half(number(f, lo, k)) = k
         /\ ifft_idx(f, lo, 4 * m, 4 * m * s)[k] = m * place(number(f, lo, k), s)
<1>1. PICK t \in 0 .. s - 1, q \in {0, 1} : f = lo + 20 * t + 5 * q
  BY HeaderForm
<1>2. number(f, lo, k) = 4 * t + q + 2 * (k - 1)
  <2>1. f - lo = 20 * t + 5 * q
    BY <1>1
  <2>2. (20 * t + 5 * q) \div 20 = t /\ (20 * t + 5 * q) % 20 = 5 * q /\ (5 * q) \div 5 = q
    OBVIOUS
  <2> QED
    BY <2>1, <2>2 DEF number
<1>3. number(f, lo, k) \in 0 .. 4 * s - 1
  BY <1>2
<1>4. header(number(f, lo, k), lo) = f
  <2>1. (4 * t + q + 2 * (k - 1)) \div 4 = t /\ (4 * t + q + 2 * (k - 1)) % 2 = q
    OBVIOUS
  <2> QED
    BY <1>1, <1>2, <2>1 DEF header
<1>5. half(number(f, lo, k)) = k
  <2>1. ((4 * t + q + 2 * (k - 1)) % 4) \div 2 = k - 1
    OBVIOUS
  <2> QED
    BY <1>2, <2>1 DEF half
<1>6. ifft_idx(f, lo, 4 * m, 4 * m * s)[k] = m * place(number(f, lo, k), s)
  <2>1. ifft_idx(f, lo, 4 * m, 4 * m * s)
          = <<m * place(4 * t + q, s), m * place(4 * t + q + 2, s)>>
    BY <1>1, IdxIsPlace
  <2>2. CASE k = 1
    <3>1. number(f, lo, k) = 4 * t + q
      BY <1>2, <2>2
    <3> QED
      BY <2>1, <2>2, <3>1
  <2>3. CASE k = 2
    <3>1. number(f, lo, k) = 4 * t + q + 2
      BY <1>2, <2>3
    <3> QED
      BY <2>1, <2>3, <3>1
  <2> QED
    BY <2>2, <2>3
<1> QED
  BY <1>3, <1>4, <1>5, <1>6

(* Every run of the input belongs to some header.                          *)
LEMMA EveryRun ==
  ASSUME NEW s \in Nat \ {0}, NEW lo \in Nat, NEW e \in 0 .. 4 * s - 1
  PROVE  /\ header(e, lo) \in Headers(<<lo, lo + s * 20>>)
         /\ half(e) \in 1 .. 2
         /\ number(header(e, lo), lo, half(e)) = e
<1> DEFINE t == e \div 4
           q == e % 2
           h == (e % 4) \div 2
<1>1. t \in 0 .. s - 1 /\ q \in {0, 1} /\ h \in {0, 1} /\ e = 4 * t + q + 2 * h
  OBVIOUS
<1> HIDE DEF t, q, h
<1>2. header(e, lo) = lo + 20 * t + 5 * q /\ half(e) = 1 + h
  BY DEF t, q, h, header, half
<1>3. header(e, lo) \in Headers(<<lo, lo + s * 20>>)
  BY <1>1, <1>2, HeaderForm
<1>4. number(header(e, lo), lo, half(e)) = e
  <2>1. header(e, lo) - lo = 20 * t + 5 * q
    BY <1>1, <1>2
  <2>2. (20 * t + 5 * q) \div 20 = t /\ (20 * t + 5 * q) % 20 = 5 * q /\ (5 * q) \div 5 = q
    BY <1>1
  <2> QED
    BY <1>1, <1>2, <2>1, <2>2 DEF number
<1> QED
  BY <1>1, <1>2, <1>3, <1>4

(* The bins of ifftwIn that the blocks with these headers write.           *)
ifft_bins(used, lo, n, bins) ==
  UNION {UNION {ifft_run(ifft_idx(f, lo, n, bins)[k], n) : k \in 1 .. 2} : f \in used}

(* The same, run by run.                                                   *)
run_bins(used, lo, m, s) ==
  {m * place(number(f, lo, k), s) + j : f \in used, k \in 1 .. 2, j \in 0 .. m - 1}

LEMMA BinsOfRuns ==
  ASSUME NEW m \in Nat \ {0}, NEW s \in Nat \ {0}, NEW lo \in Nat,
         NEW used \in SUBSET Headers(<<lo, lo + s * 20>>)
  PROVE  ifft_bins(used, lo, 4 * m, 4 * m * s) = run_bins(used, lo, m, s)
<1> SUFFICES ASSUME NEW x
             PROVE  x \in ifft_bins(used, lo, 4 * m, 4 * m * s)
                      <=> x \in run_bins(used, lo, m, s)
  BY Zenon
<1>1. ASSUME NEW f \in used, NEW k \in 1 .. 2
      PROVE  x \in ifft_run(ifft_idx(f, lo, 4 * m, 4 * m * s)[k], 4 * m)
               <=> \E j \in 0 .. m - 1 : x = m * place(number(f, lo, k), s) + j
  <2> DEFINE a == m * place(number(f, lo, k), s)
  <2>1. (4 * m) \div 4 = m
    OBVIOUS
  <2>2. ifft_idx(f, lo, 4 * m, 4 * m * s)[k] = a
    BY RunNumber
  <2>3. a \in Int
    <3>1. number(f, lo, k) \in 0 .. 4 * s - 1
      BY RunNumber
    <3>2. place(number(f, lo, k), s) \in 0 .. 4 * s - 1
      BY <3>1, PlaceType
    <3> QED
      BY <3>2
  <2> HIDE DEF a
  <2>4. ifft_run(a, 4 * m) = a .. a + m - 1
    BY <2>1 DEF ifft_run
  <2>5. x \in a .. a + m - 1 <=> \E j \in 0 .. m - 1 : x = a + j
    <3>1. ASSUME x \in a .. a + m - 1 PROVE \E j \in 0 .. m - 1 : x = a + j
      <4>1. x - a \in 0 .. m - 1 /\ x = a + (x - a)
        BY <2>3, <3>1
      <4> QED
        BY <4>1
    <3> QED
      BY <3>1, <2>3
  <2>6. x \in ifft_run(ifft_idx(f, lo, 4 * m, 4 * m * s)[k], 4 * m)
          <=> \E j \in 0 .. m - 1 : x = a + j
    BY <2>2, <2>4, <2>5
  <2> QED
    BY <2>6 DEF a
<1>2. x \in ifft_bins(used, lo, 4 * m, 4 * m * s)
        <=> \E f \in used, k \in 1 .. 2 :
              x \in ifft_run(ifft_idx(f, lo, 4 * m, 4 * m * s)[k], 4 * m)
  <2> DEFINE R(f, k) == ifft_run(ifft_idx(f, lo, 4 * m, 4 * m * s)[k], 4 * m)
  <2>1. ifft_bins(used, lo, 4 * m, 4 * m * s) = UNION {UNION {R(f, k) : k \in 1 .. 2} : f \in used}
    BY DEF ifft_bins
  <2> HIDE DEF R
  <2>2. x \in UNION {UNION {R(f, k) : k \in 1 .. 2} : f \in used}
          <=> \E f \in used, k \in 1 .. 2 : x \in R(f, k)
    OBVIOUS
  <2> QED
    BY <2>1, <2>2 DEF R
<1>3. x \in run_bins(used, lo, m, s)
        <=> \E f \in used, k \in 1 .. 2, j \in 0 .. m - 1 :
              x = m * place(number(f, lo, k), s) + j
  BY DEF run_bins
<1> QED
  BY <1>1, <1>2, <1>3, Zenon

(* The elements of an interval that is not empty.                          *)
LEMMA IntervalCount ==
  ASSUME NEW a \in Int, NEW b \in Int, a <= b
  PROVE  IsFiniteSet(a .. b) /\ Cardinality(a .. b) = b - a + 1
<1>1. ~(a > b)
  OBVIOUS
<1> QED
  BY <1>1, FS_Interval

(* The blocks with these headers write into ifftwIn only, no bin twice,    *)
(* and if no header is missing all of it.                                  *)
Tiled(used, lo, m, s) ==
  /\ ifft_bins(used, lo, 4 * m, 4 * m * s) \subseteq 0 .. 4 * m * s - 1
  /\ Cardinality(ifft_bins(used, lo, 4 * m, 4 * m * s)) = Cardinality(used) * 2 * m
  /\ used = Headers(<<lo, lo + s * 20>>) =>
       ifft_bins(used, lo, 4 * m, 4 * m * s) = 0 .. 4 * m * s - 1

(***************************************************************************)
(* They do whatever the FFT size, the number of steps and the first        *)
(* frequency: rx_callback's ifft_idx.                                      *)
(***************************************************************************)
LEMMA Tiling ==
  ASSUME NEW m \in Nat \ {0}, NEW s \in Nat \ {0}, NEW lo \in Nat,
         NEW used \in SUBSET Headers(<<lo, lo + s * 20>>), IsFiniteSet(used)
  PROVE  Tiled(used, lo, m, s)
<1> DEFINE all == ifft_bins(used, lo, 4 * m, 4 * m * s)
           at(f, k) == place(number(f, lo, k), s)
<1>1. \A x : x \in all <=> \E f \in used, k \in 1 .. 2, j \in 0 .. m - 1 : x = m * at(f, k) + j
  <2>1. all = run_bins(used, lo, m, s)
    BY BinsOfRuns
  <2> QED
    BY <2>1 DEF run_bins
<1>2. \A f \in used, k \in 1 .. 2 : at(f, k) \in 0 .. 4 * s - 1
  BY RunNumber, PlaceType
<1>3. \A f, g \in used, k, l \in 1 .. 2 : at(f, k) = at(g, l) => f = g /\ k = l
  <2> SUFFICES ASSUME NEW f \in used, NEW g \in used, NEW k \in 1 .. 2, NEW l \in 1 .. 2,
                      at(f, k) = at(g, l)
               PROVE  f = g /\ k = l
    OBVIOUS
  <2>1. number(f, lo, k) \in 0 .. 4 * s - 1 /\ number(g, lo, l) \in 0 .. 4 * s - 1
    BY RunNumber
  <2>2. number(f, lo, k) = number(g, lo, l)
    BY <2>1, PlaceType
  <2>3. header(number(f, lo, k), lo) = f /\ half(number(f, lo, k)) = k
    BY RunNumber
  <2>4. header(number(g, lo, l), lo) = g /\ half(number(g, lo, l)) = l
    BY RunNumber
  <2> QED
    BY <2>2, <2>3, <2>4
<1>4. all \subseteq 0 .. 4 * m * s - 1
  <2> SUFFICES ASSUME NEW x \in all PROVE x \in 0 .. 4 * m * s - 1
    OBVIOUS
  <2>1. PICK f \in used, k \in 1 .. 2, j \in 0 .. m - 1 : x = m * at(f, k) + j
    BY <1>1
  <2> DEFINE a == at(f, k)
  <2>2. a \in 0 .. 4 * s - 1
    BY <1>2
  <2> HIDE DEF a
  <2>3. m * a + m <= m * (4 * s)
    BY <2>2, Products
  <2>4. m * a \in Nat /\ m * (4 * s) = 4 * m * s
    BY <2>2
  <2>5. x = m * a + j
    BY <2>1 DEF a
  <2> QED
    BY <2>3, <2>4, <2>5
<1>5. Cardinality(all) = Cardinality(used) * 2 * m
  <2> DEFINE P == (used \X (1 .. 2)) \X (0 .. m - 1)
             g == [p \in P |-> m * at(p[1][1], p[1][2]) + p[2]]
  <2>1. g \in Surjection(P, all)
    <3>1. \A p \in P : g[p] \in all
      BY <1>1
    <3>2. ASSUME NEW x \in all PROVE \E p \in P : g[p] = x
      <4>1. PICK f \in used, k \in 1 .. 2, j \in 0 .. m - 1 : x = m * at(f, k) + j
        BY <1>1
      <4>2. <<<<f, k>>, j>> \in P /\ g[<<<<f, k>>, j>>] = x
        BY <4>1
      <4> QED
        BY <4>2
    <3> QED
      BY <3>1, <3>2 DEF Surjection
  <2>2. g \in Injection(P, all)
    <3>1. ASSUME NEW p \in P, NEW r \in P, g[p] = g[r] PROVE p = r
      <4> DEFINE a == at(p[1][1], p[1][2])
                 b == at(r[1][1], r[1][2])
      <4>1. a \in Int /\ b \in Int
        BY <1>2
      <4>2. m * a + p[2] = m * b + r[2] /\ p[2] \in 0 .. m - 1 /\ r[2] \in 0 .. m - 1
        BY <3>1
      <4> HIDE DEF a, b
      <4>3. a = b /\ p[2] = r[2]
        BY <4>1, <4>2, OneRun
      <4>4. p[1][1] = r[1][1] /\ p[1][2] = r[1][2]
        BY <4>3, <1>3 DEF a, b
      <4> QED
        BY <4>3, <4>4
    <3>2. g \in [P -> all] /\ DOMAIN g = P
      BY <2>1 DEF Surjection
    <3> HIDE DEF P, g, all
    <3> QED
      BY <3>1, <3>2 DEF Injection, IsInjective
  <2>3. Cardinality(P) = Cardinality(used) * 2 * m /\ IsFiniteSet(P)
    <3>1. IsFiniteSet(1 .. 2) /\ Cardinality(1 .. 2) = 2
      <4> DEFINE a == 1
                 b == 2
      <4>1. a \in Int /\ b \in Int /\ a <= b /\ b - a + 1 = 2
        OBVIOUS
      <4> HIDE DEF a, b
      <4>2. IsFiniteSet(a .. b) /\ Cardinality(a .. b) = 2
        BY <4>1, IntervalCount
      <4> QED
        BY <4>2 DEF a, b
    <3>3. IsFiniteSet(0 .. m - 1) /\ Cardinality(0 .. m - 1) = m
      <4> DEFINE a == 0
                 b == m - 1
      <4>1. a \in Int /\ b \in Int /\ a <= b /\ b - a + 1 = m
        OBVIOUS
      <4> HIDE DEF a, b
      <4>2. IsFiniteSet(a .. b) /\ Cardinality(a .. b) = m
        BY <4>1, IntervalCount
      <4> QED
        BY <4>2 DEF a, b
    <3>5. IsFiniteSet(used \X (1 .. 2)) /\ Cardinality(used \X (1 .. 2)) = Cardinality(used) * 2
      BY <3>1, FS_Product
    <3>6. IsFiniteSet(P) /\ Cardinality(P) = Cardinality(used \X (1 .. 2)) * Cardinality(0 .. m - 1)
      BY <3>3, <3>5, FS_Product
    <3> QED
      BY <3>3, <3>5, <3>6
  <2> HIDE DEF P, g, all
  <2>4. Cardinality(all) = Cardinality(P)
    BY <2>1, <2>2, <2>3, FS_Surjection
  <2> QED
    BY <2>3, <2>4
<1>6. ASSUME used = Headers(<<lo, lo + s * 20>>), NEW x \in 0 .. 4 * m * s - 1
      PROVE  x \in all
  <2> DEFINE a == x \div m
             j == x % m
  <2>1. a \in Nat /\ j \in 0 .. m - 1 /\ x = m * a + j
    OBVIOUS
  <2> HIDE DEF a, j
  <2>2. a < 4 * s
    <3> SUFFICES ASSUME 4 * s <= a PROVE FALSE
      BY <2>1
    <3>1. 4 * s = a \/ m * (4 * s) + m <= m * a
      BY <2>1, Products
    <3>2. m * (4 * s) = 4 * m * s
      OBVIOUS
    <3>3. m * (4 * s) <= m * a
      BY <3>1, <2>1
    <3> QED
      BY <2>1, <3>2, <3>3
  <2> DEFINE e == place(a, s)
  <2>3. e \in 0 .. 4 * s - 1 /\ place(e, s) = a
    <3>1. a \in 0 .. 4 * s - 1
      BY <2>1, <2>2
    <3> QED
      BY <3>1, PlaceType
  <2> HIDE DEF e
  <2>4. /\ header(e, lo) \in used /\ half(e) \in 1 .. 2
        /\ at(header(e, lo), half(e)) = a
    BY <1>6, <2>3, EveryRun
  <2> HIDE DEF all
  <2> QED
    BY <1>1, <2>1, <2>4
<1> QED
  BY <1>4, <1>5, <1>6 DEF Tiled

(* A sweep has finitely many headers.                                      *)
LEMMA HeadersFinite ==
  ASSUME NEW lo \in Nat, NEW s \in Nat
  PROVE  IsFiniteSet(Headers(<<lo, lo + s * 20>>))
<1> DEFINE hi == lo + s * 20
<1>1. hi \in Int /\ lo \in Int
  OBVIOUS
<1>2. Headers(<<lo, lo + s * 20>>) \subseteq lo .. hi
  BY HeaderForm
<1> HIDE DEF hi
<1>3. IsFiniteSet(lo .. hi)
  BY <1>1, FS_Interval
<1> QED
  BY <1>2, <1>3, FS_Subset

=============================================================================
