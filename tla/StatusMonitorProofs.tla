------------------------ MODULE StatusMonitorProofs ------------------------
(***************************************************************************)
(* Theorems about finding boards and about the programs that share the     *)
(* library: for every bus, whatever boards come and go and whichever calls *)
(* fail.                                                                   *)
(***************************************************************************)
EXTENDS StatusMonitor, FiniteSetTheorems, WellFoundedInduction, TLAPS

-----------------------------------------------------------------------------
(* The device list.                                                        *)

(* A set of natural numbers that is not empty has a least element.         *)
LEMMA Least ==
  ASSUME NEW T \in SUBSET Nat, T # {}
  PROVE  \E x \in T : \A y \in T : x <= y
<1> DEFINE R == {ss \in Nat \X Nat : ss[1] < ss[2]}
<1>1. IsWellFoundedOn(R, Nat)
  BY NatLessThanWellFounded DEF OpToRel
<1> HIDE DEF R
<1>2. PICK x \in T : \A y \in T : ~(<<y, x>> \in R)
  BY <1>1, WFMin
<1>3. ASSUME NEW y \in T PROVE ~(y < x)
  <2>1. x \in Nat /\ y \in Nat /\ ~(<<y, x>> \in R)
    BY <1>2
  <2>2. y < x => <<y, x>> \in R
    BY <2>1, SMT DEF R
  <2> QED
    BY <2>1, <2>2
<1> QED
  BY <1>3, SMT

(* What is known before the scan begins.                                   *)
Blank == [list |-> <<>>, buffer |-> GARBAGE]

(* f is the scan of the first n places of the bus.                         *)
ScanOf(f, n, on, outcome) ==
  f = [b \in 0 .. n |-> IF b = 0 THEN Blank ELSE list_board(f[b - 1], b, on, outcome)]

(* The recursion that defines the scan has a solution.                     *)
LEMMA ScanExists ==
  ASSUME NEW on, NEW outcome, NEW n \in Nat
  PROVE  \E f : ScanOf(f, n, on, outcome)
<1> DEFINE T == {m \in Nat : ~ \E f : ScanOf(f, m, on, outcome)}
<1>1. SUFFICES ASSUME T # {} PROVE FALSE
  BY <1>1
<1>2. PICK m \in T : \A y \in T : m <= y
  BY <1>1, Least
<1>3. CASE m = 0
  <2> DEFINE f == [b \in 0 .. 0 |-> Blank]
  <2>1. f = [b \in 0 .. 0 |-> IF b = 0 THEN Blank ELSE list_board(f[b - 1], b, on, outcome)]
    OBVIOUS
  <2> QED
    BY <1>3, <2>1 DEF ScanOf
<1>4. CASE m # 0
  <2>1. m - 1 \in Nat /\ m - 1 \notin T
    BY <1>2, <1>4, SMT
  <2>2. PICK g : ScanOf(g, m - 1, on, outcome)
    BY <2>1
  <2> DEFINE step(b) == IF b = 0 THEN Blank ELSE list_board(g[b - 1], b, on, outcome)
             f == [b \in 0 .. m |-> step(b)]
  <2>3. ASSUME NEW b \in 0 .. m, b # 0 PROVE f[b - 1] = g[b - 1]
    <3>1. b - 1 \in 0 .. m - 1 /\ b - 1 \in 0 .. m
      BY <2>3, <1>2, SMT
    <3>2. g[b - 1] = step(b - 1)
      BY <2>2, <3>1 DEF ScanOf
    <3> QED
      BY <3>1, <3>2
  <2>4. \A b \in 0 .. m :
          step(b) = IF b = 0 THEN Blank ELSE list_board(f[b - 1], b, on, outcome)
    BY <2>3
  <2>5. ScanOf(f, m, on, outcome)
    BY <2>4, Zenon DEF ScanOf
  <2> QED
    BY <2>5, <1>2
<1> QED
  BY <1>3, <1>4

(* hackrf_device_list is the list of such a scan of the whole bus.         *)
LEMMA ListIsScanned ==
  ASSUME NEW on, NEW outcome
  PROVE  \E f : /\ ScanOf(f, Len(Bus), on, outcome)
                /\ hackrf_device_list(on, outcome) = f[Len(Bus)].list
<1> DEFINE scan == CHOOSE f : ScanOf(f, Len(Bus), on, outcome)
<1>1. Len(Bus) \in Nat
  BY BusAssumption
<1>2. ScanOf(scan, Len(Bus), on, outcome)
  BY <1>1, ScanExists
<1>3. hackrf_device_list(on, outcome) = scan[Len(Bus)].list
  BY Zenon DEF hackrf_device_list, ScanOf, Blank
<1> QED
  BY <1>2, <1>3

(* The first n entries of l: no serial number has been read; or s is that  *)
(* of a board among them, and no other has been read since.                *)
Unread(l, n) == \A j \in 1 .. n : l[j].serial \in {NULL, GARBAGE}

ReadFrom(l, n, s) ==
  \E j \in 1 .. n : /\ Own(l[j]) /\ l[j].serial = s
                    /\ \A m \in j + 1 .. n : l[m].serial \in {NULL, s}

(* Where the serial number of entry k comes from, and the array's content. *)
Explained(l, k) ==
  \/ l[k].serial = NULL
  \/ l[k].serial = GARBAGE /\ Unread(l, k - 1)
  \/ Own(l[k])
  \/ ReadFrom(l, k - 1, l[k].serial)

(* The array holds s after all of l.                                       *)
Kept(l, s) == (s = GARBAGE /\ Unread(l, Len(l))) \/ ReadFrom(l, Len(l), s)

(* Boards are listed in the order of the bus.                              *)
Increasing(l) == \A k \in 1 .. Len(l) : \A j \in 1 .. k - 1 : l[j].board < l[k].board

(* The state of the scan after place n of the bus.                         *)
Scanned(st, n) ==
  /\ st.list \in Seq(Entry)
  /\ st.buffer \in {GARBAGE} \cup Seq(STRING)
  /\ \A k \in 1 .. Len(st.list) : st.list[k].board <= n
  /\ Increasing(st.list)
  /\ \A k \in 1 .. Len(st.list) : Explained(st.list, k)
  /\ Kept(st.list, st.buffer)

(* Places of the bus.                                                      *)
LEMMA Places ==
  /\ Len(Bus) \in Nat /\ DOMAIN Bus = 1 .. Len(Bus)
  /\ Board \subseteq DOMAIN Bus /\ Board \subseteq Nat /\ NULL \notin Board
  /\ \A b \in DOMAIN Bus : Bus[b].product \in Product
                           /\ Bus[b].serial \in {NULL} \cup Seq(STRING)
<1>1. Len(Bus) \in Nat /\ DOMAIN Bus = 1 .. Len(Bus)
  BY BusAssumption
<1>2. Board \subseteq DOMAIN Bus
  BY DEF Board
<1>3. DOMAIN Bus \subseteq Nat
  BY <1>1, SMT
<1> DEFINE D == [product : Product, serial : {NULL} \cup Seq(STRING)]
<1>4. Bus \in Seq(D)
  BY BusAssumption
<1> HIDE DEF D
<1>5. \A b \in DOMAIN Bus : Bus[b] \in D
  BY <1>1, <1>4
<1>6. \A b \in DOMAIN Bus : Bus[b].product \in Product
                              /\ Bus[b].serial \in {NULL} \cup Seq(STRING)
  BY <1>5 DEF D
<1> QED
  BY <1>1, <1>2, <1>3, <1>6, NullAssumption

(* A serial number cut off at USB_MAX_SERIAL_LENGTH.                       *)
LEMMA CappedType ==
  ASSUME NEW s \in Seq(STRING)
  PROVE  capped(s) \in Seq(STRING)
BY BusAssumption, SMT DEF capped, Min

(* One entry more: what was said of the entries before stays true.         *)
LEMMA AppendKeeps ==
  ASSUME NEW l \in Seq(Entry), NEW e \in Entry
  PROVE  LET a == Append(l, e) IN
         /\ a \in Seq(Entry) /\ Len(a) = Len(l) + 1 /\ Len(l) \in Nat
         /\ a[Len(l) + 1] = e
         /\ \A k \in 1 .. Len(l) : a[k] = l[k]
         /\ \A n \in 0 .. Len(l) : Unread(a, n) <=> Unread(l, n)
         /\ \A n \in 0 .. Len(l) : \A s : ReadFrom(a, n, s) <=> ReadFrom(l, n, s)
         /\ \A k \in 1 .. Len(l) : Explained(a, k) <=> Explained(l, k)
<1> DEFINE a == Append(l, e)
<1>1. /\ a \in Seq(Entry) /\ Len(a) = Len(l) + 1 /\ Len(l) \in Nat
      /\ a[Len(l) + 1] = e
      /\ \A k \in 1 .. Len(l) : a[k] = l[k]
  OBVIOUS
<1> HIDE DEF a
<1>2. ASSUME NEW n \in 0 .. Len(l) PROVE Unread(a, n) <=> Unread(l, n)
  <2>1. \A j \in 1 .. n : a[j] = l[j]
    BY <1>1, SMT
  <2> QED
    BY <2>1 DEF Unread
<1>3. ASSUME NEW n \in 0 .. Len(l), NEW s PROVE ReadFrom(a, n, s) <=> ReadFrom(l, n, s)
  <2>1. \A j \in 1 .. n : a[j] = l[j] /\ \A m \in j + 1 .. n : a[m] = l[m]
    BY <1>1, SMT
  <2> QED
    BY <2>1, Zenon DEF ReadFrom
<1>4. ASSUME NEW k \in 1 .. Len(l) PROVE Explained(a, k) <=> Explained(l, k)
  <2>1. k - 1 \in 0 .. Len(l) /\ a[k] = l[k]
    BY <1>1, SMT
  <2> QED
    BY <2>1, <1>2, <1>3, Zenon DEF Explained
<1> QED
  BY <1>1, <1>2, <1>3, <1>4 DEF a

(* The body of the loop, for a board on the bus.                           *)
LEMMA ScanStep ==
  ASSUME NEW on, NEW outcome, NEW n \in 1 .. Len(Bus), n \in Board \cap on,
         outcome[n] \in Outcome,
         NEW st, Scanned(st, n - 1)
  PROVE  Scanned(list_board(st, n, on, outcome), n)
<1> DEFINE l == st.list
           out == outcome[n]
           e == [board |-> n, serial |-> listed(st.buffer, n, out)]
           a == Append(l, e)
           s == buffer_after(st.buffer, n, out)
<1>1. list_board(st, n, on, outcome) = [list |-> a, buffer |-> s]
  BY DEF list_board
<1>2. /\ n \in Nat /\ n \in Board
      /\ Bus[n].serial \in {NULL} \cup Seq(STRING)
      /\ Bus[n].serial # NULL => capped(Bus[n].serial) \in Seq(STRING)
  BY Places, CappedType
<1>3. /\ l \in Seq(Entry) /\ st.buffer \in {GARBAGE} \cup Seq(STRING)
      /\ \A k \in 1 .. Len(l) : l[k].board <= n - 1
      /\ Increasing(l)
      /\ \A k \in 1 .. Len(l) : Explained(l, k)
      /\ Kept(l, st.buffer)
  BY DEF Scanned
<1>4. \/ /\ e.serial = NULL /\ s = st.buffer
      \/ /\ e.serial = st.buffer /\ s = st.buffer
      \/ /\ e.serial = capped(Bus[n].serial) /\ s = e.serial
         /\ capped(Bus[n].serial) \in Seq(STRING)
  <2>1. CASE out = "shut" \/ Bus[n].serial = NULL
    BY <2>1, Zenon DEF listed, buffer_after
  <2>2. CASE out = "unread" /\ Bus[n].serial # NULL
    BY <2>2, Zenon DEF listed, buffer_after
  <2>3. CASE out = "ok" /\ Bus[n].serial # NULL
    BY <2>3, <1>2 DEF listed, buffer_after
  <2> QED
    BY <2>1, <2>2, <2>3 DEF Outcome
<1>5. e \in Entry /\ e.board = n /\ s \in {GARBAGE} \cup Seq(STRING)
  <2>1. e.serial \in {NULL, GARBAGE} \cup Seq(STRING)
        /\ s \in {GARBAGE} \cup Seq(STRING)
    BY <1>3, <1>4
  <2> QED
    BY <2>1, <1>2 DEF Entry
<1> HIDE DEF l, e, s, a, out
<1>6. /\ a \in Seq(Entry) /\ Len(a) = Len(l) + 1 /\ Len(l) \in Nat
      /\ a[Len(l) + 1] = e
      /\ \A k \in 1 .. Len(l) : a[k] = l[k]
      /\ \A k \in 0 .. Len(l) : Unread(a, k) <=> Unread(l, k)
      /\ \A k \in 0 .. Len(l) : \A t : ReadFrom(a, k, t) <=> ReadFrom(l, k, t)
      /\ \A k \in 1 .. Len(l) : Explained(a, k) <=> Explained(l, k)
  BY <1>3, <1>5, AppendKeeps DEF a
<1>7. \A k \in 1 .. Len(a) : k \in 1 .. Len(l) \/ (k = Len(l) + 1 /\ k - 1 = Len(l))
  BY <1>6, SMT
<1>8. Len(l) \in 0 .. Len(l)
  BY <1>6, SMT
<1>9. \A k \in 1 .. Len(l) : l[k] \in Entry /\ l[k].board \in Nat
  <2>1. \A k \in 1 .. Len(l) : l[k] \in Entry
    BY <1>3
  <2> QED
    BY <2>1, Places DEF Entry
<1>10. \A k \in 1 .. Len(a) : a[k].board <= n
  <2>1. ASSUME NEW k \in 1 .. Len(l) PROVE a[k].board <= n
    <3>1. a[k].board = l[k].board /\ l[k].board \in Nat /\ l[k].board <= n - 1
      BY <1>3, <1>6, <1>9
    <3> QED
      BY <3>1, <1>2, SMT
  <2>2. a[Len(l) + 1].board <= n
    BY <1>5, <1>6, <1>2, SMT
  <2> QED
    BY <1>7, <2>1, <2>2
<1>11. Increasing(a)
  <2>1. SUFFICES ASSUME NEW k \in 1 .. Len(a), NEW j \in 1 .. k - 1
                 PROVE  a[j].board < a[k].board
    BY DEF Increasing
  <2>2. j \in 1 .. Len(l) /\ a[j] = l[j]
    <3>1. j \in 1 .. Len(l)
      BY <1>6, SMT
    <3> QED
      BY <3>1, <1>6
  <2>3. CASE k \in 1 .. Len(l)
    BY <2>2, <2>3, <1>3, <1>6 DEF Increasing
  <2>4. CASE k = Len(l) + 1
    <3>1. l[j].board <= n - 1 /\ l[j].board \in Nat /\ a[k].board = n
      BY <2>2, <2>4, <1>3, <1>5, <1>6, <1>9
    <3> QED
      BY <2>2, <3>1, <1>2, SMT
  <2> QED
    BY <2>3, <2>4, <1>7
<1>12. \A k \in 1 .. Len(a) : Explained(a, k)
  <2>1. Explained(a, Len(l) + 1)
    <3>1. Len(l) + 1 - 1 = Len(l)
      BY <1>6, SMT
    <3>2. CASE e.serial = NULL
      BY <3>2, <1>6 DEF Explained
    <3>3. CASE e.serial = st.buffer
      <4>1. (e.serial = GARBAGE /\ Unread(a, Len(l))) \/ ReadFrom(a, Len(l), e.serial)
        BY <3>3, <1>3, <1>6, <1>8 DEF Kept
      <4> QED
        BY <4>1, <3>1, <1>6, SMT DEF Explained
    <3>4. CASE e.serial = capped(Bus[n].serial)
      BY <3>4, <1>5, <1>6 DEF Explained, Own
    <3> QED
      BY <3>2, <3>3, <3>4, <1>4
  <2> QED
    BY <2>1, <1>3, <1>6, <1>7
<1>13. Kept(a, s)
  <2>1. CASE e.serial = capped(Bus[n].serial) /\ s = e.serial
    <3>1. Own(a[Len(a)]) /\ a[Len(a)].serial = s /\ Len(a) \in 1 .. Len(a)
      BY <2>1, <1>5, <1>6 DEF Own
    <3>2. \A m \in Len(a) + 1 .. Len(a) : FALSE
      BY <1>6, SMT
    <3> QED
      BY <3>1, <3>2 DEF Kept, ReadFrom
  <2>2. CASE e.serial \in {NULL, st.buffer} /\ s = st.buffer
    <3>1. CASE s = GARBAGE /\ Unread(l, Len(l))
      <4>1. \A j \in 1 .. Len(a) : a[j].serial \in {NULL, GARBAGE}
        BY <2>2, <3>1, <1>6, <1>7 DEF Unread
      <4> QED
        BY <3>1, <4>1 DEF Kept, Unread
    <3>2. CASE ReadFrom(l, Len(l), s)
      <4>1. PICK j \in 1 .. Len(l) : /\ Own(l[j]) /\ l[j].serial = s
                                     /\ \A m \in j + 1 .. Len(l) : l[m].serial \in {NULL, s}
        BY <3>2 DEF ReadFrom
      <4>2. j \in 1 .. Len(a) /\ Own(a[j]) /\ a[j].serial = s
        <5>1. j \in 1 .. Len(a)
          BY <1>6, SMT
        <5> QED
          BY <5>1, <4>1, <1>6
      <4>3. ASSUME NEW m \in j + 1 .. Len(a) PROVE a[m].serial \in {NULL, s}
        <5>1. m = Len(l) + 1 \/ (m \in j + 1 .. Len(l) /\ m \in 1 .. Len(l))
          BY <1>6, SMT
        <5> QED
          BY <5>1, <4>1, <2>2, <1>6
      <4> QED
        BY <4>2, <4>3 DEF Kept, ReadFrom
    <3> QED
      BY <2>2, <3>1, <3>2, <1>3 DEF Kept
  <2> QED
    BY <2>1, <2>2, <1>4
<1> QED
  BY <1>1, <1>5, <1>6, <1>10, <1>11, <1>12, <1>13 DEF Scanned

(* Hence every state of the scan, by its least counterexample.             *)
LEMMA EveryScan ==
  ASSUME NEW on, NEW outcome, \A b \in Board : outcome[b] \in Outcome,
         NEW f, ScanOf(f, Len(Bus), on, outcome), NEW n \in 0 .. Len(Bus)
  PROVE  Scanned(f[n], n)
<1> DEFINE T == {m \in 0 .. Len(Bus) : ~Scanned(f[m], m)}
<1>1. SUFFICES ASSUME T # {} PROVE FALSE
  BY <1>1
<1>2. PICK m \in T : \A y \in T : m <= y
  <2>1. T \in SUBSET Nat
    BY SMT
  <2> QED
    BY <1>1, <2>1, Least
<1>3. m \in 0 .. Len(Bus) /\ ~Scanned(f[m], m)
  BY <1>2
<1>4. f[m] = IF m = 0 THEN Blank ELSE list_board(f[m - 1], m, on, outcome)
  BY <1>3 DEF ScanOf
<1>5. CASE m = 0
  <2>1. Blank.list = <<>> /\ Blank.buffer = GARBAGE
    BY DEF Blank
  <2>2. Scanned(Blank, 0)
    BY <2>1 DEF Scanned, Kept, Unread, Increasing
  <2> QED
    BY <1>3, <1>4, <1>5, <2>2
<1>6. CASE m # 0
  <2>1. m - 1 \in 0 .. Len(Bus) /\ m - 1 \notin T /\ m \in 1 .. Len(Bus)
    <3>1. m - 1 \in 0 .. Len(Bus) /\ m \in 1 .. Len(Bus) /\ ~(m <= m - 1)
      BY <1>3, <1>6, Places, SMT
    <3> QED
      BY <3>1, <1>2
  <2>2. Scanned(f[m - 1], m - 1)
    BY <2>1
  <2>3. f[m] = list_board(f[m - 1], m, on, outcome)
    BY <1>4, <1>6
  <2>4. CASE m \in Board \cap on
    BY <2>1, <2>2, <2>3, <2>4, <1>3, ScanStep
  <2>5. CASE m \notin Board \cap on
    <3>1. f[m] = f[m - 1]
      BY <2>3, <2>5, Zenon DEF list_board
    <3>2. ASSUME NEW k \in 1 .. Len(f[m - 1].list) PROVE f[m - 1].list[k].board <= m
      <4>1. f[m - 1].list[k] \in Entry /\ f[m - 1].list[k].board <= m - 1
        BY <2>2 DEF Scanned
      <4>2. f[m - 1].list[k].board \in Nat
        BY <4>1, Places DEF Entry
      <4> QED
        BY <4>1, <4>2, <2>1, SMT
    <3> QED
      BY <1>3, <2>2, <3>1, <3>2 DEF Scanned
  <2> QED
    BY <2>4, <2>5
<1> QED
  BY <1>5, <1>6

(* What hackrf_device_list returns: boards in the order of the bus, at     *)
(* most one entry for each, whose serial numbers are explained.            *)
Named(l) ==
  /\ l \in Seq(Entry)
  /\ Increasing(l)
  /\ \A k \in 1 .. Len(l) : Explained(l, k)
  /\ Len(l) <= Cardinality(Board)

(* The boards are a finite set.                                            *)
LEMMA BoardsFinite == IsFiniteSet(Board) /\ Cardinality(Board) \in Nat
<1>1. IsFiniteSet(1 .. Len(Bus))
  BY Places, FS_Interval, SMT
<1>2. Board \in SUBSET (1 .. Len(Bus))
  BY Places
<1>3. IsFiniteSet(Board)
  BY <1>1, <1>2, FS_Subset
<1> QED
  BY <1>3, FS_CardinalityType

(* What hackrf_device_list returns.                                        *)
LEMMA ListIsNamed ==
  ASSUME NEW on, NEW outcome, \A b \in Board : outcome[b] \in Outcome
  PROVE  Named(hackrf_device_list(on, outcome))
<1> DEFINE l == hackrf_device_list(on, outcome)
<1>1. PICK f : /\ ScanOf(f, Len(Bus), on, outcome)
               /\ l = f[Len(Bus)].list
  BY ListIsScanned
<1>2. Len(Bus) \in 0 .. Len(Bus)
  BY Places, SMT
<1>3. Scanned(f[Len(Bus)], Len(Bus))
  BY <1>1, <1>2, EveryScan
<1> HIDE DEF l
<1>4. l \in Seq(Entry) /\ Increasing(l) /\ \A k \in 1 .. Len(l) : Explained(l, k)
  BY <1>1, <1>3 DEF Scanned
<1>5. Len(l) <= Cardinality(Board)
  <2> DEFINE g == [k \in 1 .. Len(l) |-> l[k].board]
  <2>1. \A k \in 1 .. Len(l) : l[k] \in Entry
    BY <1>4
  <2>2. \A k \in 1 .. Len(l) : l[k].board \in Board /\ l[k].board \in Nat
    BY <2>1, Places DEF Entry
  <2>3. ASSUME NEW j \in 1 .. Len(l), NEW k \in 1 .. Len(l), j < k
        PROVE  l[j].board # l[k].board
    <3>1. j \in 1 .. k - 1
      BY <2>3, SMT
    <3>2. l[j].board < l[k].board
      BY <3>1, <1>4 DEF Increasing
    <3> QED
      BY <3>2, <2>2, SMT
  <2>4. \A j, k \in 1 .. Len(l) : l[j].board = l[k].board => j = k
    BY <2>3, SMT
  <2>5. g \in Injection(1 .. Len(l), Board)
    BY <2>2, <2>4 DEF Injection, IsInjective
  <2>6. Cardinality(1 .. Len(l)) <= Cardinality(Board)
    BY <2>5, BoardsFinite, FS_Injection
  <2>7. Len(l) \in Nat
    BY <1>4
  <2>8. Cardinality(1 .. Len(l)) = Len(l)
    <3> DEFINE m == Len(l)
    <3>1. m \in Nat /\ m \in Int /\ 1 \in Int
      BY <2>7
    <3> HIDE DEF m
    <3>2. Cardinality(1 .. m) = IF 1 > m THEN 0 ELSE m - 1 + 1
      BY <3>1, FS_Interval
    <3>3. Cardinality(1 .. m) = m
      BY <3>1, <3>2, SMT
    <3> QED
      BY <3>3 DEF m
  <2> QED
    BY <2>6, <2>8
<1> QED
  BY <1>4, <1>5 DEF Named, l

-----------------------------------------------------------------------------
(* Choosing a board.                                                       *)

(* The first device of a product is one that is on the bus.                *)
LEMMA FirstIsOn ==
  ASSUME NEW on, on \subseteq DOMAIN Bus, NEW p \in {"one", "jawbreaker", "rad1o"}
  PROVE  First(on, p) \in Board \cup {NULL}
<1> DEFINE those == {b \in on : Bus[b].product = p}
<1>1. First(on, p) = IF those = {} THEN NULL
                     ELSE CHOOSE b \in those : \A c \in those : b <= c
  BY Zenon DEF First
<1>2. those \in SUBSET Board
  BY Places DEF Board
<1> HIDE DEF those
<1>3. CASE those # {}
  <2>1. those \in SUBSET Nat
    BY <1>2, Places
  <2>2. \E b \in those : \A c \in those : b <= c
    BY <1>3, <2>1, Least
  <2> QED
    BY <1>1, <1>2, <1>3, <2>2
<1> QED
  BY <1>1, <1>3

(* hackrf_open finds a HackRF, or nothing.                                 *)
LEMMA OpenFindsBoard ==
  ASSUME NEW on, on \subseteq DOMAIN Bus, NEW outcome
  PROVE  hackrf_open(on, outcome) \in Board \cup {NULL}
BY FirstIsOn, Zenon DEF hackrf_open

(* The end of a serial number is its last Len(w) characters.               *)
LEMMA SuffixIsEnd ==
  ASSUME NEW s \in Seq(STRING), NEW w \in Seq(STRING), Len(w) <= Len(s)
  PROVE  HasSuffix(s, w) <=> \E k \in 0 .. Len(s) : SubSeq(s, k + 1, Len(s)) = w
<1>1. Len(s) \in Nat /\ Len(w) \in Nat
  OBVIOUS
<1>2. ASSUME HasSuffix(s, w)
      PROVE  \E k \in 0 .. Len(s) : SubSeq(s, k + 1, Len(s)) = w
  <2>1. Len(s) - Len(w) \in 0 .. Len(s)
    BY <1>1, SMT
  <2> QED
    BY <1>2, <2>1 DEF HasSuffix
<1>3. ASSUME NEW k \in 0 .. Len(s), SubSeq(s, k + 1, Len(s)) = w
      PROVE  HasSuffix(s, w)
  <2>1. Len(SubSeq(s, k + 1, Len(s))) = Len(s) - k
    BY <1>1, SMT
  <2>2. k = Len(s) - Len(w)
    BY <1>1, <1>3, <2>1, SMT
  <2> QED
    BY <1>3, <2>2 DEF HasSuffix
<1> QED
  BY <1>2, <1>3

(* f is what the loop of hackrf_open_usb has found after n places.         *)
SearchOf(f, n, tried, w, stray) ==
  f = [b \in 0 .. n |-> IF b = 0 THEN NULL ELSE try_board(f[b - 1], b, tried, w, stray)]

(* The recursion that defines the search has a solution.                   *)
LEMMA SearchExists ==
  ASSUME NEW tried, NEW w, NEW stray, NEW n \in Nat
  PROVE  \E f : SearchOf(f, n, tried, w, stray)
<1> DEFINE T == {m \in Nat : ~ \E f : SearchOf(f, m, tried, w, stray)}
<1>1. SUFFICES ASSUME T # {} PROVE FALSE
  BY <1>1
<1>2. PICK m \in T : \A y \in T : m <= y
  BY <1>1, Least
<1>3. CASE m = 0
  <2> DEFINE f == [b \in 0 .. 0 |-> NULL]
  <2>1. f = [b \in 0 .. 0 |-> IF b = 0 THEN NULL ELSE try_board(f[b - 1], b, tried, w, stray)]
    OBVIOUS
  <2> QED
    BY <1>3, <2>1 DEF SearchOf
<1>4. CASE m # 0
  <2>1. m - 1 \in Nat /\ m - 1 \notin T
    BY <1>2, <1>4, SMT
  <2>2. PICK g : SearchOf(g, m - 1, tried, w, stray)
    BY <2>1
  <2> DEFINE step(b) == IF b = 0 THEN NULL ELSE try_board(g[b - 1], b, tried, w, stray)
             f == [b \in 0 .. m |-> step(b)]
  <2>3. ASSUME NEW b \in 0 .. m, b # 0 PROVE f[b - 1] = g[b - 1]
    <3>1. b - 1 \in 0 .. m - 1 /\ b - 1 \in 0 .. m
      BY <2>3, <1>2, SMT
    <3>2. g[b - 1] = step(b - 1)
      BY <2>2, <3>1 DEF SearchOf
    <3> QED
      BY <3>1, <3>2
  <2>4. \A b \in 0 .. m :
          step(b) = IF b = 0 THEN NULL ELSE try_board(f[b - 1], b, tried, w, stray)
    BY <2>3
  <2>5. SearchOf(f, m, tried, w, stray)
    BY <2>4, Zenon DEF SearchOf
  <2> QED
    BY <2>5, <1>2
<1> QED
  BY <1>3, <1>4

(* x is the first of the boards tried, up to place n, that matches.        *)
FirstMatch(x, n, tried, w, stray) ==
  /\ x = NULL \/ (x \in tried /\ x <= n /\ Matches(x, w, stray))
  /\ \A c \in tried : c <= n /\ Matches(c, w, stray) => x # NULL /\ x <= c

(* The body of the loop keeps that.                                        *)
LEMMA TryStep ==
  ASSUME NEW tried \in SUBSET Board, NEW w, NEW stray, NEW m \in Nat, m # 0, NEW x,
         FirstMatch(x, m - 1, tried, w, stray)
  PROVE  FirstMatch(try_board(x, m, tried, w, stray), m, tried, w, stray)
<1> DEFINE y == try_board(x, m, tried, w, stray)
<1>1. tried \subseteq Nat /\ NULL \notin tried /\ NULL \notin Nat
  BY Places, NullAssumption
<1>2. CASE x = NULL /\ m \in tried /\ Matches(m, w, stray)
  <2>1. y = m
    BY <1>2, Zenon DEF try_board
  <2>3. m <= m
    BY SMT
  <2> HIDE DEF y
  <2>2. ASSUME NEW c \in tried, c <= m, Matches(c, w, stray) PROVE y # NULL /\ y <= c
    <3>1. ~(c <= m - 1)
      BY <1>2, <2>2 DEF FirstMatch
    <3>2. c \in Nat
      BY <1>1
    <3> QED
      BY <1>1, <2>1, <2>2, <3>1, <3>2, SMT
  <2> QED
    BY <1>2, <2>1, <2>2, <2>3, Zenon DEF FirstMatch, y
<1>3. CASE ~(x = NULL /\ m \in tried /\ Matches(m, w, stray))
  <2>1. y = x
    BY <1>3, Zenon DEF try_board
  <2>3. x = NULL \/ (x \in tried /\ x <= m /\ Matches(x, w, stray))
    <3>1. ASSUME x \in tried, x <= m - 1 PROVE x <= m
      <4>1. x \in Nat
        BY <1>1, <3>1
      <4> QED
        BY <3>1, <4>1, SMT
    <3> QED
      BY <3>1, Zenon DEF FirstMatch
  <2> HIDE DEF y
  <2>2. ASSUME NEW c \in tried, c <= m, Matches(c, w, stray) PROVE x # NULL /\ x <= c
    <3>1. c \in Nat
      BY <1>1
    <3>2. CASE c = m
      <4>1. x # NULL /\ x \in tried /\ x <= m - 1
        BY <1>3, <2>2, <3>2 DEF FirstMatch
      <4>2. x \in Nat
        BY <1>1, <4>1
      <4> QED
        BY <3>2, <4>1, <4>2, SMT
    <3>3. CASE c # m
      <4>1. c <= m - 1
        BY <2>2, <3>1, <3>3, SMT
      <4> QED
        BY <2>2, <4>1, Zenon DEF FirstMatch
    <3> QED
      BY <3>2, <3>3
  <2> QED
    BY <2>1, <2>2, <2>3, Zenon DEF FirstMatch, y
<1> QED
  BY <1>2, <1>3

(* Hence what hackrf_open_usb returns, by the least counterexample.        *)
LEMMA SearchFindsFirst ==
  ASSUME NEW on, NEW outcome, NEW w, NEW stray
  PROVE  FirstMatch(hackrf_open_usb(on, outcome, w, stray), Len(Bus),
                    Tried(on, outcome), w, stray)
<1> DEFINE tried == Tried(on, outcome)
           usb_device == CHOOSE f : SearchOf(f, Len(Bus), tried, w, stray)
<1>1. tried \in SUBSET Board
  BY DEF Tried
<1>2. SearchOf(usb_device, Len(Bus), tried, w, stray)
  BY Places, SearchExists
<1>3. hackrf_open_usb(on, outcome, w, stray) = usb_device[Len(Bus)]
  BY Zenon DEF hackrf_open_usb, SearchOf
<1> HIDE DEF tried, usb_device
<1> DEFINE T == {m \in 0 .. Len(Bus) : ~FirstMatch(usb_device[m], m, tried, w, stray)}
<1>4. ASSUME T # {} PROVE FALSE
  <2>1. T \in SUBSET Nat
    BY SMT
  <2>2. PICK m \in T : \A y \in T : m <= y
    BY <1>4, <2>1, Least
  <2>3. m \in 0 .. Len(Bus) /\ ~FirstMatch(usb_device[m], m, tried, w, stray)
    BY <2>2
  <2>4. usb_device[m] = IF m = 0 THEN NULL
                        ELSE try_board(usb_device[m - 1], m, tried, w, stray)
    BY <1>2, <2>3 DEF SearchOf
  <2>5. CASE m = 0
    <3>1. \A c \in tried : ~(c <= 0)
      <4>1. \A c \in tried : c \in 1 .. Len(Bus)
        BY <1>1, Places
      <4> QED
        BY <4>1, SMT
    <3> QED
      BY <2>3, <2>4, <2>5, <3>1, Zenon DEF FirstMatch
  <2>6. CASE m # 0
    <3>1. m - 1 \in 0 .. Len(Bus) /\ m \in Nat /\ ~(m <= m - 1)
      BY <2>3, <2>6, Places, SMT
    <3>2. FirstMatch(usb_device[m - 1], m - 1, tried, w, stray)
      BY <2>2, <3>1
    <3> QED
      BY <1>1, <2>3, <2>4, <2>6, <3>1, <3>2, TryStep
  <2> QED
    BY <2>5, <2>6
<1>5. Len(Bus) \in 0 .. Len(Bus)
  BY Places, SMT
<1>6. FirstMatch(usb_device[Len(Bus)], Len(Bus), tried, w, stray)
  BY <1>4, <1>5
<1> QED
  BY <1>3, <1>6 DEF tried

(* A serial number that hackrf_open_usb keeps whole is compared from its   *)
(* end.                                                                    *)
LEMMA ComparedFromTheEnd ==
  ASSUME NEW b \in Board, Bus[b].serial # NULL, NEW w \in Seq(STRING),
         Comparable(b, w), NEW stray
  PROVE  Matches(b, w, stray) <=> EndsWith(Bus[b].serial, w)
<1> DEFINE s == Bus[b].serial
<1>1. s \in Seq(STRING)
  BY Places
<1>2. Len(w) <= Len(s) /\ Len(s) <= USB_MAX_SERIAL_LENGTH /\ Len(w) \in Nat
  <2>1. Len(s) \in Len(w) .. USB_MAX_SERIAL_LENGTH
    BY DEF Comparable
  <2> HIDE DEF s
  <2> QED
    BY <1>1, <2>1, BusAssumption, SMT
<1>3. capped(s) = s
  <2> HIDE DEF s
  <2>1. Len(s) \in Nat /\ Min(Len(s), USB_MAX_SERIAL_LENGTH) = Len(s)
    BY <1>1, <1>2, BusAssumption, SMT DEF Min
  <2>2. SubSeq(s, 1, Len(s)) = s
    BY <1>1, SMT
  <2> QED
    BY <2>1, <2>2 DEF capped
<1>4. HasSuffix(s, w) <=> \E k \in 0 .. Len(s) : SubSeq(s, k + 1, Len(s)) = w
  BY <1>1, <1>2, SuffixIsEnd
<1>5. ~(Len(w) > Len(s))
  <2> HIDE DEF s
  <2> QED
    BY <1>1, <1>2, SMT
<1> QED
  BY <1>3, <1>4, <1>5, Zenon DEF Matches, EndsWith

-----------------------------------------------------------------------------
(* The programs.                                                           *)

(* Where the monitor has a list, where it has a device, and where a        *)
(* program needs the context that its hackrf_init has made.                *)
Label == {"idle", "list", "open", "read", "close", "free", "exit", "failed", "running"}

Listing == {"open", "read", "close", "free"}

Reading == {"read", "close"}

(* What the variables hold.                                                *)
Typed ==
  /\ plugged \subseteq DOMAIN Bus
  /\ claim \in [Board -> Program \cup {"free", "lost", "other"}]
  /\ g_libusb_context \in BOOLEAN /\ dangling \in BOOLEAN
  /\ open_devices \in Nat /\ lists \in Nat
  /\ i \in Nat \ {0} /\ i <= Cardinality(Board) + 1
  /\ device \in [Program -> Board \cup {NULL}]
  /\ pc \in [Program -> Label]
  /\ calls \in [Program -> Nat] /\ \A p \in Program : calls[p] <= MAX_CALLS[p]
  /\ strays \in [devices : Nat, lists : Nat]
  /\ destroyer \in Program \cup {NULL}

(* A program has a device or a list just where its code says so.           *)
Ownership ==
  /\ pc["monitor"] \in {"idle", "list", "exit"} \cup Listing
  /\ pc["sweep"] \in {"idle", "open", "running", "failed", "exit"}
  /\ pc["admin"] \in {"idle", "open"}
  /\ device["monitor"] # NULL <=> pc["monitor"] \in Reading
  /\ device["sweep"] # NULL <=> pc["sweep"] = "running"
  /\ device["admin"] = NULL
  /\ list # NULL <=> pc["monitor"] \in Listing
  /\ pc["monitor"] \in Listing \ {"free"} => i <= Len(list)

(* The list the monitor holds.                                             *)
NamedInv == list # NULL => Named(list)

(* One if there is an x.                                                   *)
One(x) == IF x = NULL THEN 0 ELSE 1

(* The library's counts.                                                   *)
Ledger ==
  /\ open_devices = One(device["monitor"]) + One(device["sweep"]) + strays.devices
  /\ lists = strays.lists + One(list)

(* The context is there for every open device and every list that is in    *)
(* order; and if it is not there for a program that needs it, another      *)
(* program's hackrf_exit was the last to destroy it.                       *)
ContextInv ==
  /\ open_devices > 0 => g_libusb_context
  /\ list # NULL /\ ~dangling => g_libusb_context
  /\ dangling => list # NULL /\ destroyer = "sweep"
  /\ pc["monitor"] = "list" /\ ~g_libusb_context => destroyer = "sweep"
  /\ pc["sweep"] = "open" /\ ~g_libusb_context => destroyer = "monitor"
  /\ pc["admin"] = "open" /\ ~g_libusb_context => destroyer \in {"monitor", "sweep"}

(* The end of a run that crashed, and the result of the last search.       *)
CrashInv ==
  /\ crashed # NULL => crashed.who \in Program
  /\ OnlyOthersTakeTheContext

(* The last search.                                                        *)
FoundInv ==
  /\ found # NULL => found.board \in Board \cup {NULL} /\ found.wanted \in Wanted
  /\ FirstSuffixIsFound

(* The inductive invariant.                                                *)
IInv ==
  /\ Typed /\ Ownership /\ NamedInv /\ Ledger
  /\ ContextInv /\ CrashInv /\ FoundInv

(* Steps that find or list nothing, and steps after which all is still well.  *)
LEMMA FoundKept ==
  ASSUME FoundInv, found' = found \/ found' = NULL
  PROVE  FoundInv'
BY Zenon DEF FoundInv, FirstSuffixIsFound

(* A list that is kept or dropped.                                         *)
LEMMA ListKept ==
  ASSUME NamedInv, list' = list \/ list' = NULL
  PROVE  NamedInv'
BY Zenon DEF NamedInv, Named, Increasing, Explained, Unread, ReadFrom, Own

(* A step that goes well.                                                  *)
LEMMA NotCrashed ==
  ASSUME crashed' = NULL
  PROVE  CrashInv'
BY Zenon DEF CrashInv, OnlyOthersTakeTheContext

(* The three names.                                                        *)
LEMMA Programs ==
  /\ "monitor" \in Program /\ "sweep" \in Program /\ "admin" \in Program
  /\ \A p \in Program : p # NULL /\ p \in {"monitor", "sweep", "admin"}
BY MonitorAssumption DEF Program

(* hackrf_init at the beginning of a program.                              *)
LEMMA StartKeeps ==
  ASSUME IInv, crashed = NULL, CheckStart \/ SweepStart \/ AdminStart
  PROVE  IInv'
<1>1. PICK p \in Program, l \in {"list", "open"} :
        Start(p, l) /\ (p = "monitor" => l = "list") /\ (p # "monitor" => l = "open")
  BY Programs DEF CheckStart, SweepStart, AdminStart
<1>2. /\ pc[p] = "idle" /\ calls[p] < MAX_CALLS[p]
      /\ calls' = [calls EXCEPT ![p] = calls[p] + 1]
      /\ UNCHANGED <<claim, open_devices, lists, destroyer, dangling>>
      /\ UNCHANGED <<plugged, list, i, device, found, strays, crashed>>
      /\ \/ g_libusb_context' = TRUE /\ pc' = [pc EXCEPT ![p] = l]
         \/ ~g_libusb_context /\ g_libusb_context' = g_libusb_context
            /\ pc' = [pc EXCEPT ![p] = "idle"]
  BY <1>1 DEF Start, hackrf_init, Goto, Return, library, monitor
<1>3. Typed'
  <2>1. calls' \in [Program -> Nat] /\ \A q \in Program : calls'[q] <= MAX_CALLS[q]
    <3>1. MAX_CALLS \in [Program -> Nat]
      BY MonitorAssumption
    <3>2. /\ calls \in [Program -> Nat] /\ calls' = [calls EXCEPT ![p] = calls[p] + 1]
          /\ \A q \in Program : calls[q] <= MAX_CALLS[q]
          /\ calls[p] < MAX_CALLS[p]
      BY <1>2 DEF IInv, Typed
    <3> QED
      BY <3>1, <3>2, SMT
  <2>2. g_libusb_context' \in BOOLEAN
    BY <1>2 DEF IInv, Typed
  <2>3. pc' \in [Program -> Label]
    BY <1>2 DEF IInv, Typed, Label
  <2> QED
    BY <1>2, <2>1, <2>2, <2>3 DEF IInv, Typed
<1>4. Ownership'
  <2>1. /\ \A q \in Program : pc'[q] = IF q = p THEN pc'[p] ELSE pc[q]
        /\ pc'[p] \in {"idle", l}
    BY <1>2 DEF IInv, Typed
  <2>2. p \in {"monitor", "sweep", "admin"}
    BY Programs
  <2> QED
    BY <1>1, <1>2, <2>1, <2>2, Programs DEF IInv, Ownership, Listing, Reading
<1>5. Ledger'
  BY <1>2 DEF IInv, Ledger, One
<1>6. ContextInv'
  BY <1>1, <1>2, Programs DEF IInv, ContextInv, Typed, Label
<1> QED
  BY <1>2, <1>3, <1>4, <1>5, <1>6, FoundKept, ListKept, NotCrashed DEF IInv

(* What may happen to the boards during a scan.                            *)
LEMMA ScanType ==
  ASSUME NEW outcome \in Scan
  PROVE  \A b \in Board : outcome[b] \in Outcome
BY DEF Scan, Outcome

(* The monitor's steps.                                                    *)
LEMMA CheckListKeeps ==
  ASSUME IInv, crashed = NULL, CheckList
  PROVE  IInv'
<1>1. pc["monitor"] = "list" /\ UNCHANGED <<plugged, device, found, calls>>
  BY DEF CheckList
<1>2. list = NULL /\ device["monitor"] = NULL /\ ~dangling
  BY <1>1 DEF IInv, Ownership, ContextInv, Listing, Reading
<1>3. CASE /\ ~g_libusb_context /\ Crash("monitor", "no_context")
           /\ UNCHANGED <<library, monitor, pc, strays>>
  <2>1. /\ crashed' = [who |-> "monitor", why |-> "no_context"]
        /\ UNCHANGED <<claim, g_libusb_context, open_devices, lists, destroyer, dangling>>
        /\ UNCHANGED <<list, i, pc, strays>>
    BY <1>3 DEF Crash, library, monitor
  <2>2. destroyer = "sweep"
    BY <1>1, <1>3 DEF IInv, ContextInv
  <2>3. CrashInv'
    BY <2>1, <2>2, Programs DEF CrashInv, OnlyOthersTakeTheContext
  <2>4. Typed' /\ Ownership' /\ Ledger' /\ ContextInv'
    BY <1>1, <2>1 DEF IInv, Typed, Ownership, Ledger, ContextInv
  <2> QED
    BY <1>1, <2>1, <2>3, <2>4, FoundKept, ListKept DEF IInv
<1>4. CASE /\ g_libusb_context /\ "no_mem" \in Env /\ Crash("monitor", "null_list")
           /\ UNCHANGED <<library, monitor, pc, strays>>
  <2>1. /\ crashed' = [who |-> "monitor", why |-> "null_list"]
        /\ UNCHANGED <<claim, g_libusb_context, open_devices, lists, destroyer, dangling>>
        /\ UNCHANGED <<list, i, pc, strays>>
    BY <1>4 DEF Crash, library, monitor
  <2>2. CrashInv'
    BY <2>1, Programs DEF CrashInv, OnlyOthersTakeTheContext
  <2>3. Typed' /\ Ownership' /\ Ledger' /\ ContextInv'
    BY <1>1, <2>1 DEF IInv, Typed, Ownership, Ledger, ContextInv
  <2> QED
    BY <1>1, <2>1, <2>2, <2>3, FoundKept, ListKept DEF IInv
<1>5. ASSUME NEW outcome \in Scan, g_libusb_context, lists' = lists + 1,
             Len(hackrf_device_list(plugged, outcome)) < 1, Return("monitor"),
             strays' = [strays EXCEPT !.lists = @ + 1], UNCHANGED monitor,
             UNCHANGED <<claim, g_libusb_context, open_devices, destroyer, dangling, crashed>>
      PROVE  IInv'
  <2>1. pc' = [pc EXCEPT !["monitor"] = "idle"] /\ UNCHANGED <<list, i>>
    BY <1>5 DEF Return, Goto, monitor
  <2>2. Typed'
    <3>1. strays' \in [devices : Nat, lists : Nat]
      BY <1>5 DEF IInv, Typed
    <3>2. pc' \in [Program -> Label]
      BY <2>1 DEF IInv, Typed, Label
    <3> QED
      BY <1>1, <1>5, <2>1, <3>1, <3>2 DEF IInv, Typed
  <2>3. Ownership'
    BY <1>1, <1>2, <1>5, <2>1, Programs DEF IInv, Typed, Ownership, Listing, Reading
  <2>4. Ledger'
    <3>1. strays'.lists = strays.lists + 1 /\ strays'.devices = strays.devices
      BY <1>5 DEF IInv, Typed
    <3> QED
      BY <1>1, <1>2, <1>5, <2>1, <3>1 DEF IInv, Typed, Ledger, One
  <2>5. ContextInv'
    BY <1>1, <1>2, <1>5, <2>1, Programs DEF IInv, Typed, ContextInv
  <2> QED
    BY <1>1, <1>5, <2>1, <2>2, <2>3, <2>4, <2>5, FoundKept, ListKept, NotCrashed DEF IInv
<1>6. ASSUME NEW outcome \in Scan, g_libusb_context, lists' = lists + 1,
             Len(hackrf_device_list(plugged, outcome)) >= 1,
             list' = hackrf_device_list(plugged, outcome),
             i' = 1, Goto("monitor", "open"), UNCHANGED strays,
             UNCHANGED <<claim, g_libusb_context, open_devices, destroyer, dangling, crashed>>
      PROVE  IInv'
  <2>1. pc' = [pc EXCEPT !["monitor"] = "open"]
    BY <1>6 DEF Goto
  <2>2. Named(hackrf_device_list(plugged, outcome))
    BY ScanType, ListIsNamed
  <2>3. NamedInv'
    BY <1>6, <2>2, Zenon DEF NamedInv, Named, Increasing, Explained, Unread, ReadFrom, Own
  <2>4. list' # NULL /\ i' <= Len(list')
    <3>1. list' \in Seq(Entry)
      BY <1>6, <2>2 DEF Named
    <3>2. list' # NULL
      BY <3>1, NullAssumption
    <3> QED
      BY <1>6, <3>2
  <2>5. Typed'
    <3>1. 1 \in Nat \ {0} /\ 1 <= Cardinality(Board) + 1
      BY BoardsFinite, SMT
    <3> QED
      BY <1>1, <1>6, <2>1, <3>1, Programs DEF IInv, Typed, Label
  <2>6. Ownership'
    BY <1>1, <1>2, <1>6, <2>1, <2>4, Programs DEF IInv, Typed, Ownership, Listing, Reading
  <2>7. Ledger'
    BY <1>1, <1>2, <1>6, <2>4 DEF IInv, Typed, Ledger, One
  <2>8. ContextInv'
    BY <1>1, <1>2, <1>6, <2>1, Programs DEF IInv, Typed, ContextInv
  <2> QED
    BY <1>1, <1>6, <2>3, <2>5, <2>6, <2>7, <2>8, FoundKept, NotCrashed DEF IInv
<1> QED
  BY <1>3, <1>4, <1>5, <1>6 DEF CheckList

(* The monitor's loop counter is within its list.                          *)
LEMMA ListEntry ==
  ASSUME IInv, pc["monitor"] \in Listing \ {"free"}
  PROVE  /\ list # NULL /\ list[i].board \in Board
         /\ i \in Nat /\ Len(list) \in Nat /\ i <= Len(list)
         /\ Len(list) <= Cardinality(Board)
<1>1. list # NULL /\ i <= Len(list) /\ i \in Nat \ {0}
  BY DEF IInv, Ownership, Typed
<1>2. list \in Seq(Entry) /\ Len(list) <= Cardinality(Board)
  BY <1>1 DEF IInv, NamedInv, Named
<1>3. i \in 1 .. Len(list)
  BY <1>1, <1>2, SMT
<1>4. list[i] \in Entry
  BY <1>2, <1>3
<1> QED
  BY <1>1, <1>2, <1>4 DEF Entry

(* Going on to the next board.                                             *)
LEMMA NextBoardKeeps ==
  ASSUME IInv, pc["monitor"] \in Listing \ {"free"}, NextBoard
  PROVE  /\ i' \in Nat \ {0} /\ i' <= Cardinality(Board) + 1
         /\ pc' \in [Program -> Label]
         /\ pc'["monitor"] \in {"open", "free"}
         /\ pc'["sweep"] = pc["sweep"] /\ pc'["admin"] = pc["admin"]
         /\ pc'["monitor"] = "open" => i' <= Len(list)
<1> DEFINE l == IF i < Len(list) THEN "open" ELSE "free"
<1>1. i' = i + 1 /\ pc' = [pc EXCEPT !["monitor"] = l]
  BY DEF NextBoard, Goto
<1>2. i \in Nat \ {0} /\ Len(list) \in Nat /\ i <= Len(list)
      /\ Len(list) <= Cardinality(Board) /\ Cardinality(Board) \in Nat
  BY ListEntry, BoardsFinite DEF IInv, Typed
<1>3. l \in {"open", "free"} /\ (l = "open" => i < Len(list))
  OBVIOUS
<1> HIDE DEF l
<1>4. i' \in Nat \ {0} /\ i' <= Cardinality(Board) + 1 /\ (l = "open" => i' <= Len(list))
  BY <1>1, <1>2, <1>3, SMT
<1>5. /\ pc' \in [Program -> Label] /\ pc'["monitor"] = l
      /\ pc'["sweep"] = pc["sweep"] /\ pc'["admin"] = pc["admin"]
  BY <1>1, <1>3, Programs DEF IInv, Typed, Label
<1> QED
  BY <1>3, <1>4, <1>5

(* hackrf_open_setup and hackrf_close change one board's owner.            *)
LEMMA ClaimsType ==
  ASSUME IInv, NEW p \in Program \cup {"lost"}, NEW b \in Board, Claims(p, b)
  PROVE  /\ claim' \in [Board -> Program \cup {"free", "lost", "other"}]
         /\ open_devices' = open_devices + 1 /\ open_devices' \in Nat
         /\ UNCHANGED <<g_libusb_context, lists, destroyer, dangling>>
BY SMT DEF IInv, Typed, Claims

(* The monitor's hackrf_device_list_open.                                  *)
LEMMA CheckOpenKeeps ==
  ASSUME IInv, crashed = NULL, CheckOpen
  PROVE  IInv'
<1> DEFINE b == list[i].board
<1>1. /\ pc["monitor"] = "open" /\ pc["monitor"] \in Listing \ {"free"}
      /\ UNCHANGED <<plugged, list, found, calls, strays>>
  BY DEF CheckOpen, Listing, history
<1>2. list # NULL /\ b \in Board /\ device["monitor"] = NULL /\ b # NULL
  BY <1>1, ListEntry, Places DEF IInv, Ownership, Reading
<1>3. CASE dangling /\ Crash("monitor", "stale_list") /\ UNCHANGED <<library, i, device, pc>>
  <2>1. /\ crashed' = [who |-> "monitor", why |-> "stale_list"]
        /\ UNCHANGED <<claim, g_libusb_context, open_devices, lists, destroyer, dangling>>
        /\ UNCHANGED <<i, device, pc>>
    BY <1>3 DEF Crash, library
  <2>2. destroyer = "sweep"
    BY <1>3 DEF IInv, ContextInv
  <2>3. CrashInv'
    BY <2>1, <2>2, Programs DEF CrashInv, OnlyOthersTakeTheContext
  <2>4. Typed' /\ Ownership' /\ Ledger' /\ ContextInv'
    BY <1>1, <2>1 DEF IInv, Typed, Ownership, Ledger, ContextInv
  <2> QED
    BY <1>1, <2>1, <2>3, <2>4, FoundKept, ListKept DEF IInv
<1>4. CASE /\ ~dangling /\ Claims("monitor", b)
           /\ device' = [device EXCEPT !["monitor"] = b]
           /\ Goto("monitor", "read")
           /\ UNCHANGED <<i, crashed>>
  <2>1. /\ pc' = [pc EXCEPT !["monitor"] = "read"]
        /\ claim' \in [Board -> Program \cup {"free", "lost", "other"}]
        /\ open_devices' = open_devices + 1 /\ open_devices' \in Nat
        /\ UNCHANGED <<g_libusb_context, lists, destroyer, dangling>>
    BY <1>2, <1>4, ClaimsType, Programs DEF Goto
  <2>2. g_libusb_context
    BY <1>2, <1>4 DEF IInv, ContextInv
  <2>3. device' \in [Program -> Board \cup {NULL}] /\ device'["monitor"] = b
        /\ device'["sweep"] = device["sweep"] /\ device'["admin"] = device["admin"]
    BY <1>2, <1>4, Programs DEF IInv, Typed
  <2>4. pc' \in [Program -> Label] /\ pc'["monitor"] = "read"
        /\ pc'["sweep"] = pc["sweep"] /\ pc'["admin"] = pc["admin"]
    BY <2>1, Programs DEF IInv, Typed, Label
  <2> HIDE DEF b
  <2>5. Typed'
    BY <1>1, <1>4, <2>1, <2>3, <2>4 DEF IInv, Typed
  <2>6. Ownership'
    BY <1>1, <1>2, <1>4, <2>3, <2>4 DEF IInv, Ownership, Listing, Reading
  <2>7. Ledger'
    BY <1>1, <1>2, <2>1, <2>3 DEF IInv, Typed, Ledger, One
  <2>8. ContextInv'
    BY <1>1, <1>2, <2>1, <2>2, <2>4 DEF IInv, Typed, ContextInv
  <2> QED
    BY <1>1, <1>4, <2>5, <2>6, <2>7, <2>8, FoundKept, ListKept, NotCrashed DEF IInv
<1>5. CASE NextBoard /\ UNCHANGED <<library, device, crashed>>
  <2>1. /\ UNCHANGED <<claim, g_libusb_context, open_devices, lists, destroyer, dangling>>
        /\ UNCHANGED <<device, crashed>>
    BY <1>5 DEF library
  <2>2. /\ i' \in Nat \ {0} /\ i' <= Cardinality(Board) + 1
        /\ pc' \in [Program -> Label]
        /\ pc'["monitor"] \in {"open", "free"}
        /\ pc'["sweep"] = pc["sweep"] /\ pc'["admin"] = pc["admin"]
        /\ pc'["monitor"] = "open" => i' <= Len(list)
    BY <1>1, <1>5, NextBoardKeeps
  <2>3. Typed'
    BY <1>1, <2>1, <2>2 DEF IInv, Typed
  <2>4. Ownership'
    BY <1>1, <1>2, <2>1, <2>2 DEF IInv, Ownership, Listing, Reading
  <2>5. Ledger' /\ ContextInv'
    BY <1>1, <1>2, <2>1, <2>2 DEF IInv, Ledger, One, ContextInv
  <2> QED
    BY <1>1, <2>1, <2>3, <2>4, <2>5, FoundKept, ListKept, NotCrashed DEF IInv
<1> QED
  BY <1>3, <1>4, <1>5 DEF CheckOpen

(* One of its five reads; a failed one leaves device and list behind.      *)
LEMMA CheckReadKeeps ==
  ASSUME IInv, crashed = NULL, CheckRead
  PROVE  IInv'
<1>1. pc["monitor"] = "read" /\ UNCHANGED <<plugged, i, found, calls, crashed>>
  BY DEF CheckRead
<1>2. list # NULL /\ device["monitor"] # NULL
  BY <1>1 DEF IInv, Ownership, Listing, Reading
<1>3. CASE Goto("monitor", "close") /\ UNCHANGED <<library, list, device, strays>>
  <2>1. /\ pc' = [pc EXCEPT !["monitor"] = "close"]
        /\ UNCHANGED <<claim, g_libusb_context, open_devices, lists, destroyer, dangling>>
        /\ UNCHANGED <<list, device, strays>>
    BY <1>3 DEF Goto, library
  <2>2. pc' \in [Program -> Label] /\ pc'["monitor"] = "close"
        /\ pc'["sweep"] = pc["sweep"] /\ pc'["admin"] = pc["admin"]
    BY <2>1, Programs DEF IInv, Typed, Label
  <2>3. Typed'
    BY <1>1, <2>1, <2>2 DEF IInv, Typed
  <2>4. Ownership'
    BY <1>1, <1>2, <2>1, <2>2 DEF IInv, Ownership, Listing, Reading
  <2>5. Ledger' /\ ContextInv'
    BY <1>1, <1>2, <2>1, <2>2 DEF IInv, Ledger, One, ContextInv
  <2> QED
    BY <1>1, <2>1, <2>3, <2>4, <2>5, FoundKept, ListKept, NotCrashed DEF IInv
<1>4. CASE ReadFails
  <2>1. /\ claim' = [b \in Board |-> IF b = device["monitor"] /\ claim[b] = "monitor"
                                       THEN "lost" ELSE claim[b]]
        /\ device' = [device EXCEPT !["monitor"] = NULL]
        /\ strays' = [devices |-> strays.devices + 1, lists |-> strays.lists + 1]
        /\ list' = NULL /\ ~dangling'  /\ dangling' \in BOOLEAN
        /\ pc' = [pc EXCEPT !["monitor"] = "idle"]
        /\ UNCHANGED <<g_libusb_context, open_devices, lists, destroyer>>
    BY <1>4 DEF ReadFails, Return, Goto
  <2>2. pc' \in [Program -> Label] /\ pc'["monitor"] = "idle"
        /\ pc'["sweep"] = pc["sweep"] /\ pc'["admin"] = pc["admin"]
    BY <2>1, Programs DEF IInv, Typed, Label
  <2>3. device' \in [Program -> Board \cup {NULL}] /\ device'["monitor"] = NULL
        /\ device'["sweep"] = device["sweep"] /\ device'["admin"] = device["admin"]
    BY <2>1, Programs DEF IInv, Typed
  <2>4. strays' \in [devices : Nat, lists : Nat]
    BY <2>1 DEF IInv, Typed
  <2>5. claim' \in [Board -> Program \cup {"free", "lost", "other"}]
    BY <2>1 DEF IInv, Typed
  <2>6. Typed'
    BY <1>1, <2>1, <2>2, <2>3, <2>4, <2>5 DEF IInv, Typed
  <2>7. Ownership'
    BY <1>1, <2>1, <2>2, <2>3 DEF IInv, Ownership, Listing, Reading
  <2>8. Ledger'
    <3>1. strays'.devices = strays.devices + 1 /\ strays'.lists = strays.lists + 1
      BY <2>1
    <3> QED
      BY <1>2, <2>1, <2>3, <3>1 DEF IInv, Typed, Ledger, One
  <2>9. ContextInv'
    BY <2>1, <2>2 DEF IInv, ContextInv
  <2> QED
    BY <1>1, <2>1, <2>6, <2>7, <2>8, <2>9, FoundKept, ListKept, NotCrashed DEF IInv
<1> QED
  BY <1>3, <1>4 DEF CheckRead

(* A device that is open is counted.                                       *)
LEMMA CloseType ==
  ASSUME IInv, NEW p \in {"monitor", "sweep"}, device[p] # NULL, hackrf_close(p)
  PROVE  /\ claim' \in [Board -> Program \cup {"free", "lost", "other"}]
         /\ device' \in [Program -> Board \cup {NULL}] /\ device'[p] = NULL
         /\ \A q \in Program \ {p} : device'[q] = device[q]
         /\ open_devices' = open_devices - 1 /\ open_devices' \in Nat
         /\ UNCHANGED <<g_libusb_context, lists, destroyer, dangling>>
<1>1. /\ claim' = [b \in Board |-> IF b = device[p] /\ claim[b] = p THEN "free" ELSE claim[b]]
      /\ open_devices' = open_devices - 1
      /\ device' = [device EXCEPT ![p] = NULL]
      /\ UNCHANGED <<g_libusb_context, lists, destroyer, dangling>>
  BY DEF hackrf_close
<1>2. p \in Program
  BY Programs
<1>3. claim' \in [Board -> Program \cup {"free", "lost", "other"}]
  BY <1>1 DEF IInv, Typed
<1>4. /\ device' \in [Program -> Board \cup {NULL}] /\ device'[p] = NULL
      /\ \A q \in Program \ {p} : device'[q] = device[q]
  BY <1>1, <1>2 DEF IInv, Typed
<1>5. open_devices > 0
  <2>1. strays.devices \in Nat
    BY DEF IInv, Typed
  <2> QED
    BY <2>1 DEF IInv, Ledger, One
<1>6. open_devices - 1 \in Nat
  BY <1>5 DEF IInv, Typed
<1> QED
  BY <1>1, <1>3, <1>4, <1>6

(* Its hackrf_close.                                                       *)
LEMMA CheckCloseKeeps ==
  ASSUME IInv, crashed = NULL, CheckClose
  PROVE  IInv'
<1>1. /\ pc["monitor"] = "close" /\ pc["monitor"] \in Listing \ {"free"}
      /\ UNCHANGED <<plugged, list, found, calls, strays, crashed>>
  BY DEF CheckClose, Listing, history
<1>2. list # NULL /\ device["monitor"] # NULL
  BY <1>1 DEF IInv, Ownership, Listing, Reading
<1>3. /\ claim' \in [Board -> Program \cup {"free", "lost", "other"}]
      /\ device' \in [Program -> Board \cup {NULL}] /\ device'["monitor"] = NULL
      /\ device'["sweep"] = device["sweep"] /\ device'["admin"] = device["admin"]
      /\ open_devices' = open_devices - 1 /\ open_devices' \in Nat
      /\ UNCHANGED <<g_libusb_context, lists, destroyer, dangling>>
  BY <1>2, CloseType, Programs DEF CheckClose
<1>4. /\ i' \in Nat \ {0} /\ i' <= Cardinality(Board) + 1
      /\ pc' \in [Program -> Label]
      /\ pc'["monitor"] \in {"open", "free"}
      /\ pc'["sweep"] = pc["sweep"] /\ pc'["admin"] = pc["admin"]
      /\ pc'["monitor"] = "open" => i' <= Len(list)
  BY <1>1, NextBoardKeeps DEF CheckClose
<1>5. Typed'
  BY <1>1, <1>3, <1>4 DEF IInv, Typed
<1>6. Ownership'
  BY <1>1, <1>2, <1>3, <1>4 DEF IInv, Ownership, Listing, Reading
<1>7. Ledger'
  BY <1>1, <1>2, <1>3 DEF IInv, Typed, Ledger, One
<1>8. ContextInv'
  BY <1>1, <1>2, <1>3, <1>4 DEF IInv, Typed, ContextInv
<1> QED
  BY <1>1, <1>5, <1>6, <1>7, <1>8, FoundKept, ListKept, NotCrashed DEF IInv

(* Its hackrf_device_list_free.                                            *)
LEMMA CheckFreeKeeps ==
  ASSUME IInv, crashed = NULL, CheckFree
  PROVE  IInv'
<1>1. /\ pc["monitor"] = "free"
      /\ UNCHANGED <<plugged, claim, g_libusb_context, open_devices, destroyer, dangling>>
      /\ UNCHANGED <<i, device, found, calls, strays>>
  BY DEF CheckFree, history
<1>2. list # NULL /\ device["monitor"] = NULL
  BY <1>1 DEF IInv, Ownership, Listing, Reading
<1>3. CASE dangling
  <2>1. /\ crashed' = [who |-> "monitor", why |-> "stale_list"]
        /\ UNCHANGED <<lists, list, pc>>
    BY <1>3 DEF CheckFree, Crash
  <2>2. destroyer = "sweep"
    BY <1>3 DEF IInv, ContextInv
  <2>3. CrashInv'
    BY <1>1, <2>1, <2>2, Programs DEF CrashInv, OnlyOthersTakeTheContext
  <2>4. Typed' /\ Ownership' /\ Ledger' /\ ContextInv'
    BY <1>1, <2>1 DEF IInv, Typed, Ownership, Ledger, ContextInv
  <2> QED
    BY <1>1, <2>1, <2>3, <2>4, FoundKept, ListKept DEF IInv
<1>4. CASE ~dangling
  <2>1. /\ lists' = lists - 1 /\ list' = NULL
        /\ pc' = [pc EXCEPT !["monitor"] = "exit"]
        /\ crashed' = crashed
    BY <1>4 DEF CheckFree, lists_after_free, Goto
  <2>2. pc' \in [Program -> Label] /\ pc'["monitor"] = "exit"
        /\ pc'["sweep"] = pc["sweep"] /\ pc'["admin"] = pc["admin"]
    BY <2>1, Programs DEF IInv, Typed, Label
  <2>3. lists' \in Nat /\ Ledger'
    <3>1. strays.lists \in Nat /\ lists = strays.lists + 1
      BY <1>2 DEF IInv, Typed, Ledger, One
    <3>2. lists' = strays.lists + 0
      BY <2>1, <3>1, SMT
    <3> QED
      BY <1>1, <2>1, <3>1, <3>2 DEF IInv, Ledger, One
  <2>4. Typed'
    BY <1>1, <2>1, <2>2, <2>3 DEF IInv, Typed
  <2>5. Ownership'
    BY <1>1, <1>2, <2>1, <2>2 DEF IInv, Ownership, Listing, Reading
  <2>6. ContextInv'
    BY <1>1, <1>4, <2>1, <2>2 DEF IInv, ContextInv
  <2> QED
    BY <1>1, <2>1, <2>3, <2>4, <2>5, <2>6, FoundKept, ListKept, NotCrashed DEF IInv
<1> QED
  BY <1>3, <1>4

(* hackrf_exit, by the monitor or by the sweep.                            *)
LEMMA ExitEffect ==
  ASSUME IInv, NEW p \in Program, hackrf_exit(p)
  PROVE  /\ UNCHANGED <<claim, open_devices, lists>>
         /\ g_libusb_context' \in BOOLEAN /\ dangling' \in BOOLEAN
         /\ destroyer' \in Program \cup {NULL}
         /\ \/ UNCHANGED <<g_libusb_context, destroyer, dangling>>
            \/ /\ open_devices = 0 /\ ~g_libusb_context' /\ destroyer' = p
               /\ dangling' <=> (dangling \/ list # NULL)
<1>1. g_libusb_context \in BOOLEAN /\ dangling \in BOOLEAN /\ MayExit \in BOOLEAN
  BY DEF IInv, Typed, MayExit
<1>2. CASE MayExit
  BY <1>1, <1>2 DEF hackrf_exit, MayExit
<1>3. CASE ~MayExit
  <2>1. destroyer' = destroyer /\ destroyer \in Program \cup {NULL}
    BY <1>3 DEF hackrf_exit, IInv, Typed
  <2>2. (g_libusb_context' <=> g_libusb_context) /\ g_libusb_context' \in BOOLEAN
    BY <1>1, <1>3 DEF hackrf_exit
  <2>3. (dangling' <=> dangling) /\ dangling' \in BOOLEAN
    BY <1>1, <1>3 DEF hackrf_exit
  <2>4. UNCHANGED <<claim, open_devices, lists>>
    BY DEF hackrf_exit
  <2> QED
    BY <1>1, <2>1, <2>2, <2>3, <2>4
<1> QED
  BY <1>2, <1>3

(* Its hackrf_exit.                                                        *)
LEMMA CheckExitKeeps ==
  ASSUME IInv, crashed = NULL, CheckExit
  PROVE  IInv'
<1>1. /\ pc["monitor"] = "exit" /\ hackrf_exit("monitor")
      /\ pc' = [pc EXCEPT !["monitor"] = "idle"]
      /\ UNCHANGED <<plugged, list, i, device, found, calls, strays, crashed>>
  BY DEF CheckExit, Return, Goto, monitor, history
<1>2. /\ UNCHANGED <<claim, open_devices, lists>>
      /\ g_libusb_context' \in BOOLEAN /\ dangling' \in BOOLEAN
      /\ destroyer' \in Program \cup {NULL}
      /\ \/ UNCHANGED <<g_libusb_context, destroyer, dangling>>
         \/ /\ open_devices = 0 /\ ~g_libusb_context' /\ destroyer' = "monitor"
            /\ dangling' <=> (dangling \/ list # NULL)
  BY <1>1, ExitEffect, Programs
<1>3. list = NULL /\ device["monitor"] = NULL
  BY <1>1 DEF IInv, Ownership, Listing, Reading
<1>4. pc' \in [Program -> Label] /\ pc'["monitor"] = "idle"
      /\ pc'["sweep"] = pc["sweep"] /\ pc'["admin"] = pc["admin"]
  BY <1>1, Programs DEF IInv, Typed, Label
<1>5. Typed'
  BY <1>1, <1>2, <1>4 DEF IInv, Typed
<1>6. Ownership'
  BY <1>1, <1>3, <1>4 DEF IInv, Ownership, Listing, Reading
<1>7. Ledger'
  BY <1>1, <1>2 DEF IInv, Ledger, One
<1>8. ContextInv'
  BY <1>1, <1>2, <1>3, <1>4 DEF IInv, ContextInv, Typed
<1> QED
  BY <1>1, <1>5, <1>6, <1>7, <1>8, FoundKept, ListKept, NotCrashed DEF IInv

(* The sweep's steps.                                                      *)

(* What a search may find, and what it says of its result.                 *)
LEMMA SearchResult ==
  ASSUME IInv, NEW w \in Wanted, NEW outcome \in Scan, NEW b \in Search(w, outcome)
  PROVE  /\ b \in Board \cup {NULL}
         /\ found' = (IF Compares(w)
                        THEN [wanted |-> w, tried |-> Tried(plugged, outcome), board |-> b]
                        ELSE NULL)
            => FoundInv'
<1>1. plugged \subseteq DOMAIN Bus
  BY DEF IInv, Typed
<1>2. w = NULL \/ w \in Seq(STRING)
  BY MonitorAssumption
<1> DEFINE tried == Tried(plugged, outcome)
<1>3. ASSUME Compares(w)
      PROVE  /\ b \in Board \cup {NULL}
             /\ \A c \in tried : Comparable(c, w) =>
                  /\ b = c => EndsWith(Bus[c].serial, w)
                  /\ EndsWith(Bus[c].serial, w) => b # NULL /\ b <= c
  <2>1. w \in Seq(STRING)
    BY <1>2, <1>3, Zenon DEF Compares
  <2>2. PICK stray \in SUBSET Board : b = hackrf_open_usb(plugged, outcome, w, stray)
    BY <1>3, Zenon DEF Compares, TooLong, Search
  <2>3. FirstMatch(b, Len(Bus), tried, w, stray)
    BY <2>2, SearchFindsFirst
  <2>4. tried \subseteq Board /\ \A c \in tried : Bus[c].serial # NULL
    BY DEF Tried
  <2> HIDE DEF tried
  <2>5. \A c \in tried : c <= Len(Bus)
    <3>1. \A c \in tried : c \in 1 .. Len(Bus)
      BY <2>4, Places
    <3> QED
      BY <3>1, Places, SMT
  <2>6. ASSUME NEW c \in tried, Comparable(c, w)
        PROVE  Matches(c, w, stray) <=> EndsWith(Bus[c].serial, w)
    BY <2>1, <2>4, <2>6, ComparedFromTheEnd
  <2>7. NULL \notin tried
    BY <2>4, Places
  <2> QED
    BY <2>3, <2>4, <2>5, <2>6, <2>7, Zenon DEF FirstMatch
<1>4. b \in Board \cup {NULL}
  <2>1. ~Compares(w) => b = NULL \/ b = hackrf_open(plugged, outcome)
    BY Zenon DEF Compares, TooLong, Search
  <2> QED
    BY <1>1, <1>3, <2>1, OpenFindsBoard
<1>5. ASSUME found' = IF Compares(w) THEN [wanted |-> w, tried |-> tried, board |-> b] ELSE NULL
      PROVE  FoundInv'
  <2>1. CASE ~Compares(w)
    <3>1. found' = NULL
      BY <1>5, <2>1
    <3> QED
      BY <3>1, Zenon DEF FoundInv, FirstSuffixIsFound
  <2>2. CASE Compares(w)
    <3>1. found' = [wanted |-> w, tried |-> tried, board |-> b]
      BY <1>5, <2>2
    <3> HIDE DEF tried
    <3>2. found'.wanted = w /\ found'.tried = tried /\ found'.board = b
      BY <3>1
    <3>3. FirstSuffixIsFound'
      BY <1>3, <2>2, <3>2, Zenon DEF FirstSuffixIsFound
    <3>4. found'.board \in Board \cup {NULL} /\ found'.wanted \in Wanted
      BY <1>4, <3>2
    <3> QED
      BY <3>3, <3>4, Zenon DEF FoundInv
  <2> QED
    BY <2>1, <2>2
<1> QED
  BY <1>4, <1>5

(* The sweep's hackrf_open_by_serial.                                      *)
LEMMA SweepOpenKeeps ==
  ASSUME IInv, crashed = NULL, SweepOpen
  PROVE  IInv'
<1>1. pc["sweep"] = "open" /\ UNCHANGED <<plugged, list, i, calls>>
  BY DEF SweepOpen, monitor
<1>2. device["sweep"] = NULL
  BY <1>1 DEF IInv, Ownership
<1>3. ASSUME NEW why, crashed' = [who |-> "sweep", why |-> why],
             why = "no_context" => ~g_libusb_context, why # "stale_list",
             UNCHANGED <<library, device, found, pc, strays>>
      PROVE  IInv'
  <2>1. /\ UNCHANGED <<claim, g_libusb_context, open_devices, lists, destroyer, dangling>>
        /\ UNCHANGED <<device, found, pc, strays>>
    BY <1>3 DEF library
  <2>2. why = "no_context" => destroyer = "monitor"
    BY <1>1, <1>3 DEF IInv, ContextInv
  <2>3. CrashInv'
    BY <1>3, <2>1, <2>2, Programs DEF CrashInv, OnlyOthersTakeTheContext
  <2>4. Typed' /\ Ownership' /\ Ledger' /\ ContextInv'
    BY <1>1, <2>1 DEF IInv, Typed, Ownership, Ledger, ContextInv
  <2> QED
    BY <1>1, <2>1, <2>3, <2>4, FoundKept, ListKept DEF IInv
<1>4. CASE ~g_libusb_context
  <2>1. /\ crashed' = [who |-> "sweep", why |-> "no_context"]
        /\ UNCHANGED <<library, device, found, pc, strays>>
    BY <1>4 DEF SweepOpen, Crash
  <2> QED
    BY <1>3, <1>4, <2>1
<1>5. CASE g_libusb_context
  <2> DEFINE Opening(w, outcome, b) ==
              IF Compares(w) /\ Corrupts(plugged, outcome, b)
                THEN Crash("sweep", "overrun")
                     /\ UNCHANGED <<library, device, found, pc, strays>>
                ELSE /\ found' = IF Compares(w)
                                   THEN [wanted |-> w, tried |-> Tried(plugged, outcome),
                                         board |-> b]
                                   ELSE NULL
                     /\ \/ b # NULL /\ SetUp(b) /\ UNCHANGED strays
                        \/ /\ b = NULL
                           /\ Goto("sweep", "failed")
                           /\ lists'  = lists + IF TooLong(w) THEN 1 ELSE 0
                           /\ strays' = [strays EXCEPT !.lists = @ + IF TooLong(w) THEN 1 ELSE 0]
                           /\ UNCHANGED <<claim, g_libusb_context, open_devices, destroyer,
                                          dangling, device>>
                     /\ UNCHANGED crashed
  <2>1. PICK w \in Wanted, outcome \in Scan :
          \E b \in Search(w, outcome) : Opening(w, outcome, b)
    BY <1>5, Zenon DEF SweepOpen
  <2>2. PICK b \in Search(w, outcome) : Opening(w, outcome, b)
    BY <2>1, Zenon
  <2>3. CASE Compares(w) /\ Corrupts(plugged, outcome, b)
    <3>1. /\ crashed' = [who |-> "sweep", why |-> "overrun"]
          /\ UNCHANGED <<library, device, found, pc, strays>>
      BY <2>2, <2>3, Zenon DEF Crash
    <3>2. "overrun" # "no_context" /\ "overrun" # "stale_list"
      OBVIOUS
    <3> QED
      BY <1>3, <3>1, <3>2
  <2>4. CASE ~(Compares(w) /\ Corrupts(plugged, outcome, b))
    <3>1. /\ found' = IF Compares(w)
                        THEN [wanted |-> w, tried |-> Tried(plugged, outcome), board |-> b]
                        ELSE NULL
          /\ crashed' = crashed
          /\ \/ b # NULL /\ SetUp(b) /\ UNCHANGED strays
             \/ /\ Goto("sweep", "failed")
                /\ lists'  = lists + IF TooLong(w) THEN 1 ELSE 0
                /\ strays' = [strays EXCEPT !.lists = @ + IF TooLong(w) THEN 1 ELSE 0]
                /\ UNCHANGED <<claim, g_libusb_context, open_devices, destroyer,
                               dangling, device>>
      BY <2>2, <2>4, Zenon
    <3>2. FoundInv' /\ b \in Board \cup {NULL}
      BY <3>1, SearchResult
    <3>3. CASE b # NULL /\ Claims("sweep", b) /\ device' = [device EXCEPT !["sweep"] = b]
               /\ Goto("sweep", "running") /\ UNCHANGED strays
      <4>1. b \in Board
        BY <3>2, <3>3
      <4>2. /\ claim' \in [Board -> Program \cup {"free", "lost", "other"}]
            /\ open_devices' = open_devices + 1 /\ open_devices' \in Nat
            /\ UNCHANGED <<g_libusb_context, lists, destroyer, dangling>>
        BY <3>3, <4>1, ClaimsType, Programs
      <4>3. device' \in [Program -> Board \cup {NULL}] /\ device'["sweep"] = b
            /\ device'["monitor"] = device["monitor"] /\ device'["admin"] = device["admin"]
        BY <3>3, <4>1, Programs DEF IInv, Typed
      <4>4. pc' \in [Program -> Label] /\ pc'["sweep"] = "running"
            /\ pc'["monitor"] = pc["monitor"] /\ pc'["admin"] = pc["admin"]
        BY <3>3, Programs DEF IInv, Typed, Label, Goto
      <4>5. Typed'
        BY <1>1, <3>3, <4>2, <4>3, <4>4 DEF IInv, Typed
      <4>6. Ownership'
        BY <1>1, <3>3, <4>3, <4>4 DEF IInv, Ownership
      <4>7. Ledger'
        BY <1>1, <1>2, <3>3, <4>2, <4>3 DEF IInv, Typed, Ledger, One
      <4>8. ContextInv'
        BY <1>1, <1>5, <4>2, <4>4 DEF IInv, Typed, ContextInv
      <4> QED
        BY <1>1, <3>1, <3>2, <4>5, <4>6, <4>7, <4>8, ListKept, NotCrashed DEF IInv
    <3>4. ASSUME NEW n \in {0, 1}, Goto("sweep", "failed"),
                 lists' = lists + n, strays' = [strays EXCEPT !.lists = strays.lists + n],
                 UNCHANGED <<claim, g_libusb_context, open_devices, destroyer,
                             dangling, device>>
          PROVE  IInv'
      <4>1. /\ strays' \in [devices : Nat, lists : Nat]
            /\ strays'.devices = strays.devices /\ strays'.lists = strays.lists + n
        BY <3>4 DEF IInv, Typed
      <4>2. pc' \in [Program -> Label] /\ pc'["sweep"] = "failed"
            /\ pc'["monitor"] = pc["monitor"] /\ pc'["admin"] = pc["admin"]
        BY <3>4, Programs DEF IInv, Typed, Label, Goto
      <4>3. lists' \in Nat
        BY <3>4 DEF IInv, Typed
      <4>4. Typed'
        BY <1>1, <3>4, <4>1, <4>2, <4>3 DEF IInv, Typed
      <4>5. Ownership'
        BY <1>1, <1>2, <3>4, <4>2 DEF IInv, Ownership
      <4>6. Ledger'
        BY <1>1, <3>4, <4>1 DEF IInv, Typed, Ledger, One
      <4>7. ContextInv'
        BY <1>1, <1>5, <3>4, <4>2 DEF IInv, Typed, ContextInv
      <4> QED
        BY <1>1, <3>1, <3>2, <4>4, <4>5, <4>6, <4>7, ListKept, NotCrashed DEF IInv
    <3>5. CASE Goto("sweep", "failed") /\ UNCHANGED <<library, device, strays>>
      <4>1. /\ UNCHANGED <<claim, g_libusb_context, open_devices, lists, destroyer, dangling>>
            /\ UNCHANGED <<device, strays>>
        BY <3>5 DEF library
      <4>2. lists' = lists + 0 /\ strays' = [strays EXCEPT !.lists = strays.lists + 0]
        BY <4>1 DEF IInv, Typed
      <4> QED
        BY <3>4, <3>5, <4>1, <4>2
    <3>6. CASE /\ Goto("sweep", "failed")
               /\ lists'  = lists + IF TooLong(w) THEN 1 ELSE 0
               /\ strays' = [strays EXCEPT !.lists = @ + IF TooLong(w) THEN 1 ELSE 0]
               /\ UNCHANGED <<claim, g_libusb_context, open_devices, destroyer,
                              dangling, device>>
      <4> DEFINE n == IF TooLong(w) THEN 1 ELSE 0
      <4>1. n \in {0, 1} /\ lists' = lists + n
            /\ strays' = [strays EXCEPT !.lists = strays.lists + n]
        BY <3>6
      <4> HIDE DEF n
      <4> QED
        BY <3>4, <3>6, <4>1
    <3> QED
      BY <3>1, <3>3, <3>5, <3>6 DEF SetUp
  <2> QED
    BY <2>3, <2>4
<1> QED
  BY <1>4, <1>5

(* The sweep returns from a failed open.                                   *)
LEMMA SweepFailedKeeps ==
  ASSUME IInv, crashed = NULL, SweepFailed
  PROVE  IInv'
<1>1. /\ pc["sweep"] = "failed" /\ pc' = [pc EXCEPT !["sweep"] = "idle"] /\ found' = NULL
      /\ UNCHANGED <<claim, g_libusb_context, open_devices, lists, destroyer, dangling>>
      /\ UNCHANGED <<plugged, list, i, device, calls, strays, crashed>>
  BY DEF SweepFailed, Return, Goto, library, monitor, history
<1>2. pc' \in [Program -> Label] /\ pc'["sweep"] = "idle"
      /\ pc'["monitor"] = pc["monitor"] /\ pc'["admin"] = pc["admin"]
  BY <1>1, Programs DEF IInv, Typed, Label
<1>3. Typed'
  BY <1>1, <1>2 DEF IInv, Typed
<1>4. Ownership' /\ Ledger' /\ ContextInv'
  BY <1>1, <1>2 DEF IInv, Ownership, Ledger, One, ContextInv
<1> QED
  BY <1>1, <1>3, <1>4, FoundKept, ListKept, NotCrashed DEF IInv

(* Its hackrf_close.                                                       *)
LEMMA SweepCloseKeeps ==
  ASSUME IInv, crashed = NULL, SweepClose
  PROVE  IInv'
<1>1. /\ pc["sweep"] = "running" /\ pc' = [pc EXCEPT !["sweep"] = "exit"] /\ found' = NULL
      /\ UNCHANGED <<plugged, list, i, calls, strays, crashed>>
  BY DEF SweepClose, Goto, monitor, history
<1>2. device["sweep"] # NULL
  BY <1>1 DEF IInv, Ownership
<1>3. /\ claim' \in [Board -> Program \cup {"free", "lost", "other"}]
      /\ device' \in [Program -> Board \cup {NULL}] /\ device'["sweep"] = NULL
      /\ device'["monitor"] = device["monitor"] /\ device'["admin"] = device["admin"]
      /\ open_devices' = open_devices - 1 /\ open_devices' \in Nat
      /\ UNCHANGED <<g_libusb_context, lists, destroyer, dangling>>
  BY <1>2, CloseType, Programs DEF SweepClose
<1>4. pc' \in [Program -> Label] /\ pc'["sweep"] = "exit"
      /\ pc'["monitor"] = pc["monitor"] /\ pc'["admin"] = pc["admin"]
  BY <1>1, Programs DEF IInv, Typed, Label
<1>5. Typed'
  BY <1>1, <1>3, <1>4 DEF IInv, Typed
<1>6. Ownership'
  BY <1>1, <1>3, <1>4 DEF IInv, Ownership
<1>7. Ledger'
  BY <1>1, <1>2, <1>3 DEF IInv, Typed, Ledger, One
<1>8. ContextInv'
  BY <1>1, <1>3, <1>4 DEF IInv, Typed, ContextInv
<1> QED
  BY <1>1, <1>5, <1>6, <1>7, <1>8, FoundKept, ListKept, NotCrashed DEF IInv

(* Its hackrf_exit.                                                        *)
LEMMA SweepExitKeeps ==
  ASSUME IInv, crashed = NULL, SweepExit
  PROVE  IInv'
<1>1. /\ pc["sweep"] = "exit" /\ hackrf_exit("sweep")
      /\ pc' = [pc EXCEPT !["sweep"] = "idle"]
      /\ UNCHANGED <<plugged, list, i, device, found, calls, strays, crashed>>
  BY DEF SweepExit, Return, Goto, monitor, history
<1>2. /\ UNCHANGED <<claim, open_devices, lists>>
      /\ g_libusb_context' \in BOOLEAN /\ dangling' \in BOOLEAN
      /\ destroyer' \in Program \cup {NULL}
      /\ \/ UNCHANGED <<g_libusb_context, destroyer, dangling>>
         \/ /\ open_devices = 0 /\ ~g_libusb_context' /\ destroyer' = "sweep"
            /\ dangling' <=> (dangling \/ list # NULL)
  BY <1>1, ExitEffect, Programs
<1>3. pc' \in [Program -> Label] /\ pc'["sweep"] = "idle"
      /\ pc'["monitor"] = pc["monitor"] /\ pc'["admin"] = pc["admin"]
  BY <1>1, Programs DEF IInv, Typed, Label
<1>4. Typed'
  BY <1>1, <1>2, <1>3 DEF IInv, Typed
<1>5. Ownership'
  BY <1>1, <1>3 DEF IInv, Ownership
<1>6. Ledger'
  BY <1>1, <1>2 DEF IInv, Ledger, One
<1>7. ContextInv'
  BY <1>1, <1>2, <1>3 DEF IInv, ContextInv, Typed
<1> QED
  BY <1>1, <1>4, <1>5, <1>6, <1>7, FoundKept, ListKept, NotCrashed DEF IInv

(* The admin console's step.                                               *)
LEMMA AdminOpenKeeps ==
  ASSUME IInv, crashed = NULL, AdminOpen
  PROVE  IInv'
<1>1. pc["admin"] = "open" /\ UNCHANGED <<plugged, list, i, device, found, calls>>
  BY DEF AdminOpen, monitor
<1>2. CASE /\ ~g_libusb_context /\ Crash("admin", "no_context")
           /\ UNCHANGED <<library, pc, strays>>
  <2>1. /\ crashed' = [who |-> "admin", why |-> "no_context"]
        /\ UNCHANGED <<claim, g_libusb_context, open_devices, lists, destroyer, dangling>>
        /\ UNCHANGED <<pc, strays>>
    BY <1>2 DEF Crash, library
  <2>2. destroyer \in {"monitor", "sweep"}
    BY <1>1, <1>2 DEF IInv, ContextInv
  <2>3. CrashInv'
    BY <2>1, <2>2, Programs DEF CrashInv, OnlyOthersTakeTheContext
  <2>4. Typed' /\ Ownership' /\ Ledger' /\ ContextInv'
    BY <1>1, <2>1 DEF IInv, Typed, Ownership, Ledger, ContextInv
  <2> QED
    BY <1>1, <2>1, <2>3, <2>4, FoundKept, ListKept DEF IInv
<1>3. ASSUME Return("admin")
      PROVE  pc' \in [Program -> Label] /\ pc'["admin"] = "idle"
             /\ pc'["monitor"] = pc["monitor"] /\ pc'["sweep"] = pc["sweep"]
  BY <1>3, Programs DEF IInv, Typed, Label, Return, Goto
<1>4. ASSUME NEW b \in Board, g_libusb_context, Claims("lost", b),
             strays' = [strays EXCEPT !.devices = @ + 1],
             Return("admin"), UNCHANGED crashed
      PROVE  IInv'
  <2>1. /\ claim' \in [Board -> Program \cup {"free", "lost", "other"}]
        /\ open_devices' = open_devices + 1 /\ open_devices' \in Nat
        /\ UNCHANGED <<g_libusb_context, lists, destroyer, dangling>>
    BY <1>4, ClaimsType
  <2>2. /\ strays' \in [devices : Nat, lists : Nat]
        /\ strays'.devices = strays.devices + 1 /\ strays'.lists = strays.lists
    BY <1>4 DEF IInv, Typed
  <2>3. Typed'
    BY <1>1, <1>3, <1>4, <2>1, <2>2 DEF IInv, Typed
  <2>4. Ownership'
    BY <1>1, <1>3, <1>4 DEF IInv, Ownership
  <2>5. Ledger'
    BY <1>1, <2>1, <2>2 DEF IInv, Typed, Ledger, One
  <2>6. ContextInv'
    BY <1>1, <1>3, <1>4, <2>1 DEF IInv, Typed, ContextInv
  <2> QED
    BY <1>1, <1>4, <2>3, <2>4, <2>5, <2>6, FoundKept, ListKept, NotCrashed DEF IInv
<1>5. CASE Return("admin") /\ UNCHANGED <<library, strays, crashed>>
  <2>1. /\ UNCHANGED <<claim, g_libusb_context, open_devices, lists, destroyer, dangling>>
        /\ UNCHANGED <<strays, crashed>>
    BY <1>5 DEF library
  <2>2. Typed'
    BY <1>1, <1>3, <1>5, <2>1 DEF IInv, Typed
  <2>3. Ownership' /\ Ledger' /\ ContextInv'
    BY <1>1, <1>3, <1>5, <2>1 DEF IInv, Ownership, Ledger, One, ContextInv
  <2> QED
    BY <1>1, <2>1, <2>2, <2>3, FoundKept, ListKept, NotCrashed DEF IInv
<1>6. \A outcome : hackrf_open(plugged, outcome) \in Board \cup {NULL}
  BY OpenFindsBoard DEF IInv, Typed
<1> QED
  BY <1>2, <1>4, <1>5, <1>6 DEF AdminOpen

(* The surroundings' steps.                                                *)
LEMMA SurroundingsKeep ==
  ASSUME IInv, crashed = NULL, Surroundings
  PROVE  IInv'
<1>1. PICK b \in Board : Unplug(b) \/ Plug(b) \/ OtherProcess(b)
  BY DEF Surroundings
<1>2. /\ UNCHANGED <<g_libusb_context, open_devices, lists, destroyer, dangling>>
      /\ UNCHANGED <<list, i, device, found, pc, calls, strays, crashed>>
  BY <1>1 DEF Unplug, Plug, OtherProcess, library, monitor, history
<1>3. plugged' \subseteq DOMAIN Bus
  BY <1>1, Places DEF Unplug, Plug, OtherProcess, IInv, Typed
<1>4. claim' \in [Board -> Program \cup {"free", "lost", "other"}]
  BY <1>1 DEF Unplug, Plug, OtherProcess, library, IInv, Typed
<1>5. Typed'
  BY <1>2, <1>3, <1>4 DEF IInv, Typed
<1>6. Ownership' /\ Ledger' /\ ContextInv'
  BY <1>2 DEF IInv, Ownership, Ledger, ContextInv
<1> QED
  BY <1>2, <1>5, <1>6, FoundKept, ListKept, NotCrashed DEF IInv

-----------------------------------------------------------------------------
(***************************************************************************)
(* The inductive invariant holds in every state, however the monitor, the  *)
(* sweep, the admin console and the surroundings take turns.               *)
(***************************************************************************)
THEOREM InvHolds == Spec => []IInv
<1>1. Init => IInv
  <2>1. SUFFICES ASSUME Init PROVE IInv
    OBVIOUS
  <2>2. /\ plugged \subseteq DOMAIN Bus
        /\ claim \in [Board -> Program \cup {"free", "lost", "other"}]
    BY <2>1 DEF Init
  <2>3. /\ ~g_libusb_context /\ g_libusb_context \in BOOLEAN
        /\ ~dangling /\ dangling \in BOOLEAN
        /\ open_devices = 0 /\ lists = 0 /\ list = NULL /\ i = 1
        /\ device = [p \in Program |-> NULL] /\ found = NULL
        /\ pc = [p \in Program |-> "idle"] /\ calls = [p \in Program |-> 0]
        /\ strays = [devices |-> 0, lists |-> 0]
        /\ destroyer = NULL /\ crashed = NULL
    BY <2>1 DEF Init
  <2>4. /\ pc["monitor"] = "idle" /\ pc["sweep"] = "idle" /\ pc["admin"] = "idle"
        /\ device["monitor"] = NULL /\ device["sweep"] = NULL /\ device["admin"] = NULL
    BY <2>3, Programs
  <2>5. \A p \in Program : calls[p] <= MAX_CALLS[p]
    <3>1. MAX_CALLS \in [Program -> Nat]
      BY MonitorAssumption
    <3> QED
      BY <2>3, <3>1, SMT
  <2>6. Typed
    <3>1. 1 \in Nat \ {0} /\ 1 <= Cardinality(Board) + 1
      BY BoardsFinite, SMT
    <3> QED
      BY <2>2, <2>3, <2>5, <3>1 DEF Typed, Label
  <2>7. Ownership
    BY <2>3, <2>4 DEF Ownership, Listing, Reading
  <2>8. Ledger
    BY <2>3, <2>4 DEF Ledger, One
  <2>9. ContextInv
    BY <2>3, <2>4 DEF ContextInv
  <2>10. NamedInv /\ CrashInv /\ FoundInv
    BY <2>3, Zenon
       DEF NamedInv, CrashInv, FoundInv, OnlyOthersTakeTheContext, FirstSuffixIsFound
  <2> QED
    BY <2>6, <2>7, <2>8, <2>9, <2>10 DEF IInv
<1>2. ASSUME IInv, UNCHANGED vars PROVE IInv'
  <2>1. /\ UNCHANGED <<claim, g_libusb_context, open_devices, lists, destroyer, dangling>>
        /\ UNCHANGED <<plugged, list, i, device, found, pc, calls, strays, crashed>>
    BY <1>2 DEF vars, library, monitor, history
  <2>2. Typed' /\ Ownership' /\ Ledger' /\ ContextInv' /\ CrashInv'
    BY <1>2, <2>1
       DEF IInv, Typed, Ownership, Ledger, ContextInv, CrashInv, OnlyOthersTakeTheContext
  <2> QED
    BY <1>2, <2>1, <2>2, FoundKept, ListKept DEF IInv
<1>3. IInv /\ [Next]_vars => IInv'
  <2>1. SUFFICES ASSUME IInv, [Next]_vars PROVE IInv'
    OBVIOUS
  <2>2. CASE crashed = NULL /\ CheckHackRFStatus
    BY <2>1, <2>2, StartKeeps, CheckListKeeps, CheckOpenKeeps, CheckReadKeeps,
       CheckCloseKeeps, CheckFreeKeeps, CheckExitKeeps DEF CheckHackRFStatus
  <2>3. CASE crashed = NULL /\ Sweep
    BY <2>1, <2>3, StartKeeps, SweepOpenKeeps, SweepFailedKeeps, SweepCloseKeeps,
       SweepExitKeeps DEF Sweep
  <2>4. CASE crashed = NULL /\ ConnectHackRFDevice
    BY <2>1, <2>4, StartKeeps, AdminOpenKeeps DEF ConnectHackRFDevice
  <2>5. CASE crashed = NULL /\ Surroundings
    BY <2>1, <2>5, SurroundingsKeep
  <2>6. CASE UNCHANGED vars
    BY <2>1, <2>6, <1>2
  <2> QED
    BY <2>1, <2>2, <2>3, <2>4, <2>5, <2>6 DEF Next, Crashed, Resting
<1> QED
  BY <1>1, <1>3, PTL DEF Spec

(* The variables of StatusMonitor keep their types.                        *)
THEOREM TypeCorrect == Spec => []TypeOK
<1>1. IInv => TypeOK
  <2>1. SUFFICES ASSUME IInv PROVE TypeOK
    OBVIOUS
  <2>2. ASSUME list # NULL PROVE \A k \in 1 .. Len(list) : list[k].board \in Board
    <3>1. list \in Seq(Entry)
      BY <2>1, <2>2 DEF IInv, NamedInv, Named
    <3>2. \A k \in 1 .. Len(list) : list[k] \in Entry
      BY <3>1
    <3> QED
      BY <3>2 DEF Entry
  <2>3. i \in 1 .. Cardinality(Board) + 1
    BY <2>1, BoardsFinite, SMT DEF IInv, Typed
  <2>4. \A p \in Program : calls[p] \in 0 .. MAX_CALLS[p]
    <3>1. MAX_CALLS \in [Program -> Nat]
      BY MonitorAssumption
    <3>2. calls \in [Program -> Nat] /\ \A p \in Program : calls[p] <= MAX_CALLS[p]
      BY <2>1 DEF IInv, Typed
    <3> QED
      BY <3>1, <3>2, SMT
  <2>5. strays.devices \in Nat /\ strays.lists \in Nat
    BY <2>1 DEF IInv, Typed
  <2>6. /\ crashed # NULL => crashed.who \in Program
        /\ found # NULL => found.board \in Board \cup {NULL} /\ found.wanted \in Wanted
    BY <2>1 DEF IInv, CrashInv, FoundInv
  <2> QED
    BY <2>1, <2>2, <2>3, <2>4, <2>5, <2>6 DEF IInv, Typed, TypeOK, Label
<1> QED
  BY <1>1, InvHolds, PTL

(***************************************************************************)
(* The count of open devices is exact, and hackrf_exit never takes the     *)
(* context from an open device, a forgotten one or one unplugged included. *)
(***************************************************************************)
THEOREM ContextOutlivesDevicesHolds == Spec => []ContextOutlivesDevices
<1>1. IInv => ContextOutlivesDevices
  <2>1. SUFFICES ASSUME IInv PROVE ContextOutlivesDevices
    OBVIOUS
  <2> DEFINE holders == {p \in Program : device[p] # NULL}
             first == IF device["monitor"] # NULL THEN {"monitor"} ELSE {}
             both == IF device["sweep"] # NULL THEN first \cup {"sweep"} ELSE first
  <2>2. holders = both
    <3>1. device["admin"] = NULL
      BY <2>1 DEF IInv, Ownership
    <3> QED
      BY <3>1, Programs
  <2>3. IsFiniteSet(first) /\ Cardinality(first) = One(device["monitor"])
        /\ "sweep" \notin first
    BY FS_EmptySet, FS_Singleton DEF One
  <2> HIDE DEF first
  <2>4. Cardinality(both) = One(device["monitor"]) + One(device["sweep"])
    <3>1. One(device["monitor"]) \in Nat
      BY DEF One
    <3>2. CASE device["sweep"] # NULL
      <4>1. Cardinality(first \cup {"sweep"}) = Cardinality(first) + 1
        BY <2>3, FS_AddElement
      <4> QED
        BY <3>1, <3>2, <2>3, <4>1 DEF One
    <3>3. CASE device["sweep"] = NULL
      BY <3>1, <3>3, <2>3 DEF One
    <3> QED
      BY <3>2, <3>3
  <2> HIDE DEF both
  <2>5. open_devices = Cardinality(holders) + strays.devices
    BY <2>1, <2>2, <2>4 DEF IInv, Ledger
  <2>6. open_devices > 0 => g_libusb_context
    BY <2>1 DEF IInv, ContextInv
  <2> QED
    BY <2>5, <2>6 DEF ContextOutlivesDevices
<1> QED
  BY <1>1, InvHolds, PTL

(***************************************************************************)
(* Every device list not freed is the monitor's present one, that of a     *)
(* check that returned EXIT_FAILURE, or that of a search for a serial      *)
(* number that is too long.                                                *)
(***************************************************************************)
THEOREM ListsAreAccountedForHolds == Spec => []ListsAreAccountedFor
<1>1. IInv => ListsAreAccountedFor
  <2>1. SUFFICES ASSUME IInv PROVE ListsAreAccountedFor
    OBVIOUS
  <2>2. list # NULL => pc["monitor"] # "idle"
    BY <2>1 DEF IInv, Ownership, Listing
  <2>3. lists = strays.lists + One(list)
    BY <2>1 DEF IInv, Ledger
  <2> QED
    BY <2>2, <2>3 DEF ListsAreAccountedFor, One
<1> QED
  BY <1>1, InvHolds, PTL

(***************************************************************************)
(* hackrf_device_list, for every bus and whatever fails during the scan:   *)
(* boards in the order of the bus, and a serial number that is not the     *)
(* board's own is that of the closest board before it that was read.       *)
(***************************************************************************)
THEOREM ListNamesBoardsHolds == Spec => []ListNamesBoards
<1>1. IInv => ListNamesBoards
  <2>1. SUFFICES ASSUME IInv, list # NULL, NEW k \in 1 .. Len(list)
                 PROVE  /\ \A j \in 1 .. k - 1 : list[j].board < list[k].board
                        /\ \/ list[k].serial = NULL
                           \/ /\ list[k].serial = GARBAGE
                              /\ \A j \in 1 .. k - 1 : list[j].serial \in {NULL, GARBAGE}
                           \/ Own(list[k])
                           \/ \E j \in 1 .. k - 1 :
                                /\ Own(list[j]) /\ list[j].serial = list[k].serial
                                /\ \A m \in j + 1 .. k - 1 :
                                     list[m].serial \in {NULL, list[j].serial}
    BY DEF ListNamesBoards
  <2>2. Increasing(list) /\ Explained(list, k)
    BY <2>1 DEF IInv, NamedInv, Named
  <2>3. \A j \in 1 .. k - 1 : list[j].board < list[k].board
    BY <2>2 DEF Increasing
  <2>4. \/ list[k].serial = NULL
        \/ list[k].serial = GARBAGE /\ Unread(list, k - 1)
        \/ Own(list[k])
        \/ ReadFrom(list, k - 1, list[k].serial)
    BY <2>2 DEF Explained
  <2>5. ASSUME ReadFrom(list, k - 1, list[k].serial)
        PROVE  \E j \in 1 .. k - 1 :
                 /\ Own(list[j]) /\ list[j].serial = list[k].serial
                 /\ \A m \in j + 1 .. k - 1 : list[m].serial \in {NULL, list[j].serial}
    <3>1. PICK j \in 1 .. k - 1 :
            /\ Own(list[j]) /\ list[j].serial = list[k].serial
            /\ \A m \in j + 1 .. k - 1 : list[m].serial \in {NULL, list[k].serial}
      BY <2>5, Zenon DEF ReadFrom
    <3>2. \A m \in j + 1 .. k - 1 : list[m].serial \in {NULL, list[j].serial}
      BY <3>1, Zenon
    <3> QED
      BY <3>1, <3>2, Zenon
  <2> QED
    BY <2>3, <2>4, <2>5, Zenon DEF Unread
<1> QED
  BY <1>1, InvHolds, PTL

(***************************************************************************)
(* hackrf_open_by_serial takes a board whose serial number is neither      *)
(* shorter than the one asked for nor cut off only when it ends with the   *)
(* one asked for, and passes none that does over for a later board.        *)
(***************************************************************************)
THEOREM FirstSuffixIsFoundHolds == Spec => []FirstSuffixIsFound
<1>1. IInv => FirstSuffixIsFound
  BY DEF IInv, FoundInv
<1> QED
  BY <1>1, InvHolds, PTL

(***************************************************************************)
(* No program destroys the context that it then needs itself: who is       *)
(* caught without one, or with a list of a context that is gone, has lost  *)
(* it to another program's hackrf_exit.                                    *)
(***************************************************************************)
THEOREM OnlyOthersTakeTheContextHolds == Spec => []OnlyOthersTakeTheContext
<1>1. IInv => OnlyOthersTakeTheContext
  BY DEF IInv, CrashInv
<1> QED
  BY <1>1, InvHolds, PTL

=============================================================================
