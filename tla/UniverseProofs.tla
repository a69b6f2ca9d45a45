---------------------------- MODULE UniverseProofs ----------------------------
(***************************************************************************)
(* The universe keeps what it shows together with what feeds it, for every *)
(* set of answers, pages and settings: the evidence and the exploration of *)
(* UniverseSession, the searches of SearchWorkspace.                       *)
(***************************************************************************)
EXTENDS SearchWorkspace, FiniteSetTheorems, WellFoundedInduction, TLAPS

(***************************************************************************)
(* Induction, as a fact about a set of naturals.                           *)
(***************************************************************************)
LEMMA Climbs ==
  ASSUME NEW S, 0 \in S, \A n \in Nat : n \in S => n + 1 \in S
  PROVE  \A n \in Nat : n \in S
<1> DEFINE B == {n \in Nat : n \notin S}
<1> SUFFICES ASSUME B # {}
             PROVE  FALSE
  OBVIOUS
<1>1. PICK x \in B : \A y \in B : ~(<<y, x>> \in OpToRel(<, Nat))
  <2>1. B \subseteq Nat
    OBVIOUS
  <2> HIDE DEF B
  <2> QED
    BY <2>1, NatLessThanWellFounded, WFMin
<1>2. \A y \in B : <<y, x>> \in Nat \X Nat /\ <<y, x>>[1] = y /\ <<y, x>>[2] = x
  OBVIOUS
<1>3. \A y \in B : ~(y < x)
  BY <1>1, <1>2, Zenon DEF OpToRel
<1>4. x \in Nat /\ x # 0 /\ x \notin S
  OBVIOUS
<1>5. x - 1 \in Nat /\ x - 1 < x /\ (x - 1) + 1 = x
  BY <1>4
<1>6. x - 1 \in S
  BY <1>3, <1>5
<1> QED
  BY <1>4, <1>5, <1>6

Climb(s, places, f, n) ==
  /\ f[0] = <<>>
  /\ \A i \in 1..n : f[i] = IF i \in places THEN Append(f[i - 1], s[i]) ELSE f[i - 1]

LEMMA ClimbExists ==
  ASSUME NEW T, NEW s \in Seq(T), NEW places
  PROVE  \E f \in [0..Len(s) -> Seq(T)] : Climb(s, places, f, Len(s))
<1> DEFINE G == {n \in Nat : n <= Len(s) => \E f \in [0..n -> Seq(T)] : Climb(s, places, f, n)}
<1>1. 0 \in G
  <2>1. [i \in 0..0 |-> <<>>] \in [0..0 -> Seq(T)]
    OBVIOUS
  <2>2. Climb(s, places, [i \in 0..0 |-> <<>>], 0)
    BY DEF Climb
  <2> QED
    BY <2>1, <2>2
<1>2. ASSUME NEW n \in Nat, n \in G
      PROVE  n + 1 \in G
  <2> SUFFICES ASSUME n + 1 <= Len(s)
               PROVE  \E f \in [0..(n + 1) -> Seq(T)] : Climb(s, places, f, n + 1)
    OBVIOUS
  <2>1. PICK f \in [0..n -> Seq(T)] : Climb(s, places, f, n)
    BY <1>2
  <2> DEFINE r == IF n + 1 \in places THEN Append(f[n], s[n + 1]) ELSE f[n]
             g == [i \in 0..(n + 1) |-> IF i = n + 1 THEN r ELSE f[i]]
  <2>2. r \in Seq(T)
    OBVIOUS
  <2>3. g \in [0..(n + 1) -> Seq(T)]
    BY <2>2
  <2>4. Climb(s, places, g, n + 1)
    <3>1. g[0] = <<>>
      BY <2>1 DEF Climb
    <3>2. ASSUME NEW i \in 1..(n + 1)
          PROVE  g[i] = IF i \in places THEN Append(g[i - 1], s[i]) ELSE g[i - 1]
      <4>1. CASE i = n + 1
        <5>1. g[n + 1] = r /\ g[n] = f[n]
          OBVIOUS
        <5> QED
          BY <5>1, <4>1
      <4>2. CASE i # n + 1
        <5>1. i \in 1..n /\ g[i] = f[i] /\ g[i - 1] = f[i - 1]
          BY <4>2
        <5> QED
          BY <5>1, <2>1 DEF Climb
      <4> QED
        BY <4>1, <4>2
    <3> QED
      BY <3>1, <3>2 DEF Climb
  <2> QED
    BY <2>3, <2>4
<1>3. \A n \in Nat : n \in G
  <2> HIDE DEF G
  <2> QED
    BY <1>1, <1>2, Climbs
<1> QED
  BY <1>3

LEMMA SelectedClimbs ==
  ASSUME NEW T, NEW s \in Seq(T), NEW places
  PROVE  \E f \in [0..Len(s) -> Seq(T)] : Climb(s, places, f, Len(s)) /\ Selected(s, places) = f[Len(s)]
<1> DEFINE D(u) == [i \in 0..Len(s) |->
                 IF i = 0 THEN <<>> ELSE IF i \in places THEN Append(u[i - 1], s[i]) ELSE u[i - 1]]
           up == CHOOSE u : u = D(u)
<1>1. PICK f \in [0..Len(s) -> Seq(T)] : Climb(s, places, f, Len(s))
  BY ClimbExists
<1>2. f = D(f)
  <2>1. ASSUME NEW i \in 0..Len(s)
        PROVE  f[i] = D(f)[i]
    <3>1. CASE i = 0
      BY <3>1, <1>1 DEF Climb
    <3>2. CASE i # 0
      <4>1. i \in 1..Len(s)
        BY <3>2
      <4>2. f[i] = IF i \in places THEN Append(f[i - 1], s[i]) ELSE f[i - 1]
        BY <4>1, <1>1 DEF Climb
      <4> QED
        BY <4>2, <3>2
    <3> QED
      BY <3>1, <3>2
  <2> QED
    BY <2>1
<1>3. up = D(up)
  BY <1>2, Zenon
<1>4. Selected(s, places) = up[Len(s)]
  BY Zenon DEF Selected
<1> DEFINE G == {n \in Nat : n <= Len(s) => up[n] = f[n]}
<1> HIDE DEF up
<1>7. \A i \in 0..Len(s) : up[i] = IF i = 0 THEN <<>> ELSE IF i \in places THEN Append(up[i - 1], s[i]) ELSE up[i - 1]
  BY <1>3
<1>5. \A n \in Nat : n \in G
  <2>1. 0 \in G
    <3>1. f[0] = <<>>
      BY <1>1 DEF Climb
    <3>2. Len(s) \in Nat
      OBVIOUS
    <3>3. up[0] = <<>>
      BY <1>7, <3>2
    <3> QED
      BY <3>1, <3>3
  <2>2. ASSUME NEW n \in Nat, n \in G
        PROVE  n + 1 \in G
    <3> SUFFICES ASSUME n + 1 <= Len(s)
                 PROVE  up[n + 1] = f[n + 1]
      OBVIOUS
    <3>1. up[n] = f[n] /\ n + 1 \in 1..Len(s) /\ n + 1 \in 0..Len(s) /\ n + 1 # 0 /\ (n + 1) - 1 = n
      BY <2>2
    <3>2. up[n + 1] = IF n + 1 \in places THEN Append(up[n], s[n + 1]) ELSE up[n]
      BY <1>7, <3>1
    <3>3. f[n + 1] = IF n + 1 \in places THEN Append(f[n], s[n + 1]) ELSE f[n]
      BY <1>1, <3>1 DEF Climb
    <3> QED
      BY <3>1, <3>2, <3>3
  <2> HIDE DEF G
  <2> QED
    BY <2>1, <2>2, Climbs
<1>6. up[Len(s)] = f[Len(s)]
  BY <1>5
<1> QED
  BY <1>1, <1>4, <1>6

\* r has what s has at these places, in that order.
Picks(s, places, r, n) ==
  \E h \in [1..Len(r) -> 1..n] :
    /\ \A k \in 1..Len(r) : h[k] \in places /\ r[k] = s[h[k]]
    /\ \A k, m \in 1..Len(r) : k < m => h[k] < h[m]
    /\ \A i \in 1..n : i \in places => \E k \in 1..Len(r) : h[k] = i

LEMMA SelectedIs ==
  ASSUME NEW T, NEW s \in Seq(T), NEW places
  PROVE  Selected(s, places) \in Seq(T) /\ Picks(s, places, Selected(s, places), Len(s))
<1>1. PICK f \in [0..Len(s) -> Seq(T)] : Climb(s, places, f, Len(s)) /\ Selected(s, places) = f[Len(s)]
  BY SelectedClimbs
<1> DEFINE G == {n \in Nat : n <= Len(s) => Picks(s, places, f[n], n)}
<1>2. 0 \in G
  <2>1. f[0] = <<>>
    BY <1>1 DEF Climb
  <2>2. Picks(s, places, <<>>, 0)
    <3>1. [k \in 1..0 |-> 0] \in [1..Len(<<>>) -> 1..0]
      OBVIOUS
    <3> QED
      BY <3>1 DEF Picks
  <2> QED
    BY <2>1, <2>2
<1>3. ASSUME NEW n \in Nat, n \in G
      PROVE  n + 1 \in G
  <2> SUFFICES ASSUME n + 1 <= Len(s)
               PROVE  Picks(s, places, f[n + 1], n + 1)
    OBVIOUS
  <2>1. f[n] \in Seq(T) /\ f[n + 1] \in Seq(T) /\ s[n + 1] \in T
    OBVIOUS
  <2>2. PICK h \in [1..Len(f[n]) -> 1..n] :
          /\ \A k \in 1..Len(f[n]) : h[k] \in places /\ f[n][k] = s[h[k]]
          /\ \A k, m \in 1..Len(f[n]) : k < m => h[k] < h[m]
          /\ \A i \in 1..n : i \in places => \E k \in 1..Len(f[n]) : h[k] = i
    BY <1>3 DEF Picks
  <2>3. CASE n + 1 \in places
    <3> DEFINE c == Len(f[n])
               g == [k \in 1..(c + 1) |-> IF k = c + 1 THEN n + 1 ELSE h[k]]
    <3>1. f[n + 1] = Append(f[n], s[n + 1])
      <4>1. n + 1 \in 1..Len(s) /\ (n + 1) - 1 = n
        OBVIOUS
      <4>2. f[n + 1] = IF n + 1 \in places THEN Append(f[(n + 1) - 1], s[n + 1]) ELSE f[(n + 1) - 1]
        BY <1>1, <4>1 DEF Climb
      <4> QED
        BY <4>1, <4>2, <2>3
    <3>2. c \in Nat /\ Len(f[n + 1]) = c + 1 /\ f[n + 1][c + 1] = s[n + 1] /\ \A k \in 1..c : f[n + 1][k] = f[n][k]
      BY <3>1, <2>1
    <3>3. \A k \in 1..c : h[k] \in 1..n
      OBVIOUS
    <3>4. /\ DOMAIN g = 1..(c + 1) /\ g[c + 1] = n + 1
          /\ \A k \in 1..c : g[k] = h[k]
      BY <3>2
    <3>5. g \in [1..Len(f[n + 1]) -> 1..(n + 1)]
      BY <3>2, <3>3
    <3> HIDE DEF g
    <3>6. \A k \in 1..Len(f[n + 1]) : g[k] \in places /\ f[n + 1][k] = s[g[k]]
      BY <3>2, <3>4, <2>2, <2>3
    <3>7. \A k, m \in 1..Len(f[n + 1]) : k < m => g[k] < g[m]
      BY <3>2, <3>3, <3>4, <2>2
    <3>8. \A i \in 1..(n + 1) : i \in places => \E k \in 1..Len(f[n + 1]) : g[k] = i
      <4> SUFFICES ASSUME NEW i \in 1..(n + 1), i \in places
                   PROVE  \E k \in 1..(c + 1) : g[k] = i
        BY <3>2
      <4>1. CASE i = n + 1
        <5>1. c + 1 \in 1..(c + 1) /\ g[c + 1] = i
          BY <4>1, <3>2, <3>4
        <5> QED
          BY <5>1
      <4>2. CASE i # n + 1
        <5>1. PICK k \in 1..c : h[k] = i
          BY <4>2, <2>2
        <5>2. k \in 1..(c + 1)
          BY <3>2
        <5>3. g[k] = i
          BY <5>1, <3>4
        <5> QED
          BY <5>2, <5>3
      <4> QED
        BY <4>1, <4>2
    <3> QED
      BY <3>5, <3>6, <3>7, <3>8 DEF Picks
  <2>4. CASE n + 1 \notin places
    <3>1. f[n + 1] = f[n]
      <4>1. n + 1 \in 1..Len(s) /\ (n + 1) - 1 = n
        OBVIOUS
      <4>2. f[n + 1] = IF n + 1 \in places THEN Append(f[(n + 1) - 1], s[n + 1]) ELSE f[(n + 1) - 1]
        BY <1>1, <4>1 DEF Climb
      <4> QED
        BY <4>1, <4>2, <2>4
    <3>2. h \in [1..Len(f[n + 1]) -> 1..(n + 1)]
      BY <3>1
    <3>3. \A i \in 1..(n + 1) : i \in places => \E k \in 1..Len(f[n + 1]) : h[k] = i
      BY <3>1, <2>2, <2>4
    <3>4. /\ \A k \in 1..Len(f[n + 1]) : h[k] \in places /\ f[n + 1][k] = s[h[k]]
          /\ \A k, m \in 1..Len(f[n + 1]) : k < m => h[k] < h[m]
      BY <3>1, <2>2
    <3> QED
      BY <3>2, <3>3, <3>4, Zenon DEF Picks
  <2> QED
    BY <2>3, <2>4
<1>4. \A n \in Nat : n \in G
  <2> HIDE DEF G
  <2> QED
    BY <1>2, <1>3, Climbs
<1> QED
  BY <1>1, <1>4
(***************************************************************************)
(* Sequences of bundles.                                                   *)
(***************************************************************************)
\* Each event once.
Distinct(s) == \A i, j \in DOMAIN s : s[i].event = s[j].event => i = j

LEMMA ListedIs ==
  ASSUME NEW s
  PROVE  /\ Listed(s) => Len(s) \in Nat /\ DOMAIN s = 1..Len(s) /\ (s = <<>> <=> Len(s) = 0)
         /\ \A T : s \in Seq(T) => Listed(s)
<1>1. Listed(s) => Len(s) \in Nat /\ DOMAIN s = 1..Len(s) /\ (s = <<>> <=> Len(s) = 0)
  BY DEF Listed
<1>2. ASSUME NEW T, s \in Seq(T)
      PROVE  Listed(s)
  <2>1. Len(s) \in Nat /\ DOMAIN s = 1..Len(s)
    BY <1>2
  <2>2. \A i \in 1..Len(s) : s[i] \in Range(s)
    BY <2>1 DEF Range
  <2>3. s = [i \in 1..Len(s) |-> s[i]]
    BY <1>2
  <2> QED
    BY <2>1, <2>2, <2>3 DEF Listed
<1> QED
  BY <1>1, <1>2

LEMMA JoinIs ==
  ASSUME NEW s, NEW t, Listed(s), Listed(t)
  PROVE  /\ Listed(s \o t) /\ Len(s \o t) = Len(s) + Len(t)
         /\ \A i \in 1..Len(s) : (s \o t)[i] = s[i]
         /\ \A i \in 1..Len(t) : (s \o t)[Len(s) + i] = t[i]
         /\ \A k \in 1..Len(s \o t) : k > Len(s) => k - Len(s) \in 1..Len(t) /\ (s \o t)[k] = t[k - Len(s)]
<1> DEFINE T == Range(s) \cup Range(t)
<1>1. s \in Seq(T) /\ t \in Seq(T)
  BY DEF Listed
<1> HIDE DEF T
<1>2. s \o t \in Seq(T)
  BY <1>1
<1>3. Listed(s \o t)
  BY <1>2, ListedIs
<1> QED
  BY <1>1, <1>3

LEMMA PartIs ==
  ASSUME NEW s, Listed(s), NEW m \in Int, NEW n \in Int, 1 <= m, n <= Len(s)
  PROVE  /\ Listed(SubSeq(s, m, n)) /\ Len(SubSeq(s, m, n)) = IF m <= n THEN n - m + 1 ELSE 0
         /\ \A i \in 1..Len(SubSeq(s, m, n)) : SubSeq(s, m, n)[i] = s[m + i - 1] /\ m + i - 1 \in DOMAIN s
<1>1. s \in Seq(Range(s)) /\ Len(s) \in Nat /\ DOMAIN s = 1..Len(s)
  BY ListedIs DEF Listed
<1>2. \A i \in m..n : s[i] \in Range(s)
  BY <1>1 DEF Range
<1>3. SubSeq(s, m, n) \in Seq(Range(s))
  BY <1>1, <1>2
<1>4. Listed(SubSeq(s, m, n))
  BY <1>3, ListedIs
<1>5. Len(SubSeq(s, m, n)) = IF m <= n THEN n - m + 1 ELSE 0
  BY <1>1
<1>6. \A i \in 1..Len(SubSeq(s, m, n)) : SubSeq(s, m, n)[i] = s[m + i - 1] /\ m + i - 1 \in DOMAIN s
  BY <1>1, <1>5
<1> QED
  BY <1>4, <1>5, <1>6

LEMMA PartIsDistinct ==
  ASSUME NEW s, Listed(s), Distinct(s), NEW m \in Int, NEW n \in Int, 1 <= m, n <= Len(s)
  PROVE  Distinct(SubSeq(s, m, n))
<1> DEFINE r == SubSeq(s, m, n)
<1>1. Listed(r) /\ \A i \in 1..Len(r) : r[i] = s[m + i - 1] /\ m + i - 1 \in DOMAIN s
  BY PartIs
<1>2. DOMAIN r = 1..Len(r) /\ Len(r) \in Nat
  BY <1>1, ListedIs
<1> SUFFICES ASSUME NEW i \in 1..Len(r), NEW j \in 1..Len(r), r[i].event = r[j].event
             PROVE  i = j
  BY <1>2 DEF Distinct
<1>3. m + i - 1 = m + j - 1
  BY <1>1 DEF Distinct
<1> QED
  BY <1>3, <1>2

\* An increasing map between initial segments.
LEMMA NoLonger ==
  ASSUME NEW m \in Nat, NEW n \in Nat, NEW h \in [1..m -> 1..n],
         \A i, j \in 1..m : i < j => h[i] < h[j]
  PROVE  m <= n
<1>1. h \in Injection(1..m, 1..n)
  <2>1. ASSUME NEW i \in 1..m, NEW j \in 1..m, h[i] = h[j]
        PROVE  i = j
    <3>1. ~(i < j) /\ ~(j < i)
      BY <2>1
    <3> QED
      BY <3>1
  <2> QED
    BY <2>1 DEF Injection, IsInjective
<1>2. IsFiniteSet(1..n) /\ Cardinality(1..n) = n /\ Cardinality(1..m) = m
  BY FS_Interval
<1> QED
  BY <1>1, <1>2, FS_Injection

LEMMA EventsCounted ==
  ASSUME NEW s, Listed(s), Distinct(s)
  PROVE  Cardinality(EventsOf(s)) = Len(s)
<1> DEFINE f == [i \in 1..Len(s) |-> s[i].event]
<1>1. Len(s) \in Nat /\ DOMAIN s = 1..Len(s)
  BY ListedIs
<1>2. f \in Bijection(1..Len(s), EventsOf(s))
  <2>1. f \in [1..Len(s) -> EventsOf(s)]
    BY <1>1 DEF EventsOf
  <2>2. f \in Injection(1..Len(s), EventsOf(s))
    BY <1>1, <2>1 DEF Distinct, Injection, IsInjective
  <2>3. \A e \in EventsOf(s) : \E i \in 1..Len(s) : f[i] = e
    BY <1>1 DEF EventsOf
  <2> QED
    BY <2>1, <2>2, <2>3 DEF Bijection, Surjection
<1>3. IsFiniteSet(1..Len(s)) /\ Cardinality(1..Len(s)) = Len(s)
  <2>1. 1 \in Int /\ Len(s) \in Int
    BY <1>1
  <2>2. /\ IsFiniteSet(1..Len(s))
        /\ Cardinality(1..Len(s)) = IF 1 > Len(s) THEN 0 ELSE Len(s) - 1 + 1
    BY <2>1, FS_Interval
  <2> QED
    BY <1>1, <2>2
<1>4. ExistsBijection(1..Len(s), EventsOf(s))
  BY <1>2 DEF ExistsBijection
<1> QED
  BY <1>3, <1>4, FS_Bijection

LEMMA SelectedKeeps ==
  ASSUME NEW s, Listed(s), NEW places, NEW r, r = Selected(s, places)
  PROVE  /\ Listed(r) /\ Len(r) <= Len(s)
         /\ \A k \in DOMAIN r : \E i \in DOMAIN s : i \in places /\ r[k] = s[i]
         /\ Distinct(s) => Distinct(r)
<1>1. Len(s) \in Nat /\ DOMAIN s = 1..Len(s) /\ s \in Seq(Range(s))
  BY ListedIs DEF Listed
<1>2. r \in Seq(Range(s)) /\ Picks(s, places, r, Len(s))
  BY <1>1, SelectedIs
<1>3. Listed(r) /\ Len(r) \in Nat /\ DOMAIN r = 1..Len(r)
  BY <1>2, ListedIs
<1>4. PICK h \in [1..Len(r) -> 1..Len(s)] :
        /\ \A k \in 1..Len(r) : h[k] \in places /\ r[k] = s[h[k]]
        /\ \A k, m \in 1..Len(r) : k < m => h[k] < h[m]
  BY <1>2 DEF Picks
<1>5. Len(r) <= Len(s)
  BY <1>1, <1>3, <1>4, NoLonger
<1>6. \A k \in DOMAIN r : \E i \in DOMAIN s : i \in places /\ r[k] = s[i]
  BY <1>1, <1>3, <1>4
<1>7. ASSUME Distinct(s)
      PROVE  Distinct(r)
  <2> SUFFICES ASSUME NEW k \in 1..Len(r), NEW m \in 1..Len(r), r[k].event = r[m].event
               PROVE  k = m
    BY <1>3 DEF Distinct
  <2>1. h[k] \in 1..Len(s) /\ h[m] \in 1..Len(s) /\ s[h[k]].event = s[h[m]].event
    BY <1>4
  <2>2. h[k] = h[m]
    BY <2>1, <1>1, <1>7 DEF Distinct
  <2>3. ~(k < m) /\ ~(m < k)
    BY <2>2, <2>1, <1>4
  <2> QED
    BY <2>3, <1>3
<1> QED
  BY <1>3, <1>5, <1>6, <1>7

(***************************************************************************)
(* The kernel of the evidence.                                             *)
(***************************************************************************)
WindowFields == {"limit", "capacity", "active", "incoming", "outgoing", "next", "moving", "revision"}
KernelFields == {"window", "seen", "pending"}

LEMMA KernelNames ==
  /\ "limit" \in WindowFields /\ "capacity" \in WindowFields /\ "active" \in WindowFields
  /\ "incoming" \in WindowFields /\ "outgoing" \in WindowFields /\ "next" \in WindowFields
  /\ "moving" \in WindowFields /\ "revision" \in WindowFields
  /\ "window" \in KernelFields /\ "seen" \in KernelFields /\ "pending" \in KernelFields
BY DEF WindowFields, KernelFields

\* Bundles of different events, no more than n of them.
Shelf(s, n) == Listed(s) /\ Distinct(s) /\ Len(s) <= n
WindowSound(w) ==
  /\ DOMAIN w = WindowFields
  /\ w.limit \in Nat /\ w.capacity \in Nat /\ w.capacity > 0 /\ w.moving \in BOOLEAN
  /\ Shelf(w.active, w.limit)
  /\ w.moving => Shelf(w.next, w.limit) /\ Shelf(w.incoming, w.capacity)
KernelSound(a) == DOMAIN a = KernelFields /\ WindowSound(a.window) /\ Listed(a.pending)

LEMMA EmptyIs == ASSUME NEW n \in Nat PROVE Shelf(<<>>, n) /\ Listed(<<>>)
<1>1. <<>> \in Seq({})
  OBVIOUS
<1>2. Listed(<<>>)
  BY <1>1, ListedIs
<1>3. Len(<<>>) = 0 /\ DOMAIN <<>> = {}
  OBVIOUS
<1> QED
  BY <1>2, <1>3 DEF Shelf, Distinct

LEMMA WithoutIs ==
  ASSUME NEW s, Listed(s), NEW E
  PROVE  /\ Listed(Without(s, E)) /\ Len(Without(s, E)) <= Len(s)
         /\ \A k \in DOMAIN Without(s, E) : \E i \in DOMAIN s : Without(s, E)[k] = s[i]
         /\ \A k \in DOMAIN Without(s, E) : Without(s, E)[k].event \notin E
         /\ Distinct(s) => Distinct(Without(s, E))
<1> DEFINE places == {i \in DOMAIN s : s[i].event \notin E}
<1>1. PICK r : r = Selected(s, places)
  OBVIOUS
<1>2. Without(s, E) = r
  BY <1>1 DEF Without
<1> HIDE DEF places
<1>3. /\ Listed(r) /\ Len(r) <= Len(s)
      /\ \A k \in DOMAIN r : \E i \in DOMAIN s : i \in places /\ r[k] = s[i]
      /\ Distinct(s) => Distinct(r)
  BY <1>1, SelectedKeeps
<1> USE DEF places
<1> QED
  BY <1>2, <1>3

LEMMA LatestIs ==
  ASSUME NEW s, Listed(s)
  PROVE  Listed(LatestOfEach(s)) /\ Distinct(LatestOfEach(s))
<1> DEFINE places == {i \in DOMAIN s : \A j \in DOMAIN s : j > i => s[j].event # s[i].event}
<1>1. PICK r : r = Selected(s, places)
  OBVIOUS
<1>2. LatestOfEach(s) = r
  BY <1>1 DEF LatestOfEach
<1>3. Len(s) \in Nat /\ DOMAIN s = 1..Len(s) /\ s \in Seq(Range(s))
  BY ListedIs DEF Listed
<1>4. r \in Seq(Range(s)) /\ Picks(s, places, r, Len(s))
  BY <1>1, <1>3, SelectedIs
<1>5. Listed(r) /\ Len(r) \in Nat /\ DOMAIN r = 1..Len(r)
  BY <1>4, ListedIs
<1>6. PICK h \in [1..Len(r) -> 1..Len(s)] :
        /\ \A k \in 1..Len(r) : h[k] \in places /\ r[k] = s[h[k]]
        /\ \A k, m \in 1..Len(r) : k < m => h[k] < h[m]
  BY <1>4 DEF Picks
<1>7. ASSUME NEW k \in 1..Len(r), NEW m \in 1..Len(r), k < m
      PROVE  r[k].event # r[m].event
  <2>1. h[k] \in places /\ h[m] \in DOMAIN s /\ h[m] > h[k] /\ r[k] = s[h[k]] /\ r[m] = s[h[m]]
    BY <1>3, <1>6, <1>7
  <2> QED
    BY <2>1
<1>8. \A k, m \in 1..Len(r) : r[k].event = r[m].event => ~(k < m) /\ ~(m < k)
  BY <1>7
<1>9. Distinct(r)
  BY <1>5, <1>8 DEF Distinct
<1> QED
  BY <1>2, <1>5, <1>9

LEMMA Extremes ==
  ASSUME NEW n \in Int
  PROVE  /\ Max({1, n}) = IF n >= 1 THEN n ELSE 1
         /\ \A m \in Int : Min({n, m}) = IF n <= m THEN n ELSE m
<1>1. Max({1, n}) = IF n >= 1 THEN n ELSE 1
  BY DEF Max
<1>2. \A m \in Int : Min({n, m}) = IF n <= m THEN n ELSE m
  BY DEF Min
<1> QED
  BY <1>1, <1>2

LEMMA LastOnesAre ==
  ASSUME NEW s, Listed(s), Distinct(s), NEW n \in Nat
  PROVE  /\ Shelf(LastOnes(s, n), n)
         /\ \E o \in Nat : \A k \in DOMAIN LastOnes(s, n) :
                o + k \in DOMAIN s /\ LastOnes(s, n)[k] = s[o + k]
<1>1. Len(s) \in Nat
  BY ListedIs
<1>2. PICK m \in Int : m = Max({1, Len(s) - n + 1}) /\ m = IF Len(s) - n + 1 >= 1 THEN Len(s) - n + 1 ELSE 1
  <2>1. PICK c \in Int : c = Len(s) - n + 1
    BY <1>1
  <2>2. Max({1, c}) = IF c >= 1 THEN c ELSE 1
    BY Extremes
  <2> QED
    BY <2>1, <2>2
<1>3. PICK r : r = SubSeq(s, m, Len(s))
  OBVIOUS
<1>4. LastOnes(s, n) = r
  BY <1>2, <1>3 DEF LastOnes
<1>5. m >= 1 /\ (m <= Len(s) => Len(s) - m + 1 <= n)
  BY <1>1, <1>2
<1>6. /\ Listed(r) /\ Len(r) = IF m <= Len(s) THEN Len(s) - m + 1 ELSE 0
      /\ \A i \in 1..Len(r) : r[i] = s[m + i - 1] /\ m + i - 1 \in DOMAIN s
  BY <1>1, <1>3, <1>5, PartIs
<1>7. Distinct(r)
  BY <1>1, <1>3, <1>5, PartIsDistinct
<1>8. DOMAIN r = 1..Len(r) /\ Len(r) \in Nat
  BY <1>6, ListedIs
<1>9. m - 1 \in Nat /\ \A k \in DOMAIN r : (m - 1) + k \in DOMAIN s /\ r[k] = s[(m - 1) + k]
  <2>1. \A k \in DOMAIN r : k \in Nat /\ m + k - 1 = (m - 1) + k
    BY <1>8
  <2> QED
    BY <1>5, <1>6, <1>8, <2>1
<1>10. \E o \in Nat : \A k \in DOMAIN r : o + k \in DOMAIN s /\ r[k] = s[o + k]
  BY <1>9
<1>11. Shelf(r, n)
  BY <1>1, <1>5, <1>6, <1>7 DEF Shelf
<1> QED
  BY <1>4, <1>10, <1>11

LEMMA FirstOnesAre ==
  ASSUME NEW s, Listed(s), Distinct(s), NEW n \in Nat
  PROVE  /\ Shelf(FirstOnes(s, n), n)
         /\ \A k \in DOMAIN FirstOnes(s, n) : \E i \in DOMAIN s : FirstOnes(s, n)[k] = s[i]
         /\ n > 0 /\ FirstOnes(s, n) = <<>> => s = <<>>
<1>1. Len(s) \in Nat /\ (s = <<>> <=> Len(s) = 0)
  BY ListedIs
<1>2. PICK m \in Int : m = Min({n, Len(s)}) /\ m = IF n <= Len(s) THEN n ELSE Len(s)
  <2>1. PICK c \in Int : c = Len(s)
    BY <1>1
  <2>2. Min({n, c}) = IF n <= c THEN n ELSE c
    <3>1. n \in Int
      OBVIOUS
    <3> QED
      BY <3>1, Extremes
  <2> QED
    BY <2>1, <2>2
<1>3. PICK r : r = SubSeq(s, 1, m)
  OBVIOUS
<1>4. FirstOnes(s, n) = r
  BY <1>2, <1>3 DEF FirstOnes
<1>5. m <= Len(s) /\ m <= n /\ (n > 0 /\ Len(s) > 0 => m >= 1)
  BY <1>1, <1>2
<1>6. /\ Listed(r) /\ Len(r) = IF 1 <= m THEN m - 1 + 1 ELSE 0
      /\ \A i \in 1..Len(r) : r[i] = s[1 + i - 1] /\ 1 + i - 1 \in DOMAIN s
  BY <1>1, <1>3, <1>5, PartIs
<1>7. Distinct(r)
  BY <1>1, <1>3, <1>5, PartIsDistinct
<1>8. DOMAIN r = 1..Len(r) /\ (r = <<>> <=> Len(r) = 0)
  BY <1>6, ListedIs
<1>9. Shelf(r, n)
  BY <1>1, <1>5, <1>6, <1>7 DEF Shelf
<1>10. \A k \in DOMAIN r : \E i \in DOMAIN s : r[k] = s[i]
  BY <1>6, <1>8
<1>11. n > 0 /\ r = <<>> => s = <<>>
  BY <1>1, <1>5, <1>6, <1>8
<1> QED
  BY <1>4, <1>9, <1>10, <1>11

LEMMA RefreshedIs ==
  ASSUME NEW s, Listed(s), NEW cache
  PROVE  /\ Listed(Refreshed(s, cache)) /\ Len(Refreshed(s, cache)) = Len(s)
         /\ Distinct(s) => Distinct(Refreshed(s, cache))
         /\ EventsOf(Refreshed(s, cache)) = EventsOf(s)
<1>1. PICK r : r = Refreshed(s, cache)
  OBVIOUS
<1>2. Len(s) \in Nat /\ DOMAIN s = 1..Len(s)
  BY ListedIs
<1>3. DOMAIN r = 1..Len(s) /\ r = [i \in 1..Len(s) |-> r[i]]
  BY <1>1, <1>2 DEF Refreshed
<1>4. ASSUME NEW i \in 1..Len(s)
      PROVE  r[i].event = s[i].event
  <2>1. CASE s[i].event \in EventsOf(cache)
    <3>1. r[i] = cache[CHOOSE j \in DOMAIN cache : cache[j].event = s[i].event]
      BY <2>1, <1>1, <1>2 DEF Refreshed
    <3>2. \E j \in DOMAIN cache : cache[j].event = s[i].event
      BY <2>1 DEF EventsOf
    <3> QED
      BY <3>1, <3>2
  <2>2. CASE s[i].event \notin EventsOf(cache)
    BY <2>2, <1>1, <1>2 DEF Refreshed
  <2> QED
    BY <2>1, <2>2
<1>5. r \in Seq({r[i] : i \in 1..Len(s)}) /\ Len(r) = Len(s)
  BY <1>2, <1>3
<1>6. Listed(r)
  BY <1>5, ListedIs
<1>7. Distinct(s) => Distinct(r)
  BY <1>2, <1>3, <1>4 DEF Distinct
<1>8. EventsOf(r) = EventsOf(s)
  BY <1>2, <1>3, <1>4 DEF EventsOf
<1> QED
  BY <1>1, <1>5, <1>6, <1>7, <1>8

\* What a transition admits is no more than what it was offered.
LEMMA IncomingIs ==
  ASSUME NEW old, Listed(old), NEW adm, Listed(adm), NEW next, Listed(next),
         NEW o \in Nat,
         \A k \in DOMAIN next : o + k \in DOMAIN (old \o adm) /\ next[k] = (old \o adm)[o + k]
  PROVE  Len(Without(next, EventsOf(old))) <= Len(adm)
<1> DEFINE places == {i \in DOMAIN next : next[i].event \notin EventsOf(old)}
<1>1. PICK r : r = Selected(next, places)
  OBVIOUS
<1>2. Without(next, EventsOf(old)) = r
  BY <1>1 DEF Without
<1>3. /\ Len(next) \in Nat /\ DOMAIN next = 1..Len(next) /\ next \in Seq(Range(next))
      /\ Len(old) \in Nat /\ DOMAIN old = 1..Len(old)
      /\ Len(adm) \in Nat
  BY ListedIs DEF Listed
<1>4. r \in Seq(Range(next)) /\ Picks(next, places, r, Len(next))
  BY <1>1, <1>3, SelectedIs
<1>5. Listed(r) /\ Len(r) \in Nat
  BY <1>4, ListedIs
<1>6. PICK h \in [1..Len(r) -> 1..Len(next)] :
        /\ \A k \in 1..Len(r) : h[k] \in places /\ r[k] = next[h[k]]
        /\ \A k, m \in 1..Len(r) : k < m => h[k] < h[m]
  BY <1>4 DEF Picks
<1>7. PICK j : j = old \o adm
  OBVIOUS
<1>8. /\ Listed(j) /\ Len(j) = Len(old) + Len(adm)
      /\ \A i \in 1..Len(old) : j[i] = old[i]
  BY <1>7, JoinIs
<1>9. DOMAIN j = 1..Len(j)
  BY <1>8, ListedIs
<1> DEFINE g == [k \in 1..Len(r) |-> o + h[k] - Len(old)]
<1>10. ASSUME NEW k \in 1..Len(r)
       PROVE  o + h[k] - Len(old) \in 1..Len(adm)
  <2>1. h[k] \in 1..Len(next) /\ next[h[k]].event \notin EventsOf(old)
    BY <1>6
  <2>2. o + h[k] \in 1..Len(j) /\ next[h[k]] = j[o + h[k]]
    BY <1>3, <1>7, <1>9, <2>1
  <2>3. ASSUME o + h[k] <= Len(old)
        PROVE  FALSE
    <3>1. o + h[k] \in 1..Len(old)
      BY <1>3, <2>1, <2>3
    <3>2. j[o + h[k]] = old[o + h[k]] /\ o + h[k] \in DOMAIN old
      BY <3>1, <1>3, <1>8
    <3> QED
      BY <3>2, <2>1, <2>2 DEF EventsOf
  <2> QED
    BY <1>3, <1>8, <2>1, <2>2, <2>3
<1>11. g \in [1..Len(r) -> 1..Len(adm)]
  BY <1>10
<1>12. \A k, m \in 1..Len(r) : k < m => g[k] < g[m]
  <2>1. \A k \in 1..Len(r) : h[k] \in Nat
    BY <1>3
  <2> QED
    BY <1>3, <1>6, <2>1
<1> HIDE DEF g
<1> QED
  BY <1>2, <1>3, <1>5, <1>11, <1>12, NoLonger

LEMMA JoinDistinct ==
  ASSUME NEW s, Listed(s), Distinct(s), NEW t, Listed(t), Distinct(t),
         \A k \in DOMAIN t : t[k].event \notin EventsOf(s),
         NEW j, j = s \o t
  PROVE  Distinct(j)
<1>1. /\ Listed(j) /\ Len(j) = Len(s) + Len(t)
      /\ \A i \in 1..Len(s) : j[i] = s[i]
      /\ \A k \in 1..Len(j) : k > Len(s) => k - Len(s) \in 1..Len(t) /\ j[k] = t[k - Len(s)]
  BY JoinIs
<1>2. /\ Len(s) \in Nat /\ DOMAIN s = 1..Len(s) /\ DOMAIN t = 1..Len(t)
      /\ Len(j) \in Nat /\ DOMAIN j = 1..Len(j)
  BY <1>1, ListedIs
<1>3. ASSUME NEW x \in 1..Len(j), NEW y \in 1..Len(j), x <= Len(s), y > Len(s)
      PROVE  j[x].event # j[y].event
  <2>1. x \in DOMAIN s /\ j[x] = s[x]
    BY <1>3, <1>1, <1>2
  <2>2. y - Len(s) \in DOMAIN t /\ j[y] = t[y - Len(s)]
    BY <1>3, <1>1, <1>2
  <2>3. j[x].event \in EventsOf(s)
    BY <2>1 DEF EventsOf
  <2> QED
    BY <2>2, <2>3
<1>4. ASSUME NEW i \in 1..Len(j), NEW k \in 1..Len(j), j[i].event = j[k].event
      PROVE  i = k
  <2>1. CASE i <= Len(s) /\ k <= Len(s)
    <3>1. i \in DOMAIN s /\ k \in DOMAIN s /\ j[i] = s[i] /\ j[k] = s[k]
      BY <2>1, <1>1, <1>2
    <3> QED
      BY <3>1, <1>4 DEF Distinct
  <2>2. CASE i > Len(s) /\ k > Len(s)
    <3>1. /\ i - Len(s) \in DOMAIN t /\ k - Len(s) \in DOMAIN t
          /\ j[i] = t[i - Len(s)] /\ j[k] = t[k - Len(s)]
      BY <2>2, <1>1, <1>2
    <3>2. i - Len(s) = k - Len(s)
      BY <3>1, <1>4 DEF Distinct
    <3> QED
      BY <3>2, <1>2
  <2> QED
    BY <2>1, <2>2, <1>2, <1>3, <1>4
<1> QED
  BY <1>2, <1>4 DEF Distinct

LEMMA BeginIs ==
  ASSUME NEW w, WindowSound(w), NEW adm, Shelf(adm, w.capacity),
         \A k \in DOMAIN adm : adm[k].event \notin EventsOf(w.active),
         NEW r, r = BeginTransition(w, adm)
  PROVE  WindowSound(r) /\ r.moving /\ r.active = w.active
<1> USE KernelNames
<1>1. /\ DOMAIN w = WindowFields /\ w.limit \in Nat /\ w.capacity \in Nat /\ w.capacity > 0
      /\ Listed(w.active) /\ Distinct(w.active) /\ Len(w.active) <= w.limit
      /\ Listed(adm) /\ Distinct(adm) /\ Len(adm) <= w.capacity
  BY DEF WindowSound, Shelf
<1>2. PICK j : j = w.active \o adm
  OBVIOUS
<1>3. Listed(j) /\ Distinct(j)
  BY <1>1, <1>2, JoinIs, JoinDistinct
<1>4. Len(adm) \in Nat
  BY <1>1, ListedIs
<1>7. PICK n \in Nat : n = w.limit
  BY <1>1
<1>8. PICK next : next = LastOnes(j, n)
  OBVIOUS
<1>81. Shelf(next, n) /\ \E o \in Nat : \A k \in DOMAIN next : o + k \in DOMAIN j /\ next[k] = j[o + k]
  BY <1>3, <1>8, LastOnesAre
<1>9. PICK o \in Nat : \A k \in DOMAIN next : o + k \in DOMAIN j /\ next[k] = j[o + k]
  BY <1>81
<1>10. Listed(next) /\ Distinct(next)
  BY <1>81 DEF Shelf
<1>11. PICK inc : inc = Without(next, EventsOf(w.active))
  OBVIOUS
<1>12. Len(inc) <= Len(adm)
  BY <1>1, <1>2, <1>9, <1>10, <1>11, IncomingIs
<1>13. Listed(inc) /\ Distinct(inc)
  BY <1>10, <1>11, WithoutIs
<1>14. Len(inc) \in Nat
  BY <1>13, ListedIs
<1>15. Shelf(inc, w.capacity)
  BY <1>1, <1>4, <1>12, <1>13, <1>14 DEF Shelf
<1>16. /\ DOMAIN r = WindowFields /\ r.limit = w.limit /\ r.capacity = w.capacity
       /\ r.active = w.active /\ r.next = next /\ r.incoming = inc /\ r.moving = TRUE
  BY <1>1, <1>2, <1>7, <1>8, <1>11 DEF BeginTransition
<1> QED
  BY <1>1, <1>7, <1>81, <1>15, <1>16 DEF WindowSound, Shelf

LEMMA SettleIs ==
  ASSUME NEW w, WindowSound(w), NEW r, r = SettleWindow(w)
  PROVE  WindowSound(r) /\ ~r.moving
<1> USE KernelNames
<1>1. CASE ~w.moving
  BY <1>1 DEF SettleWindow
<1>2. CASE w.moving
  <2>1. /\ DOMAIN r = WindowFields /\ r.limit = w.limit /\ r.capacity = w.capacity
        /\ r.active = w.next /\ r.moving = FALSE
    BY <1>2 DEF SettleWindow, WindowSound
  <2> QED
    BY <1>2, <2>1 DEF WindowSound
<1> QED
  BY <1>1, <1>2

LEMMA ConfigureIs ==
  ASSUME NEW w, WindowSound(w), NEW limit \in Nat, NEW capacity \in Nat, capacity > 0,
         NEW r, r = ConfigureWindow(w, limit, capacity)
  PROVE  WindowSound(r) /\ ~r.moving
<1> USE KernelNames
<1>1. PICK b : b = IF w.moving THEN w.next ELSE w.active
  OBVIOUS
<1>2. Listed(b) /\ Distinct(b)
  BY <1>1 DEF WindowSound, Shelf
<1>3. PICK act : act = LastOnes(b, limit)
  OBVIOUS
<1>4. Shelf(act, limit)
  BY <1>2, <1>3, LastOnesAre
<1>5. /\ DOMAIN r = WindowFields /\ r.limit = limit /\ r.capacity = capacity
      /\ r.active = act /\ r.moving = FALSE
  BY <1>1, <1>3 DEF ConfigureWindow, WindowSound
<1> QED
  BY <1>4, <1>5 DEF WindowSound

\* What is on the screen during a transition is both windows, each event once.
LEMMA ResidentIs ==
  ASSUME NEW w, WindowSound(w), NEW r, r = Resident(w)
  PROVE  Shelf(r, w.limit + w.capacity) /\ Cardinality(EventsOf(r)) = Len(r)
<1>1. /\ w.limit \in Nat /\ w.capacity \in Nat /\ w.capacity > 0 /\ w.moving \in BOOLEAN
      /\ Listed(w.active) /\ Distinct(w.active) /\ Len(w.active) <= w.limit
  BY DEF WindowSound, Shelf
<1>2. Len(w.active) \in Nat /\ DOMAIN w.active = 1..Len(w.active)
  BY <1>1, ListedIs
<1>3. CASE ~w.moving
  <2>1. r = w.active
    BY <1>3 DEF Resident
  <2>2. Shelf(r, w.limit + w.capacity)
    BY <2>1, <1>1, <1>2 DEF Shelf
  <2> QED
    BY <2>1, <2>2, <1>1, EventsCounted
<1>4. CASE w.moving
  <2>1. Listed(w.incoming) /\ Distinct(w.incoming) /\ Len(w.incoming) <= w.capacity
    BY <1>4 DEF WindowSound, Shelf
  <2>2. PICK inc : inc = Without(w.incoming, EventsOf(w.active))
    OBVIOUS
  <2>3. /\ Listed(inc) /\ Distinct(inc) /\ Len(inc) <= Len(w.incoming)
        /\ \A k \in DOMAIN inc : inc[k].event \notin EventsOf(w.active)
    BY <2>1, <2>2, WithoutIs
  <2>4. r = w.active \o inc
    BY <1>4, <2>2 DEF Resident
  <2>5. Listed(r) /\ Len(r) = Len(w.active) + Len(inc)
    BY <1>1, <2>3, <2>4, JoinIs
  <2>6. /\ Len(inc) \in Nat /\ DOMAIN inc = 1..Len(inc) /\ Len(w.incoming) \in Nat
        /\ Len(r) \in Nat /\ DOMAIN r = 1..Len(r)
    BY <2>1, <2>3, <2>5, ListedIs
  <2>9. Distinct(r)
    BY <1>1, <2>3, <2>4, JoinDistinct
  <2>10. Shelf(r, w.limit + w.capacity)
    BY <1>1, <1>2, <2>1, <2>3, <2>5, <2>6, <2>9 DEF Shelf
  <2> QED
    BY <2>5, <2>9, <2>10, EventsCounted
<1> QED
  BY <1>3, <1>4

LEMMA NewIs ==
  ASSUME NEW limit \in Nat, NEW capacity \in Nat, capacity > 0,
         NEW r, r = NewAccumulation(limit, capacity)
  PROVE  KernelSound(r) /\ r.pending = <<>> /\ Resident(r.window) = <<>>
<1>1. /\ DOMAIN r = KernelFields /\ r.window = EmptySceneWindow(limit, capacity) /\ r.pending = <<>>
  BY DEF NewAccumulation, KernelFields
<1>2. PICK w : w = EmptySceneWindow(limit, capacity)
  OBVIOUS
<1>3. /\ DOMAIN w = WindowFields /\ w.limit = limit /\ w.capacity = capacity
      /\ w.active = <<>> /\ w.moving = FALSE
  BY <1>2 DEF EmptySceneWindow, WindowFields
<1>4. WindowSound(w)
  BY <1>3, EmptyIs DEF WindowSound
<1>5. Resident(w) = <<>>
  BY <1>3 DEF Resident
<1> QED
  BY <1>1, <1>2, <1>4, <1>5, EmptyIs DEF KernelSound

\* Nothing waits without a transition that will take it in.
LEMMA StageIs ==
  ASSUME NEW a, KernelSound(a), NEW r, r = StagePending(a)
  PROVE  /\ KernelSound(r)
         /\ r.pending # <<>> => r.window.moving
         /\ a.window.moving \/ a.pending = <<>> => r = a
<1> USE KernelNames
<1>1. PICK w : w = a.window
  OBVIOUS
<1>2. /\ DOMAIN a = KernelFields /\ WindowSound(w) /\ Listed(a.pending)
      /\ w.capacity \in Nat /\ w.capacity > 0 /\ w.moving \in BOOLEAN
  BY <1>1 DEF KernelSound, WindowSound
<1>3. CASE w.moving \/ a.pending = <<>>
  <2>1. r = a
    BY <1>1, <1>3 DEF StagePending
  <2> QED
    BY <2>1, <1>1, <1>3
<1>4. CASE ~(w.moving \/ a.pending = <<>>)
  <2>1. PICK late : late = LatestOfEach(a.pending)
    OBVIOUS
  <2>2. Listed(late) /\ Distinct(late)
    BY <1>2, <2>1, LatestIs
  <2>3. PICK c : c = Without(late, EventsOf(w.active))
    OBVIOUS
  <2>4. /\ Listed(c) /\ Distinct(c)
        /\ \A k \in DOMAIN c : c[k].event \notin EventsOf(w.active)
    BY <2>2, <2>3, WithoutIs
  <2>5. PICK n \in Nat : n = w.capacity
    BY <1>2
  <2>6. PICK adm : adm = FirstOnes(c, n)
    OBVIOUS
  <2>7. /\ Shelf(adm, n)
        /\ \A k \in DOMAIN adm : \E i \in DOMAIN c : adm[k] = c[i]
        /\ n > 0 /\ adm = <<>> => c = <<>>
    BY <2>4, <2>6, FirstOnesAre
  <2>8. \A k \in DOMAIN adm : adm[k].event \notin EventsOf(w.active)
    BY <2>4, <2>7
  <2>9. PICK rest : rest = SubSeq(c, n + 1, Len(c))
    OBVIOUS
  <2>10. Len(c) \in Nat /\ (c = <<>> <=> Len(c) = 0)
    BY <2>4, ListedIs
  <2>11. Listed(rest) /\ Len(rest) = IF n + 1 <= Len(c) THEN Len(c) - (n + 1) + 1 ELSE 0
    <3>1. PICK m \in Int : m = n + 1
      OBVIOUS
    <3>2. PICK e \in Int : e = Len(c)
      BY <2>10
    <3>3. 1 <= m /\ e <= Len(c) /\ rest = SubSeq(c, m, e)
      BY <3>1, <3>2, <2>9, <2>10
    <3>4. Listed(SubSeq(c, m, e)) /\ Len(SubSeq(c, m, e)) = IF m <= e THEN e - m + 1 ELSE 0
      BY <3>3, <2>4, PartIs
    <3> QED
      BY <3>1, <3>2, <3>3, <3>4
  <2>12. rest = <<>> <=> Len(rest) = 0
    BY <2>11, ListedIs
  <2>13. PICK v : v = IF adm = <<>> THEN w ELSE BeginTransition(w, adm)
    OBVIOUS
  <2>14. DOMAIN r = KernelFields /\ r.window = v /\ r.pending = rest
    BY <1>1, <1>2, <1>4, <2>1, <2>3, <2>5, <2>6, <2>9, <2>13 DEF StagePending
  <2>15. CASE adm = <<>>
    <3>1. rest = <<>>
      BY <2>15, <2>5, <2>7, <1>2, <2>10, <2>11, <2>12
    <3> QED
      BY <1>1, <1>2, <1>4, <2>11, <2>13, <2>14, <2>15, <3>1 DEF KernelSound
  <2>16. CASE adm # <<>>
    <3>1. v = BeginTransition(w, adm)
      BY <2>13, <2>16
    <3>2. WindowSound(v) /\ v.moving
      BY <1>2, <2>5, <2>7, <2>8, <3>1, BeginIs
    <3> QED
      BY <1>1, <1>4, <2>11, <2>14, <3>2 DEF KernelSound
  <2> QED
    BY <2>15, <2>16
<1> QED
  BY <1>3, <1>4

LEMMA RefreshIs ==
  ASSUME NEW a, KernelSound(a), NEW cache, NEW r, r = RefreshAccumulation(a, cache)
  PROVE  /\ KernelSound(r)
         /\ r.window.moving = a.window.moving /\ r.window.revision = a.window.revision
         /\ a.pending = <<>> => r.pending = <<>>
<1> USE KernelNames
<1>1. PICK w : w = a.window
  OBVIOUS
<1>2. PICK v : v = r.window
  OBVIOUS
<1>3. /\ DOMAIN a = KernelFields /\ DOMAIN w = WindowFields /\ Listed(a.pending)
      /\ w.limit \in Nat /\ w.capacity \in Nat /\ w.capacity > 0 /\ w.moving \in BOOLEAN
      /\ Shelf(w.active, w.limit)
      /\ w.moving => Shelf(w.next, w.limit) /\ Shelf(w.incoming, w.capacity)
  BY <1>1 DEF KernelSound, WindowSound
<1>4. DOMAIN r = KernelFields /\ r.pending = Refreshed(a.pending, cache)
  BY <1>3 DEF RefreshAccumulation
<1>5. /\ DOMAIN v = WindowFields /\ v.limit = w.limit /\ v.capacity = w.capacity
      /\ v.moving = w.moving /\ v.revision = w.revision
      /\ v.active = Refreshed(w.active, cache) /\ v.next = Refreshed(w.next, cache)
      /\ v.incoming = Refreshed(w.incoming, cache)
  BY <1>1, <1>2, <1>3 DEF RefreshAccumulation
<1>6. ASSUME NEW s, NEW n, Shelf(s, n)
      PROVE  Shelf(Refreshed(s, cache), n)
  BY <1>6, RefreshedIs DEF Shelf
<1>7. WindowSound(v)
  BY <1>3, <1>5, <1>6 DEF WindowSound
<1>8. PICK p : p = Refreshed(a.pending, cache)
  OBVIOUS
<1>9. Listed(p) /\ Len(p) = Len(a.pending)
  BY <1>3, <1>8, RefreshedIs
<1>10. (p = <<>> <=> Len(p) = 0) /\ (a.pending = <<>> <=> Len(a.pending) = 0)
  BY <1>3, <1>9, ListedIs
<1> QED
  BY <1>1, <1>2, <1>4, <1>5, <1>7, <1>8, <1>9, <1>10 DEF KernelSound

\* What evidence that enters does to the kernel.
LEMMA AppendIs ==
  ASSUME NEW a, KernelSound(a), NEW before, NEW after, NEW bundles, Listed(bundles),
         NEW r, r = AppendEvidence(a, before, after, bundles)
  PROVE  /\ KernelSound(r)
         /\ r.pending # <<>> => r.window.moving
         /\ Unseen(a, bundles) = <<>> =>
              /\ a.window.moving => r.window.moving /\ r.window.revision = a.window.revision
              /\ a.pending = <<>> => r.pending = <<>>
              /\ UpdatedIn(before, bundles) = {} /\ (a.window.moving \/ a.pending = <<>>)
                    => r.window = a.window
<1> USE KernelNames
<1>1. PICK b : b = IF UpdatedIn(before, bundles) # {} THEN RefreshAccumulation(a, after) ELSE a
  OBVIOUS
<1>2. /\ KernelSound(b)
      /\ b.window.moving = a.window.moving /\ b.window.revision = a.window.revision
      /\ a.pending = <<>> => b.pending = <<>>
      /\ UpdatedIn(before, bundles) = {} => b = a
  <2>1. CASE UpdatedIn(before, bundles) # {}
    <3>1. b = RefreshAccumulation(a, after)
      BY <1>1, <2>1
    <3> QED
      BY <2>1, <3>1, RefreshIs
  <2>2. CASE UpdatedIn(before, bundles) = {}
    BY <1>1, <2>2
  <2> QED
    BY <2>1, <2>2
<1>3. PICK u : u = Unseen(a, bundles)
  OBVIOUS
<1>4. Listed(u)
  BY <1>3, WithoutIs DEF Unseen
<1>5. PICK v : v = Refreshed(u, after)
  OBVIOUS
<1>6. Listed(v) /\ Len(v) = Len(u)
  BY <1>4, <1>5, RefreshedIs
<1>7. PICK fresh : fresh = Without(v, EventsOf(u) \ EventsOf(after))
  OBVIOUS
<1>8. Listed(fresh) /\ Len(fresh) <= Len(v)
  BY <1>6, <1>7, WithoutIs
<1>9. PICK p : p = b.pending \o fresh
  OBVIOUS
<1>10. Listed(b.pending)
  BY <1>2 DEF KernelSound
<1>11. Listed(p) /\ Len(p) = Len(b.pending) + Len(fresh)
  BY <1>8, <1>9, <1>10, JoinIs
<1>12. PICK c : c = [b EXCEPT !.seen = @ \cup EventsOf(u), !.pending = p]
  OBVIOUS
<1>13. DOMAIN c = KernelFields /\ c.window = b.window /\ c.pending = p
  BY <1>2, <1>12 DEF KernelSound
<1>14. KernelSound(c)
  BY <1>2, <1>11, <1>13 DEF KernelSound
<1>15. r = StagePending(c)
  <2>1. [b EXCEPT !.seen = @ \cup EventsOf(u), !.pending = @ \o fresh] = c
    BY <1>9, <1>12
  <2> QED
    BY <2>1, <1>1, <1>3, <1>5, <1>7 DEF AppendEvidence
<1>16. /\ KernelSound(r)
       /\ r.pending # <<>> => r.window.moving
       /\ c.window.moving \/ c.pending = <<>> => r = c
  BY <1>14, <1>15, StageIs
<1>17. ASSUME u = <<>>, a.pending = <<>>
       PROVE  p = <<>>
  <2>1. /\ (u = <<>> <=> Len(u) = 0) /\ Len(fresh) \in Nat /\ (p = <<>> <=> Len(p) = 0)
        /\ (b.pending = <<>> <=> Len(b.pending) = 0)
    BY <1>4, <1>8, <1>10, <1>11, ListedIs
  <2> QED
    BY <2>1, <1>2, <1>6, <1>8, <1>11, <1>17
<1> QED
  BY <1>2, <1>3, <1>13, <1>16, <1>17

LEMMA AdvanceIs ==
  ASSUME NEW a, KernelSound(a), NEW r, r = AdvanceTransition(a)
  PROVE  KernelSound(r) /\ (r.pending # <<>> => r.window.moving)
<1> USE KernelNames
<1>1. PICK w : w = SettleWindow(a.window)
  OBVIOUS
<1>2. WindowSound(w)
  BY <1>1, SettleIs DEF KernelSound
<1>3. PICK b : b = [a EXCEPT !.window = w]
  OBVIOUS
<1>4. KernelSound(b)
  BY <1>2, <1>3 DEF KernelSound
<1>5. r = StagePending(b)
  BY <1>1, <1>3 DEF AdvanceTransition
<1> QED
  BY <1>4, <1>5, StageIs

(***************************************************************************)
(* The scene.  Each handler has a lemma: what it changes, and that the rest *)
(* is as it was.                                                           *)
(***************************************************************************)
SceneFields == {"mode", "source", "place", "shown", "locked", "epoch", "heard", "kept", "context",
                "closed", "setting", "cache", "acc", "timer", "expanding", "cursors", "expanded",
                "left", "unsettled"}
Is(s) == DOMAIN s = SceneFields /\ s.setting \in DOMAIN SceneSettings
\* t is s but for these fields.
But(s, t, fields) == DOMAIN t = SceneFields /\ \A f \in SceneFields \ fields : t[f] = s[f]

LEMMA SceneNames ==
  /\ "mode" \in SceneFields /\ "source" \in SceneFields /\ "place" \in SceneFields
  /\ "shown" \in SceneFields /\ "locked" \in SceneFields /\ "epoch" \in SceneFields
  /\ "heard" \in SceneFields /\ "kept" \in SceneFields /\ "context" \in SceneFields
  /\ "closed" \in SceneFields /\ "setting" \in SceneFields /\ "cache" \in SceneFields
  /\ "acc" \in SceneFields /\ "timer" \in SceneFields /\ "expanding" \in SceneFields
  /\ "cursors" \in SceneFields /\ "expanded" \in SceneFields /\ "left" \in SceneFields
  /\ "unsettled" \in SceneFields
BY DEF SceneFields

\* A kernel nothing has entered.
Blank(s) == KernelSound(s.acc) /\ s.acc.pending = <<>> /\ Resident(s.acc.window) = <<>> /\ s.unsettled = FALSE

LEMMA ResetKernelIs ==
  ASSUME NEW s, Is(s), NEW clear, NEW r, r = ResetKernel(s, clear)
  PROVE  But(s, r, {"timer", "acc", "cache", "unsettled"}) /\ Blank(r) /\ r.timer = 0
<1> USE SceneNames
<1>1. PICK limit \in Nat, capacity \in Nat : capacity > 0 /\ NewKernel(s) = NewAccumulation(limit, capacity)
  BY SessionAssumption DEF Is, NewKernel, SettingNow
<1>2. PICK k : k = NewAccumulation(limit, capacity)
  OBVIOUS
<1>3. KernelSound(k) /\ k.pending = <<>> /\ Resident(k.window) = <<>>
  BY <1>1, <1>2, NewIs
<1>4. PICK c : c = IF clear THEN <<>> ELSE s.cache
  OBVIOUS
<1>5. r = [s EXCEPT !.timer = 0, !.acc = k, !.cache = c, !.unsettled = FALSE]
  BY <1>1, <1>2, <1>4 DEF ResetKernel
<1>6. DOMAIN r = SceneFields /\ r.timer = 0 /\ r.acc = k /\ r.unsettled = FALSE
  BY <1>5 DEF Is
<1>7. \A f \in SceneFields \ {"timer", "acc", "cache", "unsettled"} : r[f] = s[f]
  BY <1>5 DEF Is
<1> QED
  BY <1>3, <1>6, <1>7 DEF But, Blank

LEMMA EnterModeIs ==
  ASSUME NEW s, Is(s), NEW mode, NEW r, r = EnterMode(s, mode)
  PROVE  But(s, r, {"mode", "locked"}) /\ r.mode = mode /\ r.locked = 0
BY SceneNames DEF Is, EnterMode, But

LEMMA ForgetIs ==
  ASSUME NEW s, Is(s), NEW r, r = ForgetExpansions(s)
  PROVE  But(s, r, {"expanding", "cursors", "expanded"}) /\ r.expanding = NoExpansion /\ DOMAIN r.cursors = {}
BY SceneNames DEF Is, ForgetExpansions, AbortExpansion, But

LEMMA AbortIs ==
  ASSUME NEW s, Is(s), NEW r, r = AbortExpansion(s)
  PROVE  But(s, r, {"expanding"}) /\ r.expanding = NoExpansion
BY SceneNames DEF Is, AbortExpansion, But

LEMMA ButTwice ==
  ASSUME NEW s, NEW t, NEW r, NEW F, NEW G, But(s, t, F), But(t, r, G)
  PROVE  But(s, r, F \cup G)
BY DEF But

LEMMA ButIs ==
  ASSUME NEW s, Is(s), NEW t, NEW F, But(s, t, F), "setting" \notin F
  PROVE  Is(t)
BY SceneNames DEF But, Is

LEMMA PrepareIs ==
  ASSUME NEW s, Is(s), NEW epoch, NEW r, r = PrepareContextScene(s, epoch)
  PROVE  /\ But(s, r, SceneFields \ {"heard", "kept", "setting", "left"})
         /\ Blank(r) /\ r.mode = "accumulation" /\ r.context.is /\ "is" \in DOMAIN r.context /\ r.shown = <<>>
         /\ r.epoch = epoch /\ r.expanding = NoExpansion /\ DOMAIN r.cursors = {}
<1> USE SceneNames
<1>1. PICK a : a = [s EXCEPT !.closed = FALSE, !.epoch = epoch,
                             !.context = [is |-> TRUE, scene |-> epoch, count |-> 0],
                             !.source = 0, !.place = 0, !.shown = <<>>]
  OBVIOUS
<1>2. /\ But(s, a, {"closed", "epoch", "context", "source", "place", "shown"})
      /\ a.epoch = epoch /\ a.context.is /\ "is" \in DOMAIN a.context /\ a.shown = <<>>
  BY <1>1 DEF Is, But
<1>3. Is(a)
  BY <1>2, ButIs
<1>4. PICK b : b = ResetKernel(a, FALSE)
  OBVIOUS
<1>5. But(a, b, {"timer", "acc", "cache", "unsettled"}) /\ Blank(b)
  BY <1>3, <1>4, ResetKernelIs
<1>6. Is(b)
  BY <1>3, <1>5, ButIs
<1>7. PICK c : c = ForgetExpansions(b)
  OBVIOUS
<1>8. But(b, c, {"expanding", "cursors", "expanded"}) /\ c.expanding = NoExpansion /\ DOMAIN c.cursors = {}
  BY <1>6, <1>7, ForgetIs
<1>9. Is(c)
  BY <1>6, <1>8, ButIs
<1>10. r = EnterMode(c, "accumulation")
  BY <1>1, <1>4, <1>7 DEF PrepareContextScene
<1>11. But(c, r, {"mode", "locked"}) /\ r.mode = "accumulation"
  BY <1>9, <1>10, EnterModeIs
<1>12. But(s, r, SceneFields \ {"heard", "kept", "setting", "left"})
  BY <1>2, <1>5, <1>8, <1>11 DEF But
<1>13. r.acc = b.acc /\ r.unsettled = b.unsettled
  BY <1>8, <1>11 DEF But
<1>14. r.context = a.context /\ r.shown = a.shown /\ r.epoch = a.epoch
  BY <1>5, <1>8, <1>11 DEF But
<1>15. r.expanding = c.expanding /\ r.cursors = c.cursors
  BY <1>11 DEF But
<1> QED
  BY <1>2, <1>5, <1>8, <1>11, <1>12, <1>13, <1>14, <1>15 DEF Blank

LEMMA ResetSessionIs ==
  ASSUME NEW s, Is(s), NEW epoch, NEW r, r = ResetSession(s, epoch)
  PROVE  \/ r = s /\ epoch < s.epoch
         \/ /\ But(s, r, SceneFields \ {"heard", "closed", "setting", "left"})
            /\ Blank(r) /\ r.mode = "home" /\ r.context = NoContext /\ r.kept = NothingLeft
            /\ r.epoch = epoch /\ r.expanding = NoExpansion /\ DOMAIN r.cursors = {}
<1> USE SceneNames
<1>1. CASE epoch < s.epoch
  BY <1>1 DEF ResetSession
<1>2. CASE ~(epoch < s.epoch)
  <2>1. PICK a : a = [s EXCEPT !.epoch = epoch, !.kept = NothingLeft, !.context = NoContext,
                               !.source = 0, !.place = 0, !.shown = <<>>]
    OBVIOUS
  <2>2. /\ But(s, a, {"epoch", "kept", "context", "source", "place", "shown"})
        /\ a.epoch = epoch /\ a.context = NoContext /\ a.kept = NothingLeft
    BY <2>1 DEF Is, But
  <2>3. Is(a)
    BY <2>2, ButIs
  <2>4. PICK b : b = ResetKernel(a, TRUE)
    OBVIOUS
  <2>5. But(a, b, {"timer", "acc", "cache", "unsettled"}) /\ Blank(b)
    BY <2>3, <2>4, ResetKernelIs
  <2>6. Is(b)
    BY <2>3, <2>5, ButIs
  <2>7. PICK c : c = ForgetExpansions(b)
    OBVIOUS
  <2>8. But(b, c, {"expanding", "cursors", "expanded"}) /\ c.expanding = NoExpansion /\ DOMAIN c.cursors = {}
    BY <2>6, <2>7, ForgetIs
  <2>9. Is(c)
    BY <2>6, <2>8, ButIs
  <2>10. r = EnterMode(c, "home")
    BY <1>2, <2>1, <2>4, <2>7 DEF ResetSession
  <2>11. But(c, r, {"mode", "locked"}) /\ r.mode = "home"
    BY <2>9, <2>10, EnterModeIs
  <2>12. But(s, r, SceneFields \ {"heard", "closed", "setting", "left"})
    BY <2>2, <2>5, <2>8, <2>11 DEF But
  <2>13. r.acc = b.acc /\ r.unsettled = b.unsettled
    BY <2>8, <2>11 DEF But
  <2>14. r.context = a.context /\ r.kept = a.kept /\ r.epoch = a.epoch
    BY <2>5, <2>8, <2>11 DEF But
  <2>15. r.expanding = c.expanding /\ r.cursors = c.cursors
    BY <2>11 DEF But
  <2> QED
    BY <2>2, <2>5, <2>8, <2>11, <2>12, <2>13, <2>14, <2>15 DEF Blank
<1> QED
  BY <1>1, <1>2

LEMMA RetainIs ==
  ASSUME NEW s, Is(s), NEW r, r = Retain(s)
  PROVE  /\ But(s, r, {"kept", "expanding"})
         /\ r.kept = IF s.kept.is THEN s.kept ELSE Exploration(s)
         /\ r.expanding = s.expanding \/ r.expanding = NoExpansion
<1> USE SceneNames
<1>1. CASE s.kept.is
  BY <1>1 DEF Retain, But, Is
<1>2. CASE ~s.kept.is
  <2>1. PICK e : e = Exploration(s)
    OBVIOUS
  <2>2. PICK a : a = [s EXCEPT !.kept = e]
    OBVIOUS
  <2>3. But(s, a, {"kept"}) /\ a.kept = e
    BY <2>2 DEF Is, But
  <2>4. Is(a)
    BY <2>3, ButIs
  <2>5. r = AbortExpansion(a)
    BY <1>2, <2>1, <2>2 DEF Retain
  <2>6. But(a, r, {"expanding"}) /\ r.expanding = NoExpansion
    BY <2>4, <2>5, AbortIs
  <2> QED
    BY <1>2, <2>1, <2>3, <2>6 DEF But
<1> QED
  BY <1>1, <1>2

CursorsIn(c) ==
  \A n \in DOMAIN c \cap DOMAIN ExpansionPages : c[n] \in Nat /\ c[n] < Len(ExpansionPages[n])
Whole(k) ==
  k = [is |-> TRUE, source |-> k.source, place |-> k.place, shown |-> k.shown, locked |-> k.locked,
       epoch |-> k.epoch, cursors |-> k.cursors, expanded |-> k.expanded]
KeptSound(k) == k.is => Whole(k) /\ k.epoch \in Nat /\ CursorsIn(k.cursors)
ExpansionSound(e) ==
  e.is => /\ e.node \in DOMAIN ExpansionPages /\ e.epoch \in Nat
          /\ e.cursor \in Nat /\ e.cursor < Len(ExpansionPages[e.node])
\* An exploration, with its lock or without.
Unlocked(k) == [k EXCEPT !.locked = 0]
Kin(k) == {k, Unlocked(k)}

Waiting(s) ==
  s.acc.pending # <<>> => (s.acc.window.moving /\ s.timer = s.acc.window.revision) \/ s.unsettled
\* The kernel and the screen agree.
Fed(s) ==
  /\ KernelSound(s.acc) /\ Waiting(s) /\ s.unsettled \in BOOLEAN
  /\ s.mode = "accumulation" => s.shown = Resident(s.acc.window) \/ s.unsettled
SceneSound(s) ==
  /\ Is(s) /\ s.epoch \in Nat /\ s.heard \in Nat /\ Fed(s)
  /\ s.mode \in {"home", "exploration", "accumulation"}
  /\ "is" \in DOMAIN s.context /\ (s.context.is => s.mode = "accumulation")
  /\ s.mode = "exploration" => ~s.kept.is
  /\ KeptSound(s.kept) /\ CursorsIn(s.cursors)
  /\ ExpansionSound(s.expanding) /\ (s.expanding.is => s.mode # "home")

LEMMA KinIs ==
  ASSUME NEW k
  PROVE  /\ k \in Kin(k) /\ Unlocked(k) \in Kin(k)
         /\ \A y \in Kin(k) : Kin(y) \subseteq Kin(k)
         /\ KeptSound(k) /\ k.is => KeptSound(Unlocked(k)) /\ Unlocked(k).is
<1>1. Unlocked(Unlocked(k)) = Unlocked(k)
  BY DEF Unlocked
<1>2. k \in Kin(k) /\ Unlocked(k) \in Kin(k) /\ \A y \in Kin(k) : Kin(y) \subseteq Kin(k)
  BY <1>1 DEF Kin
<1>3. ASSUME KeptSound(k), k.is
      PROVE  KeptSound(Unlocked(k)) /\ Unlocked(k).is
  <2>1. Whole(k) /\ k.epoch \in Nat /\ CursorsIn(k.cursors)
    BY <1>3 DEF KeptSound
  <2>2. DOMAIN k = {"is", "source", "place", "shown", "locked", "epoch", "cursors", "expanded"}
    BY <2>1 DEF Whole
  <2>3. PICK u : u = Unlocked(k)
    OBVIOUS
  <2>4. /\ u.is = TRUE /\ u.source = k.source /\ u.place = k.place /\ u.shown = k.shown
        /\ u.locked = 0 /\ u.epoch = k.epoch /\ u.cursors = k.cursors /\ u.expanded = k.expanded
    <3>1. k.is = TRUE
      BY <2>1 DEF Whole
    <3> QED
      BY <2>2, <2>3, <3>1 DEF Unlocked
  <2>5. u = [is |-> TRUE, source |-> k.source, place |-> k.place, shown |-> k.shown, locked |-> 0,
             epoch |-> k.epoch, cursors |-> k.cursors, expanded |-> k.expanded]
    <3> DEFINE names == {"is", "source", "place", "shown", "locked", "epoch", "cursors", "expanded"}
               v == [is |-> TRUE, source |-> k.source, place |-> k.place, shown |-> k.shown, locked |-> 0,
                     epoch |-> k.epoch, cursors |-> k.cursors, expanded |-> k.expanded]
    <3>1. u = [f \in names |-> u[f]]
      BY <2>2, <2>3 DEF Unlocked
    <3>2. v = [f \in names |-> v[f]]
      OBVIOUS
    <3>3. u.is = v.is
      BY <2>4, Zenon
    <3>4. \A f \in names \ {"is"} : u[f] = v[f]
      BY <2>4
    <3>5. \A f \in names : u[f] = v[f]
      BY <3>3, <3>4
    <3> QED
      BY <3>1, <3>2, <3>5, Zenon
  <2>6. Whole(u)
    BY <2>4, <2>5 DEF Whole
  <2> QED
    BY <2>1, <2>3, <2>4, <2>6 DEF KeptSound
<1> QED
  BY <1>2, <1>3

LEMMA KeptIs ==
  ASSUME NEW s, s.epoch \in Nat, CursorsIn(s.cursors)
  PROVE  KeptSound(Exploration(s)) /\ Exploration(s).is = TRUE
<1>1. PICK e : e = Exploration(s)
  OBVIOUS
<1>2. /\ e.is = TRUE /\ e.source = s.source /\ e.place = s.place /\ e.shown = s.shown
      /\ e.locked = s.locked /\ e.epoch = s.epoch /\ e.cursors = s.cursors /\ e.expanded = s.expanded
  BY <1>1 DEF Exploration
<1>3. Whole(e)
  BY <1>1, <1>2 DEF Exploration, Whole
<1> QED
  BY <1>1, <1>2, <1>3 DEF KeptSound

LEMMA NothingIs == KeptSound(NothingLeft) /\ NothingLeft.is = FALSE /\ ExpansionSound(NoExpansion)
                   /\ NoExpansion.is = FALSE /\ NoContext.is = FALSE
                   /\ "is" \in DOMAIN NoContext
                   /\ \A c : DOMAIN c = {} => CursorsIn(c)
BY DEF KeptSound, NothingLeft, ExpansionSound, NoExpansion, NoContext, CursorsIn

\* Coming back: the exploration as it was kept, or nothing.
LEMMA RestoreIs ==
  ASSUME NEW s, Is(s), s.epoch \in Nat, s.heard \in Nat, KeptSound(s.kept),
         NEW r, r = Restore(s)
  PROVE  /\ SceneSound(r) /\ r.mode # "accumulation" /\ r.left = s.left
         /\ s.kept.is => Exploration(r) = s.kept
<1> USE SceneNames
<1>1. CASE ~s.kept.is
  <2>1. PICK a : a = [s EXCEPT !.context = NoContext]
    OBVIOUS
  <2>2. But(s, a, {"context"})
    BY <2>1 DEF Is, But
  <2>3. Is(a) /\ a.epoch = s.epoch /\ a.heard = s.heard /\ a.left = s.left
    BY <2>2, ButIs DEF But
  <2>4. PICK e \in Nat : e = s.epoch + 1
    OBVIOUS
  <2>5. r = ResetSession(a, e) /\ ~(e < a.epoch)
    BY <1>1, <2>1, <2>3, <2>4 DEF Restore
  <2>6. /\ But(a, r, SceneFields \ {"heard", "closed", "setting", "left"})
        /\ Blank(r) /\ r.mode = "home" /\ r.context = NoContext /\ r.kept = NothingLeft
        /\ r.epoch = e /\ r.expanding = NoExpansion /\ DOMAIN r.cursors = {}
    <3>1. \/ r = a /\ e < a.epoch
          \/ /\ But(a, r, SceneFields \ {"heard", "closed", "setting", "left"})
             /\ Blank(r) /\ r.mode = "home" /\ r.context = NoContext /\ r.kept = NothingLeft
             /\ r.epoch = e /\ r.expanding = NoExpansion /\ DOMAIN r.cursors = {}
      BY <2>3, <2>5, ResetSessionIs
    <3> QED
      BY <2>5, <3>1
  <2>7. r.heard = a.heard /\ r.left = a.left /\ Is(r)
    BY <2>3, <2>6 DEF But, Is
  <2> QED
    BY <1>1, <2>3, <2>6, <2>7, NothingIs DEF SceneSound, Fed, Waiting, Blank
<1>2. CASE s.kept.is
  <2>1. PICK k : k = s.kept
    OBVIOUS
  <2>2. Whole(k) /\ k.epoch \in Nat /\ CursorsIn(k.cursors)
    BY <1>2, <2>1 DEF KeptSound
  <2>3. PICK a : a = ResetKernel(s, FALSE)
    OBVIOUS
  <2>4. But(s, a, {"timer", "acc", "cache", "unsettled"}) /\ Blank(a)
    BY <2>3, ResetKernelIs
  <2>5. Is(a)
    BY <2>4, ButIs
  <2>6. PICK mode \in {"exploration", "home"} :
          mode = IF k.is /\ k.source # 0 THEN "exploration" ELSE "home"
    OBVIOUS
  <2>7. PICK e : e = EnterMode(a, mode)
    OBVIOUS
  <2>8. But(a, e, {"mode", "locked"}) /\ e.mode = mode
    BY <2>5, <2>7, EnterModeIs
  <2>9. Is(e)
    BY <2>5, <2>8, ButIs
  <2>10. PICK f : f = [e EXCEPT !.context = NoContext, !.kept = NothingLeft,
                 !.source = k.source, !.place = k.place, !.shown = k.shown, !.epoch = k.epoch,
                 !.locked = k.locked, !.cursors = k.cursors, !.expanded = k.expanded]
    OBVIOUS
  <2>11. /\ But(e, f, {"context", "kept", "source", "place", "shown", "epoch", "locked", "cursors", "expanded"})
         /\ f.context = NoContext /\ f.kept = NothingLeft /\ f.source = k.source /\ f.place = k.place
         /\ f.shown = k.shown /\ f.epoch = k.epoch /\ f.locked = k.locked /\ f.cursors = k.cursors
         /\ f.expanded = k.expanded
    <3> HIDE DEF NoContext, NothingLeft
    <3> QED
      BY <2>9, <2>10 DEF Is, But
  <2>12. Is(f)
    BY <2>9, <2>11, ButIs
  <2>13. r = AbortExpansion(f)
    BY <1>2, <2>1, <2>3, <2>6, <2>7, <2>10 DEF Restore
  <2>14. But(f, r, {"expanding"}) /\ r.expanding = NoExpansion
    BY <2>12, <2>13, AbortIs
  <2>15. /\ r.context = NoContext /\ r.kept = NothingLeft /\ r.source = k.source /\ r.place = k.place
         /\ r.shown = k.shown /\ r.epoch = k.epoch /\ r.locked = k.locked /\ r.cursors = k.cursors
         /\ r.expanded = k.expanded
    BY <2>11, <2>14 DEF But
  <2>19. Is(r)
    BY <2>12, <2>14, ButIs
  <2>16. r.mode = mode /\ r.acc = a.acc /\ r.unsettled = a.unsettled /\ r.heard = s.heard /\ r.left = s.left
    BY <2>4, <2>8, <2>11, <2>14 DEF But
  <2>17. Exploration(r) = k
    BY <2>2, <2>15 DEF Exploration, Whole
  <2>18. SceneSound(r)
    BY <2>2, <2>4, <2>14, <2>15, <2>16, <2>19, NothingIs DEF SceneSound, Fed, Waiting, Blank
  <2> QED
    BY <2>1, <2>6, <2>16, <2>17, <2>18
<1> QED
  BY <1>1, <1>2

\* Evidence entering an open scene.
LEMMA ActivationIs ==
  ASSUME NEW s, Is(s), Fed(s), s.mode = "accumulation", NEW bundles, Listed(bundles),
         NEW r, r = AppendActivation(s, bundles)
  PROVE  But(s, r, {"cache", "acc", "locked", "unsettled", "shown", "timer"}) /\ Fed(r)
<1> USE SceneNames
<1>1. PICK cache : cache = CacheAdmit(s.cache, SettingNow(s).cache, bundles)
  OBVIOUS
<1>2. PICK acc : acc = AppendEvidence(s.acc, s.cache, cache, bundles)
  OBVIOUS
<1>3. /\ KernelSound(acc) /\ (acc.pending # <<>> => acc.window.moving)
      /\ Unseen(s.acc, bundles) = <<>> =>
           /\ s.acc.window.moving => acc.window.moving /\ acc.window.revision = s.acc.window.revision
           /\ s.acc.pending = <<>> => acc.pending = <<>>
           /\ UpdatedIn(s.cache, bundles) = {} /\ (s.acc.window.moving \/ s.acc.pending = <<>>)
                 => acc.window = s.acc.window
  BY <1>2, AppendIs DEF Fed
<1>4. PICK new \in BOOLEAN : new <=> Unseen(s.acc, bundles) # <<>>
  OBVIOUS
<1>5. PICK more \in BOOLEAN : more <=> UpdatedIn(s.cache, bundles) # {}
  OBVIOUS
<1>6. PICK un \in BOOLEAN : un <=> s.unsettled /\ ~(new /\ acc.window.moving)
  OBVIOUS
<1>7. acc.window.moving \in BOOLEAN /\ s.unsettled \in BOOLEAN /\ s.acc.window.moving \in BOOLEAN
  BY <1>3 DEF KernelSound, WindowSound, Fed
<1>8. PICK s1 : s1 = [s EXCEPT !.cache = cache, !.acc = acc, !.mode = "accumulation",
                           !.locked = IF new THEN 0 ELSE @,
                           !.unsettled = @ /\ ~(new /\ acc.window.moving)]
  OBVIOUS
<1>9. /\ But(s, s1, {"cache", "acc", "locked", "unsettled"}) /\ s1.acc = acc
  BY <1>8 DEF Is, But
<1>10. s1.unsettled = (s.unsettled /\ ~(new /\ acc.window.moving))
  BY <1>8 DEF Is
<1>11. s1.unsettled = un
  BY <1>6, <1>7, <1>10, Zenon
<1>12. PICK s2 : s2 = IF new \/ more THEN CommitProjection(s1) ELSE s1
  OBVIOUS
<1>13. /\ But(s1, s2, {"shown"})
       /\ s2.shown = IF new \/ more THEN Resident(acc.window) ELSE s1.shown
  BY <1>9, <1>12 DEF CommitProjection, But
<1>14. r = IF new /\ acc.window.moving THEN ScheduleSettle(s2) ELSE s2
  BY <1>1, <1>2, <1>4, <1>5, <1>8, <1>12 DEF AppendActivation
<1>15. s2.acc = acc /\ s2.timer = s.timer
  BY <1>9, <1>13 DEF But
<1>16. /\ But(s2, r, {"timer"})
       /\ r.timer = IF new /\ acc.window.moving THEN acc.window.revision ELSE s.timer
  BY <1>13, <1>14, <1>15 DEF ScheduleSettle, But
<1>17. But(s, r, {"cache", "acc", "locked", "unsettled", "shown", "timer"})
  BY <1>9, <1>13, <1>16 DEF But
<1>18. r.acc = acc /\ r.unsettled = un /\ r.shown = IF new \/ more THEN Resident(acc.window) ELSE s.shown
  BY <1>9, <1>11, <1>13, <1>16 DEF But
<1>19. Waiting(r)
  BY <1>3, <1>4, <1>6, <1>7, <1>16, <1>18 DEF Fed, Waiting
<1>20. r.shown = Resident(r.acc.window) \/ r.unsettled
  <2>1. CASE new \/ more
    BY <2>1, <1>18
  <2>2. CASE ~(new \/ more) /\ (s.acc.window.moving \/ s.acc.pending = <<>>)
    <3>1. acc.window = s.acc.window /\ un = s.unsettled /\ r.shown = s.shown
      BY <2>2, <1>3, <1>4, <1>5, <1>6, <1>7, <1>18
    <3> QED
      BY <3>1, <1>18 DEF Fed
  <2>3. CASE ~(new \/ more) /\ ~(s.acc.window.moving \/ s.acc.pending = <<>>)
    <3>1. s.unsettled
      BY <2>3 DEF Fed, Waiting
    <3> QED
      BY <3>1, <2>3, <1>6, <1>18
  <2> QED
    BY <2>1, <2>2, <2>3
<1> QED
  BY <1>3, <1>17, <1>18, <1>19, <1>20 DEF Fed

\* What a step may do to an exploration that was left.
Follows(s, t) ==
  /\ t.left = s.left
  /\ t.mode = "accumulation" /\ s.mode = "exploration" =>
        t.context.is /\ t.kept.is /\ t.kept \in Kin(Exploration(s))
  /\ t.mode = "accumulation" /\ s.context.is /\ s.kept.is =>
        t.context.is /\ t.kept.is /\ t.kept \in Kin(s.kept)

\* An open scene that holds what was kept.
Opened(s, t) ==
  /\ Is(t) /\ t.epoch \in Nat /\ t.heard \in Nat /\ Fed(t) /\ t.mode = "accumulation"
  /\ KeptSound(t.kept) /\ CursorsIn(t.cursors) /\ ExpansionSound(t.expanding)
  /\ "is" \in DOMAIN t.context /\ Follows(s, t)

LEMMA OpenedIs ==
  ASSUME NEW s, NEW t, Opened(s, t)
  PROVE  SceneSound(t) /\ Follows(s, t)
BY DEF Opened, SceneSound

LEMMA OpenedButFor ==
  ASSUME NEW s, NEW t, Opened(s, t), NEW r,
         But(t, r, {"cache", "acc", "locked", "unsettled", "shown", "timer", "expanded", "cursors"}),
         CursorsIn(r.cursors), Fed(r)
  PROVE  Opened(s, r)
<1> USE SceneNames
<1>1. /\ Is(r) /\ r.epoch = t.epoch /\ r.heard = t.heard /\ r.mode = t.mode /\ r.kept = t.kept
      /\ r.expanding = t.expanding /\ r.context = t.context /\ r.left = t.left
  BY ButIs DEF Opened, But, Is
<1> QED
  BY <1>1 DEF Opened, Follows

\* A context scene that is prepared keeps the exploration it leaves.
LEMMA PrepareOpens ==
  ASSUME NEW s, SceneSound(s), NEW t, Is(t), t.heard \in Nat, t.left = s.left, NEW epoch \in Nat,
         KeptSound(t.kept), s.mode = "exploration" => t.kept.is /\ t.kept \in Kin(Exploration(s)),
         s.mode # "exploration" /\ s.kept.is => t.kept.is /\ t.kept \in Kin(s.kept),
         NEW r, r = PrepareContextScene(t, epoch)
  PROVE  Opened(s, r)
<1> USE SceneNames
<1>0. But(t, r, SceneFields \ {"heard", "kept", "setting", "left"})
  BY PrepareIs
<1>1. /\ Blank(r) /\ r.mode = "accumulation" /\ r.context.is /\ "is" \in DOMAIN r.context
      /\ r.shown = <<>> /\ r.epoch = epoch /\ r.expanding = NoExpansion /\ DOMAIN r.cursors = {}
  <2>1. Blank(r) /\ r.mode = "accumulation" /\ r.shown = <<>> /\ r.epoch = epoch
    BY PrepareIs
  <2>2. r.context.is /\ "is" \in DOMAIN r.context
    BY PrepareIs
  <2>3. r.expanding = NoExpansion /\ DOMAIN r.cursors = {}
    BY PrepareIs
  <2> QED
    BY <2>1, <2>2, <2>3
<1>2. Is(r) /\ r.heard = t.heard /\ r.kept = t.kept /\ r.left = t.left
  BY <1>0 DEF But, Is
<1>3. Fed(r)
  BY <1>1 DEF Fed, Waiting, Blank
<1>4. s.context.is => s.mode # "exploration"
  BY DEF SceneSound
<1> QED
  BY <1>1, <1>2, <1>3, <1>4, NothingIs DEF Opened, Follows

LEMMA ActivateIs ==
  ASSUME NEW s, SceneSound(s), NEW b, b.epoch \in Nat, NEW origin, NEW bundles, Listed(bundles),
         NEW r, r = OnActivate(s, b, origin, bundles)
  PROVE  SceneSound(r) /\ Follows(s, r)
<1> USE SceneNames
<1>0. /\ Is(s) /\ s.epoch \in Nat /\ s.heard \in Nat /\ Fed(s)
      /\ s.mode \in {"home", "exploration", "accumulation"}
      /\ "is" \in DOMAIN s.context /\ (s.context.is => s.mode = "accumulation")
      /\ s.mode = "exploration" => ~s.kept.is
      /\ KeptSound(s.kept) /\ CursorsIn(s.cursors)
      /\ ExpansionSound(s.expanding) /\ (s.expanding.is => s.mode # "home")
  BY DEF SceneSound
<1>1. PICK h : h = [s EXCEPT !.heard = b.epoch]
  OBVIOUS
<1>2. But(s, h, {"heard"}) /\ h.heard = b.epoch /\ Is(h)
  BY <1>0, <1>1 DEF But, Is
<1>3. /\ h.epoch = s.epoch /\ h.mode = s.mode /\ h.kept = s.kept /\ h.context = s.context
      /\ h.cursors = s.cursors /\ h.expanding = s.expanding /\ h.left = s.left /\ h.acc = s.acc
      /\ h.timer = s.timer /\ h.unsettled = s.unsettled /\ h.shown = s.shown
      /\ Exploration(h) = Exploration(s)
  BY <1>2 DEF But, Exploration
<1>4. Fed(h)
  BY <1>0, <1>3 DEF Fed, Waiting
<1>5. SceneSound(h) /\ Follows(s, h)
  BY <1>0, <1>2, <1>3, <1>4, KinIs DEF SceneSound, Follows
<1>6. SceneSound(s) /\ Follows(s, s)
  BY <1>0, KinIs DEF Follows
<1>7. PICK k : k = IF s.mode = "exploration" THEN Retain(h) ELSE h
  OBVIOUS
<1>8. /\ But(h, k, {"kept", "expanding"})
      /\ s.mode = "exploration" => k.kept = Exploration(s)
      /\ s.mode # "exploration" => k = h
      /\ k.expanding = h.expanding \/ k.expanding = NoExpansion
  <2>1. CASE s.mode = "exploration"
    <3>1. k = Retain(h) /\ ~h.kept.is
      BY <1>0, <1>3, <1>7, <2>1
    <3> QED
      BY <1>2, <1>3, <2>1, <3>1, RetainIs
  <2>2. CASE s.mode # "exploration"
    BY <1>2, <1>7, <2>2 DEF But, Is
  <2> QED
    BY <2>1, <2>2
<1>9. /\ Is(k) /\ k.heard = b.epoch /\ k.left = s.left /\ k.mode = s.mode /\ k.context = s.context
      /\ k.epoch = s.epoch /\ k.cursors = s.cursors
  BY <1>2, <1>3, <1>8, ButIs DEF But
<1>10. KeptSound(Exploration(s)) /\ Exploration(s).is = TRUE
  BY <1>0, KeptIs
<1>11. KeptSound(k.kept) /\ (s.mode = "exploration" => k.kept.is)
  BY <1>0, <1>3, <1>8, <1>10
<1>12. PICK u : u = IF origin = "assistant"
                    THEN [k EXCEPT !.locked = 0, !.kept = IF @.is THEN [@ EXCEPT !.locked = 0] ELSE @]
                    ELSE k
  OBVIOUS
<1>13. /\ But(k, u, {"locked", "kept"})
       /\ u.kept = k.kept \/ (k.kept.is /\ u.kept = Unlocked(k.kept))
  BY <1>9, <1>12 DEF But, Is, Unlocked
<1>14. /\ KeptSound(u.kept) /\ (k.kept.is => u.kept.is /\ u.kept \in Kin(k.kept))
  BY <1>11, <1>13, KinIs
<1>15. /\ Is(u) /\ u.heard = b.epoch /\ u.left = s.left /\ u.mode = s.mode /\ u.context = s.context
       /\ u.epoch = s.epoch /\ u.cursors = s.cursors /\ u.expanding = k.expanding
  BY <1>9, <1>13, ButIs DEF But
<1>16. PICK i : i = IF u.context.is THEN u ELSE PrepareContextScene(u, b.epoch)
  OBVIOUS
<1>17. Opened(s, i)
  <2>1. CASE u.context.is
    <3>1. i = u /\ s.mode = "accumulation" /\ k = h
      BY <1>0, <1>8, <1>15, <1>16, <2>1
    <3>2. u.acc = s.acc /\ u.timer = s.timer /\ u.unsettled = s.unsettled /\ u.shown = s.shown
      BY <1>3, <1>13, <3>1 DEF But
    <3>3. Fed(u)
      BY <1>0, <1>15, <3>2 DEF Fed, Waiting
    <3>4. Follows(s, u)
      BY <1>3, <1>14, <1>15, <2>1, <3>1 DEF Follows
    <3> QED
      BY <1>0, <1>3, <1>14, <1>15, <2>1, <3>1, <3>3, <3>4 DEF Opened
  <2>2. CASE ~u.context.is
    <3>1. i = PrepareContextScene(u, b.epoch)
      BY <1>16, <2>2
    <3>2. s.mode = "exploration" => u.kept.is /\ u.kept \in Kin(Exploration(s))
      BY <1>8, <1>11, <1>14
    <3>3. s.mode # "exploration" /\ s.kept.is => u.kept.is /\ u.kept \in Kin(s.kept)
      BY <1>3, <1>8, <1>14
    <3>4. u.heard \in Nat
      BY <1>15
    <3>5. PICK e \in Nat : e = b.epoch
      OBVIOUS
    <3> QED
      BY <1>14, <1>15, <3>1, <3>2, <3>3, <3>4, <3>5, PrepareOpens, Zenon
  <2> QED
    BY <2>1, <2>2
<1>18. PICK c : c = [i EXCEPT !.context.count = Min({@ + 1, 2})]
  OBVIOUS
<1>19. But(i, c, {"context"}) /\ c.context.is = i.context.is /\ "is" \in DOMAIN c.context /\ Is(c)
  <2>1. Is(i) /\ "is" \in DOMAIN i.context
    BY <1>17 DEF Opened
  <2>2. PICK x : x = [i.context EXCEPT !.count = Min({@ + 1, 2})]
    OBVIOUS
  <2>3. x.is = i.context.is /\ "is" \in DOMAIN x
    BY <2>1, <2>2
  <2>4. But(i, c, {"context"}) /\ c.context = x
    BY <2>1, <2>2, <1>18 DEF But, Is
  <2> QED
    BY <2>1, <2>3, <2>4, ButIs
<1>20. Opened(s, c)
  <2>1. /\ c.epoch = i.epoch /\ c.heard = i.heard /\ c.mode = i.mode /\ c.kept = i.kept
        /\ c.cursors = i.cursors /\ c.expanding = i.expanding /\ c.left = i.left
        /\ c.acc = i.acc /\ c.timer = i.timer /\ c.unsettled = i.unsettled /\ c.shown = i.shown
    BY <1>19 DEF But
  <2> QED
    BY <1>17, <1>19, <2>1 DEF Opened, Fed, Waiting, Follows
<1>21. PICK a : a = AppendActivation(c, bundles)
  OBVIOUS
<1>22. But(c, a, {"cache", "acc", "locked", "unsettled", "shown", "timer"}) /\ Fed(a)
  BY <1>20, <1>21, ActivationIs DEF Opened
<1>23. Opened(s, a)
  <2>1. But(c, a, {"cache", "acc", "locked", "unsettled", "shown", "timer", "expanded", "cursors"})
    BY <1>22 DEF But
  <2>2. CursorsIn(a.cursors)
    BY <1>20, <1>22 DEF Opened, But
  <2> QED
    BY <1>20, <1>22, <2>1, <2>2, OpenedButFor
<1>24. SceneSound(a) /\ Follows(s, a)
  BY <1>23, OpenedIs
<1>25. r = s \/ r = h \/ r = a
  <2>1. CASE b.epoch < s.heard
    BY <1>0, <2>1 DEF OnActivate
  <2>2. CASE b.epoch >= s.heard /\ s.closed /\ ~b.active /\ s.mode # "accumulation"
    BY <1>0, <1>1, <2>2 DEF OnActivate
  <2>3. CASE ~(b.epoch < s.heard) /\ ~(s.closed /\ ~b.active /\ s.mode # "accumulation")
    <3>1. ~(b.epoch >= s.heard /\ s.closed /\ ~b.active /\ s.mode # "accumulation")
      BY <2>3
    <3> DEFINE heard   == [s EXCEPT !.heard = b.epoch]
               kept    == IF s.mode = "exploration" THEN Retain(heard) ELSE heard
               unheld  == IF origin = "assistant"
                          THEN [kept EXCEPT !.locked = 0,
                                            !.kept = IF @.is THEN [@ EXCEPT !.locked = 0] ELSE @]
                          ELSE kept
               inside  == IF unheld.context.is THEN unheld ELSE PrepareContextScene(unheld, b.epoch)
               counted == [inside EXCEPT !.context.count = Min({@ + 1, 2})]
    <3>7. r = AppendActivation(counted, bundles)
      BY <2>3, <3>1 DEF OnActivate
    <3>2. heard = h
      BY <1>1
    <3>3. kept = k
      BY <1>7, <3>2
    <3>4. unheld = u
      BY <1>12, <3>3
    <3> HIDE DEF unheld
    <3>5. inside = i
      BY <1>16, <3>4
    <3> HIDE DEF inside
    <3>6. counted = c
      BY <1>18, <3>5
    <3> HIDE DEF counted
    <3> QED
      BY <1>21, <3>7, <3>6
  <2> QED
    BY <1>0, <2>1, <2>2, <2>3
<1> QED
  BY <1>5, <1>6, <1>24, <1>25

\* The heard epoch alone does nothing to the scene.
LEMMA HeardIs ==
  ASSUME NEW s, SceneSound(s), NEW n \in Nat, NEW h, h = [s EXCEPT !.heard = n]
  PROVE  /\ SceneSound(h) /\ Follows(s, h) /\ But(s, h, {"heard"}) /\ h.heard = n /\ Is(h)
         /\ Exploration(h) = Exploration(s) /\ h.kept = s.kept /\ h.left = s.left /\ h.mode = s.mode
         /\ h.context = s.context
<1> USE SceneNames
<1>1. But(s, h, {"heard"}) /\ h.heard = n /\ Is(h)
  BY DEF But, Is, SceneSound
<1>2. /\ h.epoch = s.epoch /\ h.mode = s.mode /\ h.kept = s.kept /\ h.context = s.context
      /\ h.cursors = s.cursors /\ h.expanding = s.expanding /\ h.left = s.left /\ h.acc = s.acc
      /\ h.timer = s.timer /\ h.unsettled = s.unsettled /\ h.shown = s.shown
      /\ Exploration(h) = Exploration(s)
  BY <1>1 DEF But, Exploration
<1>3. Fed(h)
  BY <1>2 DEF Fed, Waiting, SceneSound
<1> QED
  BY <1>1, <1>2, <1>3, KinIs DEF SceneSound, Follows

\* A home, or the scene as it was.
LEMMA ResetSessionSound ==
  ASSUME NEW s, Is(s), NEW epoch \in Nat, s.heard \in Nat, NEW r, r = ResetSession(s, epoch)
  PROVE  \/ r = s
         \/ SceneSound(r) /\ r.mode = "home" /\ r.left = s.left
<1> USE SceneNames
<1>1. CASE r = s
  BY <1>1
<1>2. CASE r # s
  <2>1. /\ But(s, r, SceneFields \ {"heard", "closed", "setting", "left"})
        /\ Blank(r) /\ r.mode = "home" /\ r.context = NoContext /\ r.kept = NothingLeft
        /\ r.epoch = epoch /\ r.expanding = NoExpansion /\ DOMAIN r.cursors = {}
    <3>1. \/ r = s /\ epoch < s.epoch
          \/ /\ But(s, r, SceneFields \ {"heard", "closed", "setting", "left"})
             /\ Blank(r) /\ r.mode = "home" /\ r.context = NoContext /\ r.kept = NothingLeft
             /\ r.epoch = epoch /\ r.expanding = NoExpansion /\ DOMAIN r.cursors = {}
      BY ResetSessionIs
    <3> QED
      BY <1>2, <3>1
  <2>2. r.heard = s.heard /\ r.left = s.left /\ Is(r)
    BY <2>1 DEF But, Is
  <2>3. SceneSound(r)
    BY <2>1, <2>2, NothingIs DEF SceneSound, Fed, Waiting, Blank
  <2> QED
    BY <2>1, <2>2, <2>3
<1> QED
  BY <1>1, <1>2

LEMMA OnResetIs ==
  ASSUME NEW s, SceneSound(s), NEW b, b.epoch \in Nat, NEW bySearch \in BOOLEAN,
         NEW r, r = OnReset(s, b, bySearch)
  PROVE  SceneSound(r) /\ r.left = s.left /\ (bySearch => Follows(s, r))
         /\ (bySearch /\ r.mode = "exploration" => Exploration(r) = Exploration(s) /\ s.mode = "exploration")
         /\ (bySearch /\ (s.mode = "exploration" \/ s.context.is) => r.mode # "home")
<1> USE SceneNames
<1>0. /\ Is(s) /\ s.epoch \in Nat /\ s.heard \in Nat /\ Fed(s)
      /\ s.mode \in {"home", "exploration", "accumulation"}
      /\ "is" \in DOMAIN s.context /\ (s.context.is => s.mode = "accumulation")
      /\ s.mode = "exploration" => ~s.kept.is
      /\ KeptSound(s.kept) /\ CursorsIn(s.cursors)
      /\ ExpansionSound(s.expanding) /\ (s.expanding.is => s.mode # "home")
  BY DEF SceneSound
<1>1. PICK n \in Nat : n = b.epoch
  OBVIOUS
<1>2. PICK h : h = [s EXCEPT !.heard = n]
  OBVIOUS
<1>3. /\ SceneSound(h) /\ Follows(s, h) /\ But(s, h, {"heard"}) /\ h.heard = n /\ Is(h)
      /\ Exploration(h) = Exploration(s) /\ h.kept = s.kept /\ h.left = s.left /\ h.mode = s.mode
      /\ h.context = s.context
  BY <1>2, HeardIs
<1>4. CASE n < s.heard
  <2>1. r = s
    BY <1>0, <1>1, <1>4 DEF OnReset
  <2> QED
    BY <2>1, KinIs, <1>0 DEF Follows
<1>5. CASE n >= s.heard /\ bySearch /\ (b.active \/ s.context.is)
  <2>1. PICK t : t = Retain(h)
    OBVIOUS
  <2>2. r = PrepareContextScene(t, n)
    BY <1>0, <1>1, <1>2, <1>5, <2>1 DEF OnReset
  <2>3. /\ But(h, t, {"kept", "expanding"})
        /\ t.kept = IF h.kept.is THEN h.kept ELSE Exploration(h)
    BY <1>3, <2>1, RetainIs
  <2>4. Is(t) /\ t.heard = n /\ t.left = s.left
    BY <1>3, <2>3, ButIs DEF But
  <2>5. KeptSound(Exploration(s)) /\ Exploration(s).is = TRUE
    BY <1>0, KeptIs
  <2>6. KeptSound(t.kept)
    BY <1>0, <1>3, <2>3, <2>5
  <2>7. s.mode = "exploration" => t.kept.is /\ t.kept \in Kin(Exploration(s))
    BY <1>0, <1>3, <2>3, <2>5, KinIs
  <2>8. s.mode # "exploration" /\ s.kept.is => t.kept.is /\ t.kept \in Kin(s.kept)
    BY <1>3, <2>3, KinIs
  <2>9. Opened(s, r)
    BY <2>2, <2>4, <2>6, <2>7, <2>8, PrepareOpens, Zenon
  <2> QED
    BY <2>9, OpenedIs DEF Opened, Follows
<1>6. CASE n >= s.heard /\ bySearch /\ ~(b.active \/ s.context.is) /\ s.mode = "exploration"
  <2>1. r = h
    BY <1>0, <1>1, <1>2, <1>6 DEF OnReset
  <2> QED
    BY <2>1, <1>3, <1>6
<1>7. CASE n >= s.heard /\ (~bySearch \/ (~(b.active \/ s.context.is) /\ s.mode # "exploration"))
  <2>1. PICK t : t = [h EXCEPT !.kept = NothingLeft, !.context = NoContext]
    OBVIOUS
  <2>2. But(h, t, {"kept", "context"}) /\ t.kept = NothingLeft /\ t.context = NoContext
    <3> HIDE DEF NothingLeft, NoContext
    <3> QED
      BY <1>3, <2>1 DEF But, Is
  <2>31. Is(t)
    BY <1>3, <2>2, ButIs
  <2>3. /\ t.heard = n /\ t.left = s.left /\ t.epoch = s.epoch /\ t.mode = s.mode
        /\ t.cursors = s.cursors /\ t.expanding = s.expanding /\ t.acc = s.acc
        /\ t.timer = s.timer /\ t.unsettled = s.unsettled /\ t.shown = s.shown
    BY <1>3, <2>2 DEF But
  <2>4. Fed(t)
    BY <1>0, <2>3 DEF Fed, Waiting
  <2>5. SceneSound(t)
    BY <1>0, <2>2, <2>3, <2>31, <2>4, NothingIs DEF SceneSound
  <2>6. r = ResetSession(t, n)
    <3>1. ~(n < s.heard)
      BY <1>0, <1>7
    <3>2. OnReset(s, b, bySearch) =
             CASE n < s.heard -> s
               [] n >= s.heard /\ bySearch /\ (b.active \/ s.context.is) ->
                     PrepareContextScene(Retain(h), n)
               [] n >= s.heard /\ bySearch /\ ~(b.active \/ s.context.is)
                     /\ s.mode = "exploration" -> h
               [] OTHER -> ResetSession(t, n)
      BY <1>1, <1>2, <2>1 DEF OnReset
    <3> QED
      BY <1>7, <3>1, <3>2
  <2>7. r = t \/ (SceneSound(r) /\ r.mode = "home" /\ r.left = t.left)
    <3>1. t.heard \in Nat
      BY <2>3
    <3> QED
      BY <2>31, <2>6, <3>1, ResetSessionSound, Zenon
  <2>8. SceneSound(r) /\ r.left = s.left /\ (r.mode = "home" \/ r.mode = s.mode)
    BY <2>3, <2>5, <2>7
  <2>9. bySearch => ~s.context.is /\ s.mode # "exploration"
    BY <1>7
  <2> QED
    BY <2>8, <2>9 DEF Follows
<1>8. n < s.heard \/ n >= s.heard
  BY <1>0
<1>9. \/ n < s.heard
      \/ n >= s.heard /\ bySearch /\ (b.active \/ s.context.is)
      \/ n >= s.heard /\ bySearch /\ ~(b.active \/ s.context.is) /\ s.mode = "exploration"
      \/ n >= s.heard /\ (~bySearch \/ (~(b.active \/ s.context.is) /\ s.mode # "exploration"))
  BY <1>8, Zenon
<1> QED
  BY <1>4, <1>5, <1>6, <1>7, <1>9, Zenon

LEMMA OnResumeIs ==
  ASSUME NEW s, Is(s), s.epoch \in Nat, s.heard \in Nat, KeptSound(s.kept), NEW r, r = OnResume(s)
  PROVE  /\ SceneSound(r) /\ r.mode # "accumulation" /\ r.left = s.left
         /\ s.kept.is => Exploration(r) = s.kept
<1>1. PICK t : t = [s EXCEPT !.closed = TRUE]
  OBVIOUS
<1>2. But(s, t, {"closed"})
  BY <1>1, SceneNames DEF But, Is
<1>3. Is(t) /\ t.epoch = s.epoch /\ t.heard = s.heard /\ t.kept = s.kept /\ t.left = s.left
  BY <1>2, ButIs, SceneNames DEF But
<1>4. r = Restore(t)
  BY <1>1 DEF OnResume
<1> QED
  BY <1>3, <1>4, RestoreIs

\* Fields nothing above depends on.
Idle == {"locked", "heard", "closed", "place", "source", "cache", "left"}

LEMMA IdleChange ==
  ASSUME NEW s, SceneSound(s), NEW t, But(s, t, Idle), t.heard \in Nat
  PROVE  SceneSound(t)
<1> USE SceneNames
<1>1. /\ t.epoch = s.epoch /\ t.mode = s.mode /\ t.kept = s.kept /\ t.context = s.context
      /\ t.cursors = s.cursors /\ t.expanding = s.expanding /\ t.acc = s.acc
      /\ t.timer = s.timer /\ t.unsettled = s.unsettled /\ t.shown = s.shown
      /\ t.setting = s.setting
  BY DEF But, Idle
<1>2. Is(t)
  BY <1>1 DEF But, Is, SceneSound
<1>3. Fed(t)
  BY <1>1 DEF Fed, Waiting, SceneSound
<1> QED
  BY <1>1, <1>2, <1>3 DEF SceneSound

LeftSound(s) ==
  s.left.is => s.mode = "accumulation" /\ s.context.is /\ s.kept.is /\ s.kept \in Kin(s.left)

\* What the observer of departures writes.
LEMMA WitnessedIs ==
  ASSUME NEW s, SceneSound(s), LeftSound(s), NEW t, SceneSound(t), Follows(s, t),
         NEW r, r = Witnessed(s, t)
  PROVE  SceneSound(r) /\ LeftSound(r)
<1> USE SceneNames
<1>1. PICK l : l = r.left
  OBVIOUS
<1>2. But(t, r, {"left"})
  BY DEF Witnessed, But, SceneSound, Is
<1>3. l = CASE s.mode = "exploration" /\ t.mode = "accumulation" -> Exploration(s)
            [] t.mode # "accumulation"                           -> NothingLeft
            [] OTHER                                             -> t.left
  BY <1>1 DEF Witnessed, SceneSound, Is
<1>4. /\ r.mode = t.mode /\ r.context = t.context /\ r.kept = t.kept /\ r.heard = t.heard
      /\ But(t, r, Idle)
  BY <1>2 DEF But, Idle
<1>5. SceneSound(r)
  BY <1>4, IdleChange DEF SceneSound
<1>6. LeftSound(r)
  <2>1. CASE t.mode # "accumulation"
    <3>1. l = NothingLeft
      BY <1>3, <2>1
    <3> QED
      BY <1>1, <3>1, NothingIs DEF LeftSound
  <2>2. CASE t.mode = "accumulation" /\ s.mode = "exploration"
    <3>1. l = Exploration(s)
      BY <1>3, <2>2
    <3> QED
      BY <1>1, <1>4, <2>2, <3>1 DEF LeftSound, Follows
  <2>3. CASE t.mode = "accumulation" /\ s.mode # "exploration"
    <3>1. l = s.left
      BY <1>3, <2>3 DEF Follows
    <3> SUFFICES ASSUME s.left.is
                 PROVE  r.mode = "accumulation" /\ r.context.is /\ r.kept.is /\ r.kept \in Kin(l)
      BY <1>1, <3>1 DEF LeftSound
    <3>2. s.context.is /\ s.kept.is /\ s.kept \in Kin(s.left)
      BY DEF LeftSound
    <3>3. t.context.is /\ t.kept.is /\ t.kept \in Kin(s.kept)
      BY <2>3, <3>2 DEF Follows
    <3>4. t.kept \in Kin(s.left)
      BY <3>2, <3>3, KinIs
    <3> QED
      BY <1>4, <2>3, <3>1, <3>3, <3>4
  <2> QED
    BY <2>1, <2>2, <2>3
<1> QED
  BY <1>5, <1>6

LEMMA FollowsTwice ==
  ASSUME NEW s, SceneSound(s), NEW m, SceneSound(m), Follows(s, m), NEW t, Follows(m, t),
         m.mode = "exploration" => Exploration(m) = Exploration(s) /\ s.mode = "exploration",
         s.mode = "exploration" \/ s.context.is => m.mode # "home"
  PROVE  Follows(s, t)
<1>1. /\ m.mode \in {"home", "exploration", "accumulation"}
      /\ s.context.is => s.mode = "accumulation"
  BY DEF SceneSound
<1>2. ASSUME t.mode = "accumulation", s.mode = "exploration"
      PROVE  t.context.is /\ t.kept.is /\ t.kept \in Kin(Exploration(s))
  <2>1. CASE m.mode = "exploration"
    BY <1>2, <2>1 DEF Follows
  <2>2. CASE m.mode = "accumulation"
    <3>1. m.context.is /\ m.kept.is /\ m.kept \in Kin(Exploration(s))
      BY <1>2, <2>2 DEF Follows
    <3>2. t.context.is /\ t.kept.is /\ t.kept \in Kin(m.kept)
      BY <1>2, <3>1 DEF Follows
    <3> QED
      BY <3>1, <3>2, KinIs
  <2> QED
    BY <1>1, <1>2, <2>1, <2>2
<1>3. ASSUME t.mode = "accumulation", s.context.is, s.kept.is
      PROVE  t.context.is /\ t.kept.is /\ t.kept \in Kin(s.kept)
  <2>1. m.mode = "accumulation"
    BY <1>1, <1>3
  <2>2. m.context.is /\ m.kept.is /\ m.kept \in Kin(s.kept)
    BY <1>3, <2>1 DEF Follows
  <2>3. t.context.is /\ t.kept.is /\ t.kept \in Kin(m.kept)
    BY <1>3, <2>2 DEF Follows
  <2> QED
    BY <2>2, <2>3, KinIs
<1> QED
  BY <1>2, <1>3 DEF Follows

LEMMA IdleFollows ==
  ASSUME NEW s, SceneSound(s), NEW t, But(s, t, Idle \ {"left"})
  PROVE  Follows(s, t)
<1>1. t.left = s.left /\ t.mode = s.mode /\ t.kept = s.kept /\ t.context = s.context
  BY SceneNames DEF But, Idle
<1> QED
  BY <1>1, KinIs DEF Follows, SceneSound

LEMMA AbortSound ==
  ASSUME NEW s, SceneSound(s), NEW t, t = AbortExpansion(s)
  PROVE  /\ SceneSound(t) /\ Follows(s, t) /\ But(s, t, {"expanding"}) /\ t.expanding = NoExpansion
<1> USE SceneNames
<1>1. But(s, t, {"expanding"}) /\ t.expanding = NoExpansion
  BY AbortIs DEF SceneSound
<1>2. /\ t.epoch = s.epoch /\ t.heard = s.heard /\ t.mode = s.mode /\ t.kept = s.kept /\ t.context = s.context
      /\ t.cursors = s.cursors /\ t.acc = s.acc /\ t.left = s.left
      /\ t.timer = s.timer /\ t.unsettled = s.unsettled /\ t.shown = s.shown
  BY <1>1 DEF But
<1>3. Is(t)
  BY <1>1, ButIs DEF SceneSound
<1>4. Fed(t)
  BY <1>2 DEF Fed, Waiting, SceneSound
<1> QED
  BY <1>1, <1>2, <1>3, <1>4, NothingIs, KinIs DEF SceneSound, Follows

BusSound(b) == DOMAIN b = {"epoch", "active"} /\ b.epoch \in Nat
SceneInv == SceneSound(scene) /\ LeftSound(scene) /\ BusSound(bus)

LEMMA DispatchedIs ==
  ASSUME NEW b, BusSound(b)
  PROVE  BusSound(Dispatched(b)) /\ \A v : BusSound([b EXCEPT !.active = v])
BY DEF BusSound, Dispatched

LEMMA BecomesIs ==
  ASSUME SceneInv, NEW t, SceneSound(t), Follows(scene, t), SceneBecomes(t), BusSound(bus')
  PROVE  SceneInv'
<1>1. PICK s : s = scene
  OBVIOUS
<1>2. PICK r : r = Witnessed(s, t)
  OBVIOUS
<1>3. SceneSound(r) /\ LeftSound(r)
  BY <1>1, <1>2, WitnessedIs DEF SceneInv
<1>4. r = scene'
  BY <1>1, <1>2 DEF SceneBecomes
<1>5. SceneSound(scene)' /\ LeftSound(scene)'
  BY <1>3, <1>4 DEF SceneSound, LeftSound, Is, Fed, Waiting
<1> QED
  BY <1>5 DEF SceneInv, BusSound

LEMMA OpenSourceStep ==
  ASSUME SceneInv, NEW source, OpenSource(source)
  PROVE  SceneInv'
<1> USE SceneNames
<1>1. PICK s : s = scene
  OBVIOUS
<1>2. SceneSound(s) /\ BusSound(bus)
  BY <1>1 DEF SceneInv
<1>3. PICK a : a = [s EXCEPT !.kept = NothingLeft, !.context = NoContext]
  OBVIOUS
<1>4. But(s, a, {"kept", "context"}) /\ a.kept = NothingLeft
  <2> HIDE DEF NothingLeft, NoContext
  <2> QED
    BY <1>2, <1>3 DEF SceneSound, Is, But
<1>5. Is(a)
  BY <1>2, <1>4, ButIs DEF SceneSound
<1>6. PICK b : b = ResetKernel(a, TRUE)
  OBVIOUS
<1>7. But(a, b, {"timer", "acc", "cache", "unsettled"})
  BY <1>5, <1>6, ResetKernelIs
<1>8. Is(b)
  BY <1>5, <1>7, ButIs
<1>9. b.kept = NothingLeft /\ b.epoch = s.epoch /\ b.heard = s.heard /\ b.left = s.left
  BY <1>4, <1>7 DEF But
<1>10. PICK c : c = OnResume(b)
  OBVIOUS
<1>11. b.epoch \in Nat /\ b.heard \in Nat /\ KeptSound(b.kept)
  BY <1>2, <1>9, NothingIs DEF SceneSound
<1>12. SceneSound(c) /\ c.mode # "accumulation" /\ c.left = s.left
  BY <1>8, <1>9, <1>10, <1>11, OnResumeIs
<1>13. PICK d : d = EnterMode(c, "exploration")
  OBVIOUS
<1>14. But(c, d, {"mode", "locked"}) /\ d.mode = "exploration"
  BY <1>12, <1>13, EnterModeIs DEF SceneSound
<1>15. Is(d)
  BY <1>12, <1>14, ButIs DEF SceneSound
<1>16. PICK e : e = ForgetExpansions(d)
  OBVIOUS
<1>17. But(d, e, {"expanding", "cursors", "expanded"}) /\ e.expanding = NoExpansion /\ DOMAIN e.cursors = {}
  BY <1>15, <1>16, ForgetIs
<1>18. Is(e)
  BY <1>15, <1>17, ButIs
<1>19. /\ e.mode = "exploration" /\ e.epoch = c.epoch /\ e.heard = c.heard /\ e.context = c.context
       /\ e.acc = c.acc /\ e.timer = c.timer /\ e.unsettled = c.unsettled /\ e.left = s.left
  BY <1>12, <1>14, <1>17 DEF But
<1>20. PICK n \in Nat : n = Max({e.epoch, 1})
  <2>1. PICK x \in Int : x = e.epoch /\ x >= 0
    BY <1>12, <1>19 DEF SceneSound
  <2>2. {e.epoch, 1} = {1, x}
    BY <2>1
  <2>3. Max({1, x}) = IF x >= 1 THEN x ELSE 1
    BY Extremes
  <2> QED
    BY <2>1, <2>2, <2>3
<1>21. PICK t : t = [e EXCEPT !.source = source, !.place = 1, !.shown = BrowseScene[source][1],
                              !.epoch = Max({@, 1}), !.kept = NothingLeft]
  OBVIOUS
<1>22. But(e, t, {"source", "place", "shown", "epoch", "kept"}) /\ t.epoch = n /\ t.kept = NothingLeft
  <2> HIDE DEF NothingLeft
  <2> QED
    BY <1>18, <1>20, <1>21 DEF Is, But
<1>23. Is(t)
  BY <1>18, <1>22, ButIs
<1>24. /\ t.mode = "exploration" /\ t.heard = c.heard /\ t.context = c.context
       /\ t.acc = c.acc /\ t.timer = c.timer /\ t.unsettled = c.unsettled /\ t.left = s.left
       /\ t.expanding = NoExpansion /\ t.cursors = e.cursors
  BY <1>17, <1>19, <1>22 DEF But
<1>25. Fed(t)
  BY <1>12, <1>24 DEF SceneSound, Fed, Waiting
<1>26. SceneSound(t)
  BY <1>12, <1>17, <1>22, <1>23, <1>24, <1>25, NothingIs DEF SceneSound
<1>27. Follows(scene, t)
  BY <1>1, <1>24 DEF Follows
<1>28. SceneBecomes(t) /\ BusSound(bus')
  BY <1>1, <1>2, <1>3, <1>6, <1>10, <1>13, <1>16, <1>21, DispatchedIs DEF OpenSource
<1> QED
  BY <1>26, <1>27, <1>28, BecomesIs

LEMMA BrowseOnStep ==
  ASSUME SceneInv, NEW place, BrowseOn(place)
  PROVE  SceneInv'
<1> USE SceneNames
<1>1. PICK s : s = scene
  OBVIOUS
<1>2. SceneSound(s) /\ BusSound(bus) /\ s.mode = "exploration"
  BY <1>1 DEF SceneInv, BrowseOn
<1>3. PICK t : t = [s EXCEPT !.place = place, !.shown = BrowseScene[s.source][place], !.locked = 0]
  OBVIOUS
<1>4. But(s, t, {"place", "shown", "locked"})
  BY <1>2, <1>3 DEF SceneSound, Is, But
<1>5. Is(t)
  BY <1>2, <1>4, ButIs DEF SceneSound
<1>6. /\ t.epoch = s.epoch /\ t.heard = s.heard /\ t.mode = s.mode /\ t.kept = s.kept
      /\ t.context = s.context /\ t.cursors = s.cursors /\ t.acc = s.acc /\ t.left = s.left
      /\ t.timer = s.timer /\ t.unsettled = s.unsettled /\ t.expanding = s.expanding
  BY <1>4 DEF But
<1>7. Fed(t)
  BY <1>2, <1>6 DEF SceneSound, Fed, Waiting
<1>8. SceneSound(t) /\ Follows(s, t)
  BY <1>2, <1>5, <1>6, <1>7 DEF SceneSound, Follows
<1>9. SceneBecomes(t) /\ BusSound(bus')
  BY <1>1, <1>2, <1>3 DEF BrowseOn
<1> QED
  BY <1>1, <1>8, <1>9, BecomesIs

LEMMA LockNodeStep ==
  ASSUME SceneInv, NEW node, LockNode(node)
  PROVE  SceneInv'
<1>1. PICK s : s = scene
  OBVIOUS
<1>2. SceneSound(s) /\ BusSound(bus)
  BY <1>1 DEF SceneInv
<1>3. PICK t : t = [s EXCEPT !.locked = node]
  OBVIOUS
<1>4. But(s, t, {"locked"})
  BY <1>2, <1>3, SceneNames DEF SceneSound, Is, But
<1>5. But(s, t, Idle \ {"left"}) /\ But(s, t, Idle) /\ t.heard = s.heard
  BY <1>4, SceneNames DEF But, Idle
<1>6. SceneSound(t) /\ Follows(s, t)
  BY <1>2, <1>5, IdleChange, IdleFollows DEF SceneSound
<1>7. SceneBecomes(t) /\ BusSound(bus')
  BY <1>1, <1>2, <1>3 DEF LockNode
<1> QED
  BY <1>1, <1>6, <1>7, BecomesIs

LEMMA SameFollows ==
  ASSUME NEW s, SceneSound(s)
  PROVE  Follows(s, s)
BY KinIs DEF Follows, SceneSound

LEMMA GoHomeStep ==
  ASSUME SceneInv, GoHome
  PROVE  SceneInv'
<1>1. PICK s : s = scene
  OBVIOUS
<1>2. SceneSound(s) /\ BusSound(bus) /\ Is(s) /\ s.epoch \in Nat /\ s.heard \in Nat
  BY <1>1 DEF SceneInv, SceneSound
<1>3. PICK n \in Nat : n = s.epoch + 1
  BY <1>2
<1>4. PICK t : t = ResetSession(s, n)
  OBVIOUS
<1>5. t = s \/ (SceneSound(t) /\ t.mode = "home" /\ t.left = s.left)
  BY <1>2, <1>4, ResetSessionSound
<1>6. SceneSound(t) /\ Follows(s, t)
  <2>1. CASE t = s
    BY <2>1, <1>2, SameFollows
  <2>2. CASE SceneSound(t) /\ t.mode = "home" /\ t.left = s.left
    BY <2>2 DEF Follows
  <2> QED
    BY <1>5, <2>1, <2>2
<1>7. SceneBecomes(t) /\ BusSound(bus')
  BY <1>1, <1>2, <1>3, <1>4 DEF GoHome
<1> QED
  BY <1>1, <1>6, <1>7, BecomesIs

LEMMA EnterExploreStep ==
  ASSUME SceneInv, EnterExplore
  PROVE  SceneInv'
<1> USE SceneNames
<1>1. PICK s : s = scene
  OBVIOUS
<1>2. SceneSound(s) /\ BusSound(bus)
  BY <1>1 DEF SceneInv
<1>3. PICK b : b = Dispatched(bus)
  OBVIOUS
<1>4. BusSound(b) /\ b.epoch \in Nat
  BY <1>2, <1>3, DispatchedIs DEF BusSound
<1>5. PICK t : t = OnReset(s, b, FALSE)
  OBVIOUS
<1>6. SceneSound(t)
  BY <1>2, <1>4, <1>5, OnResetIs
<1>7. PICK w : w = Witnessed(s, t)
  OBVIOUS
<1>8. But(t, w, {"left"})
  BY <1>6, <1>7 DEF Witnessed, But, SceneSound, Is
<1>9. PICK r : r = [w EXCEPT !.left = NothingLeft]
  OBVIOUS
<1>10. But(t, r, Idle) /\ r.left = NothingLeft /\ r.heard = t.heard
  <2> HIDE DEF NothingLeft
  <2> QED
    BY <1>8, <1>9 DEF But, Idle
<1>11. SceneSound(r) /\ LeftSound(r)
  BY <1>6, <1>10, IdleChange, NothingIs DEF SceneSound, LeftSound
<1>12. r = scene' /\ bus' = b
  BY <1>1, <1>3, <1>5, <1>7, <1>9 DEF EnterExplore
<1>13. SceneSound(scene)' /\ LeftSound(scene)'
  BY <1>11, <1>12 DEF SceneSound, LeftSound, Is, Fed, Waiting
<1> QED
  BY <1>4, <1>12, <1>13 DEF SceneInv, BusSound

LEMMA PanelStep ==
  ASSUME SceneInv, ShowPanel \/ HidePanel \/ ReturnToExploration
  PROVE  SceneInv'
<1> USE SceneNames
<1>1. PICK s : s = scene
  OBVIOUS
<1>2. SceneSound(s) /\ BusSound(bus)
  BY <1>1 DEF SceneInv
<1>3. CASE ShowPanel
  <2>1. PICK t : t = [s EXCEPT !.closed = FALSE]
    OBVIOUS
  <2>2. But(s, t, {"closed"})
    BY <1>2, <2>1 DEF SceneSound, Is, But
  <2>3. But(s, t, Idle \ {"left"}) /\ But(s, t, Idle) /\ t.heard = s.heard
    BY <2>2 DEF But, Idle
  <2>4. SceneSound(t) /\ Follows(s, t)
    BY <1>2, <2>3, IdleChange, IdleFollows DEF SceneSound
  <2>5. SceneBecomes(t) /\ BusSound(bus')
    BY <1>1, <1>2, <1>3, <2>1, DispatchedIs DEF ShowPanel, OnContext
  <2> QED
    BY <1>1, <2>4, <2>5, BecomesIs
<1>4. CASE HidePanel
  <2>1. SceneBecomes(s) /\ BusSound(bus')
    BY <1>1, <1>2, <1>4, DispatchedIs DEF HidePanel, OnContext
  <2> QED
    BY <1>1, <1>2, <2>1, SameFollows, BecomesIs
<1>5. CASE ReturnToExploration
  <2>1. PICK t : t = OnResume(s)
    OBVIOUS
  <2>2. Is(s) /\ s.epoch \in Nat /\ s.heard \in Nat /\ KeptSound(s.kept)
    BY <1>2 DEF SceneSound
  <2>3. SceneSound(t) /\ t.mode # "accumulation" /\ t.left = s.left
    BY <2>1, <2>2, OnResumeIs
  <2>4. Follows(s, t)
    BY <2>3 DEF Follows
  <2>5. SceneBecomes(t) /\ BusSound(bus')
    BY <1>1, <1>2, <1>5, <2>1, DispatchedIs DEF ReturnToExploration
  <2> QED
    BY <1>1, <2>3, <2>4, <2>5, BecomesIs
<1> QED
  BY <1>3, <1>4, <1>5

LEMMA SettingsStep ==
  ASSUME SceneInv, NEW k \in DOMAIN SceneSettings, ChangeSceneSettings(k)
  PROVE  SceneInv'
<1> USE SceneNames
<1>1. PICK s : s = scene
  OBVIOUS
<1>2. SceneSound(s) /\ BusSound(bus) /\ Is(s) /\ KernelSound(s.acc)
  BY <1>1 DEF SceneInv, SceneSound, Fed
<1>3. PICK limit \in Nat, capacity \in Nat :
        limit = SceneSettings[k].window /\ capacity = SceneSettings[k].transition /\ capacity > 0
  BY SessionAssumption
<1>4. PICK w : w = ConfigureWindow(s.acc.window, limit, capacity)
  OBVIOUS
<1>5. WindowSound(w)
  BY <1>2, <1>3, <1>4, ConfigureIs DEF KernelSound
<1>6. PICK un \in BOOLEAN : un = (s.acc.pending # <<>>)
  OBVIOUS
<1>7. PICK t : t = [s EXCEPT !.setting = k, !.cache = ResizeCache(@, SceneSettings[k].cache),
                           !.acc.window = ConfigureWindow(@, SceneSettings[k].window, SceneSettings[k].transition),
                           !.unsettled = s.acc.pending # <<>>]
  OBVIOUS
<1>8. But(s, t, {"setting", "cache", "acc", "unsettled"}) /\ t.setting = k /\ t.unsettled = un
  BY <1>2, <1>6, <1>7 DEF Is, But
<1>9. t.acc = [s.acc EXCEPT !.window = w]
  BY <1>2, <1>3, <1>4, <1>7 DEF Is
<1>10. KernelSound(t.acc) /\ t.acc.pending = s.acc.pending
  BY <1>2, <1>5, <1>9, KernelNames DEF KernelSound
<1>11. PICK r : r = IF t.mode = "accumulation" THEN CommitProjection(t) ELSE t
  OBVIOUS
<1>12. /\ But(t, r, {"shown"})
       /\ r.shown = IF t.mode = "accumulation" THEN Resident(t.acc.window) ELSE t.shown
  BY <1>8, <1>11 DEF But, CommitProjection
<1>13. /\ r.epoch = s.epoch /\ r.heard = s.heard /\ r.mode = s.mode /\ r.kept = s.kept
       /\ r.context = s.context /\ r.cursors = s.cursors /\ r.left = s.left
       /\ r.expanding = s.expanding /\ r.acc = t.acc /\ r.unsettled = un
  BY <1>8, <1>12 DEF But
<1>14. r.mode = t.mode /\ r.setting = k
  BY <1>8, <1>12 DEF But
<1>15. Fed(r)
  BY <1>6, <1>10, <1>12, <1>13, <1>14 DEF Fed, Waiting
<1>16. Is(r)
  BY <1>12, <1>14 DEF Is, But
<1>17. SceneSound(r) /\ Follows(s, r)
  BY <1>2, <1>13, <1>15, <1>16, KinIs DEF SceneSound, Follows
<1>18. SceneBecomes(r) /\ BusSound(bus')
  BY <1>1, <1>2, <1>7, <1>11 DEF ChangeSceneSettings
<1> QED
  BY <1>1, <1>17, <1>18, BecomesIs

LEMMA AnswerStep ==
  ASSUME SceneInv, NEW bundles \in Answers, AnswerArrives(bundles)
  PROVE  SceneInv'
<1>1. PICK s : s = scene
  OBVIOUS
<1>2. SceneSound(s) /\ BusSound(bus)
  BY <1>1 DEF SceneInv
<1>3. PICK b : b = Dispatched(bus)
  OBVIOUS
<1>4. BusSound(b) /\ b.epoch \in Nat
  BY <1>2, <1>3, DispatchedIs DEF BusSound
<1>5. PICK t : t = OnActivate(s, b, "assistant", bundles)
  OBVIOUS
<1>6. Listed(bundles)
  BY SessionAssumption DEF Merged
<1>7. SceneSound(t) /\ Follows(s, t)
  BY <1>2, <1>4, <1>5, <1>6, ActivateIs
<1>8. SceneBecomes(t) /\ BusSound(bus')
  BY <1>1, <1>3, <1>4, <1>5 DEF AnswerArrives
<1> QED
  BY <1>1, <1>7, <1>8, BecomesIs

LEMMA TimerStep ==
  ASSUME SceneInv, TransitionTimer
  PROVE  SceneInv'
<1> USE SceneNames
<1>1. PICK s : s = scene
  OBVIOUS
<1>2. SceneSound(s) /\ BusSound(bus) /\ Is(s) /\ KernelSound(s.acc) /\ Waiting(s)
  BY <1>1 DEF SceneInv, SceneSound, Fed
<1>3. PICK acc : acc = AdvanceTransition(s.acc)
  OBVIOUS
<1>4. KernelSound(acc) /\ (acc.pending # <<>> => acc.window.moving)
  BY <1>2, <1>3, AdvanceIs
<1>5. PICK a : a = [s EXCEPT !.acc = acc, !.timer = 0]
  OBVIOUS
<1>6. But(s, a, {"acc", "timer"}) /\ a.acc = acc
  BY <1>2, <1>5 DEF Is, But
<1>7. PICK t : t = CommitProjection(a)
  OBVIOUS
<1>8. But(a, t, {"shown"}) /\ t.shown = Resident(acc.window)
  BY <1>6, <1>7 DEF But, CommitProjection
<1>9. PICK c : c = [s EXCEPT !.timer = 0]
  OBVIOUS
<1>10. But(s, c, {"timer"})
  BY <1>2, <1>9 DEF Is, But
<1>11. PICK r : r = IF s.acc.window.revision # s.timer THEN c
                    ELSE IF acc.window.moving THEN ScheduleSettle(t) ELSE t
  OBVIOUS
<1>12. SceneSound(r) /\ Follows(s, r)
  <2>1. CASE s.acc.window.revision # s.timer
    <3>1. But(s, r, {"timer"})
      BY <1>10, <1>11, <2>1
    <3>2. /\ r.epoch = s.epoch /\ r.heard = s.heard /\ r.mode = s.mode /\ r.kept = s.kept
          /\ r.context = s.context /\ r.cursors = s.cursors /\ r.left = s.left
          /\ r.expanding = s.expanding /\ r.acc = s.acc /\ r.unsettled = s.unsettled
          /\ r.shown = s.shown
      BY <3>1 DEF But
    <3>3. Is(r)
      BY <1>2, <3>1, ButIs
    <3>4. Fed(r)
      BY <1>2, <2>1, <3>2 DEF Fed, Waiting, SceneSound
    <3> QED
      BY <1>2, <3>2, <3>3, <3>4, KinIs DEF SceneSound, Follows
  <2>2. CASE s.acc.window.revision = s.timer
    <3>1. /\ But(t, r, {"timer"})
          /\ acc.window.moving => r.timer = acc.window.revision
      BY <1>6, <1>8, <1>11, <2>2 DEF But, ScheduleSettle
    <3>2. But(s, r, {"acc", "timer", "shown"})
      BY <1>6, <1>8, <3>1 DEF But
    <3>3. /\ r.epoch = s.epoch /\ r.heard = s.heard /\ r.mode = s.mode /\ r.kept = s.kept
          /\ r.context = s.context /\ r.cursors = s.cursors /\ r.left = s.left
          /\ r.expanding = s.expanding /\ r.unsettled = s.unsettled
      BY <3>2 DEF But
    <3>4. r.acc = acc /\ r.shown = Resident(acc.window)
      BY <1>6, <1>8, <3>1 DEF But
    <3>5. Is(r)
      BY <1>2, <3>2, ButIs
    <3>6. Fed(r)
      BY <1>2, <1>4, <3>1, <3>3, <3>4 DEF Fed, Waiting, SceneSound
    <3> QED
      BY <1>2, <3>3, <3>5, <3>6, KinIs DEF SceneSound, Follows
  <2> QED
    BY <2>1, <2>2
<1>13. SceneBecomes(r) /\ BusSound(bus')
  BY <1>1, <1>2, <1>3, <1>5, <1>7, <1>9, <1>11 DEF TransitionTimer
<1> QED
  BY <1>1, <1>12, <1>13, BecomesIs

LEMMA ExpandStep ==
  ASSUME SceneInv, NEW node \in DOMAIN ExpansionPages, Expand(node)
  PROVE  SceneInv'
<1> USE SceneNames
<1>1. PICK s : s = scene
  OBVIOUS
<1>2. SceneSound(s) /\ BusSound(bus) /\ Is(s) /\ s.mode # "home" /\ s.epoch \in Nat
  BY <1>1 DEF SceneInv, SceneSound, Expand
<1>3. PICK n : n = CursorOf(s, node)
  OBVIOUS
<1>4. n \in Nat /\ n < Len(ExpansionPages[node])
  <2>1. Len(ExpansionPages[node]) \in Nat /\ Len(ExpansionPages[node]) # 0
    BY SessionAssumption, ListedIs
  <2>2. CASE node \in DOMAIN s.cursors
    BY <1>2, <1>3, <2>2 DEF CursorOf, SceneSound, CursorsIn
  <2>3. CASE node \notin DOMAIN s.cursors
    BY <1>3, <2>1, <2>3 DEF CursorOf
  <2> QED
    BY <2>2, <2>3
<1>5. PICK e : e = [is |-> TRUE, node |-> node, cursor |-> n, epoch |-> s.epoch, source |-> s.source]
  OBVIOUS
<1>6. ExpansionSound(e)
  BY <1>2, <1>4, <1>5 DEF ExpansionSound
<1>7. PICK t : t = [s EXCEPT !.locked = 0, !.expanding = e]
  OBVIOUS
<1>8. But(s, t, {"locked", "expanding"}) /\ t.expanding = e
  BY <1>2, <1>7 DEF Is, But
<1>9. Is(t)
  BY <1>2, <1>8, ButIs
<1>10. /\ t.epoch = s.epoch /\ t.heard = s.heard /\ t.mode = s.mode /\ t.kept = s.kept
       /\ t.context = s.context /\ t.cursors = s.cursors /\ t.acc = s.acc /\ t.left = s.left
       /\ t.timer = s.timer /\ t.unsettled = s.unsettled /\ t.shown = s.shown
  BY <1>8 DEF But
<1>11. Fed(t)
  BY <1>2, <1>10 DEF SceneSound, Fed, Waiting
<1>12. SceneSound(t) /\ Follows(s, t)
  BY <1>2, <1>6, <1>8, <1>9, <1>10, <1>11, KinIs DEF SceneSound, Follows
<1>13. SceneBecomes(t) /\ BusSound(bus')
  BY <1>1, <1>2, <1>3, <1>5, <1>7 DEF Expand
<1> QED
  BY <1>1, <1>12, <1>13, BecomesIs

LEMMA RememberIs ==
  ASSUME NEW s, Is(s), CursorsIn(s.cursors), NEW e, ExpansionSound(e), e.is, NEW more,
         more => e.cursor + 1 < Len(ExpansionPages[e.node]),
         NEW r, r = RememberPage(s, e, more)
  PROVE  But(s, r, {"cursors", "expanded"}) /\ CursorsIn(r.cursors)
<1> USE SceneNames
<1>1. e.node \in DOMAIN ExpansionPages /\ e.cursor \in Nat
  BY DEF ExpansionSound
<1>2. CASE more
  <2>1. PICK c : c = [n \in DOMAIN s.cursors \cup {e.node} |->
                         IF n = e.node THEN e.cursor + 1 ELSE s.cursors[n]]
    OBVIOUS
  <2>2. But(s, r, {"cursors", "expanded"}) /\ r.cursors = c
    BY <1>2, <2>1 DEF RememberPage, Is, But
  <2>3. CursorsIn(c)
    BY <1>1, <1>2, <2>1 DEF CursorsIn
  <2> QED
    BY <2>2, <2>3
<1>3. CASE ~more
  <2>1. PICK c : c = [n \in DOMAIN s.cursors \ {e.node} |-> s.cursors[n]]
    OBVIOUS
  <2>2. But(s, r, {"cursors", "expanded"}) /\ r.cursors = c
    BY <1>3, <2>1 DEF RememberPage, Is, But
  <2>3. CursorsIn(c)
    BY <2>1 DEF CursorsIn
  <2> QED
    BY <2>2, <2>3
<1> QED
  BY <1>2, <1>3

\* The page of an expansion that still counts.
LEMMA PageIs ==
  ASSUME NEW s, SceneSound(s), s.expanding.is, NEW e, e = s.expanding, NEW done, done = AbortExpansion(s),
         NEW a, a = PrepareContextScene([Retain(done) EXCEPT !.kept.locked = 0], e.epoch),
         NEW from, from = IF s.mode = "exploration" THEN [a EXCEPT !.context.count = 1]
                          ELSE [done EXCEPT !.locked = 0]
  PROVE  Opened(s, from) /\ from.expanding = NoExpansion
<1> USE SceneNames
<1>0. /\ Is(s) /\ s.epoch \in Nat /\ s.heard \in Nat /\ Fed(s)
      /\ s.mode \in {"exploration", "accumulation"}
      /\ "is" \in DOMAIN s.context /\ (s.context.is => s.mode = "accumulation")
      /\ s.mode = "exploration" => ~s.kept.is
      /\ KeptSound(s.kept) /\ CursorsIn(s.cursors)
      /\ ExpansionSound(s.expanding)
  BY DEF SceneSound
<1>1. SceneSound(done) /\ Follows(s, done) /\ But(s, done, {"expanding"}) /\ done.expanding = NoExpansion
  BY AbortSound
<1>2. Is(done)
  BY <1>1 DEF SceneSound
<1>3. /\ done.epoch = s.epoch /\ done.heard = s.heard /\ done.mode = s.mode /\ done.kept = s.kept
      /\ done.context = s.context /\ done.cursors = s.cursors /\ done.acc = s.acc /\ done.left = s.left
      /\ done.timer = s.timer /\ done.unsettled = s.unsettled /\ done.shown = s.shown
      /\ Exploration(done) = Exploration(s)
  BY <1>1 DEF But, Exploration
<1>4. CASE s.mode = "exploration"
  <2>1. PICK k : k = Retain(done)
    OBVIOUS
  <2>2. But(done, k, {"kept", "expanding"}) /\ k.kept = Exploration(s)
    BY <1>0, <1>2, <1>3, <1>4, <2>1, RetainIs
  <2>3. Is(k)
    BY <1>2, <2>2, ButIs
  <2>4. KeptSound(Exploration(s)) /\ Exploration(s).is = TRUE
    BY <1>0, KeptIs
  <2>5. PICK x : x = Unlocked(Exploration(s))
    OBVIOUS
  <2>6. KeptSound(x) /\ x.is /\ x \in Kin(Exploration(s))
    BY <2>4, <2>5, KinIs
  <2>7. PICK t : t = [k EXCEPT !.kept.locked = 0]
    OBVIOUS
  <2>8. But(k, t, {"kept"}) /\ t.kept = x
    BY <2>2, <2>3, <2>5, <2>7 DEF But, Is, Unlocked
  <2>9. Is(t)
    BY <2>3, <2>8, ButIs
  <2>10. t.heard = s.heard /\ t.left = s.left
    BY <1>3, <2>2, <2>8 DEF But
  <2>11. PICK n \in Nat : n = e.epoch
    BY <1>0 DEF ExpansionSound
  <2>12. a = PrepareContextScene(t, n)
    BY <2>1, <2>7, <2>11
  <2>13. t.heard \in Nat /\ KeptSound(t.kept) /\ t.kept.is /\ t.kept \in Kin(Exploration(s))
    BY <1>0, <2>6, <2>8, <2>10
  <2>14. Opened(s, a)
    BY <1>4, <2>9, <2>10, <2>12, <2>13, PrepareOpens, Zenon
  <2>15. a.expanding = NoExpansion
    BY <2>9, <2>12, PrepareIs
  <2>16. PICK c : c = [a.context EXCEPT !.count = 1]
    OBVIOUS
  <2>17. c.is = a.context.is /\ "is" \in DOMAIN c
    BY <2>14, <2>16 DEF Opened
  <2>18. But(a, from, {"context"}) /\ from.context = c
    BY <1>4, <2>14, <2>16 DEF Opened, Is, But
  <2>19. Is(from)
    BY <2>14, <2>18, ButIs DEF Opened
  <2>20. /\ from.epoch = a.epoch /\ from.heard = a.heard /\ from.mode = a.mode /\ from.kept = a.kept
         /\ from.cursors = a.cursors /\ from.expanding = a.expanding /\ from.left = a.left
         /\ from.acc = a.acc /\ from.timer = a.timer /\ from.unsettled = a.unsettled
         /\ from.shown = a.shown
    BY <2>18 DEF But
  <2>21. Opened(s, from)
    BY <2>14, <2>17, <2>18, <2>19, <2>20 DEF Opened, Fed, Waiting, Follows
  <2> QED
    BY <2>15, <2>20, <2>21
<1>5. CASE s.mode = "accumulation"
  <2>1. But(done, from, {"locked"})
    BY <1>2, <1>5 DEF Is, But
  <2>2. Is(from)
    BY <1>2, <2>1, ButIs
  <2>3. /\ from.epoch = s.epoch /\ from.heard = s.heard /\ from.mode = s.mode /\ from.kept = s.kept
        /\ from.context = s.context /\ from.cursors = s.cursors /\ from.acc = s.acc
        /\ from.left = s.left /\ from.timer = s.timer /\ from.unsettled = s.unsettled
        /\ from.shown = s.shown /\ from.expanding = NoExpansion
    BY <1>1, <1>3, <2>1 DEF But
  <2>4. Fed(from)
    BY <1>0, <2>3 DEF Fed, Waiting
  <2> QED
    BY <1>0, <1>5, <2>2, <2>3, <2>4, KinIs, NothingIs DEF Opened, Follows
<1> QED
  BY <1>0, <1>4, <1>5

LEMMA ExpansionStep ==
  ASSUME SceneInv, ExpansionArrives \/ ExpansionFails
  PROVE  SceneInv'
<1> USE SceneNames
<1>1. PICK s : s = scene
  OBVIOUS
<1>2. SceneSound(s) /\ BusSound(bus) /\ s.expanding.is
  BY <1>1 DEF SceneInv, ExpansionArrives, ExpansionFails
<1>3. PICK done : done = AbortExpansion(s)
  OBVIOUS
<1>4. SceneSound(done) /\ Follows(s, done)
  BY <1>2, <1>3, AbortSound
<1>5. CASE ExpansionFails
  <2>1. SceneBecomes(done) /\ BusSound(bus')
    BY <1>1, <1>2, <1>3, <1>5 DEF ExpansionFails
  <2> QED
    BY <1>1, <1>4, <2>1, BecomesIs
<1>6. CASE ExpansionArrives
  <2>1. PICK e : e = s.expanding
    OBVIOUS
  <2>2. PICK a : a = PrepareContextScene([Retain(done) EXCEPT !.kept.locked = 0], e.epoch)
    OBVIOUS
  <2>3. PICK from : from = IF s.mode = "exploration" THEN [a EXCEPT !.context.count = 1]
                           ELSE [done EXCEPT !.locked = 0]
    OBVIOUS
  <2>4. Opened(s, from) /\ from.expanding = NoExpansion
    BY <1>2, <1>3, <2>1, <2>2, <2>3, PageIs
  <2>5. ExpansionSound(e) /\ e.is
    BY <1>2, <2>1 DEF SceneSound
  <2>6. PICK bundles : bundles = ExpansionPages[e.node][e.cursor + 1]
    OBVIOUS
  <2>7. Listed(bundles)
    <3>1. e.node \in DOMAIN ExpansionPages /\ e.cursor \in Nat /\ e.cursor < Len(ExpansionPages[e.node])
      BY <2>5 DEF ExpansionSound
    <3>2. Listed(ExpansionPages[e.node])
      BY <3>1, SessionAssumption
    <3>3. e.cursor + 1 \in DOMAIN ExpansionPages[e.node]
      BY <3>1, <3>2, ListedIs
    <3> QED
      BY <2>6, <3>1, <3>3, SessionAssumption DEF Merged
  <2>8. PICK p : p = AppendActivation(from, bundles)
    OBVIOUS
  <2>9. But(from, p, {"cache", "acc", "locked", "unsettled", "shown", "timer"}) /\ Fed(p)
    BY <2>4, <2>7, <2>8, ActivationIs DEF Opened
  <2>10. PICK more : more = (e.cursor + 1 < Len(ExpansionPages[e.node]))
    OBVIOUS
  <2>11. PICK r : r = RememberPage(p, e, more)
    OBVIOUS
  <2>12. Is(p)
    BY <2>4, <2>9, ButIs DEF Opened
  <2>13. CursorsIn(p.cursors)
    BY <2>4, <2>9 DEF Opened, But
  <2>14. But(p, r, {"cursors", "expanded"}) /\ CursorsIn(r.cursors)
    BY <2>5, <2>10, <2>11, <2>12, <2>13, RememberIs
  <2>15. But(from, r, {"cache", "acc", "locked", "unsettled", "shown", "timer", "expanded", "cursors"})
    BY <2>9, <2>14 DEF But
  <2>16. Fed(r)
    <3>1. r.acc = p.acc /\ r.timer = p.timer /\ r.unsettled = p.unsettled /\ r.mode = p.mode /\ r.shown = p.shown
      BY <2>14 DEF But
    <3> QED
      BY <2>9, <3>1 DEF Fed, Waiting
  <2>17. Opened(s, r)
    BY <2>4, <2>14, <2>15, <2>16, OpenedButFor
  <2>18. SceneSound(r) /\ Follows(s, r)
    BY <2>17, OpenedIs
  <2>19. bus' = bus /\ (SceneBecomes(r) \/ SceneBecomes(done))
    <3>1. r = RememberPage(AppendActivation(from, ExpansionPages[e.node][e.cursor + 1]), e,
                           e.cursor + 1 < Len(ExpansionPages[e.node]))
      BY <2>6, <2>8, <2>10, <2>11
    <3> QED
      BY <1>1, <1>3, <1>6, <2>1, <2>2, <2>3, <3>1 DEF ExpansionArrives
  <2> QED
    BY <1>1, <1>2, <1>4, <2>18, <2>19, BecomesIs
<1> QED
  BY <1>5, <1>6, Zenon DEF SceneInv

(***************************************************************************)
(* The searches.                                                           *)
(***************************************************************************)
FinderFields  == {"query", "phase", "result", "key", "topK", "more", "issued", "live", "requests"}
RequestFields == {"intent", "key", "topK", "epoch", "stage", "rollback"}

LEMMA FinderNames ==
  /\ "query" \in FinderFields /\ "phase" \in FinderFields /\ "result" \in FinderFields
  /\ "key" \in FinderFields /\ "topK" \in FinderFields /\ "more" \in FinderFields
  /\ "issued" \in FinderFields /\ "live" \in FinderFields /\ "requests" \in FinderFields
  /\ "intent" \in RequestFields /\ "key" \in RequestFields /\ "topK" \in RequestFields
  /\ "epoch" \in RequestFields /\ "stage" \in RequestFields /\ "rollback" \in RequestFields
BY DEF FinderFields, RequestFields

Asked(r) ==
  \/ DOMAIN r = {"intent", "stage"} /\ r.intent = "none" /\ r.stage = "over"
  \/ /\ DOMAIN r = RequestFields /\ r.intent \in {"replace", "load-more"}
     /\ r.key \in Queries /\ r.topK \in 1..MaxTopK

\* No search was started after the one this result is of.
Newest(x, requests) ==
  x.is => \A j \in DOMAIN requests : j > x.by => requests[j].intent # "replace"
Of(x, requests) == x.is => x.by \in DOMAIN requests
Committed(l) == l.result.is => l.result.final /\ l.result.key = l.key /\ l.result.topK = l.topK
Keyed(l) == l.key \in Queries \cup {NoQuery} /\ l.topK \in 1..MaxTopK
\* What a failure goes back to.
Returns(l, requests) == Keyed(l) /\ Committed(l) /\ Of(l.result, requests) /\ Newest(l.result, requests)

FinderTyped(f) ==
  /\ DOMAIN f = FinderFields /\ Listed(f.requests) /\ f.issued = Len(f.requests) /\ Keyed(f)
  /\ \A i \in DOMAIN f.requests : Asked(f.requests[i])
FinderServed(f) ==
  /\ f.live \in {0, f.issued} /\ (f.phase # "idle" <=> f.live # 0)
  /\ f.live # 0 =>
       /\ f.requests[f.live].intent \in {"replace", "load-more"}
       /\ f.requests[f.live].intent = "load-more" => Returns(f.requests[f.live].rollback, f.requests)
FinderSound(f) ==
  /\ FinderTyped(f) /\ FinderServed(f) /\ Of(f.result, f.requests) /\ Newest(f.result, f.requests)
  /\ f.phase = "idle" => Committed(f)

LEMMA FailIs ==
  ASSUME NEW f, DOMAIN f = FinderFields, Keyed(f), NEW i,
         f.requests[i].intent = "load-more" => Returns(f.requests[i].rollback, f.requests),
         NEW r, r = FailSearch(f, i)
  PROVE  /\ DOMAIN r = FinderFields /\ r.requests = f.requests /\ r.issued = f.issued /\ r.live = f.live
         /\ r.phase = "idle" /\ Returns(r, f.requests)
<1> USE FinderNames
<1>1. PICK back : back = f.requests[i].rollback
  OBVIOUS
<1>2. CASE f.requests[i].intent = "load-more"
  <2>1. r = [f EXCEPT !.phase = "idle", !.result = back.result, !.key = back.key,
                      !.topK = back.topK, !.more = back.more]
    BY <1>1, <1>2 DEF FailSearch
  <2>2. /\ DOMAIN r = FinderFields /\ r.requests = f.requests /\ r.issued = f.issued /\ r.live = f.live
        /\ r.phase = "idle" /\ r.result = back.result /\ r.key = back.key /\ r.topK = back.topK
    BY <2>1
  <2>3. Returns(back, f.requests)
    BY <1>1, <1>2
  <2> QED
    BY <2>2, <2>3 DEF Returns, Keyed, Committed
<1>3. CASE f.requests[i].intent # "load-more"
  <2>1. r = [f EXCEPT !.phase = "idle", !.result = NoResult, !.key = NoQuery, !.more = FALSE]
    BY <1>3 DEF FailSearch
  <2>2. /\ DOMAIN r = FinderFields /\ r.requests = f.requests /\ r.issued = f.issued /\ r.live = f.live
        /\ r.phase = "idle" /\ r.result.is = FALSE /\ r.key = NoQuery /\ r.topK = f.topK
    BY <2>1 DEF NoResult
  <2> QED
    BY <2>2 DEF Returns, Keyed, Committed, Of, Newest
<1> QED
  BY <1>2, <1>3

\* r is s and e.
Longer(r, s, e) ==
  /\ Listed(r) /\ Len(r) = Len(s) + 1 /\ DOMAIN r = 1..(Len(s) + 1) /\ DOMAIN s = 1..Len(s)
  /\ Len(s) \in Nat /\ r[Len(s) + 1] = e /\ \A i \in 1..Len(s) : r[i] = s[i]

LEMMA AppendedIs ==
  ASSUME NEW s, Listed(s), NEW e, NEW r, r = Append(s, e)
  PROVE  Longer(r, s, e)
<1>1. Len(s) \in Nat /\ DOMAIN s = 1..Len(s) /\ s \in Seq(Range(s))
  BY ListedIs DEF Listed
<1>2. PICK T : T = Range(s) \cup {e}
  OBVIOUS
<1>3. s \in Seq(T) /\ e \in T
  BY <1>1, <1>2
<1>4. r \in Seq(T)
  BY <1>3
<1>5. Listed(r)
  BY <1>4, ListedIs
<1> QED
  BY <1>1, <1>3, <1>5 DEF Longer

LEMMA AppendedKeeps ==
  ASSUME NEW s, Listed(s), NEW e, e.intent # "replace", NEW r, r = Append(s, e), NEW x
  PROVE  (Of(x, s) => Of(x, r)) /\ (Newest(x, s) => Newest(x, r))
<1>1. /\ DOMAIN r = 1..(Len(s) + 1) /\ DOMAIN s = 1..Len(s) /\ Len(s) \in Nat
      /\ r[Len(s) + 1] = e /\ \A i \in 1..Len(s) : r[i] = s[i]
  BY AppendedIs DEF Longer
<1>2. Of(x, s) => Of(x, r)
  BY <1>1 DEF Of
<1>3. Newest(x, s) => Newest(x, r)
  <2> SUFFICES ASSUME Newest(x, s), x.is, NEW j \in 1..(Len(s) + 1), j > x.by
               PROVE  r[j].intent # "replace"
    BY <1>1 DEF Newest
  <2>1. CASE j = Len(s) + 1
    BY <2>1, <1>1
  <2>2. CASE j # Len(s) + 1
    <3>1. j \in DOMAIN s /\ r[j] = s[j]
      BY <1>1, <2>2
    <3> QED
      BY <3>1 DEF Newest
  <2> QED
    BY <2>1, <2>2
<1> QED
  BY <1>2, <1>3

LEMMA CancelledIs ==
  ASSUME NEW f, FinderSound(f), NEW r, r = Cancelled(f)
  PROVE  FinderSound(r) /\ r.live = 0
<1> USE FinderNames
<1>1. CASE f.live = 0
  BY <1>1 DEF Cancelled
<1>2. CASE f.live # 0
  <2>1. PICK e : e = [intent |-> "none", stage |-> "over"]
    OBVIOUS
  <2>2. Asked(e) /\ e.intent # "replace"
    BY <2>1 DEF Asked
  <2>3. PICK s : s = f.requests
    OBVIOUS
  <2>4. PICK t : t = Append(s, e)
    OBVIOUS
  <2>5. PICK over : over = [f EXCEPT !.issued = @ + 1, !.live = 0, !.requests = Append(@, e)]
    OBVIOUS
  <2>6. /\ DOMAIN f = FinderFields /\ Listed(s) /\ f.issued = Len(s) /\ Keyed(f) /\ f.live = Len(s)
        /\ \A i \in DOMAIN s : Asked(s[i])
        /\ s[Len(s)].intent = "load-more" => Returns(s[Len(s)].rollback, s)
    BY <1>2, <2>3 DEF FinderSound, FinderTyped, FinderServed
  <2>7. /\ DOMAIN over = FinderFields /\ over.issued = Len(s) + 1 /\ over.live = 0 /\ over.requests = t
        /\ over.key = f.key /\ over.topK = f.topK
    BY <2>3, <2>4, <2>5, <2>6
  <2>8. /\ Listed(t) /\ Len(t) = Len(s) + 1 /\ DOMAIN t = 1..(Len(s) + 1) /\ DOMAIN s = 1..Len(s)
        /\ Len(s) \in Nat /\ t[Len(s) + 1] = e /\ \A i \in 1..Len(s) : t[i] = s[i]
    <3>1. Longer(t, s, e)
      BY <2>4, <2>6, AppendedIs
    <3> QED
      BY <3>1 DEF Longer
  <2>9. Len(s) \in 1..Len(s)
    BY <1>2, <2>6, <2>8
  <2>10. r = FailSearch(over, Len(s))
    BY <1>2, <2>1, <2>5, <2>6 DEF Cancelled
  <2>11. ASSUME NEW l, Returns(l, s)
         PROVE  Returns(l, t)
    BY <2>2, <2>4, <2>6, <2>11, AppendedKeeps DEF Returns
  <2>12. over.requests[Len(s)].intent = "load-more" => Returns(over.requests[Len(s)].rollback, over.requests)
    BY <2>6, <2>7, <2>8, <2>9, <2>11
  <2>13. /\ DOMAIN r = FinderFields /\ r.requests = over.requests /\ r.issued = over.issued /\ r.live = over.live
         /\ r.phase = "idle" /\ Returns(r, over.requests)
    <3>1. Keyed(over)
      BY <2>6, <2>7 DEF Keyed
    <3> QED
      BY <2>7, <2>10, <2>12, <3>1, FailIs
  <2>14. \A i \in DOMAIN t : Asked(t[i])
    BY <2>2, <2>6, <2>8
  <2> QED
    BY <2>7, <2>8, <2>13, <2>14 DEF FinderSound, FinderTyped, FinderServed, Returns
<1> QED
  BY <1>1, <1>2

LEMMA IssueIs ==
  ASSUME NEW f, FinderSound(f), NEW intent \in {"replace", "load-more"}, NEW key \in Queries,
         NEW topK \in 1..MaxTopK, NEW epoch,
         intent = "load-more" => f.phase = "idle",
         NEW r, r = Issue(f, intent, key, topK, epoch)
  PROVE  /\ FinderTyped(r) /\ r.live = r.issued /\ r.live # 0 /\ r.live \in DOMAIN r.requests
         /\ r.requests[r.live].intent = intent
         /\ intent = "load-more" => Returns(r.requests[r.live].rollback, r.requests)
         /\ intent = "load-more" => Of(r.result, r.requests) /\ Newest(r.result, r.requests)
<1> USE FinderNames
<1>1. PICK s : s = f.requests
  OBVIOUS
<1>2. PICK back : back = IF intent = "load-more" THEN Lifecycle(f) ELSE NothingLeft
  OBVIOUS
<1>3. PICK e : e = [intent |-> intent, key |-> key, topK |-> topK, epoch |-> epoch, stage |-> "sent",
                    rollback |-> back]
  OBVIOUS
<1>4. Asked(e) /\ e.intent = intent /\ e.rollback = back
  BY <1>3 DEF Asked, RequestFields
<1>5. PICK t : t = Append(s, e)
  OBVIOUS
<1>6. r = [f EXCEPT !.issued = @ + 1, !.live = f.issued + 1, !.requests = Append(@, e)]
  BY <1>2, <1>3 DEF Issue
<1>7. /\ DOMAIN f = FinderFields /\ Listed(s) /\ f.issued = Len(s) /\ Keyed(f)
      /\ \A i \in DOMAIN s : Asked(s[i])
      /\ Of(f.result, s) /\ Newest(f.result, s) /\ (f.phase = "idle" => Committed(f))
  BY <1>1 DEF FinderSound, FinderTyped
<1>8. /\ DOMAIN r = FinderFields /\ r.issued = Len(s) + 1 /\ r.live = Len(s) + 1 /\ r.requests = t
      /\ r.key = f.key /\ r.topK = f.topK /\ r.result = f.result
  BY <1>1, <1>5, <1>6, <1>7
<1>9. /\ Listed(t) /\ Len(t) = Len(s) + 1 /\ DOMAIN t = 1..(Len(s) + 1) /\ DOMAIN s = 1..Len(s)
      /\ Len(s) \in Nat /\ t[Len(s) + 1] = e /\ \A i \in 1..Len(s) : t[i] = s[i]
  <2>1. Longer(t, s, e)
    BY <1>5, <1>7, AppendedIs
  <2> QED
    BY <2>1 DEF Longer
<1>10. Len(s) + 1 \in 1..(Len(s) + 1) /\ Len(s) + 1 # 0
  BY <1>9
<1>11. \A i \in DOMAIN t : Asked(t[i])
  BY <1>4, <1>7, <1>9
<1>12. Keyed(r)
  BY <1>7, <1>8 DEF Keyed
<1>13. ASSUME intent = "load-more"
       PROVE  Returns(back, t) /\ Of(r.result, t) /\ Newest(r.result, t)
  <2>1. back = Lifecycle(f)
    BY <1>2, <1>13
  <2>2. back.result = f.result /\ back.key = f.key /\ back.topK = f.topK
    BY <2>1 DEF Lifecycle
  <2>3. Keyed(back) /\ Committed(back)
    BY <1>7, <1>13, <2>2 DEF Keyed, Committed
  <2>4. e.intent # "replace"
    BY <1>4, <1>13
  <2>5. Of(f.result, t) /\ Newest(f.result, t)
    BY <1>5, <1>7, <2>4, AppendedKeeps
  <2> QED
    BY <1>8, <2>2, <2>3, <2>5 DEF Returns
<1> QED
  BY <1>4, <1>8, <1>9, <1>10, <1>11, <1>12, <1>13 DEF FinderTyped

LEMMA SearchForIs ==
  ASSUME NEW f, FinderSound(f), NEW key \in Queries, NEW epoch,
         NEW r, r = [BeginReplace(Issue(f, "replace", key, 1, epoch), 1) EXCEPT !.query = key]
  PROVE  FinderSound(r)
<1> USE FinderNames
<1>1. PICK g : g = Issue(f, "replace", key, 1, epoch)
  OBVIOUS
<1>2. 1 \in 1..MaxTopK
  BY SearchAssumption
<1>3. /\ FinderTyped(g) /\ g.live = g.issued /\ g.live # 0
      /\ g.requests[g.live].intent = "replace"
  <2>1. PICK one : one = 1
    OBVIOUS
  <2>2. one \in 1..MaxTopK /\ g = Issue(f, "replace", key, one, epoch)
    BY <1>1, <1>2, <2>1
  <2> QED
    BY <2>2, IssueIs
<1>4. DOMAIN g = FinderFields
  BY <1>3 DEF FinderTyped
<1>5. /\ DOMAIN r = FinderFields /\ r.requests = g.requests /\ r.issued = g.issued /\ r.live = g.live
      /\ r.phase = "searching" /\ r.result = NoResult /\ r.key = NoQuery /\ r.topK = 1
  <2> HIDE DEF NoResult
  <2> QED
    BY <1>1, <1>4 DEF BeginReplace
<1>6. NoResult.is = FALSE
  BY DEF NoResult
<1>7. Keyed(r)
  BY <1>2, <1>5 DEF Keyed
<1>8. FinderTyped(r)
  BY <1>3, <1>5, <1>7 DEF FinderTyped
<1>9. FinderServed(r)
  BY <1>3, <1>5 DEF FinderServed
<1> QED
  BY <1>5, <1>6, <1>8, <1>9 DEF FinderSound, Of, Newest

LEMMA LoadMoreIs ==
  ASSUME NEW f, FinderSound(f), CanLoadMore(f), NEW r,
         r = BeginLoadMore(Issue(f, "load-more", f.key, f.topK + 1, 0))
  PROVE  FinderSound(r)
<1> USE FinderNames
<1>1. PICK g : g = Issue(f, "load-more", f.key, f.topK + 1, 0)
  OBVIOUS
<1>2. f.key \in Queries /\ f.topK + 1 \in 1..MaxTopK /\ f.phase = "idle"
  BY SearchAssumption DEF CanLoadMore, FinderSound, FinderTyped, Keyed
<1>3. /\ FinderTyped(g) /\ g.live = g.issued /\ g.live # 0
      /\ g.requests[g.live].intent = "load-more"
      /\ Returns(g.requests[g.live].rollback, g.requests)
      /\ Of(g.result, g.requests) /\ Newest(g.result, g.requests)
  <2>1. PICK n, k : n = f.topK + 1 /\ k = f.key
    OBVIOUS
  <2>2. k \in Queries /\ n \in 1..MaxTopK /\ g = Issue(f, "load-more", k, n, 0)
    BY <1>1, <1>2, <2>1
  <2> QED
    BY <1>2, <2>2, IssueIs
<1>4. DOMAIN g = FinderFields
  BY <1>3 DEF FinderTyped
<1>5. /\ DOMAIN r = FinderFields /\ r.requests = g.requests /\ r.issued = g.issued /\ r.live = g.live
      /\ r.phase = "loading-more" /\ r.result = g.result /\ r.key = g.key /\ r.topK = g.topK
  BY <1>1, <1>4 DEF BeginLoadMore
<1>6. FinderTyped(r)
  BY <1>3, <1>5 DEF FinderTyped, Keyed
<1>7. FinderServed(r)
  BY <1>3, <1>5 DEF FinderServed
<1> QED
  BY <1>3, <1>5, <1>6, <1>7 DEF FinderSound

LEMMA TypedIs ==
  ASSUME NEW f, FinderSound(f), NEW key, NEW r, r = [f EXCEPT !.query = key]
  PROVE  FinderSound(r)
<1> USE FinderNames
<1>1. DOMAIN f = FinderFields
  BY DEF FinderSound, FinderTyped
<1>2. /\ DOMAIN r = FinderFields /\ r.requests = f.requests /\ r.issued = f.issued /\ r.live = f.live
      /\ r.phase = f.phase /\ r.result = f.result /\ r.key = f.key /\ r.topK = f.topK
  BY <1>1
<1> QED
  BY <1>2 DEF FinderSound, FinderTyped, FinderServed, Keyed, Committed

LEMMA ClearedIs ==
  ASSUME NEW f, FinderSound(f), NEW r, r = Cleared(f)
  PROVE  FinderSound(r)
<1> USE FinderNames
<1>1. PICK g : g = Cancelled(f)
  OBVIOUS
<1>2. FinderSound(g) /\ g.live = 0
  BY <1>1, CancelledIs
<1>3. DOMAIN g = FinderFields
  BY <1>2 DEF FinderSound, FinderTyped
<1>4. /\ DOMAIN r = FinderFields /\ r.requests = g.requests /\ r.issued = g.issued /\ r.live = 0
      /\ r.phase = "idle" /\ r.result = NoResult /\ r.key = NoQuery /\ r.topK = 1
  <2> HIDE DEF NoResult
  <2> QED
    BY <1>1, <1>2, <1>3 DEF Cleared
<1>5. NoResult.is = FALSE
  BY DEF NoResult
<1>6. Keyed(r)
  BY <1>4, SearchAssumption DEF Keyed
<1> QED
  BY <1>2, <1>4, <1>5, <1>6 DEF FinderSound, FinderTyped, FinderServed, Of, Newest, Committed

\* A request that is marked is the same request.
LEMMA MarkedIs ==
  ASSUME NEW f, FinderSound(f), NEW i \in DOMAIN f.requests, f.requests[i].intent # "none", NEW v,
         NEW r, r = [f EXCEPT !.requests[i].stage = v]
  PROVE  /\ FinderSound(r) /\ r.issued = f.issued /\ r.live = f.live /\ DOMAIN r.requests = DOMAIN f.requests
         /\ r.requests[i].intent = f.requests[i].intent /\ r.requests[i].key = f.requests[i].key
         /\ r.requests[i].topK = f.requests[i].topK
<1> USE FinderNames
<1>1. PICK s : s = f.requests
  OBVIOUS
<1>2. /\ DOMAIN f = FinderFields /\ Listed(s) /\ f.issued = Len(s) /\ Keyed(f)
      /\ \A j \in DOMAIN s : Asked(s[j])
  BY <1>1 DEF FinderSound, FinderTyped
<1>3. PICK e : e = [s[i] EXCEPT !.stage = v]
  OBVIOUS
<1>4. /\ DOMAIN s[i] = RequestFields /\ s[i].intent \in {"replace", "load-more"}
      /\ s[i].key \in Queries /\ s[i].topK \in 1..MaxTopK
  BY <1>1, <1>2 DEF Asked
<1>5. /\ Asked(e) /\ e.intent = s[i].intent /\ e.key = s[i].key /\ e.topK = s[i].topK
      /\ e.rollback = s[i].rollback
  BY <1>3, <1>4 DEF Asked
<1>6. PICK t : t = [s EXCEPT ![i] = e]
  OBVIOUS
<1>7. Len(s) \in Nat /\ DOMAIN s = 1..Len(s)
  BY <1>2, ListedIs
<1>8. DOMAIN t = DOMAIN s /\ t[i] = e /\ \A j \in DOMAIN s : j # i => t[j] = s[j]
  BY <1>1, <1>6
<1>9. Listed(t) /\ Len(t) = Len(s)
  <2>1. t = [j \in 1..Len(s) |-> t[j]]
    BY <1>6, <1>7
  <2>2. t \in Seq({t[j] : j \in 1..Len(s)}) /\ Len(t) = Len(s)
    BY <1>7, <2>1
  <2> QED
    BY <2>2, ListedIs
<1>10. /\ DOMAIN r = FinderFields /\ r.requests = t /\ r.issued = f.issued /\ r.live = f.live
       /\ r.phase = f.phase /\ r.result = f.result /\ r.key = f.key /\ r.topK = f.topK
  BY <1>1, <1>2, <1>3, <1>6
<1>11. \A j \in DOMAIN s : t[j].intent = s[j].intent
  BY <1>5, <1>8
<1>12. \A j \in DOMAIN s : t[j].rollback = s[j].rollback
  BY <1>5, <1>8
<1>13. \A j \in DOMAIN t : Asked(t[j])
  BY <1>2, <1>5, <1>8
<1>14. \A x : (Of(x, s) <=> Of(x, t)) /\ (Newest(x, s) <=> Newest(x, t))
  BY <1>8, <1>11 DEF Of, Newest
<1>15. \A l : Returns(l, s) <=> Returns(l, t)
  BY <1>14 DEF Returns
<1>16. FinderTyped(r)
  BY <1>2, <1>9, <1>10, <1>13 DEF FinderTyped, Keyed
<1>17. FinderServed(r)
  <2>1. CASE f.live = 0
    BY <2>1, <1>10 DEF FinderSound, FinderServed
  <2>2. CASE f.live # 0
    <3>1. f.live \in DOMAIN s
      BY <1>2, <1>7, <2>2 DEF FinderSound, FinderServed
    <3>2. t[f.live].intent = s[f.live].intent /\ t[f.live].rollback = s[f.live].rollback
      BY <3>1, <1>11, <1>12
    <3> QED
      BY <1>1, <1>10, <1>15, <2>2, <3>2 DEF FinderSound, FinderServed
  <2> QED
    BY <2>1, <2>2
<1> QED
  BY <1>1, <1>5, <1>8, <1>10, <1>14, <1>16, <1>17 DEF FinderSound, Committed

\* The request that counts is the last one.
LEMMA CountsIs ==
  ASSUME NEW f, FinderSound(f), NEW i \in DOMAIN f.requests, Counts(f, i)
  PROVE  /\ i = f.live /\ i = f.issued /\ f.live # 0 /\ f.requests[i].intent # "none"
         /\ f.requests[i].key \in Queries /\ f.requests[i].topK \in 1..MaxTopK
         /\ \A j \in DOMAIN f.requests : ~(j > i)
<1>1. Listed(f.requests) /\ f.issued = Len(f.requests) /\ Asked(f.requests[i])
  BY DEF FinderSound, FinderTyped
<1>2. Len(f.requests) \in Nat /\ DOMAIN f.requests = 1..Len(f.requests)
  BY <1>1, ListedIs
<1>3. i = f.live /\ i = f.issued /\ f.live # 0
  BY <1>1, <1>2 DEF Counts
<1>4. f.requests[i].intent \in {"replace", "load-more"}
  BY <1>3 DEF FinderSound, FinderServed
<1> QED
  BY <1>1, <1>2, <1>3, <1>4 DEF Asked

LEMMA ReceivedIs ==
  ASSUME NEW f, FinderSound(f), NEW i \in DOMAIN f.requests, Counts(f, i),
         NEW r, r = ReceiveResult(f, i)
  PROVE  FinderSound(r)
<1> USE FinderNames
<1>1. DOMAIN f = FinderFields
  BY DEF FinderSound, FinderTyped
<1>2. PICK x : x = ResultOf(i, f.requests[i].key, f.requests[i].topK, FALSE)
  OBVIOUS
<1>3. x.is = TRUE /\ x.by = i
  BY <1>2 DEF ResultOf
<1>4. /\ DOMAIN r = FinderFields /\ r.requests = f.requests /\ r.issued = f.issued /\ r.live = f.live
      /\ r.phase = "streaming" /\ r.result = x /\ r.key = f.key /\ r.topK = f.topK
  BY <1>1, <1>2 DEF ReceiveResult
<1>5. f.live # 0 /\ \A j \in DOMAIN f.requests : ~(j > i)
  BY CountsIs
<1>6. Of(x, f.requests) /\ Newest(x, f.requests)
  BY <1>3, <1>5 DEF Of, Newest
<1> QED
  BY <1>4, <1>5, <1>6 DEF FinderSound, FinderTyped, FinderServed, Keyed

LEMMA CompletedIs ==
  ASSUME NEW f, FinderSound(f), NEW i \in DOMAIN f.requests, Counts(f, i), NEW more,
         NEW r, r = [CompleteSearch(f, i, more) EXCEPT !.live = 0]
  PROVE  FinderSound(r)
<1> USE FinderNames
<1>1. DOMAIN f = FinderFields
  BY DEF FinderSound, FinderTyped
<1>2. /\ f.live # 0 /\ \A j \in DOMAIN f.requests : ~(j > i)
      /\ f.requests[i].key \in Queries /\ f.requests[i].topK \in 1..MaxTopK
  BY CountsIs
<1>3. PICK x : x = ResultOf(i, f.requests[i].key, f.requests[i].topK, TRUE)
  OBVIOUS
<1>4. x.is = TRUE /\ x.by = i /\ x.final = TRUE /\ x.key = f.requests[i].key /\ x.topK = f.requests[i].topK
  BY <1>3 DEF ResultOf
<1>5. /\ DOMAIN r = FinderFields /\ r.requests = f.requests /\ r.issued = f.issued /\ r.live = 0
      /\ r.phase = "idle" /\ r.result = x /\ r.key = f.requests[i].key /\ r.topK = f.requests[i].topK
  BY <1>1, <1>3 DEF CompleteSearch
<1>6. Of(x, f.requests) /\ Newest(x, f.requests)
  BY <1>2, <1>4 DEF Of, Newest
<1>7. Keyed(r) /\ Committed(r)
  BY <1>2, <1>4, <1>5 DEF Keyed, Committed
<1> QED
  BY <1>5, <1>6, <1>7 DEF FinderSound, FinderTyped, FinderServed

LEMMA FailedIs ==
  ASSUME NEW f, FinderSound(f), NEW i \in DOMAIN f.requests, Counts(f, i),
         NEW r, r = [FailSearch(f, i) EXCEPT !.live = 0]
  PROVE  FinderSound(r)
<1> USE FinderNames
<1>1. DOMAIN f = FinderFields /\ Keyed(f)
  BY DEF FinderSound, FinderTyped
<1>2. i = f.live /\ f.live # 0
  BY CountsIs
<1>3. f.requests[i].intent = "load-more" => Returns(f.requests[i].rollback, f.requests)
  BY <1>2 DEF FinderSound, FinderServed
<1>4. PICK g : g = FailSearch(f, i)
  OBVIOUS
<1>5. /\ DOMAIN g = FinderFields /\ g.requests = f.requests /\ g.issued = f.issued
      /\ g.phase = "idle" /\ Returns(g, f.requests)
  BY <1>1, <1>3, <1>4, FailIs
<1>6. /\ DOMAIN r = FinderFields /\ r.requests = f.requests /\ r.issued = f.issued /\ r.live = 0
      /\ r.phase = "idle" /\ r.result = g.result /\ r.key = g.key /\ r.topK = g.topK
  BY <1>4, <1>5
<1> QED
  BY <1>5, <1>6 DEF FinderSound, FinderTyped, FinderServed, Returns, Keyed, Committed

SessionInv == SceneInv /\ FinderSound(finder)

LEMMA ReaderKeeps ==
  ASSUME SessionInv, ReaderStep
  PROVE  SessionInv'
<1>1. SceneInv /\ FinderSound(finder) /\ finder' = finder
  BY DEF SessionInv, ReaderStep
<1>2. FinderSound(finder)'
  BY <1>1 DEF FinderSound, FinderTyped, FinderServed, Of, Newest, Committed, Keyed
<1> SUFFICES SceneInv'
  BY <1>2 DEF SessionInv
<1>3. CASE \E source \in DOMAIN BrowseScene : OpenSource(source)
  BY <1>1, <1>3, OpenSourceStep
<1>4. CASE \E place : BrowseOn(place)
  BY <1>1, <1>4, BrowseOnStep
<1>5. CASE GoHome
  BY <1>1, <1>5, GoHomeStep
<1>6. CASE EnterExplore
  BY <1>1, <1>6, EnterExploreStep
<1>7. CASE \E node : LockNode(node)
  BY <1>1, <1>7, LockNodeStep
<1>8. CASE ShowPanel \/ HidePanel \/ ReturnToExploration
  BY <1>1, <1>8, PanelStep
<1>9. CASE \E k \in DOMAIN SceneSettings : ChangeSceneSettings(k)
  BY <1>1, <1>9, SettingsStep
<1>10. CASE \E node \in DOMAIN ExpansionPages : Expand(node)
  BY <1>1, <1>10, ExpandStep
<1>11. CASE \E bundles \in Answers : AnswerArrives(bundles)
  BY <1>1, <1>11, AnswerStep
<1> QED
  BY <1>3, <1>4, <1>5, <1>6, <1>7, <1>8, <1>9, <1>10, <1>11, Zenon DEF ReaderStep

LEMMA SameScene ==
  ASSUME SceneInv, UNCHANGED <<scene, bus>>
  PROVE  SceneInv'
<1>1. scene' = scene /\ bus' = bus
  OBVIOUS
<1>2. SceneSound(scene)' /\ LeftSound(scene)' /\ BusSound(bus)'
  BY <1>1 DEF SceneInv, SceneSound, LeftSound, BusSound, Is, Fed, Waiting
<1> QED
  BY <1>2 DEF SceneInv

LEMMA AskedReset ==
  ASSUME SceneInv, bus' = Dispatched(bus), SceneBecomes(OnReset(scene, Dispatched(bus), TRUE))
  PROVE  SceneInv'
<1>1. PICK s : s = scene
  OBVIOUS
<1>2. SceneSound(s) /\ BusSound(bus)
  BY <1>1 DEF SceneInv
<1>3. PICK b : b = Dispatched(bus)
  OBVIOUS
<1>4. BusSound(b) /\ b.epoch \in Nat
  BY <1>2, <1>3, DispatchedIs DEF BusSound
<1>5. PICK t : t = OnReset(s, b, TRUE)
  OBVIOUS
<1>6. SceneSound(t) /\ Follows(s, t)
  BY <1>2, <1>4, <1>5, OnResetIs
<1> QED
  BY <1>1, <1>3, <1>4, <1>5, <1>6, BecomesIs

LEMMA FinderKeeps ==
  ASSUME SessionInv, FinderStep
  PROVE  SessionInv'
<1>1. SceneInv /\ FinderSound(finder)
  BY DEF SessionInv
<1>2. PICK r : r = finder'
  OBVIOUS
<1> SUFFICES SceneInv' /\ FinderSound(r)
  BY <1>2 DEF SessionInv, FinderSound, FinderTyped, FinderServed, Of, Newest, Committed, Keyed
<1>3. ASSUME NEW key \in Queries, SearchFor(key)
      PROVE  SceneInv' /\ FinderSound(r)
  <2>1. SceneInv'
    BY <1>1, <1>3, AskedReset DEF SearchFor
  <2>2. PICK n : n = Dispatched(bus).epoch
    OBVIOUS
  <2>3. r = [BeginReplace(Issue(finder, "replace", key, 1, n), 1) EXCEPT !.query = key]
    BY <1>2, <1>3, <2>2 DEF SearchFor
  <2>4. FinderSound(r)
    BY <1>1, <2>3, SearchForIs
  <2> QED
    BY <2>1, <2>4
<1>4. ASSUME NEW key, TypeQuery(key)
      PROVE  SceneInv' /\ FinderSound(r)
  BY <1>1, <1>2, <1>4, TypedIs, SameScene DEF TypeQuery
<1>5. CASE LoadMore
  BY <1>1, <1>2, <1>5, LoadMoreIs, SameScene DEF LoadMore
<1>6. CASE CancelSearch
  BY <1>1, <1>2, <1>6, CancelledIs, SameScene DEF CancelSearch
<1>7. CASE ClearSearch
  BY <1>1, <1>2, <1>7, ClearedIs, AskedReset DEF ClearSearch
<1> QED
  BY <1>3, <1>4, <1>5, <1>6, <1>7, Zenon DEF FinderStep

LEMMA SceneAnswers ==
  ASSUME SessionInv, SceneAnswer
  PROVE  SessionInv'
<1>1. SceneInv /\ FinderSound(finder) /\ finder' = finder
  BY DEF SessionInv, SceneAnswer
<1>2. FinderSound(finder)'
  BY <1>1 DEF FinderSound, FinderTyped, FinderServed, Of, Newest, Committed, Keyed
<1>3. SceneInv'
  BY <1>1, TimerStep, ExpansionStep, Zenon DEF SceneAnswer
<1> QED
  BY <1>2, <1>3 DEF SessionInv

\* A request that is not over was asked.
LEMMA StillAsked ==
  ASSUME NEW f, FinderSound(f), NEW i \in DOMAIN f.requests, f.requests[i].stage # "over"
  PROVE  f.requests[i].intent # "none"
<1>1. Asked(f.requests[i])
  BY DEF FinderSound, FinderTyped
<1> QED
  BY <1>1 DEF Asked

\* What a search's reset lets follow.
Bridges(s, r) ==
  /\ SceneSound(r) /\ Follows(s, r)
  /\ r.mode = "exploration" => Exploration(r) = Exploration(s) /\ s.mode = "exploration"
  /\ s.mode = "exploration" \/ s.context.is => r.mode # "home"

LEMMA ResetBridges ==
  ASSUME NEW s, SceneSound(s), NEW b, b.epoch \in Nat, NEW bySearch \in BOOLEAN, bySearch,
         NEW r, r = OnReset(s, b, bySearch)
  PROVE  Bridges(s, r)
<1>1. /\ SceneSound(r) /\ r.left = s.left /\ (bySearch => Follows(s, r))
      /\ (bySearch /\ r.mode = "exploration" => Exploration(r) = Exploration(s) /\ s.mode = "exploration")
      /\ (bySearch /\ (s.mode = "exploration" \/ s.context.is) => r.mode # "home")
  BY OnResetIs
<1> QED
  BY <1>1 DEF Bridges

\* What the end of a search does to the scene.
LEMMA HitsShown ==
  ASSUME SceneInv, NEW late \in BOOLEAN, NEW hears \in BOOLEAN, late => hears, NEW hits, Listed(hits),
         NEW b1, b1 = IF late THEN Dispatched(bus) ELSE bus,
         NEW s1, s1 = IF late THEN OnReset(scene, b1, TRUE) ELSE scene,
         NEW b2, b2 = IF hears THEN Dispatched(b1) ELSE b1,
         bus' = b2, SceneBecomes(IF hears THEN OnActivate(s1, b2, "search", hits) ELSE s1)
  PROVE  SceneInv'
<1>1. PICK s : s = scene
  OBVIOUS
<1>2. SceneSound(s) /\ BusSound(bus)
  BY <1>1 DEF SceneInv
<1>3. BusSound(b1) /\ BusSound(b2) /\ b1.epoch \in Nat /\ b2.epoch \in Nat
  <2>1. BusSound(b1)
    BY <1>2, DispatchedIs
  <2>2. BusSound(b2)
    BY <2>1, DispatchedIs
  <2> QED
    BY <2>1, <2>2 DEF BusSound
<1>4. PICK t : t = IF hears THEN OnActivate(s1, b2, "search", hits) ELSE s1
  OBVIOUS
<1>5. CASE late
  <2>1. s1 = OnReset(s, b1, TRUE)
    BY <1>1, <1>5
  <2>2. Bridges(s, s1)
    BY <1>2, <1>3, <2>1, ResetBridges
  <2>3. t = OnActivate(s1, b2, "search", hits)
    BY <1>4, <1>5
  <2>4. SceneSound(t) /\ Follows(s1, t)
    BY <1>3, <2>2, <2>3, ActivateIs DEF Bridges
  <2>5. Follows(s, t)
    BY <1>2, <2>2, <2>4, FollowsTwice DEF Bridges
  <2> QED
    BY <1>1, <1>3, <1>4, <2>4, <2>5, BecomesIs
<1>6. CASE ~late /\ hears
  <2>1. s1 = s /\ t = OnActivate(s, b2, "search", hits)
    BY <1>1, <1>4, <1>6
  <2>2. SceneSound(t) /\ Follows(s, t)
    BY <1>2, <1>3, <2>1, ActivateIs
  <2> QED
    BY <1>1, <1>3, <1>4, <2>2, BecomesIs
<1>7. CASE ~hears
  <2>1. t = s
    BY <1>1, <1>4, <1>7
  <2>2. Follows(s, s)
    BY <1>2, KinIs DEF Follows, SceneSound
  <2> QED
    BY <1>1, <1>2, <1>3, <1>4, <2>1, <2>2, BecomesIs
<1> QED
  BY <1>5, <1>6, <1>7

LEMMA StreamKeeps ==
  ASSUME SessionInv, StreamStep
  PROVE  SessionInv'
<1>1. SceneInv /\ FinderSound(finder)
  BY DEF SessionInv
<1>2. PICK r : r = finder'
  OBVIOUS
<1> SUFFICES SceneInv' /\ FinderSound(r)
  BY <1>2 DEF SessionInv, FinderSound, FinderTyped, FinderServed, Of, Newest, Committed, Keyed
<1>3. PICK i \in DOMAIN finder.requests :
        ResultStreams(i) \/ (\E more \in BOOLEAN : SearchCompletes(i, more)) \/ SearchFails(i)
  BY Zenon DEF StreamStep
<1>4. finder.requests[i].intent # "none"
  <2>1. finder.requests[i].stage # "over"
    BY <1>3 DEF ResultStreams, SearchCompletes, SearchFails
  <2> QED
    BY <1>1, <2>1, StillAsked
<1>5. ASSUME NEW v, NEW f, f = [finder EXCEPT !.requests[i].stage = v]
      PROVE  /\ FinderSound(f) /\ i \in DOMAIN f.requests
             /\ f.requests[i].key = finder.requests[i].key /\ f.requests[i].topK = finder.requests[i].topK
             /\ Counts(finder, i) => Counts(f, i)
  BY <1>1, <1>4, <1>5, MarkedIs DEF Counts
<1>6. CASE ResultStreams(i)
  <2>1. PICK f : f = [finder EXCEPT !.requests[i].stage = "streaming"]
    OBVIOUS
  <2>2. FinderSound(f) /\ i \in DOMAIN f.requests /\ (Counts(finder, i) => Counts(f, i))
    BY <1>5, <2>1
  <2>3. r = (IF Counts(finder, i) THEN ReceiveResult(f, i) ELSE f) /\ UNCHANGED <<scene, bus>>
    BY <1>2, <1>6, <2>1 DEF ResultStreams
  <2>4. FinderSound(r)
    BY <2>2, <2>3, ReceivedIs
  <2> QED
    BY <1>1, <2>3, <2>4, SameScene
<1>7. CASE SearchFails(i)
  <2>1. PICK f : f = [finder EXCEPT !.requests[i].stage = "over"]
    OBVIOUS
  <2>2. FinderSound(f) /\ i \in DOMAIN f.requests /\ (Counts(finder, i) => Counts(f, i))
    BY <1>5, <2>1
  <2>3. r = (IF Counts(finder, i) THEN [FailSearch(f, i) EXCEPT !.live = 0] ELSE f) /\ UNCHANGED <<scene, bus>>
    BY <1>2, <1>7, <2>1 DEF SearchFails
  <2>4. FinderSound(r)
    BY <2>2, <2>3, FailedIs
  <2> QED
    BY <1>1, <2>3, <2>4, SameScene
<1>8. ASSUME NEW more \in BOOLEAN, SearchCompletes(i, more)
      PROVE  SceneInv' /\ FinderSound(r)
  <2>1. PICK f : f = [finder EXCEPT !.requests[i].stage = "over"]
    OBVIOUS
  <2>2. FinderSound(f) /\ i \in DOMAIN f.requests /\ (Counts(finder, i) => Counts(f, i))
        /\ f.requests[i].key = finder.requests[i].key /\ f.requests[i].topK = finder.requests[i].topK
    BY <1>5, <2>1
  <2>3. CASE ~Counts(finder, i)
    <3>1. r = f /\ UNCHANGED <<scene, bus>>
      BY <1>2, <1>8, <2>1, <2>3 DEF SearchCompletes
    <3> QED
      BY <1>1, <2>2, <3>1, SameScene
  <2>4. CASE Counts(finder, i)
    <3>1. r = [CompleteSearch(f, i, more) EXCEPT !.live = 0]
      BY <1>2, <1>8, <2>1, <2>4 DEF SearchCompletes
    <3>2. FinderSound(r)
      BY <2>2, <2>4, <3>1, CompletedIs
    <3>3. PICK q : q = finder.requests[i]
      OBVIOUS
    <3>4. q.key \in Queries /\ q.topK \in 1..MaxTopK
      BY <1>1, <2>4, <3>3, CountsIs
    <3>5. PICK hits : hits = SearchHits[q.key][q.topK]
      OBVIOUS
    <3>6. Listed(hits)
      BY <3>4, <3>5, SearchAssumption DEF Merged
    <3>7. PICK late \in BOOLEAN : late <=> q.intent = "load-more"
      OBVIOUS
    <3>8. PICK hears \in BOOLEAN : hears <=> (q.intent = "load-more" \/ q.epoch = bus.epoch)
      OBVIOUS
    <3>9. PICK b1 : b1 = IF late THEN Dispatched(bus) ELSE bus
      OBVIOUS
    <3>10. PICK s1 : s1 = IF late THEN OnReset(scene, b1, TRUE) ELSE scene
      OBVIOUS
    <3>11. PICK b2 : b2 = IF hears THEN Dispatched(b1) ELSE b1
      OBVIOUS
    <3>12. bus' = b2 /\ SceneBecomes(IF hears THEN OnActivate(s1, b2, "search", hits) ELSE s1)
      BY <1>8, <2>4, <3>3, <3>5, <3>7, <3>8, <3>9, <3>10, <3>11 DEF SearchCompletes
    <3>13. SceneInv'
      BY <1>1, <3>6, <3>7, <3>8, <3>9, <3>10, <3>11, <3>12, HitsShown
    <3> QED
      BY <3>2, <3>13
  <2> QED
    BY <2>3, <2>4
<1> QED
  BY <1>3, <1>6, <1>7, <1>8

LEMMA SessionStarts ==
  ASSUME SessionInit
  PROVE  SessionInv
<1> USE SceneNames, FinderNames
<1>1. PICK limit \in Nat, capacity \in Nat :
        limit = SceneSettings[1].window /\ capacity = SceneSettings[1].transition /\ capacity > 0
  BY SessionAssumption
<1>2. PICK acc : acc = NewAccumulation(limit, capacity)
  OBVIOUS
<1>3. KernelSound(acc) /\ acc.pending = <<>> /\ Resident(acc.window) = <<>>
  BY <1>1, <1>2, NewIs
<1>4. PICK s : s = scene
  OBVIOUS
<1>5. /\ DOMAIN s = SceneFields /\ s.mode = "home" /\ s.epoch = 0 /\ s.heard = 0 /\ s.kept = NothingLeft
      /\ s.context = NoContext /\ s.setting = 1 /\ s.acc = acc /\ s.expanding = NoExpansion
      /\ DOMAIN s.cursors = {} /\ s.left = NothingLeft /\ s.unsettled = FALSE
  BY <1>1, <1>2, <1>4 DEF SessionInit, SceneInit, SceneFields
<1>6. Is(s)
  BY <1>5, SessionAssumption DEF Is
<1>7. Fed(s)
  BY <1>3, <1>5 DEF Fed, Waiting
<1>8. SceneSound(s) /\ LeftSound(s)
  <2>1. KeptSound(s.kept) /\ ~s.kept.is /\ ~s.left.is /\ "is" \in DOMAIN s.context /\ ~s.context.is
        /\ ExpansionSound(s.expanding) /\ ~s.expanding.is /\ CursorsIn(s.cursors)
    BY <1>5, NothingIs
  <2> QED
    BY <1>5, <1>6, <1>7, <2>1 DEF SceneSound, LeftSound
<1>9. BusSound(bus)
  BY DEF SessionInit, SceneInit, BusSound
<1>10. PICK f : f = finder
  OBVIOUS
<1>11. /\ DOMAIN f = FinderFields /\ f.phase = "idle" /\ f.result = NoResult /\ f.key = NoQuery /\ f.topK = 1
       /\ f.issued = 0 /\ f.live = 0 /\ f.requests = <<>>
  BY <1>10 DEF SessionInit, FinderInit, FinderFields
<1>12. Listed(f.requests) /\ DOMAIN f.requests = {} /\ Len(f.requests) = 0 /\ NoResult.is = FALSE
  BY <1>11, EmptyIs DEF NoResult
<1>13. FinderSound(f)
  BY <1>11, <1>12, SearchAssumption
     DEF FinderSound, FinderTyped, FinderServed, Keyed, Of, Newest, Committed
<1> QED
  BY <1>4, <1>8, <1>9, <1>10, <1>13 DEF SessionInv, SceneInv

LEMMA SessionStep ==
  ASSUME SessionInv, [SessionNext]_searchVars
  PROVE  SessionInv'
<1>1. CASE ReaderStep
  BY <1>1, ReaderKeeps
<1>2. CASE FinderStep
  BY <1>2, FinderKeeps
<1>3. CASE SceneAnswer
  BY <1>3, SceneAnswers
<1>4. CASE StreamStep
  BY <1>4, StreamKeeps
<1>5. CASE UNCHANGED searchVars
  <2>1. UNCHANGED <<scene, bus>> /\ finder' = finder
    BY <1>5 DEF searchVars
  <2>2. SceneInv'
    BY <2>1, SameScene DEF SessionInv
  <2>3. FinderSound(finder)'
    BY <2>1 DEF SessionInv, FinderSound, FinderTyped, FinderServed, Of, Newest, Committed, Keyed
  <2> QED
    BY <2>2, <2>3 DEF SessionInv
<1> QED
  BY <1>1, <1>2, <1>3, <1>4, <1>5, Zenon DEF SessionNext

LEMMA SessionIs ==
  ASSUME SessionInv
  PROVE  SessionConsistent
<1>1. SceneSound(scene) /\ FinderSound(finder)
  BY DEF SessionInv, SceneInv
<1>2. PendingOnItsWay
  BY <1>1 DEF SceneSound, Fed, Waiting, PendingOnItsWay
<1>3. SceneShowsWindow
  <2>1. PICK w : w = scene.acc.window
    OBVIOUS
  <2>2. WindowSound(w)
    BY <1>1, <2>1 DEF SceneSound, Fed, KernelSound
  <2>3. PICK r : r = Resident(w)
    OBVIOUS
  <2>4. Shelf(r, w.limit + w.capacity) /\ Cardinality(EventsOf(r)) = Len(r)
    BY <2>2, <2>3, ResidentIs
  <2>5. Len(w.active) <= w.limit /\ Len(r) <= w.limit + w.capacity
    BY <2>2, <2>4 DEF WindowSound, Shelf
  <2>6. scene.mode = "accumulation" => scene.shown = r \/ scene.unsettled
    BY <1>1, <2>1, <2>3 DEF SceneSound, Fed
  <2> QED
    BY <2>1, <2>3, <2>4, <2>5, <2>6 DEF SceneShowsWindow
<1>4. NewestResultWins
  BY <1>1 DEF FinderSound, Newest, NewestResultWins
<1>5. CommittedResult
  BY <1>1 DEF FinderSound, Committed, CommittedResult
<1>6. SearchIsServed
  BY <1>1 DEF FinderSound, FinderServed, SearchIsServed
<1> QED
  BY <1>2, <1>3, <1>4, <1>5, <1>6 DEF SessionConsistent

(***************************************************************************)
(* Whatever the reader, the answers and the streams of the searches do, in *)
(* any order and however often: what waits for the scene has a transition  *)
(* that ends or was cut short by new settings, the scene shows its window  *)
(* within its limit and each event once, no result is older than a search  *)
(* started after it, a result of an idle workspace is complete and has the *)
(* key and number the workspace says, and the workspace is busy exactly    *)
(* while a request counts (knowledge-universe.tsx, search-provider.tsx).   *)
(***************************************************************************)
THEOREM SessionHolds == SessionSpec => []SessionConsistent
<1>1. SessionInit => SessionInv
  BY SessionStarts
<1>2. SessionInv /\ [SessionNext]_searchVars => SessionInv'
  BY SessionStep
<1>3. SessionInv => SessionConsistent
  BY SessionIs
<1> QED
  BY <1>1, <1>2, <1>3, PTL DEF SessionSpec

LEMMA ResumeGivesBack ==
  ASSUME SceneInv, ReturnToExploration, scene.left.is
  PROVE  Exploration(scene') \in {scene.left, [scene.left EXCEPT !.locked = 0]}
<1> USE SceneNames
<1>1. PICK s : s = scene
  OBVIOUS
<1>2. SceneSound(s) /\ s.kept.is /\ s.kept \in Kin(s.left)
  BY <1>1 DEF SceneInv, LeftSound
<1>3. PICK t : t = OnResume(s)
  OBVIOUS
<1>4. SceneSound(t) /\ Exploration(t) = s.kept
  BY <1>2, <1>3, OnResumeIs DEF SceneSound
<1>5. PICK r : r = Witnessed(s, t)
  OBVIOUS
<1>6. But(t, r, {"left"})
  BY <1>4, <1>5 DEF Witnessed, But, SceneSound, Is
<1>7. Exploration(r) = Exploration(t)
  BY <1>6 DEF But, Exploration
<1>8. r = scene'
  BY <1>1, <1>3, <1>5 DEF ReturnToExploration, SceneBecomes
<1> QED
  BY <1>1, <1>2, <1>4, <1>7, <1>8 DEF Kin, Unlocked

(***************************************************************************)
(* "Return to exploration" gives back the timeline exactly as it was left, *)
(* but for the lock, after any searches, answers, expansions and panels    *)
(* (retainCurrentExploration and restoreRetainedExploration).              *)
(***************************************************************************)
THEOREM ExplorationComesBack == SessionSpec => ExplorationRestored
<1>1. SessionInit => SessionInv
  BY SessionStarts
<1>2. SessionInv /\ [SessionNext]_searchVars => SessionInv'
  BY SessionStep
<1>3. SessionInv => (ReturnToExploration /\ scene.left.is =>
          Exploration(scene') \in {scene.left, [scene.left EXCEPT !.locked = 0]})
  BY ResumeGivesBack DEF SessionInv
<1> QED
  BY <1>1, <1>2, <1>3, PTL DEF SessionSpec, ExplorationRestored
=============================================================================
