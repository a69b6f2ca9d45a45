-------------------------- MODULE ConversationProofs --------------------------
(***************************************************************************)
(* The conversation runtime stays consistent, for every set of sessions    *)
(* and threads, every window and page size and every scenario: whatever    *)
(* page arrives, event is read, session is evicted or call fails.          *)
(***************************************************************************)
EXTENDS ConversationRuntime, FiniteSetTheorems, SequenceTheorems, WellFoundedInduction, TLAPS

(***************************************************************************)
(* Induction, as a fact about a set of naturals.                           *)
(***************************************************************************)
LEMMA Climbs ==
  ASSUME NEW S, 0 \in S, \A n \in Nat : n \in S => n + 1 \in S
  PROVE  \A n \in Nat : n \in S
<1> DEFINE B == {n \in Nat : n \notin S}
<1> SUFFICES ASSUME B # {}
             PROVE  FALSE
  OBVIOUS
<1>1. PICK x \in B : \A y \in B : ~(<<y, x>> \in OpToRel(<, Nat))
  <2>1. B \subseteq Nat
    OBVIOUS
  <2> HIDE DEF B
  <2> QED
    BY <2>1, NatLessThanWellFounded, WFMin
<1>2. \A y \in B : <<y, x>> \in Nat \X Nat /\ <<y, x>>[1] = y /\ <<y, x>>[2] = x
  OBVIOUS
<1>3. \A y \in B : ~(y < x)
  BY <1>1, <1>2, Zenon DEF OpToRel
<1>4. x \in Nat /\ x # 0 /\ x \notin S
  OBVIOUS
<1>5. x - 1 \in Nat /\ x - 1 < x /\ (x - 1) + 1 = x
  BY <1>4
<1>6. x - 1 \in S
  BY <1>3, <1>5
<1> QED
  BY <1>4, <1>5, <1>6

Climb(s, places, f, n) ==
  /\ f[0] = <<>>
  /\ \A i \in 1..n : f[i] = IF i \in places THEN Append(f[i - 1], s[i]) ELSE f[i - 1]

LEMMA ClimbExists ==
  ASSUME NEW T, NEW s \in Seq(T), NEW places
  PROVE  \E f \in [0..Len(s) -> Seq(T)] : Climb(s, places, f, Len(s))
<1> DEFINE G == {n \in Nat : n <= Len(s) => \E f \in [0..n -> Seq(T)] : Climb(s, places, f, n)}
<1>1. 0 \in G
  <2>1. [i \in 0..0 |-> <<>>] \in [0..0 -> Seq(T)]
    OBVIOUS
  <2>2. Climb(s, places, [i \in 0..0 |-> <<>>], 0)
    BY DEF Climb
  <2> QED
    BY <2>1, <2>2
<1>2. ASSUME NEW n \in Nat, n \in G
      PROVE  n + 1 \in G
  <2> SUFFICES ASSUME n + 1 <= Len(s)
               PROVE  \E f \in [0..(n + 1) -> Seq(T)] : Climb(s, places, f, n + 1)
    OBVIOUS
  <2>1. PICK f \in [0..n -> Seq(T)] : Climb(s, places, f, n)
    BY <1>2
  <2> DEFINE r == IF n + 1 \in places THEN Append(f[n], s[n + 1]) ELSE f[n]
             g == [i \in 0..(n + 1) |-> IF i = n + 1 THEN r ELSE f[i]]
  <2>2. r \in Seq(T)
    OBVIOUS
  <2>3. g \in [0..(n + 1) -> Seq(T)]
    BY <2>2
  <2>4. Climb(s, places, g, n + 1)
    <3>1. g[0] = <<>>
      BY <2>1 DEF Climb
    <3>2. ASSUME NEW i \in 1..(n + 1)
          PROVE  g[i] = IF i \in places THEN Append(g[i - 1], s[i]) ELSE g[i - 1]
      <4>1. CASE i = n + 1
        <5>1. g[n + 1] = r /\ g[n] = f[n]
          OBVIOUS
        <5> QED
          BY <5>1, <4>1
      <4>2. CASE i # n + 1
        <5>1. i \in 1..n /\ g[i] = f[i] /\ g[i - 1] = f[i - 1]
          BY <4>2
        <5> QED
          BY <5>1, <2>1 DEF Climb
      <4> QED
        BY <4>1, <4>2
    <3> QED
      BY <3>1, <3>2 DEF Climb
  <2> QED
    BY <2>3, <2>4
<1>3. \A n \in Nat : n \in G
  <2> HIDE DEF G
  <2> QED
    BY <1>1, <1>2, Climbs
<1> QED
  BY <1>3

LEMMA KeepClimbs ==
  ASSUME NEW T, NEW s \in Seq(T), NEW places
  PROVE  \E f \in [0..Len(s) -> Seq(T)] : Climb(s, places, f, Len(s)) /\ Keep(s, places) = f[Len(s)]
<1> DEFINE D(u) == [i \in 0..Len(s) |->
                 IF i = 0 THEN <<>> ELSE IF i \in places THEN Append(u[i - 1], s[i]) ELSE u[i - 1]]
           up == CHOOSE u : u = D(u)
<1>1. PICK f \in [0..Len(s) -> Seq(T)] : Climb(s, places, f, Len(s))
  BY ClimbExists
<1>2. f = D(f)
  <2>1. ASSUME NEW i \in 0..Len(s)
        PROVE  f[i] = D(f)[i]
    <3>1. CASE i = 0
      BY <3>1, <1>1 DEF Climb
    <3>2. CASE i # 0
      <4>1. i \in 1..Len(s)
        BY <3>2
      <4>2. f[i] = IF i \in places THEN Append(f[i - 1], s[i]) ELSE f[i - 1]
        BY <4>1, <1>1 DEF Climb
      <4> QED
        BY <4>2, <3>2
    <3> QED
      BY <3>1, <3>2
  <2> QED
    BY <2>1
<1>3. up = D(up)
  BY <1>2, Zenon
<1>4. Keep(s, places) = up[Len(s)]
  BY Zenon DEF Keep
<1> DEFINE G == {n \in Nat : n <= Len(s) => up[n] = f[n]}
<1> HIDE DEF up
<1>7. \A i \in 0..Len(s) : up[i] = IF i = 0 THEN <<>> ELSE IF i \in places THEN Append(up[i - 1], s[i]) ELSE up[i - 1]
  BY <1>3
<1>5. \A n \in Nat : n \in G
  <2>1. 0 \in G
    <3>1. f[0] = <<>>
      BY <1>1 DEF Climb
    <3>2. Len(s) \in Nat
      OBVIOUS
    <3>3. up[0] = <<>>
      BY <1>7, <3>2
    <3> QED
      BY <3>1, <3>3
  <2>2. ASSUME NEW n \in Nat, n \in G
        PROVE  n + 1 \in G
    <3> SUFFICES ASSUME n + 1 <= Len(s)
                 PROVE  up[n + 1] = f[n + 1]
      OBVIOUS
    <3>1. up[n] = f[n] /\ n + 1 \in 1..Len(s) /\ n + 1 \in 0..Len(s) /\ n + 1 # 0 /\ (n + 1) - 1 = n
      BY <2>2
    <3>2. up[n + 1] = IF n + 1 \in places THEN Append(up[n], s[n + 1]) ELSE up[n]
      BY <1>7, <3>1
    <3>3. f[n + 1] = IF n + 1 \in places THEN Append(f[n], s[n + 1]) ELSE f[n]
      BY <1>1, <3>1 DEF Climb
    <3> QED
      BY <3>1, <3>2, <3>3
  <2> HIDE DEF G
  <2> QED
    BY <2>1, <2>2, Climbs
<1>6. up[Len(s)] = f[Len(s)]
  BY <1>5
<1> QED
  BY <1>1, <1>4, <1>6

\* r has what s has at these places, in that order.
Picks(s, places, r, n) ==
  \E h \in [1..Len(r) -> 1..n] :
    /\ \A k \in 1..Len(r) : h[k] \in places /\ r[k] = s[h[k]]
    /\ \A k, m \in 1..Len(r) : k < m => h[k] < h[m]
    /\ \A i \in 1..n : i \in places => \E k \in 1..Len(r) : h[k] = i

LEMMA KeepIs ==
  ASSUME NEW T, NEW s \in Seq(T), NEW places
  PROVE  Keep(s, places) \in Seq(T) /\ Picks(s, places, Keep(s, places), Len(s))
<1>1. PICK f \in [0..Len(s) -> Seq(T)] : Climb(s, places, f, Len(s)) /\ Keep(s, places) = f[Len(s)]
  BY KeepClimbs
<1> DEFINE G == {n \in Nat : n <= Len(s) => Picks(s, places, f[n], n)}
<1>2. 0 \in G
  <2>1. f[0] = <<>>
    BY <1>1 DEF Climb
  <2>2. Picks(s, places, <<>>, 0)
    <3>1. [k \in 1..0 |-> 0] \in [1..Len(<<>>) -> 1..0]
      OBVIOUS
    <3> QED
      BY <3>1 DEF Picks
  <2> QED
    BY <2>1, <2>2
<1>3. ASSUME NEW n \in Nat, n \in G
      PROVE  n + 1 \in G
  <2> SUFFICES ASSUME n + 1 <= Len(s)
               PROVE  Picks(s, places, f[n + 1], n + 1)
    OBVIOUS
  <2>1. f[n] \in Seq(T) /\ f[n + 1] \in Seq(T) /\ s[n + 1] \in T
    OBVIOUS
  <2>2. PICK h \in [1..Len(f[n]) -> 1..n] :
          /\ \A k \in 1..Len(f[n]) : h[k] \in places /\ f[n][k] = s[h[k]]
          /\ \A k, m \in 1..Len(f[n]) : k < m => h[k] < h[m]
          /\ \A i \in 1..n : i \in places => \E k \in 1..Len(f[n]) : h[k] = i
    BY <1>3 DEF Picks
  <2>3. CASE n + 1 \in places
    <3> DEFINE c == Len(f[n])
               g == [k \in 1..(c + 1) |-> IF k = c + 1 THEN n + 1 ELSE h[k]]
    <3>1. f[n + 1] = Append(f[n], s[n + 1])
      <4>1. n + 1 \in 1..Len(s) /\ (n + 1) - 1 = n
        OBVIOUS
      <4>2. f[n + 1] = IF n + 1 \in places THEN Append(f[(n + 1) - 1], s[n + 1]) ELSE f[(n + 1) - 1]
        BY <1>1, <4>1 DEF Climb
      <4> QED
        BY <4>1, <4>2, <2>3
    <3>2. c \in Nat /\ Len(f[n + 1]) = c + 1 /\ f[n + 1][c + 1] = s[n + 1] /\ \A k \in 1..c : f[n + 1][k] = f[n][k]
      BY <3>1, <2>1
    <3>3. \A k \in 1..c : h[k] \in 1..n
      OBVIOUS
    <3>4. /\ DOMAIN g = 1..(c + 1) /\ g[c + 1] = n + 1
          /\ \A k \in 1..c : g[k] = h[k]
      BY <3>2
    <3>5. g \in [1..Len(f[n + 1]) -> 1..(n + 1)]
      BY <3>2, <3>3
    <3> HIDE DEF g
    <3>6. \A k \in 1..Len(f[n + 1]) : g[k] \in places /\ f[n + 1][k] = s[g[k]]
      BY <3>2, <3>4, <2>2, <2>3
    <3>7. \A k, m \in 1..Len(f[n + 1]) : k < m => g[k] < g[m]
      <4> SUFFICES ASSUME NEW k \in 1..(c + 1), NEW m \in 1..(c + 1), k < m
                   PROVE  g[k] < g[m]
        BY <3>2
      <4>1. k \in 1..c /\ g[k] = h[k] /\ h[k] \in 1..n
        BY <3>2, <3>3, <3>4
      <4>2. CASE m = c + 1
        BY <4>1, <4>2, <3>4
      <4>3. CASE m # c + 1
        <5>1. m \in 1..c /\ g[m] = h[m]
          BY <3>2, <3>4, <4>3
        <5>2. h[k] < h[m]
          BY <4>1, <5>1, <2>2
        <5> QED
          BY <4>1, <5>1, <5>2
      <4> QED
        BY <4>2, <4>3
    <3>8. \A i \in 1..(n + 1) : i \in places => \E k \in 1..Len(f[n + 1]) : g[k] = i
      <4> SUFFICES ASSUME NEW i \in 1..(n + 1), i \in places
                   PROVE  \E k \in 1..(c + 1) : g[k] = i
        BY <3>2
      <4>1. CASE i = n + 1
        <5>1. c + 1 \in 1..(c + 1) /\ g[c + 1] = i
          BY <4>1, <3>2, <3>4
        <5> QED
          BY <5>1
      <4>2. CASE i # n + 1
        <5>1. PICK k \in 1..c : h[k] = i
          BY <4>2, <2>2
        <5>2. k \in 1..(c + 1)
          BY <3>2
        <5>3. g[k] = i
          BY <5>1, <3>4
        <5> QED
          BY <5>2, <5>3
      <4> QED
        BY <4>1, <4>2
    <3> QED
      BY <3>5, <3>6, <3>7, <3>8 DEF Picks
  <2>4. CASE n + 1 \notin places
    <3>1. f[n + 1] = f[n]
      <4>1. n + 1 \in 1..Len(s) /\ (n + 1) - 1 = n
        OBVIOUS
      <4>2. f[n + 1] = IF n + 1 \in places THEN Append(f[(n + 1) - 1], s[n + 1]) ELSE f[(n + 1) - 1]
        BY <1>1, <4>1 DEF Climb
      <4> QED
        BY <4>1, <4>2, <2>4
    <3>2. h \in [1..Len(f[n + 1]) -> 1..(n + 1)]
      BY <3>1
    <3>3. \A i \in 1..(n + 1) : i \in places => \E k \in 1..Len(f[n + 1]) : h[k] = i
      BY <3>1, <2>2, <2>4
    <3>4. /\ \A k \in 1..Len(f[n + 1]) : h[k] \in places /\ f[n + 1][k] = s[h[k]]
          /\ \A k, m \in 1..Len(f[n + 1]) : k < m => h[k] < h[m]
      BY <3>1, <2>2
    <3> QED
      BY <3>2, <3>3, <3>4, Zenon DEF Picks
  <2> QED
    BY <2>3, <2>4
<1>4. \A n \in Nat : n \in G
  <2> HIDE DEF G
  <2> QED
    BY <1>2, <1>3, Climbs
<1> QED
  BY <1>1, <1>4

\* What is kept is some of the sequence, and all that was to be kept.
Kept(s, places, r) ==
  /\ \A k \in DOMAIN r : \E i \in DOMAIN s : i \in places /\ r[k] = s[i]
  /\ \A i \in DOMAIN s : i \in places => \E k \in DOMAIN r : r[k] = s[i]

LEMMA KeepHas ==
  ASSUME NEW T, NEW s \in Seq(T), NEW places
  PROVE  Keep(s, places) \in Seq(T) /\ Kept(s, places, Keep(s, places))
<1>1. PICK r : r = Keep(s, places)
  OBVIOUS
<1>2. r \in Seq(T) /\ Picks(s, places, r, Len(s))
  BY <1>1, KeepIs
<1>3. PICK h \in [1..Len(r) -> 1..Len(s)] :
        /\ \A k \in 1..Len(r) : h[k] \in places /\ r[k] = s[h[k]]
        /\ \A i \in 1..Len(s) : i \in places => \E k \in 1..Len(r) : h[k] = i
  BY <1>2 DEF Picks
<1>4. DOMAIN r = 1..Len(r) /\ DOMAIN s = 1..Len(s)
  BY <1>2
<1>5. \A k \in DOMAIN r : \E i \in DOMAIN s : i \in places /\ r[k] = s[i]
  BY <1>3, <1>4
<1>6. ASSUME NEW i \in DOMAIN s, i \in places
      PROVE  \E k \in DOMAIN r : r[k] = s[i]
  <2>1. PICK k \in 1..Len(r) : h[k] = i
    BY <1>3, <1>4, <1>6
  <2> QED
    BY <2>1, <1>3, <1>4
<1> QED
  BY <1>1, <1>2, <1>5, <1>6 DEF Kept

\* A nonempty set of bounded numbers has a last one.
LEMMA LastOne ==
  ASSUME NEW n \in Nat, NEW S, S \subseteq 0..n, S # {}
  PROVE  \E m \in S : \A x \in S : x <= m
<1> DEFINE Has(k) == (\E x \in S : x <= k) => \E m \in S : m <= k /\ \A x \in S : x <= k => x <= m
           G == {k \in Nat : Has(k)}
<1>1. 0 \in G
  OBVIOUS
<1>2. ASSUME NEW k \in Nat, k \in G
      PROVE  k + 1 \in G
  <2>1. CASE k + 1 \in S
    <3>1. k + 1 <= k + 1 /\ \A x \in S : x <= k + 1 => x <= k + 1
      OBVIOUS
    <3>2. Has(k + 1)
      BY <3>1, <2>1
    <3> QED
      BY <3>2
  <2>2. CASE k + 1 \notin S
    <3>1. \A x \in S : x <= k + 1 <=> x <= k
      <4> SUFFICES ASSUME NEW x \in S
                   PROVE  x <= k + 1 <=> x <= k
        OBVIOUS
      <4>1. x \in Nat /\ x # k + 1
        BY <2>2
      <4> QED
        BY <4>1
    <3>2. Has(k)
      BY <1>2
    <3>3. Has(k + 1)
      BY <3>1, <3>2
    <3> HIDE DEF Has
    <3> QED
      BY <3>3
  <2> QED
    BY <2>1, <2>2
<1>3. n \in G
  <2> HIDE DEF G
  <2>1. \A k \in Nat : k \in G
    BY <1>1, <1>2, Climbs
  <2> QED
    BY <2>1
<1>4. \A x \in S : x <= n
  OBVIOUS
<1> QED
  BY <1>3, <1>4

(***************************************************************************)
(* What the helpers on messages return.                                    *)
(***************************************************************************)
PairIds(op) == {<<UserOf(op.turn), op.userSaved>>, <<AnswerOf(op.turn), FALSE>>}

From(B, msgs) == \A k \in DOMAIN B : \E i \in DOMAIN msgs : B[k] = msgs[i]

KeepsPair(op, msgs, B) ==
  \A i \in DOMAIN msgs : Id(msgs[i]) \in PairIds(op) => \E k \in DOMAIN B : Id(B[k]) = Id(msgs[i])

\* boundMessages invents nothing and never drops the running pair.
LEMMA BoundHas ==
  ASSUME NEW r, NEW s, NEW msgs \in Seq(Messages), NEW B, B = BoundMessages(r, s, msgs)
  PROVE  /\ B \in Seq(Messages) /\ From(B, msgs)
         /\ r.op # None /\ r.op.s = s => KeepsPair(r.op, msgs, B)
<1> DEFINE unique == {i \in DOMAIN msgs :
                        \A j \in DOMAIN msgs : j > i => Id(msgs[j]) # Id(msgs[i])}
           pair   == IF r.op # None /\ r.op.s = s
                     THEN {<<UserOf(r.op.turn), r.op.userSaved>>, <<AnswerOf(r.op.turn), FALSE>>}
                     ELSE {}
           kept   == {i \in unique : Id(msgs[i]) \in pair}
           newest == {i \in unique \ kept :
                        Cardinality({j \in unique \ kept : j > i}) + Cardinality(kept) < MaxMessages}
           places == IF Cardinality(unique) <= MaxMessages THEN unique ELSE kept \cup newest
<1>1. B = Keep(msgs, places)
  BY DEF BoundMessages
<1>2. kept \subseteq places
  OBVIOUS
<1> HIDE DEF places
<1>3. B \in Seq(Messages) /\ Kept(msgs, places, B)
  BY <1>1, KeepHas
<1>4. \A k \in DOMAIN B : \E i \in DOMAIN msgs : B[k] = msgs[i]
  BY <1>3 DEF Kept
<1>5. ASSUME r.op # None, r.op.s = s, NEW i \in DOMAIN msgs, Id(msgs[i]) \in PairIds(r.op)
      PROVE  \E k \in DOMAIN B : Id(B[k]) = Id(msgs[i])
  <2> DEFINE same == {j \in DOMAIN msgs : Id(msgs[j]) = Id(msgs[i])}
  <2>1. Len(msgs) \in Nat /\ DOMAIN msgs = 1..Len(msgs)
    OBVIOUS
  <2>2. same \subseteq 0..Len(msgs) /\ i \in same
    BY <2>1
  <2>3. PICK m \in same : \A x \in same : x <= m
    <3> HIDE DEF same
    <3>1. same # {}
      BY <2>2
    <3> QED
      BY <2>1, <2>2, <3>1, LastOne
  <2>4. m \in DOMAIN msgs /\ Id(msgs[m]) = Id(msgs[i])
    OBVIOUS
  <2>5. \A j \in DOMAIN msgs : j > m => Id(msgs[j]) # Id(msgs[m])
    <3> SUFFICES ASSUME NEW j \in DOMAIN msgs, j > m, Id(msgs[j]) = Id(msgs[m])
                 PROVE  FALSE
      OBVIOUS
    <3>1. j \in same
      BY <2>4
    <3>2. j <= m
      BY <3>1, <2>3
    <3>3. j \in Nat /\ m \in Nat
      BY <2>1, <2>4
    <3> QED
      BY <3>2, <3>3
  <2>6. pair = PairIds(r.op)
    BY <1>5 DEF PairIds
  <2>7. m \in unique
    BY <2>4, <2>5
  <2>8. m \in kept
    <3> HIDE DEF unique, pair
    <3> QED
      BY <2>4, <2>6, <2>7, <1>5
  <2>9. m \in places
    BY <2>8, <1>2
  <2>10. PICK k \in DOMAIN B : B[k] = msgs[m]
    BY <2>9, <2>4, <1>3 DEF Kept
  <2> QED
    BY <2>10, <2>4
<1> QED
  BY <1>3, <1>4, <1>5 DEF From, KeepsPair

\* What the elements of two joined sequences are.
Joined(a, b, c) ==
  /\ \A k \in DOMAIN c : (\E i \in DOMAIN a : c[k] = a[i]) \/ (\E i \in DOMAIN b : c[k] = b[i])
  /\ \A i \in DOMAIN a : \E k \in DOMAIN c : c[k] = a[i]
  /\ \A i \in DOMAIN b : \E k \in DOMAIN c : c[k] = b[i]

LEMMA JoinHas ==
  ASSUME NEW T, NEW a \in Seq(T), NEW b \in Seq(T)
  PROVE  a \o b \in Seq(T) /\ Joined(a, b, a \o b)
<1> DEFINE c == a \o b
<1>1. c \in Seq(T) /\ Len(c) = Len(a) + Len(b) /\ Len(a) \in Nat /\ Len(b) \in Nat
  OBVIOUS
<1>2. DOMAIN a = 1..Len(a) /\ DOMAIN b = 1..Len(b) /\ DOMAIN c = 1..(Len(a) + Len(b))
  BY <1>1
<1>3. \A k \in 1..(Len(a) + Len(b)) : c[k] = IF k <= Len(a) THEN a[k] ELSE b[k - Len(a)]
  OBVIOUS
<1>4. ASSUME NEW k \in DOMAIN c
      PROVE  (\E i \in DOMAIN a : c[k] = a[i]) \/ (\E i \in DOMAIN b : c[k] = b[i])
  <2>1. CASE k <= Len(a)
    BY <2>1, <1>1, <1>2, <1>3
  <2>2. CASE ~(k <= Len(a))
    <3>1. k - Len(a) \in 1..Len(b)
      BY <2>2, <1>1, <1>2
    <3> QED
      BY <3>1, <2>2, <1>2, <1>3
  <2> QED
    BY <2>1, <2>2
<1>5. ASSUME NEW i \in DOMAIN a
      PROVE  \E k \in DOMAIN c : c[k] = a[i]
  <2>1. i \in 1..(Len(a) + Len(b)) /\ i <= Len(a)
    BY <1>1, <1>2
  <2> QED
    BY <2>1, <1>2, <1>3
<1>6. ASSUME NEW i \in DOMAIN b
      PROVE  \E k \in DOMAIN c : c[k] = b[i]
  <2>1. i + Len(a) \in 1..(Len(a) + Len(b)) /\ ~(i + Len(a) <= Len(a)) /\ (i + Len(a)) - Len(a) = i
    BY <1>1, <1>2
  <2> QED
    BY <2>1, <1>2, <1>3
<1> QED
  BY <1>1, <1>4, <1>5, <1>6 DEF Joined

\* mergeHistory: the page, and of the rest what the server has not stored.
Merged(page, msgs, M) ==
  /\ \A k \in DOMAIN M : (\E i \in DOMAIN page : M[k] = page[i]) \/ (\E i \in DOMAIN msgs : M[k] = msgs[i])
  /\ \A i \in DOMAIN page : \E k \in DOMAIN M : M[k] = page[i]
  /\ \A i \in DOMAIN msgs : msgs[i].delivery # "persisted" /\ Id(msgs[i]) \notin IdsOf(page) =>
        \E k \in DOMAIN M : M[k] = msgs[i]

LEMMA MergeHas ==
  ASSUME NEW page \in Seq(Messages), NEW msgs \in Seq(Messages), NEW M, M = MergeHistory(page, msgs)
  PROVE  M \in Seq(Messages) /\ Merged(page, msgs, M)
<1> DEFINE places == {i \in DOMAIN msgs : /\ msgs[i].delivery # "persisted"
                                          /\ Id(msgs[i]) \notin IdsOf(page)}
<1>1. PICK b : b = Keep(msgs, places)
  OBVIOUS
<1>2. b \in Seq(Messages) /\ Kept(msgs, places, b)
  BY <1>1, KeepHas
<1>3. M = page \o b
  BY <1>1 DEF MergeHistory
<1>4. /\ M \in Seq(Messages)
      /\ \A k \in DOMAIN M : (\E i \in DOMAIN page : M[k] = page[i]) \/ (\E i \in DOMAIN b : M[k] = b[i])
      /\ \A i \in DOMAIN page : \E k \in DOMAIN M : M[k] = page[i]
      /\ \A i \in DOMAIN b : \E k \in DOMAIN M : M[k] = b[i]
  <2>1. M \in Seq(Messages) /\ Joined(page, b, M)
    BY <1>2, <1>3, JoinHas
  <2> QED
    BY <2>1 DEF Joined
<1>5. \A k \in DOMAIN b : \E i \in DOMAIN msgs : b[k] = msgs[i] /\ msgs[i].delivery # "persisted"
  BY <1>2 DEF Kept
<1>6. \A i \in DOMAIN msgs : i \in places => \E k \in DOMAIN b : b[k] = msgs[i]
  BY <1>2, Zenon DEF Kept
<1>7. \A i \in DOMAIN msgs : msgs[i].delivery # "persisted" /\ Id(msgs[i]) \notin IdsOf(page) =>
         \E k \in DOMAIN M : M[k] = msgs[i]
  <2> SUFFICES ASSUME NEW i \in DOMAIN msgs, msgs[i].delivery # "persisted", Id(msgs[i]) \notin IdsOf(page)
               PROVE  \E k \in DOMAIN M : M[k] = msgs[i]
    OBVIOUS
  <2>1. i \in places
    OBVIOUS
  <2>2. PICK k \in DOMAIN b : b[k] = msgs[i]
    BY <2>1, <1>6
  <2> QED
    BY <2>2, <1>4
<1>8. \A k \in DOMAIN M : \/ \E i \in DOMAIN page : M[k] = page[i]
                          \/ \E i \in DOMAIN msgs : M[k] = msgs[i] /\ msgs[i].delivery # "persisted"
  <2> SUFFICES ASSUME NEW k \in DOMAIN M, ~\E i \in DOMAIN page : M[k] = page[i]
               PROVE  \E i \in DOMAIN msgs : M[k] = msgs[i] /\ msgs[i].delivery # "persisted"
    OBVIOUS
  <2>1. PICK j \in DOMAIN b : M[k] = b[j]
    BY <1>4
  <2>2. PICK i \in DOMAIN msgs : b[j] = msgs[i] /\ msgs[i].delivery # "persisted"
    BY <1>5
  <2> QED
    BY <2>1, <2>2
<1> QED
  BY <1>4, <1>7, <1>8 DEF Merged

\* prependHistory: what was there, and what the page adds.
Prepended(page, msgs, M) ==
  /\ \A k \in DOMAIN M : (\E i \in DOMAIN page : M[k] = page[i]) \/ (\E i \in DOMAIN msgs : M[k] = msgs[i])
  /\ \A i \in DOMAIN msgs : \E k \in DOMAIN M : M[k] = msgs[i]

LEMMA PrependHas ==
  ASSUME NEW page \in Seq(Messages), NEW msgs \in Seq(Messages), NEW M, M = PrependHistory(page, msgs)
  PROVE  M \in Seq(Messages) /\ Prepended(page, msgs, M)
<1> DEFINE places == {i \in DOMAIN page : Id(page[i]) \notin IdsOf(msgs)}
<1>1. PICK a : a = Keep(page, places)
  OBVIOUS
<1>2. a \in Seq(Messages) /\ Kept(page, places, a)
  BY <1>1, KeepHas
<1>3. M = a \o msgs
  BY <1>1 DEF PrependHistory
<1>4. /\ M \in Seq(Messages)
      /\ \A k \in DOMAIN M : (\E i \in DOMAIN a : M[k] = a[i]) \/ (\E i \in DOMAIN msgs : M[k] = msgs[i])
      /\ \A i \in DOMAIN msgs : \E k \in DOMAIN M : M[k] = msgs[i]
  <2>1. M \in Seq(Messages) /\ Joined(a, msgs, M)
    BY <1>2, <1>3, JoinHas
  <2> QED
    BY <2>1 DEF Joined
<1>5. \A k \in DOMAIN a : \E i \in DOMAIN page : a[k] = page[i]
  BY <1>2 DEF Kept
<1>6. \A k \in DOMAIN M : \/ \E i \in DOMAIN page : M[k] = page[i]
                          \/ \E i \in DOMAIN msgs : M[k] = msgs[i]
  BY <1>4, <1>5
<1> QED
  BY <1>4, <1>6 DEF Prepended

(***************************************************************************)
(* The inductive invariant, of a value r of rt and a value n of net.       *)
(***************************************************************************)
MsgsOf(r, s)   == r.snap[s].msgs
ThreadOf(r, s) == r.snap[s].thread
Running(r, s)  == r.op # None /\ r.op.s = s

\* Ids are never used twice, and only sessions that are there have requests.
Known(r) ==
  /\ r.turns >= 1 /\ Present(r) \subseteq r.used
  /\ \A s \in Sessions \ Present(r) : r.hops[s] = 0

Requests(r) ==
  \A s \in Sessions :
    /\ r.hops[s] # 0 => r.hops[s] = r.snap[s].hist.req
    /\ ~r.disposed /\ r.snap[s].hist.status = "loading" => r.hops[s] = r.snap[s].hist.req

OneRunOf(r) ==
  ~r.disposed =>
    /\ \A s \in Sessions : r.snap[s].run # None <=> r.op # None /\ r.op.s = s
    /\ r.op # None => r.op.s \in Present(r) /\ r.snap[r.op.s].run.turn = r.op.turn
    /\ \A t \in Threads, s \in Sessions :
          r.byThread[t] = s <=> s \in Present(r) /\ r.snap[s].thread = t

\* The operation is about the last turn asked; it creates its thread first.
Asked(r) ==
  r.op # None =>
    /\ ~r.disposed /\ r.op.turn + 1 = r.turns /\ r.op.turn >= 1
    /\ r.op.stage = "creating" <=> ThreadOf(r, r.op.s) = None

\* The server knows no turn that was not asked.
Stored(r, n) ==
  /\ n.srv.turn < r.turns /\ (n.srv.at # "none" => n.srv.turn >= 1)
  /\ \A t \in Threads : n.log[t] \subseteq 1..(2 * r.turns - 1)

\* A page that was read holds what the log held; no question is ever deleted.
ReplySound(r, n, p) ==
  /\ \A k \in DOMAIN p.reply.items :
        /\ p.reply.items[k] < 2 * r.turns
        /\ p.reply.items[k] % 2 = 0 => p.reply.items[k] \in n.log[p.thread]
  /\ p.reply.more => Len(p.reply.items) >= 1

PageSound(r, n, p) ==
  /\ p.s \in r.used /\ p.req >= 1
  /\ p.s \in Present(r) => p.req <= r.snap[p.s].hist.req
  /\ p.req = r.hops[p.s] => p.thread = ThreadOf(r, p.s)
  /\ p.mode = "replace" => p.cursor = 0
  /\ p.reply # None => ReplySound(r, n, p)

Paged(r, n) == \A p \in n.pages : PageSound(r, n, p)

Served(r, n) ==
  ~r.disposed =>
    \A s \in Sessions : r.hops[s] # 0 => \E p \in n.pages : p.s = s /\ p.req = r.hops[s]

\* An answer that is being deleted, or was, is older than the running turn.
Older(r, s, o) ==
  o % 2 = 1 /\ o < 2 * r.turns /\ (Running(r, s) => o < UserOf(r.op.turn))

Deleted(r, n) ==
  /\ \A d \in n.dels : Older(r, d.s, d.m[1]) /\ d.m = <<d.m[1], TRUE>>
  /\ \A g \in n.gone : Older(r, g[1], g[2])

Core(r, n) ==
  /\ Known(r) /\ Requests(r) /\ OneRunOf(r) /\ Asked(r)
  /\ Stored(r, n) /\ Paged(r, n) /\ Served(r, n) /\ Deleted(r, n)

PlacedIn(r, m) == m.o < 2 * r.turns /\ (m.delivery = "persisted" => m.saved)

Placed(r) == \A s \in Sessions : \A i \in DOMAIN MsgsOf(r, s) : PlacedIn(r, MsgsOf(r, s)[i])

IsUser(m, op)   == Id(m) = <<UserOf(op.turn), op.userSaved>>
IsAnswer(m, op) == Id(m) = <<AnswerOf(op.turn), FALSE>>

PairIn(op, msgs) ==
  /\ \E i \in DOMAIN msgs : IsUser(msgs[i], op)
  /\ \E i \in DOMAIN msgs : IsAnswer(msgs[i], op)
  /\ \A i \in DOMAIN msgs : IsAnswer(msgs[i], op) => msgs[i].delivery = "streaming"

Pair(r) == r.op # None => PairIn(r.op, MsgsOf(r, r.op.s))

\* Once a page has brought the question of the running turn, the log of the
\* thread holds it, and so does every page of the newest messages to come.
Brought(r, n, u) ==
  LET s == r.op.s IN
  /\ ThreadOf(r, s) # None
  /\ u \in n.log[ThreadOf(r, s)]
  /\ \A p \in n.pages :
        p.s = s /\ p.req = r.hops[s] /\ p.reply # None /\ p.mode = "replace" =>
          \E k \in DOMAIN p.reply.items : p.reply.items[k] = u

FromPage(m, u) == m.o = u /\ m.delivery = "persisted"

Fresh(r, n) ==
  r.op # None =>
    \A i \in DOMAIN MsgsOf(r, r.op.s) :
      FromPage(MsgsOf(r, r.op.s)[i], UserOf(r.op.turn)) => Brought(r, n, UserOf(r.op.turn))

Absent(g, msgs) == \A i \in DOMAIN msgs : Id(msgs[i]) # <<g[2], TRUE>>
Gone(r, n) == \A g \in n.gone : Absent(g, MsgsOf(r, g[1]))

Shown(r, n) == Placed(r) /\ Pair(r) /\ Fresh(r, n) /\ Gone(r, n)

Typed(r, n) == r \in Runtimes /\ n \in Worlds

Good(r, n) == Typed(r, n) /\ Core(r, n) /\ Shown(r, n)

IInv == Good(rt, net)

LEMMA NullIsNone == None \notin Runs /\ None \notin Operations
  BY NullAssumption

\* The invariant says what RuntimeConsistent says.
LEMMA GoodIsConsistent == IInv => RuntimeConsistent
<1> SUFFICES ASSUME IInv
             PROVE  RuntimeConsistent
  OBVIOUS
<1> USE DEF IInv, Good
<1>1. TypeOK
  BY DEF TypeOK, Typed, Core, Known
<1>2. OneRun
  BY DEF OneRun, Core, OneRunOf
<1>3. PairKept
  <2> SUFFICES ASSUME rt.op # None
               PROVE  /\ <<UserOf(rt.op.turn), rt.op.userSaved>> \in IdsOf(rt.snap[rt.op.s].msgs)
                      /\ \E i \in DOMAIN rt.snap[rt.op.s].msgs :
                            /\ Id(rt.snap[rt.op.s].msgs[i]) = <<AnswerOf(rt.op.turn), FALSE>>
                            /\ rt.snap[rt.op.s].msgs[i].delivery = "streaming"
    BY DEF PairKept
  <2>1. PairIn(rt.op, rt.snap[rt.op.s].msgs)
    BY DEF Shown, Pair, MsgsOf
  <2>2. PICK i \in DOMAIN rt.snap[rt.op.s].msgs : IsUser(rt.snap[rt.op.s].msgs[i], rt.op)
    BY <2>1 DEF PairIn
  <2>3. <<UserOf(rt.op.turn), rt.op.userSaved>> \in IdsOf(rt.snap[rt.op.s].msgs)
    BY <2>2, Zenon DEF IsUser, IdsOf
  <2> QED
    BY <2>1, <2>3, Zenon DEF PairIn, IsAnswer
<1>4. LoadingIsServed
  BY DEF LoadingIsServed, Core, Served, Requests
<1>5. DeletedStaysGone
  <2> SUFFICES ASSUME NEW g \in net.gone, <<g[2], TRUE>> \in IdsOf(rt.snap[g[1]].msgs)
               PROVE  FALSE
    BY DEF DeletedStaysGone
  <2>1. Absent(g, rt.snap[g[1]].msgs)
    BY DEF Shown, Gone, MsgsOf
  <2> QED
    BY <2>1, Zenon DEF Absent, IdsOf
<1> QED
  BY <1>1, <1>2, <1>3, <1>4, <1>5 DEF RuntimeConsistent

(***************************************************************************)
(* What most steps leave alone.                                            *)
(***************************************************************************)
SameRun(r, q, s) ==
  /\ q.snap[s].run # None <=> r.snap[s].run # None
  /\ r.snap[s].run # None => q.snap[s].run.turn = r.snap[s].run.turn

SameOp(r, q) ==
  /\ q.op # None <=> r.op # None
  /\ r.op # None => q.op.s = r.op.s /\ q.op.turn = r.op.turn /\ q.op.stage = r.op.stage

SameFrame(r, q) ==
  /\ Present(q) = Present(r) /\ q.used = r.used /\ q.byThread = r.byThread
  /\ q.turns = r.turns /\ q.disposed = r.disposed /\ q.hops = r.hops
  /\ SameOp(r, q)
  /\ \A s \in Sessions :
        /\ q.snap[s].thread = r.snap[s].thread
        /\ q.snap[s].hist.req = r.snap[s].hist.req
        /\ q.snap[s].hist.status = "loading" => r.snap[s].hist.status = "loading"
        /\ SameRun(r, q, s)

LEMMA FrameCore ==
  ASSUME NEW r \in Runtimes, NEW q \in Runtimes, NEW n \in Worlds, Core(r, n), SameFrame(r, q)
  PROVE  Core(q, n)
<1> USE DEF SameFrame
<1>0. r.op # None => r.op \in Operations /\ r.op.s \in Sessions
  BY DEF Runtimes, Operations
<1>1. Known(q)
  BY DEF Core, Known
<1>2. Requests(q)
  BY DEF Core, Requests
<1>3. OneRunOf(q)
  <2> SUFFICES ASSUME ~q.disposed
               PROVE  /\ \A s \in Sessions : q.snap[s].run # None <=> q.op # None /\ q.op.s = s
                      /\ q.op # None => q.op.s \in Present(q) /\ q.snap[q.op.s].run.turn = q.op.turn
                      /\ \A t \in Threads, s \in Sessions :
                            q.byThread[t] = s <=> s \in Present(q) /\ q.snap[s].thread = t
    BY DEF OneRunOf
  <2>1. OneRunOf(r) /\ ~r.disposed
    BY DEF Core
  <2>2. \A s \in Sessions : q.snap[s].run # None <=> q.op # None /\ q.op.s = s
    BY <2>1 DEF OneRunOf, SameRun, SameOp
  <2>3. q.op # None => q.op.s \in Present(q) /\ q.snap[q.op.s].run.turn = q.op.turn
    BY <2>1, <1>0 DEF OneRunOf, SameRun, SameOp
  <2>4. \A t \in Threads, s \in Sessions :
           q.byThread[t] = s <=> s \in Present(q) /\ q.snap[s].thread = t
    BY <2>1 DEF OneRunOf
  <2> QED
    BY <2>2, <2>3, <2>4
<1>4. Asked(q)
  BY <1>0 DEF Core, Asked, SameOp, ThreadOf
<1>5. Stored(q, n)
  BY DEF Core, Stored
<1>6. Paged(q, n)
  <2> SUFFICES ASSUME NEW p \in n.pages
               PROVE  PageSound(q, n, p)
    BY DEF Paged
  <2>1. PageSound(r, n, p) /\ p.s \in Sessions
    BY DEF Core, Paged, Worlds, PageRequests
  <2> QED
    BY <2>1 DEF PageSound, ReplySound, ThreadOf
<1>7. Served(q, n)
  BY DEF Core, Served
<1>8. Deleted(q, n)
  <2>1. ASSUME NEW s, NEW o, Older(r, s, o)
        PROVE  Older(q, s, o)
    BY <2>1 DEF Older, Running, SameOp, UserOf
  <2> QED
    BY <2>1 DEF Core, Deleted
<1> QED
  BY <1>1, <1>2, <1>3, <1>4, <1>5, <1>6, <1>7, <1>8 DEF Core

\* Nor do they touch the messages.
LEMMA FrameShown ==
  ASSUME NEW r \in Runtimes, NEW q \in Runtimes, NEW n \in Worlds, Shown(r, n), SameFrame(r, q),
         \A s \in Sessions : MsgsOf(q, s) = MsgsOf(r, s),
         r.op # None => q.op.userSaved = r.op.userSaved
  PROVE  Shown(q, n)
<1> USE DEF SameFrame
<1>0. r.op # None => r.op.s \in Sessions
  BY DEF Runtimes, Operations
<1>1. Placed(q)
  BY DEF Shown, Placed, PlacedIn
<1>2. Pair(q)
  <2> SUFFICES ASSUME q.op # None
               PROVE  PairIn(q.op, MsgsOf(q, q.op.s))
    BY DEF Pair
  <2>1. r.op # None /\ q.op.s = r.op.s /\ q.op.turn = r.op.turn /\ q.op.userSaved = r.op.userSaved
    BY DEF SameOp
  <2>2. MsgsOf(q, q.op.s) = MsgsOf(r, r.op.s)
    BY <2>1, <1>0
  <2>3. PairIn(r.op, MsgsOf(r, r.op.s))
    BY <2>1 DEF Shown, Pair
  <2> QED
    BY <2>1, <2>2, <2>3, Zenon DEF PairIn, IsUser, IsAnswer
<1>3. Fresh(q, n)
  <2> SUFFICES ASSUME q.op # None, NEW i \in DOMAIN MsgsOf(q, q.op.s),
                      FromPage(MsgsOf(q, q.op.s)[i], UserOf(q.op.turn))
               PROVE  Brought(q, n, UserOf(q.op.turn))
    BY DEF Fresh
  <2>1. r.op # None /\ q.op.s = r.op.s /\ q.op.turn = r.op.turn
    BY DEF SameOp
  <2>2. MsgsOf(q, q.op.s) = MsgsOf(r, r.op.s) /\ ThreadOf(q, q.op.s) = ThreadOf(r, r.op.s)
    BY <2>1, <1>0 DEF ThreadOf
  <2>3. Brought(r, n, UserOf(r.op.turn))
    BY <2>1, <2>2 DEF Shown, Fresh
  <2> QED
    BY <2>1, <2>2, <2>3, Zenon DEF Brought
<1>4. Gone(q, n)
  <2> SUFFICES ASSUME NEW g \in n.gone
               PROVE  Absent(g, MsgsOf(q, g[1]))
    BY DEF Gone
  <2>1. g[1] \in Sessions
    BY DEF Worlds
  <2> QED
    BY <2>1 DEF Shown, Gone
<1> QED
  BY <1>1, <1>2, <1>3, <1>4 DEF Shown

(***************************************************************************)
(* Touching a session, and evicting some.                                  *)
(***************************************************************************)
\* What is left of a sequence of sessions, as a set.
LEMMA KeepRange ==
  ASSUME NEW T, NEW s \in Seq(T), NEW places
  PROVE  Range(Keep(s, places)) = {s[i] : i \in {j \in DOMAIN s : j \in places}}
<1>1. PICK r : r = Keep(s, places)
  OBVIOUS
<1>2. Kept(s, places, r)
  BY <1>1, KeepHas
<1>3. Range(r) = {r[k] : k \in DOMAIN r}
  BY DEF Range
<1>4. \A k \in DOMAIN r : \E i \in DOMAIN s : i \in places /\ r[k] = s[i]
  BY <1>2 DEF Kept
<1>5. \A i \in DOMAIN s : i \in places => \E k \in DOMAIN r : r[k] = s[i]
  BY <1>2 DEF Kept
<1>6. Range(r) = {s[i] : i \in {j \in DOMAIN s : j \in places}}
  BY <1>3, <1>4, <1>5
<1> QED
  BY <1>1, <1>6

LEMMA TouchIs ==
  ASSUME NEW r \in Runtimes, NEW s \in Sessions
  PROVE  /\ Touch(r, s) \in Runtimes
         /\ Present(Touch(r, s)) = Present(r)
         /\ Touch(r, s).snap = r.snap /\ Touch(r, s).used = r.used
         /\ Touch(r, s).byThread = r.byThread /\ Touch(r, s).active = r.active
         /\ Touch(r, s).op = r.op /\ Touch(r, s).hops = r.hops /\ Touch(r, s).subs = r.subs
         /\ Touch(r, s).turns = r.turns /\ Touch(r, s).disposed = r.disposed
<1>1. CASE s \notin Present(r)
  BY <1>1 DEF Touch
<1>2. CASE s \in Present(r)
  <2> DEFINE others == {i \in DOMAIN r.lru : r.lru[i] # s}
  <2>1. PICK k : k = Keep(r.lru, others)
    OBVIOUS
  <2>2. r.lru \in Seq(Sessions)
    BY DEF Runtimes
  <2>3. k \in Seq(Sessions)
    BY <2>1, <2>2, KeepHas
  <2>4. Range(k) = Range(r.lru) \ {s}
    <3>1. Range(k) = {r.lru[i] : i \in {j \in DOMAIN r.lru : j \in others}}
      BY <2>1, <2>2, KeepRange
    <3> QED
      BY <3>1 DEF Range
  <2>5. Append(k, s) \in Seq(Sessions) /\ Range(Append(k, s)) = Range(k) \cup {s}
    <3>1. Len(k) \in Nat /\ DOMAIN k = 1..Len(k) /\ DOMAIN Append(k, s) = 1..(Len(k) + 1)
      BY <2>3
    <3>2. \A i \in 1..Len(k) : Append(k, s)[i] = k[i]
      BY <2>3
    <3>3. Append(k, s)[Len(k) + 1] = s
      BY <2>3
    <3>4. Append(k, s) \in Seq(Sessions)
      BY <2>3
    <3> QED
      BY <3>1, <3>2, <3>3, <3>4 DEF Range
  <2>6. Touch(r, s) = [r EXCEPT !.lru = Append(k, s)]
    BY <1>2, <2>1 DEF Touch
  <2>7. Touch(r, s).lru = Append(k, s)
    BY <2>6 DEF Runtimes
  <2>8. Range(Append(k, s)) = Range(r.lru)
    BY <2>4, <2>5, <1>2 DEF Present
  <2> QED
    BY <2>5, <2>6, <2>7, <2>8 DEF Runtimes, Present
<1> QED
  BY <1>1, <1>2

LEMMA TouchFrame ==
  ASSUME NEW r \in Runtimes, NEW s \in Sessions
  PROVE  SameFrame(r, Touch(r, s))
  BY TouchIs DEF SameFrame, SameOp, SameRun

LEMMA EmptySnapshot ==
  ASSUME NEW t \in Threads \cup {None}
  PROVE  /\ InitialSnapshot(t) \in Snapshots
         /\ InitialSnapshot(t).thread = t /\ InitialSnapshot(t).msgs = <<>> /\ InitialSnapshot(t).run = None
         /\ InitialSnapshot(t).hist.req = 0 /\ InitialSnapshot(t).hist.status = "idle"
<1>1. [status |-> "idle", req |-> 0, more |-> FALSE, cursor |-> 0] \in Histories
  BY DEF Histories
<1>2. <<>> \in Seq(Messages)
  OBVIOUS
<1> QED
  BY <1>1, <1>2 DEF InitialSnapshot, Snapshots

\* Eviction removes sessions nobody needs, whole.
Evicts(r, q, gone) ==
  /\ \A s \in gone : s \in Present(r) /\ Evictable(r, s)
  /\ Present(q) = Present(r) \ gone
  /\ \A s \in Sessions : q.snap[s] = IF s \in gone THEN NoSnapshot ELSE r.snap[s]
  /\ \A t \in Threads :
        q.byThread[t] = IF \E s \in gone : r.snap[s].thread = t THEN None ELSE r.byThread[t]
  /\ q.used = r.used /\ q.active = r.active /\ q.op = r.op /\ q.hops = r.hops
  /\ q.subs = r.subs /\ q.turns = r.turns /\ q.disposed = r.disposed

LEMMA PruneIs ==
  ASSUME NEW r \in Runtimes
  PROVE  PruneSessions(r) \in Runtimes /\ \E gone \in SUBSET Sessions : Evicts(r, PruneSessions(r), gone)
<1> DEFINE places  == {i \in DOMAIN r.lru : Evictable(r, r.lru[i])}
           excess  == IF Len(r.lru) > MaxSessions THEN Len(r.lru) - MaxSessions ELSE 0
           evicted == {r.lru[i] : i \in {p \in places :
                         Cardinality({q \in places : q < p}) < excess}}
           left    == {i \in DOMAIN r.lru : r.lru[i] \notin evicted}
<1>1. r.lru \in Seq(Sessions)
  BY DEF Runtimes
<1>2. \A s \in evicted : s \in Sessions /\ s \in Present(r) /\ Evictable(r, s)
  <2> SUFFICES ASSUME NEW i \in DOMAIN r.lru, Evictable(r, r.lru[i])
               PROVE  r.lru[i] \in Sessions /\ r.lru[i] \in Present(r)
    OBVIOUS
  <2> QED
    BY <1>1 DEF Present, Range
<1> DEFINE snap == [s \in Sessions |-> IF s \in evicted THEN NoSnapshot ELSE r.snap[s]]
           byThread == [t \in Threads |->
                          IF \E s \in evicted : r.snap[s].thread = t THEN None ELSE r.byThread[t]]
           P == PruneSessions(r)
<1>3. PICK k : k = Keep(r.lru, left)
  OBVIOUS
<1>4. P = [r EXCEPT !.lru = k, !.snap = snap, !.byThread = byThread]
  BY <1>3 DEF PruneSessions
<1>5. k \in Seq(Sessions)
  BY <1>1, <1>3, KeepHas
<1>6. Range(k) = Present(r) \ evicted
  <2>1. Range(k) = {r.lru[i] : i \in {j \in DOMAIN r.lru : j \in left}}
    BY <1>1, <1>3, KeepRange
  <2> HIDE DEF evicted
  <2> QED
    BY <2>1 DEF Present, Range
<1> HIDE DEF evicted
<1>7. NoSnapshot \in Snapshots
  BY EmptySnapshot DEF NoSnapshot
<1>8. snap \in [Sessions -> Snapshots]
  BY <1>7 DEF Runtimes
<1>9. byThread \in [Threads -> Sessions \cup {None}]
  BY DEF Runtimes
<1>10. /\ \A s \in Sessions : snap[s] = IF s \in evicted THEN NoSnapshot ELSE r.snap[s]
       /\ \A t \in Threads : byThread[t] = IF \E s \in evicted : r.snap[s].thread = t THEN None ELSE r.byThread[t]
  OBVIOUS
<1> HIDE DEF snap, byThread, P
<1>11. P \in Runtimes /\ P.lru = k /\ P.snap = snap /\ P.byThread = byThread
  BY <1>4, <1>5, <1>8, <1>9 DEF Runtimes
<1>12. /\ P.used = r.used /\ P.active = r.active /\ P.op = r.op /\ P.hops = r.hops
       /\ P.subs = r.subs /\ P.turns = r.turns /\ P.disposed = r.disposed
  BY <1>4 DEF Runtimes
<1>13. Present(P) = Present(r) \ evicted
  BY <1>6, <1>11 DEF Present
<1>14. Evicts(r, P, evicted)
  BY <1>2, <1>10, <1>11, <1>12, <1>13 DEF Evicts
<1>15. evicted \in SUBSET Sessions
  BY <1>2
<1> QED
  BY <1>11, <1>14, <1>15 DEF P

\* Eviction keeps the invariant.
LEMMA PruneKeeps ==
  ASSUME NEW r, NEW n, Good(r, n), ~r.disposed
  PROVE  Good(PruneSessions(r), n)
<1>1. r \in Runtimes /\ n \in Worlds /\ Core(r, n) /\ Shown(r, n)
  BY DEF Good, Typed
<1>2. PICK q : q = PruneSessions(r)
  OBVIOUS
<1>3. q \in Runtimes
  BY <1>1, <1>2, PruneIs
<1>4. PICK gone \in SUBSET Sessions : Evicts(r, q, gone)
  BY <1>1, <1>2, PruneIs
<1>5. /\ q.used = r.used /\ q.op = r.op /\ q.hops = r.hops /\ q.turns = r.turns
      /\ q.disposed = r.disposed /\ Present(q) = Present(r) \ gone
  BY <1>4 DEF Evicts
<1>6. \A s \in gone : /\ s \in Present(r) /\ r.hops[s] = 0 /\ r.snap[s].run = None
                      /\ r.op = None \/ r.op.s # s
  BY <1>4 DEF Evicts, Evictable
<1>7. \A s \in Sessions \ gone : q.snap[s] = r.snap[s]
  BY <1>4 DEF Evicts
<1>8. \A s \in gone : /\ q.snap[s].thread = None /\ q.snap[s].msgs = <<>> /\ q.snap[s].run = None
                      /\ q.snap[s].hist.req = 0 /\ q.snap[s].hist.status = "idle"
  <2>1. \A s \in gone : q.snap[s] = NoSnapshot
    BY <1>4 DEF Evicts
  <2> QED
    BY <2>1, EmptySnapshot DEF NoSnapshot
<1>9. \A t \in Threads :
         q.byThread[t] = IF \E s \in gone : r.snap[s].thread = t THEN None ELSE r.byThread[t]
  BY <1>4 DEF Evicts
<1>10. r.op # None => r.op.s \in Sessions \ gone
  BY <1>1, <1>6 DEF Runtimes, Operations
<1>11. Known(q)
  <2>1. Known(r)
    BY <1>1 DEF Core
  <2> QED
    BY <2>1, <1>5, <1>6 DEF Known
<1>12. Requests(q)
  <2>1. Requests(r)
    BY <1>1 DEF Core
  <2> SUFFICES ASSUME NEW s \in Sessions
               PROVE  /\ q.hops[s] # 0 => q.hops[s] = q.snap[s].hist.req
                      /\ ~q.disposed /\ q.snap[s].hist.status = "loading" => q.hops[s] = q.snap[s].hist.req
    BY DEF Requests
  <2>2. CASE s \in gone
    BY <2>2, <1>5, <1>6, <1>8
  <2>3. CASE s \notin gone
    BY <2>3, <2>1, <1>5, <1>7 DEF Requests
  <2> QED
    BY <2>2, <2>3
<1>13. OneRunOf(q)
  <2>1. OneRunOf(r) /\ ~r.disposed
    BY <1>1 DEF Core
  <2>2. \A s \in Sessions : q.snap[s].run # None <=> q.op # None /\ q.op.s = s
    <3> SUFFICES ASSUME NEW s \in Sessions
                 PROVE  q.snap[s].run # None <=> q.op # None /\ q.op.s = s
      OBVIOUS
    <3>1. CASE s \in gone
      BY <3>1, <1>5, <1>6, <1>8
    <3>2. CASE s \notin gone
      BY <3>2, <2>1, <1>5, <1>7 DEF OneRunOf
    <3> QED
      BY <3>1, <3>2
  <2>3. q.op # None => q.op.s \in Present(q) /\ q.snap[q.op.s].run.turn = q.op.turn
    BY <2>1, <1>5, <1>7, <1>10 DEF OneRunOf
  <2>4. ASSUME NEW t \in Threads, NEW s \in Sessions
        PROVE  q.byThread[t] = s <=> s \in Present(q) /\ q.snap[s].thread = t
    <3>1. \A v \in Sessions : r.byThread[t] = v <=> v \in Present(r) /\ r.snap[v].thread = t
      BY <2>1 DEF OneRunOf
    <3>2. t # None /\ s # None
      BY RuntimeAssumption
    <3>3. CASE s \in gone
      <4>1. q.byThread[t] # s
        <5>1. CASE r.snap[s].thread = t
          BY <5>1, <3>3, <3>2, <1>9
        <5>2. CASE r.snap[s].thread # t
          BY <5>2, <3>1, <3>2, <1>9
        <5> QED
          BY <5>1, <5>2
      <4> QED
        BY <4>1, <3>3, <1>5
    <3>4. CASE s \notin gone
      <4>1. (s \in Present(q) <=> s \in Present(r)) /\ q.snap[s].thread = r.snap[s].thread
        BY <3>4, <1>5, <1>7
      <4>2. CASE \E v \in gone : r.snap[v].thread = t
        <5>1. PICK v \in gone : r.snap[v].thread = t
          BY <4>2
        <5>2. r.byThread[t] = v /\ v # s
          BY <5>1, <3>1, <3>4, <1>6
        <5>3. q.byThread[t] = None
          BY <4>2, <1>9
        <5> QED
          BY <5>2, <5>3, <3>1, <3>2, <4>1
      <4>3. CASE ~\E v \in gone : r.snap[v].thread = t
        <5>1. q.byThread[t] = r.byThread[t]
          BY <4>3, <1>9
        <5> QED
          BY <5>1, <4>1, <3>1
      <4> QED
        BY <4>2, <4>3
    <3> QED
      BY <3>3, <3>4
  <2> QED
    BY <2>2, <2>3, <2>4 DEF OneRunOf
<1>14. Asked(q)
  BY <1>1, <1>5, <1>7, <1>10 DEF Core, Asked, ThreadOf
<1>15. Stored(q, n)
  BY <1>1, <1>5 DEF Core, Stored
<1>16. Paged(q, n)
  <2> SUFFICES ASSUME NEW p \in n.pages
               PROVE  PageSound(q, n, p)
    BY DEF Paged
  <2>1. PageSound(r, n, p) /\ p.s \in Sessions /\ p.req \in Nat
    BY <1>1 DEF Core, Paged, Worlds, PageRequests
  <2>2. p.s \in gone => q.hops[p.s] = 0 /\ p.s \notin Present(q)
    BY <1>5, <1>6
  <2>3. p.s \notin gone => q.snap[p.s] = r.snap[p.s] /\ (p.s \in Present(q) <=> p.s \in Present(r))
    BY <2>1, <1>5, <1>7
  <2>4. p.s \in q.used /\ p.req >= 1 /\ (p.mode = "replace" => p.cursor = 0)
    BY <2>1, <1>5 DEF PageSound
  <2>5. p.s \in Present(q) => p.req <= q.snap[p.s].hist.req
    BY <2>1, <2>2, <2>3 DEF PageSound
  <2>6. p.req = q.hops[p.s] => p.thread = ThreadOf(q, p.s)
    BY <2>1, <2>2, <2>3, <1>5 DEF PageSound, ThreadOf
  <2>7. p.reply # None => ReplySound(q, n, p)
    BY <2>1, <1>5 DEF PageSound, ReplySound
  <2> QED
    BY <2>4, <2>5, <2>6, <2>7 DEF PageSound
<1>17. Served(q, n)
  BY <1>1, <1>5 DEF Core, Served
<1>18. Deleted(q, n)
  BY <1>1, <1>5 DEF Core, Deleted, Older, Running
<1>19. Placed(q)
  <2> SUFFICES ASSUME NEW s \in Sessions, NEW i \in DOMAIN MsgsOf(q, s)
               PROVE  PlacedIn(q, MsgsOf(q, s)[i])
    BY DEF Placed
  <2>1. s \notin gone
    BY <1>8 DEF MsgsOf
  <2> QED
    BY <2>1, <1>1, <1>5, <1>7 DEF Shown, Placed, PlacedIn, MsgsOf
<1>20. Pair(q)
  BY <1>1, <1>5, <1>7, <1>10 DEF Shown, Pair, MsgsOf
<1>21. Fresh(q, n)
  BY <1>1, <1>5, <1>7, <1>10 DEF Shown, Fresh, MsgsOf, Brought, ThreadOf
<1>22. Gone(q, n)
  <2> SUFFICES ASSUME NEW g \in n.gone
               PROVE  Absent(g, MsgsOf(q, g[1]))
    BY DEF Gone
  <2>1. g[1] \in Sessions
    BY <1>1 DEF Worlds
  <2>2. CASE g[1] \in gone
    BY <2>2, <1>8 DEF Absent, MsgsOf
  <2>3. CASE g[1] \notin gone
    BY <2>1, <2>3, <1>1, <1>7 DEF Shown, Gone, MsgsOf
  <2> QED
    BY <2>2, <2>3
<1>23. Core(q, n)
  BY <1>11, <1>12, <1>13, <1>14, <1>15, <1>16, <1>17, <1>18 DEF Core
<1>24. Shown(q, n)
  BY <1>19, <1>20, <1>21, <1>22 DEF Shown
<1> QED
  BY <1>1, <1>2, <1>3, <1>23, <1>24 DEF Good, Typed

LEMMA FrameKeeps ==
  ASSUME NEW r, NEW n, Good(r, n), NEW q \in Runtimes, SameFrame(r, q),
         \A s \in Sessions : MsgsOf(q, s) = MsgsOf(r, s),
         r.op # None => q.op.userSaved = r.op.userSaved
  PROVE  Good(q, n)
<1>1. r \in Runtimes /\ n \in Worlds /\ Core(r, n) /\ Shown(r, n)
  BY DEF Good, Typed
<1> QED
  BY <1>1, FrameCore, FrameShown DEF Good, Typed

\* An update that leaves the snapshots and the operation as they are.
LEMMA PlainKeeps ==
  ASSUME NEW r, NEW n, Good(r, n), NEW q \in Runtimes,
         Present(q) = Present(r), q.used = r.used, q.byThread = r.byThread, q.turns = r.turns,
         q.disposed = r.disposed, q.hops = r.hops, q.op = r.op, q.snap = r.snap
  PROVE  Good(q, n)
<1>1. SameFrame(r, q)
  BY DEF SameFrame, SameOp, SameRun
<1>2. \A s \in Sessions : MsgsOf(q, s) = MsgsOf(r, s)
  BY DEF MsgsOf
<1> QED
  BY <1>1, <1>2, FrameKeeps

LEMMA TouchKeeps ==
  ASSUME NEW r, NEW n, Good(r, n), NEW s \in Sessions
  PROVE  Good(Touch(r, s), n)
<1>1. r \in Runtimes
  BY DEF Good, Typed
<1> QED
  BY <1>1, TouchIs, PlainKeeps

(***************************************************************************)
(* Sessions.                                                               *)
(***************************************************************************)
\* A new session: its id is fresh, its thread has no session.
LEMMA NewKeeps ==
  ASSUME NEW r, NEW n, Good(r, n), ~r.disposed,
         NEW s \in Sessions \ r.used, NEW t \in Threads \cup {None},
         t # None => r.byThread[t] = None, NEW activate \in BOOLEAN
  PROVE  Good(NewSession(r, s, t, activate), n) /\ ~NewSession(r, s, t, activate).disposed
<1>1. r \in Runtimes /\ n \in Worlds /\ Core(r, n) /\ Shown(r, n)
  BY DEF Good, Typed
<1> DEFINE q == NewSession(r, s, t, activate)
           byThread == [u \in Threads |-> IF u = t THEN s ELSE r.byThread[u]]
<1>2. byThread \in [Threads -> Sessions \cup {None}] /\ \A u \in Threads : byThread[u] = IF u = t THEN s ELSE r.byThread[u]
  BY <1>1 DEF Runtimes
<1>3. q = [r EXCEPT !.snap[s] = InitialSnapshot(t), !.lru = Append(@, s), !.used = @ \cup {s},
                    !.byThread = byThread, !.active = IF activate \/ @ = None THEN s ELSE @]
  BY DEF NewSession
<1>4. InitialSnapshot(t) \in Snapshots
  BY EmptySnapshot
<1>5. Append(r.lru, s) \in Seq(Sessions) /\ Range(Append(r.lru, s)) = Present(r) \cup {s}
  <2>1. r.lru \in Seq(Sessions)
    BY <1>1 DEF Runtimes
  <2>2. Len(r.lru) \in Nat /\ DOMAIN r.lru = 1..Len(r.lru) /\ DOMAIN Append(r.lru, s) = 1..(Len(r.lru) + 1)
    BY <2>1
  <2>3. \A i \in 1..Len(r.lru) : Append(r.lru, s)[i] = r.lru[i]
    BY <2>1
  <2>4. Append(r.lru, s)[Len(r.lru) + 1] = s
    BY <2>1
  <2>5. Append(r.lru, s) \in Seq(Sessions)
    BY <2>1
  <2> QED
    BY <2>2, <2>3, <2>4, <2>5 DEF Range, Present
<1> HIDE DEF q, byThread
<1>6. /\ q \in Runtimes /\ q.lru = Append(r.lru, s) /\ q.used = r.used \cup {s}
      /\ q.byThread = byThread /\ q.op = r.op /\ q.hops = r.hops /\ q.turns = r.turns
      /\ q.disposed = r.disposed /\ q.snap = [r.snap EXCEPT ![s] = InitialSnapshot(t)]
  BY <1>1, <1>2, <1>3, <1>4, <1>5 DEF Runtimes
<1>7. Present(q) = Present(r) \cup {s}
  BY <1>5, <1>6 DEF Present
<1>8. \A v \in Sessions \ {s} : q.snap[v] = r.snap[v]
  BY <1>1, <1>6 DEF Runtimes
<1>9. /\ q.snap[s].thread = t /\ q.snap[s].msgs = <<>> /\ q.snap[s].run = None
      /\ q.snap[s].hist.req = 0 /\ q.snap[s].hist.status = "idle"
  BY <1>1, <1>6, EmptySnapshot DEF Runtimes
<1>10. s \notin Present(r) /\ r.hops[s] = 0
  BY <1>1 DEF Core, Known
<1>11. r.op # None => r.op.s \in Sessions \ {s}
  <2> SUFFICES ASSUME r.op # None
               PROVE  r.op.s \in Sessions \ {s}
    OBVIOUS
  <2>1. r.op.s \in Present(r) /\ r.op.s \in Sessions
    BY <1>1 DEF Core, OneRunOf, Runtimes, Operations
  <2> QED
    BY <2>1, <1>10
<1>12. Known(q)
  BY <1>1, <1>6, <1>7 DEF Core, Known
<1>13. Requests(q)
  <2> SUFFICES ASSUME NEW v \in Sessions
               PROVE  /\ q.hops[v] # 0 => q.hops[v] = q.snap[v].hist.req
                      /\ ~q.disposed /\ q.snap[v].hist.status = "loading" => q.hops[v] = q.snap[v].hist.req
    BY DEF Requests
  <2>1. CASE v = s
    BY <2>1, <1>6, <1>9, <1>10
  <2>2. CASE v # s
    BY <2>2, <1>1, <1>6, <1>8 DEF Core, Requests
  <2> QED
    BY <2>1, <2>2
<1>14. OneRunOf(q)
  <2>1. OneRunOf(r)
    BY <1>1 DEF Core
  <2>2. \A v \in Sessions : q.snap[v].run # None <=> q.op # None /\ q.op.s = v
    <3> SUFFICES ASSUME NEW v \in Sessions
                 PROVE  q.snap[v].run # None <=> q.op # None /\ q.op.s = v
      OBVIOUS
    <3>1. CASE v = s
      BY <3>1, <1>6, <1>9, <1>11
    <3>2. CASE v # s
      BY <3>2, <2>1, <1>6, <1>8 DEF OneRunOf
    <3> QED
      BY <3>1, <3>2
  <2>3. q.op # None => q.op.s \in Present(q) /\ q.snap[q.op.s].run.turn = q.op.turn
    BY <2>1, <1>6, <1>7, <1>8, <1>11 DEF OneRunOf
  <2>4. ASSUME NEW u \in Threads, NEW v \in Sessions
        PROVE  q.byThread[u] = v <=> v \in Present(q) /\ q.snap[v].thread = u
    <3>1. q.byThread[u] = IF u = t THEN s ELSE r.byThread[u]
      BY <1>2, <1>6
    <3>2. r.byThread[u] = v <=> v \in Present(r) /\ r.snap[v].thread = u
      BY <2>1 DEF OneRunOf
    <3>3. u # None /\ v # None
      BY RuntimeAssumption
    <3>4. CASE v = s
      <4>1. v \in Present(q) /\ q.snap[v].thread = t
        BY <3>4, <1>7, <1>9
      <4>2. r.byThread[u] # s
        BY <3>2, <3>4, <1>10
      <4> QED
        BY <4>1, <4>2, <3>1, <3>4
    <3>5. CASE v # s
      <4>1. (v \in Present(q) <=> v \in Present(r)) /\ q.snap[v].thread = r.snap[v].thread
        BY <3>5, <1>7, <1>8
      <4>2. CASE u = t
        <5>1. r.byThread[u] = None
          BY <4>2, <3>3
        <5>2. q.byThread[u] = s
          BY <4>2, <3>1
        <5> QED
          BY <5>1, <5>2, <3>2, <3>3, <3>5, <4>1
      <4>3. CASE u # t
        <5>1. q.byThread[u] = r.byThread[u]
          BY <4>3, <3>1
        <5> QED
          BY <5>1, <3>2, <4>1
      <4> QED
        BY <4>2, <4>3
    <3> QED
      BY <3>4, <3>5
  <2> QED
    BY <2>2, <2>3, <2>4 DEF OneRunOf
<1>15. Asked(q)
  BY <1>1, <1>6, <1>8, <1>11 DEF Core, Asked, ThreadOf
<1>16. Stored(q, n)
  BY <1>1, <1>6 DEF Core, Stored
<1>17. Paged(q, n)
  <2> SUFFICES ASSUME NEW p \in n.pages
               PROVE  PageSound(q, n, p)
    BY DEF Paged
  <2>1. PageSound(r, n, p) /\ p.s \in Sessions /\ p.req \in Nat
    BY <1>1 DEF Core, Paged, Worlds, PageRequests
  <2>2. p.s # s
    BY <2>1 DEF PageSound
  <2>3. q.snap[p.s] = r.snap[p.s] /\ (p.s \in Present(q) <=> p.s \in Present(r)) /\ p.s \in q.used
    BY <2>1, <2>2, <1>6, <1>7, <1>8 DEF PageSound
  <2> QED
    BY <2>1, <2>3, <1>6 DEF PageSound, ReplySound, ThreadOf
<1>18. Served(q, n)
  BY <1>1, <1>6 DEF Core, Served
<1>19. Deleted(q, n)
  BY <1>1, <1>6 DEF Core, Deleted, Older, Running
<1>20. Placed(q)
  <2> SUFFICES ASSUME NEW v \in Sessions, NEW i \in DOMAIN MsgsOf(q, v)
               PROVE  PlacedIn(q, MsgsOf(q, v)[i])
    BY DEF Placed
  <2>1. v # s
    BY <1>9 DEF MsgsOf
  <2> QED
    BY <2>1, <1>1, <1>6, <1>8 DEF Shown, Placed, PlacedIn, MsgsOf
<1>21. Pair(q)
  BY <1>1, <1>6, <1>8, <1>11 DEF Shown, Pair, MsgsOf
<1>22. Fresh(q, n)
  BY <1>1, <1>6, <1>8, <1>11 DEF Shown, Fresh, MsgsOf, Brought, ThreadOf
<1>23. Gone(q, n)
  <2> SUFFICES ASSUME NEW g \in n.gone
               PROVE  Absent(g, MsgsOf(q, g[1]))
    BY DEF Gone
  <2>1. g[1] \in Sessions
    BY <1>1 DEF Worlds
  <2>2. CASE g[1] = s
    BY <2>2, <1>9 DEF Absent, MsgsOf
  <2>3. CASE g[1] # s
    BY <2>1, <2>3, <1>1, <1>8 DEF Shown, Gone, MsgsOf
  <2> QED
    BY <2>2, <2>3
<1>24. Core(q, n)
  BY <1>12, <1>13, <1>14, <1>15, <1>16, <1>17, <1>18, <1>19 DEF Core
<1>25. Shown(q, n)
  BY <1>20, <1>21, <1>22, <1>23 DEF Shown
<1> QED
  BY <1>1, <1>6, <1>24, <1>25 DEF Good, Typed, q

LEMMA SessionStepKeeps ==
  ASSUME IInv, SessionStep
  PROVE  IInv'
<1>0. Good(rt, net) /\ rt \in Runtimes /\ net \in Worlds
  BY DEF IInv, Good, Typed
<1> SUFFICES net' = net /\ Good(rt', net)
  BY DEF IInv
<1>1. PICK s \in Sessions :
        \/ CreateDraft(s)
        \/ \E t \in Threads, activate \in BOOLEAN : ForThread(t, s, activate)
        \/ Activate(s) \/ SubscribeSession(s) \/ Unsubscribe(s)
  BY DEF SessionStep
<1>2. CASE CreateDraft(s)
  <2>1. Good(NewSession(rt, s, None, TRUE), net) /\ ~NewSession(rt, s, None, TRUE).disposed
    <3>1. ~rt.disposed /\ s \in Sessions \ rt.used
      BY <1>2 DEF CreateDraft, Available
    <3> QED
      BY <3>1, <1>0, NewKeeps
  <2> QED
    BY <2>1, <1>2, PruneKeeps DEF CreateDraft
<1>3. CASE \E t \in Threads, activate \in BOOLEAN : ForThread(t, s, activate)
  <2>1. PICK t \in Threads, activate \in BOOLEAN : ForThread(t, s, activate)
    BY <1>3
  <2>2. Good(NewSession(rt, s, t, activate), net) /\ ~NewSession(rt, s, t, activate).disposed
    <3>1. ~rt.disposed /\ s \in Sessions \ rt.used /\ rt.byThread[t] = None
      BY <2>1 DEF ForThread, Available
    <3> QED
      BY <3>1, <1>0, NewKeeps
  <2> QED
    BY <2>1, <2>2, PruneKeeps DEF ForThread
<1>4. CASE Activate(s)
  <2> DEFINE q == [Touch(rt, s) EXCEPT !.active = s]
  <2>1. Good(Touch(rt, s), net) /\ Touch(rt, s).disposed = rt.disposed /\ Touch(rt, s) \in Runtimes
    BY <1>0, TouchKeeps, TouchIs
  <2>2. ~rt.disposed
    BY <1>4 DEF Activate, Available
  <2>3. /\ q \in Runtimes /\ q.lru = Touch(rt, s).lru /\ q.used = Touch(rt, s).used
        /\ q.byThread = Touch(rt, s).byThread /\ q.turns = Touch(rt, s).turns
        /\ q.disposed = Touch(rt, s).disposed /\ q.hops = Touch(rt, s).hops
        /\ q.op = Touch(rt, s).op /\ q.snap = Touch(rt, s).snap
    BY <2>1 DEF Runtimes
  <2> HIDE DEF q
  <2>4. Present(q) = Present(Touch(rt, s))
    BY <2>3 DEF Present
  <2>5. Good(q, net) /\ ~q.disposed
    BY <2>1, <2>2, <2>3, <2>4, PlainKeeps
  <2>6. Good(PruneSessions(q), net)
    BY <2>5, PruneKeeps
  <2> QED
    BY <2>1, <2>6, <1>4 DEF Activate, q
<1>5. CASE SubscribeSession(s)
  <2> DEFINE q == [Touch(rt, s) EXCEPT !.subs[s] = TRUE]
  <2>1. Good(Touch(rt, s), net) /\ Touch(rt, s) \in Runtimes
    BY <1>0, TouchKeeps, TouchIs
  <2>2. /\ q \in Runtimes /\ q.lru = Touch(rt, s).lru /\ q.used = Touch(rt, s).used
        /\ q.byThread = Touch(rt, s).byThread /\ q.turns = Touch(rt, s).turns
        /\ q.disposed = Touch(rt, s).disposed /\ q.hops = Touch(rt, s).hops
        /\ q.op = Touch(rt, s).op /\ q.snap = Touch(rt, s).snap
    BY <2>1 DEF Runtimes
  <2> HIDE DEF q
  <2>3. Present(q) = Present(Touch(rt, s))
    BY <2>2 DEF Present
  <2>4. Good(q, net)
    BY <2>1, <2>2, <2>3, PlainKeeps
  <2> QED
    BY <2>4, <1>5 DEF SubscribeSession, q
<1>6. CASE Unsubscribe(s)
  <2> DEFINE q == [rt EXCEPT !.subs[s] = FALSE]
  <2>1. ~rt.disposed
    BY <1>6 DEF Unsubscribe, Available
  <2>2. /\ q \in Runtimes /\ q.lru = rt.lru /\ q.used = rt.used
        /\ q.byThread = rt.byThread /\ q.turns = rt.turns
        /\ q.disposed = rt.disposed /\ q.hops = rt.hops /\ q.op = rt.op /\ q.snap = rt.snap
    BY <1>0 DEF Runtimes
  <2> HIDE DEF q
  <2>3. Present(q) = Present(rt)
    BY <2>2 DEF Present
  <2>4. Good(q, net) /\ ~q.disposed
    BY <1>0, <2>1, <2>2, <2>3, PlainKeeps
  <2>5. Good(PruneSessions(q), net)
    BY <2>4, PruneKeeps
  <2> QED
    BY <2>5, <1>6 DEF Unsubscribe, q
<1> QED
  BY <1>1, <1>2, <1>3, <1>4, <1>5, <1>6

(***************************************************************************)
(* The server.  Its steps only add to the logs and to what it sends.       *)
(***************************************************************************)
Grows(r, n, m) ==
  /\ m \in Worlds /\ m.pages = n.pages /\ m.dels = n.dels /\ m.gone = n.gone
  /\ \A t \in Threads : n.log[t] \subseteq m.log[t]
  /\ Stored(r, m)

LEMMA GrowsSelf ==
  ASSUME NEW r, NEW n, Good(r, n)
  PROVE  Grows(r, n, n)
  BY DEF Good, Typed, Core, Grows

LEMMA GrowsKeeps ==
  ASSUME NEW r, NEW n, Good(r, n), NEW m, Grows(r, n, m)
  PROVE  Good(r, m)
<1>1. r \in Runtimes /\ n \in Worlds /\ m \in Worlds /\ Core(r, n) /\ Shown(r, n)
  BY DEF Good, Typed, Grows
<1>2. m.pages = n.pages /\ m.dels = n.dels /\ m.gone = n.gone /\ Stored(r, m)
  BY DEF Grows
<1>3. \A t \in Threads : n.log[t] \subseteq m.log[t]
  BY DEF Grows
<1>4. Paged(r, m)
  <2> SUFFICES ASSUME NEW p \in n.pages
               PROVE  PageSound(r, m, p)
    BY <1>2 DEF Paged
  <2>1. PageSound(r, n, p) /\ p.thread \in Threads
    BY <1>1 DEF Core, Paged, Worlds, PageRequests
  <2> QED
    BY <2>1, <1>3 DEF PageSound, ReplySound
<1>5. Served(r, m)
  BY <1>1, <1>2 DEF Core, Served
<1>6. Deleted(r, m)
  BY <1>1, <1>2 DEF Core, Deleted
<1>7. Fresh(r, m)
  <2> SUFFICES ASSUME r.op # None, NEW i \in DOMAIN MsgsOf(r, r.op.s),
                      FromPage(MsgsOf(r, r.op.s)[i], UserOf(r.op.turn))
               PROVE  Brought(r, m, UserOf(r.op.turn))
    BY DEF Fresh
  <2>1. Brought(r, n, UserOf(r.op.turn))
    BY <1>1 DEF Shown, Fresh
  <2>2. ThreadOf(r, r.op.s) \in Threads \cup {None}
    BY <1>1 DEF Runtimes, Operations, Snapshots, ThreadOf
  <2> QED
    BY <2>1, <2>2, <1>2, <1>3 DEF Brought
<1>8. Gone(r, m)
  BY <1>1, <1>2 DEF Shown, Gone
<1>9. Core(r, m) /\ Shown(r, m)
  BY <1>1, <1>2, <1>4, <1>5, <1>6, <1>7, <1>8 DEF Core, Shown
<1> QED
  BY <1>1, <1>9 DEF Good, Typed

LEMMA WireGrows ==
  ASSUME NEW r, NEW n, NEW m, Grows(r, n, m), NEW w \in Seq(Events)
  PROVE  Grows(r, n, [m EXCEPT !.wire = w])
<1> DEFINE k == [m EXCEPT !.wire = w]
<1>1. /\ k \in Worlds /\ k.pages = m.pages /\ k.dels = m.dels /\ k.gone = m.gone
      /\ k.log = m.log /\ k.srv = m.srv
  BY DEF Grows, Worlds
<1> HIDE DEF k
<1>2. Grows(r, n, k)
  BY <1>1 DEF Grows, Stored
<1> QED
  BY <1>2 DEF k

LEMMA FaultGrows ==
  ASSUME NEW r, NEW n, NEW m, Grows(r, n, m)
  PROVE  Grows(r, n, Fault(m))
<1> DEFINE k == [m EXCEPT !.faults = @ + 1]
<1>1. /\ k \in Worlds /\ k.pages = m.pages /\ k.dels = m.dels /\ k.gone = m.gone
      /\ k.log = m.log /\ k.srv = m.srv
  <2>1. m \in Worlds
    BY DEF Grows
  <2>2. PICK f \in Nat : f = m.faults + 1
    BY <2>1 DEF Worlds
  <2>3. k = [m EXCEPT !.faults = f]
    BY <2>2
  <2> HIDE DEF k
  <2> QED
    BY <2>1, <2>3 DEF Worlds
<1> HIDE DEF k
<1>2. Grows(r, n, k)
  BY <1>1 DEF Grows, Stored
<1> QED
  BY <1>2 DEF k, Fault

\* The run on the server is at another place, of the same turn.
LEMMA SrvGrows ==
  ASSUME NEW r, NEW n, NEW m, Grows(r, n, m), NEW v \in ServerRuns,
         v.turn < r.turns, v.at # "none" => v.turn >= 1
  PROVE  Grows(r, n, [m EXCEPT !.srv = v])
<1> DEFINE k == [m EXCEPT !.srv = v]
<1>1. /\ k \in Worlds /\ k.pages = m.pages /\ k.dels = m.dels /\ k.gone = m.gone
      /\ k.log = m.log /\ k.srv = v
  <2>1. m \in Worlds
    BY DEF Grows
  <2>2. \A x \in ServerRuns : LET z == [m EXCEPT !.srv = x] IN
           /\ z \in Worlds /\ z.pages = m.pages /\ z.dels = m.dels /\ z.gone = m.gone
           /\ z.log = m.log /\ z.srv = x
    BY <2>1 DEF Worlds
  <2> QED
    BY <2>2
<1> HIDE DEF k
<1>2. Grows(r, n, k)
  BY <1>1 DEF Grows, Stored
<1> QED
  BY <1>2 DEF k

\* A message of a turn that was asked is added to a log.
LEMMA LogGrows ==
  ASSUME NEW r \in Runtimes, NEW n, NEW m, Grows(r, n, m), NEW t, NEW o \in 1..(2 * r.turns - 1)
  PROVE  Grows(r, n, [m EXCEPT !.log[t] = @ \cup {o}])
<1> DEFINE k == [m EXCEPT !.log[t] = @ \cup {o}]
           log == [m.log EXCEPT ![t] = @ \cup {o}]
<1>0. r.turns \in Nat /\ m \in Worlds /\ m.log \in [Threads -> SUBSET Nat]
  BY DEF Grows, Worlds, Runtimes
<1>1. log = [u \in Threads |-> IF u = t THEN m.log[t] \cup {o} ELSE m.log[u]]
  BY <1>0
<1>2. /\ log \in [Threads -> SUBSET Nat]
      /\ \A u \in Threads : m.log[u] \subseteq log[u] /\ log[u] \subseteq m.log[u] \cup {o}
  <2>1. \A u \in Threads : log[u] = IF u = t THEN m.log[t] \cup {o} ELSE m.log[u]
    BY <1>1
  <2>2. o \in Nat /\ \A u \in Threads : m.log[u] \subseteq Nat
    BY <1>0
  <2>3. \A u \in Threads : log[u] \subseteq Nat
    BY <2>1, <2>2
  <2> HIDE DEF log
  <2>4. log \in [Threads -> SUBSET Nat]
    BY <2>3, <1>1
  <2> QED
    BY <2>1, <2>4
<1>3. k = [m EXCEPT !.log = log]
  OBVIOUS
<1> HIDE DEF log
<1>4. /\ k \in Worlds /\ k.pages = m.pages /\ k.dels = m.dels /\ k.gone = m.gone
      /\ k.log = log /\ k.srv = m.srv
  BY <1>0, <1>2, <1>3 DEF Worlds
<1> HIDE DEF k
<1>5. \A u \in Threads : k.log[u] \subseteq 1..(2 * r.turns - 1) /\ n.log[u] \subseteq k.log[u]
  BY <1>2, <1>4 DEF Grows, Stored
<1>6. Grows(r, n, k)
  BY <1>4, <1>5 DEF Grows, Stored
<1> QED
  BY <1>6 DEF k

LEMMA EventType ==
  ASSUME NEW n \in Worlds, NEW type \in EventTypes, NEW key \in Nat
  PROVE  Event(n, type, key) \in Events
<1>1. n.srv.seq + 1 \in Nat
  BY DEF Worlds, ServerRuns
<1> QED
  BY <1>1 DEF Event, Events

LEMMA EmitGrows ==
  ASSUME NEW r, NEW n, NEW m, Grows(r, n, m), NEW e \in Events
  PROVE  Grows(r, n, Emit(m, e))
<1>1. m \in Worlds /\ m.wire \in Seq(Events) /\ m.srv \in ServerRuns
  BY DEF Grows, Worlds
<1> DEFINE w == Append(m.wire, e)
           k == [m EXCEPT !.wire = w]
           v == [m.srv EXCEPT !.seq = e.seq]
<1>2. w \in Seq(Events)
  BY <1>1
<1>3. Grows(r, n, k)
  BY <1>2, WireGrows
<1>4. v \in ServerRuns /\ v.turn = m.srv.turn /\ v.at = m.srv.at
  BY <1>1 DEF ServerRuns, Events
<1>5. v.turn < r.turns /\ (v.at # "none" => v.turn >= 1)
  BY <1>4 DEF Grows, Stored
<1>6. Grows(r, n, [k EXCEPT !.srv = v])
  <2> HIDE DEF k, v
  <2> QED
    BY <1>3, <1>4, <1>5, SrvGrows
<1>7. Emit(m, e) = [k EXCEPT !.srv = v]
  BY <1>1 DEF Emit, Worlds
<1> QED
  BY <1>6, <1>7

LEMMA NoRunType == NoRun \in ServerRuns /\ NoRun.turn = 0 /\ NoRun.at = "none" /\ NoRun.thread = None
  BY DEF NoRun, ServerRuns, RunPlaces

LEMMA TornGrows ==
  ASSUME IInv, rt.op # None, NEW m, Grows(rt, net, m)
  PROVE  Grows(rt, net, Torn(m))
<1>1. m \in Worlds /\ rt \in Runtimes /\ rt.turns >= 1
  BY DEF IInv, Good, Typed, Grows, Core, Known
<1>2. rt.op.turn \in Nat
  BY <1>1 DEF Runtimes, Operations
<1> DEFINE torn == m.torn \cup {rt.op.turn}
           k == [m EXCEPT !.torn = torn]
<1>3. torn \in SUBSET Nat
  BY <1>1, <1>2 DEF Worlds
<1> HIDE DEF torn
<1>4. /\ k \in Worlds /\ k.pages = m.pages /\ k.dels = m.dels /\ k.gone = m.gone
      /\ k.log = m.log /\ k.srv = m.srv
  BY <1>1, <1>3 DEF Worlds
<1>5. Torn(m) = [k EXCEPT !.srv = NoRun]
  BY <1>1 DEF Torn, torn, Worlds
<1> HIDE DEF k
<1>6. Grows(rt, net, k)
  BY <1>4 DEF Grows, Stored
<1>7. NoRun.turn < rt.turns /\ (NoRun.at # "none" => NoRun.turn >= 1)
  BY <1>1, NoRunType DEF Runtimes
<1> QED
  BY <1>5, <1>6, <1>7, SrvGrows, NoRunType

\* What a broken connection leaves on the server.
LEMMA AbandonedGrows ==
  ASSUME IInv, rt.op # None, NEW n \in Abandoned(net)
  PROVE  Grows(rt, net, n)
<1>1. rt \in Runtimes /\ net \in Worlds /\ net.srv \in ServerRuns /\ rt.turns \in Nat
  BY DEF IInv, Good, Typed, Worlds, Runtimes
<1>2. Grows(rt, net, net)
  BY GrowsSelf DEF IInv
<1>3. net.srv.turn < rt.turns /\ (net.srv.at # "none" => net.srv.turn >= 1) /\ net.srv.turn \in Nat
  BY <1>1 DEF IInv, Good, Core, Stored, ServerRuns
<1>4. CASE n = Torn(net)
  BY <1>4, <1>2, TornGrows
<1>5. CASE net.srv.at = "posted" /\ n = Torn([net EXCEPT !.log[net.srv.thread] = @ \cup {UserOf(net.srv.turn)}])
  <2>1. UserOf(net.srv.turn) \in 1..(2 * rt.turns - 1)
    BY <1>1, <1>3, <1>5 DEF UserOf
  <2>2. Grows(rt, net, [net EXCEPT !.log[net.srv.thread] = @ \cup {UserOf(net.srv.turn)}])
    BY <2>1, <1>1, <1>2, LogGrows
  <2> QED
    BY <2>2, <1>5, TornGrows
<1>6. CASE net.srv.at = "answered" /\ n = Torn([net EXCEPT !.log[net.srv.thread] = @ \cup {AnswerOf(net.srv.turn)}])
  <2>1. AnswerOf(net.srv.turn) \in 1..(2 * rt.turns - 1)
    BY <1>1, <1>3, <1>6 DEF AnswerOf
  <2>2. Grows(rt, net, [net EXCEPT !.log[net.srv.thread] = @ \cup {AnswerOf(net.srv.turn)}])
    BY <2>1, <1>1, <1>2, LogGrows
  <2> QED
    BY <2>2, <1>6, TornGrows
<1>7. CASE net.srv.at = "posted"
  BY <1>7, <1>4, <1>5 DEF Abandoned
<1>8. CASE net.srv.at = "answered"
  BY <1>8, <1>4, <1>6 DEF Abandoned
<1>9. CASE net.srv.at # "posted" /\ net.srv.at # "answered"
  BY <1>9, <1>4 DEF Abandoned
<1> QED
  BY <1>7, <1>8, <1>9

\* The run moves to another place, its counters change, and one event is sent.
LEMMA MoveGrows ==
  ASSUME IInv, NEW v \in ServerRuns, v.turn = net.srv.turn, net.srv.at # "none", NEW e \in Events
  PROVE  Grows(rt, net, Emit([net EXCEPT !.srv = v], e))
<1>1. v.turn < rt.turns /\ (v.at # "none" => v.turn >= 1)
  BY DEF IInv, Good, Core, Stored
<1>2. Grows(rt, net, [net EXCEPT !.srv = v])
  BY <1>1, GrowsSelf, SrvGrows DEF IInv
<1> QED
  BY <1>2, EmitGrows

LEMMA MovedType ==
  ASSUME NEW n \in Worlds, NEW v \in ServerRuns
  PROVE  [n EXCEPT !.srv = v] \in Worlds /\ [n EXCEPT !.srv = v].srv = v
  BY DEF Worlds

LEMMA ServerStepKeeps ==
  ASSUME IInv, ServerStep
  PROVE  IInv'
<1>0. Good(rt, net) /\ rt \in Runtimes /\ net \in Worlds /\ net.srv \in ServerRuns /\ rt.turns \in Nat
  BY DEF IInv, Good, Typed, Worlds, Runtimes
<1>00. /\ net.srv.turn \in Nat /\ net.srv.at \in RunPlaces /\ net.srv.seq \in Nat /\ net.srv.model \in Nat
       /\ net.srv.calls \in Nat /\ net.srv.open \in SUBSET Nat /\ net.srv.deltas \in Nat
       /\ net.srv.thread \in Threads \cup {None} /\ net.wire \in Seq(Events)
  BY <1>0 DEF ServerRuns, Worlds
<1> SUFFICES rt' = rt /\ Grows(rt, net, net')
  BY <1>0, GrowsKeeps DEF IInv
<1>1. ASSUME NEW type \in EventTypes, NEW key \in Nat, NEW at \in RunPlaces, net.srv.at # "none",
             ServerEmits(type, key, at)
      PROVE  rt' = rt /\ Grows(rt, net, net')
  <2> DEFINE v == [net.srv EXCEPT !.at = at]
             e == Event(net, type, key)
  <2>1. v \in ServerRuns /\ v.turn = net.srv.turn
    BY <1>0 DEF ServerRuns, RunPlaces
  <2>2. e \in Events
    BY <1>0, EventType DEF EventTypes
  <2>3. rt' = rt /\ net' = Emit([net EXCEPT !.srv = v], e)
    BY <1>1, <1>0 DEF ServerEmits
  <2> HIDE DEF v, e
  <2> QED
    BY <2>1, <2>2, <2>3, <1>1, MoveGrows
<1>2. CASE ServerStarts
  <2> DEFINE v == [net.srv EXCEPT !.at = "think"]
             m == [net EXCEPT !.srv = v]
             u == UserOf(net.srv.turn)
             k == [m EXCEPT !.log[net.srv.thread] = @ \cup {u}]
             e == Event(k, "run.started", 0)
  <2>1. v \in ServerRuns /\ v.turn = net.srv.turn
    BY <1>0 DEF ServerRuns, RunPlaces
  <2>2. net.srv.turn >= 1 /\ net.srv.turn < rt.turns
    BY <1>0, <1>2 DEF ServerStarts, Good, Core, Stored
  <2>3. u \in 1..(2 * rt.turns - 1)
    BY <2>2, <1>0, <1>00 DEF UserOf
  <2>4. Grows(rt, net, m)
    <3> HIDE DEF v
    <3> QED
      BY <2>1, <2>2, <1>0, GrowsSelf, SrvGrows
  <2>5. Grows(rt, net, k)
    <3> HIDE DEF m, u
    <3> QED
      BY <2>3, <2>4, <1>0, LogGrows
  <2>6. rt' = rt /\ net' = Emit(k, e)
    BY <1>2, <1>0 DEF ServerStarts, Worlds
  <2> HIDE DEF k
  <2>7. e \in Events
    BY <2>5, EventType DEF Grows, EventTypes
  <2> HIDE DEF e
  <2> QED
    BY <2>5, <2>6, <2>7, EmitGrows
<1>3. CASE ServerTurn
  <2>1. PICK c \in Nat : c = net.srv.model + 1
    BY <1>00
  <2> DEFINE v == [net.srv EXCEPT !.at = "model", !.model = c]
             m == [net EXCEPT !.srv = v]
             e == Event(m, "turn.started", c)
  <2>2. v \in ServerRuns /\ v.turn = net.srv.turn /\ v.model = c
    BY <1>0 DEF ServerRuns, RunPlaces
  <2>3. m \in Worlds /\ m.srv = v
    BY <2>2, <1>0, MovedType
  <2>4. rt' = rt /\ net' = Emit(m, e) /\ net.srv.at # "none"
    <3>1. m = [net EXCEPT !.srv.at = "model", !.srv.model = @ + 1]
      BY <2>1, <1>0 DEF Worlds, ServerRuns
    <3> QED
      BY <3>1, <1>3, <2>2, <2>3 DEF ServerTurn
  <2>5. e \in Events
    <3> HIDE DEF m
    <3> QED
      BY <2>3, EventType DEF EventTypes
  <2> HIDE DEF v, e
  <2> QED
    BY <2>2, <2>4, <2>5, MoveGrows
<1>4. CASE ServerDelta
  <2>1. PICK c \in Nat : c = net.srv.deltas + 1
    BY <1>00
  <2> DEFINE v == [net.srv EXCEPT !.deltas = c]
             m == [net EXCEPT !.srv = v]
             e == [Event(m, "message.delta", net.srv.model) EXCEPT !.delta = c]
  <2>2. v \in ServerRuns /\ v.turn = net.srv.turn /\ v.model = net.srv.model /\ v.deltas = c
    BY <1>0 DEF ServerRuns, RunPlaces
  <2>3. m \in Worlds /\ m.srv = v
    BY <2>2, <1>0, MovedType
  <2>4. rt' = rt /\ net' = Emit(m, e) /\ net.srv.at # "none"
    BY <1>4, <2>1, <2>2, <2>3 DEF ServerDelta
  <2>5. e \in Events
    <3> HIDE DEF m
    <3>1. Event(m, "message.delta", net.srv.model) \in Events
      BY <2>3, <1>00, EventType DEF EventTypes
    <3> QED
      BY <3>1 DEF Events
  <2> HIDE DEF v, e
  <2> QED
    BY <2>2, <2>4, <2>5, MoveGrows
<1>5. ASSUME NEW tools \in BOOLEAN, ServerMessage(tools)
      PROVE  rt' = rt /\ Grows(rt, net, net')
  <2> DEFINE at == IF tools THEN "batch" ELSE "answered"
             v == [net.srv EXCEPT !.at = at]
             m == [net EXCEPT !.srv = v]
             e == [Event(m, "message.completed", net.srv.model) EXCEPT !.tools = tools]
  <2>1. at \in RunPlaces
    BY DEF RunPlaces
  <2>2. v \in ServerRuns /\ v.turn = net.srv.turn /\ v.model = net.srv.model
    <3> HIDE DEF at
    <3> QED
      BY <2>1, <1>0 DEF ServerRuns, RunPlaces
  <2>3. m \in Worlds /\ m.srv = v
    <3> HIDE DEF v
    <3> QED
      BY <2>2, <1>0, MovedType
  <2>4. rt' = rt /\ net' = Emit(m, e) /\ net.srv.at # "none"
    BY <1>5, <2>2, <2>3 DEF ServerMessage
  <2>5. e \in Events
    <3> HIDE DEF m
    <3>1. Event(m, "message.completed", net.srv.model) \in Events
      BY <2>3, <1>00, EventType DEF EventTypes
    <3> QED
      BY <3>1 DEF Events
  <2> HIDE DEF v, e
  <2> QED
    BY <2>2, <2>4, <2>5, MoveGrows
<1>6. CASE ServerAsks
  <2>1. PICK c \in Nat : c = net.srv.calls + 1
    BY <1>00
  <2> DEFINE v == [net.srv EXCEPT !.at = "waiting", !.calls = c]
             m == [net EXCEPT !.srv = v]
             e == Event(m, "tool.approval_required", c)
  <2>2. v \in ServerRuns /\ v.turn = net.srv.turn /\ v.calls = c
    BY <1>0 DEF ServerRuns, RunPlaces
  <2>3. m \in Worlds /\ m.srv = v
    BY <2>2, <1>0, MovedType
  <2>4. rt' = rt /\ net' = Emit(m, e) /\ net.srv.at # "none"
    <3>1. m = [net EXCEPT !.srv.at = "waiting", !.srv.calls = @ + 1]
      BY <2>1, <1>0 DEF Worlds, ServerRuns
    <3> QED
      BY <3>1, <1>6, <2>2, <2>3 DEF ServerAsks, NextCall
  <2>5. e \in Events
    <3> HIDE DEF m
    <3> QED
      BY <2>3, EventType DEF EventTypes
  <2> HIDE DEF v, e
  <2> QED
    BY <2>2, <2>4, <2>5, MoveGrows
<1>7. CASE ServerStartsTool
  <2>1. PICK c \in Nat : c = net.srv.calls + 1
    BY <1>00
  <2> DEFINE w == [net.srv EXCEPT !.calls = c]
             v == [net.srv EXCEPT !.calls = c, !.at = "preflight", !.open = net.srv.open \cup {c}]
             m == [net EXCEPT !.srv = v]
             e == Event(m, "tool.started", c)
  <2>2. v \in ServerRuns /\ v.turn = net.srv.turn /\ v.calls = c
    BY <1>0, <1>00 DEF ServerRuns, RunPlaces
  <2>3. m \in Worlds /\ m.srv = v
    BY <2>2, <1>0, MovedType
  <2>4. w \in ServerRuns /\ w.calls = c /\ w.open = net.srv.open /\ v = [w EXCEPT !.at = "preflight", !.open = w.open \cup {c}]
    BY <1>0 DEF ServerRuns, RunPlaces
  <2>5. rt' = rt /\ net' = Started([net EXCEPT !.srv = w]) /\ net.srv.at # "none"
    BY <1>7, <2>1 DEF ServerStartsTool, NextCall
  <2>6. [net EXCEPT !.srv = w] \in Worlds /\ [net EXCEPT !.srv = w].srv = w
    BY <2>4, <1>0, MovedType
  <2>7. Started([net EXCEPT !.srv = w]) = Emit(m, e)
    <3> DEFINE b == [net EXCEPT !.srv = w]
    <3>1. m = [b EXCEPT !.srv.at = "preflight", !.srv.open = @ \cup {b.srv.calls}]
      BY <2>1, <1>0 DEF Worlds, ServerRuns
    <3> QED
      BY <3>1, <2>2, <2>3 DEF Started
  <2>8. e \in Events
    <3> HIDE DEF m
    <3> QED
      BY <2>3, EventType DEF EventTypes
  <2> HIDE DEF v, e, m, w
  <2>9. Grows(rt, net, Emit(m, e))
    BY <2>2, <2>5, <2>8, MoveGrows DEF m
  <2> QED
    BY <2>5, <2>7, <2>9
<1>8. ASSUME NEW call \in net.srv.open, NEW type \in EventTypes, NEW activation \in BOOLEAN,
             ServerToolEnds(call, type, activation)
      PROVE  rt' = rt /\ Grows(rt, net, net')
  <2> DEFINE v == [net.srv EXCEPT !.at = "running", !.open = @ \ {call}]
             k == [net EXCEPT !.srv.at = "running", !.srv.open = @ \ {call}]
             e == Event(k, type, call)
             d == [e EXCEPT !.type = "universe.activation"]
             w == Append(k.wire, d)
             m == IF activation THEN [k EXCEPT !.wire = w] ELSE k
  <2>1. v \in ServerRuns /\ v.turn = net.srv.turn
    BY <1>0 DEF ServerRuns, RunPlaces
  <2>2. Grows(rt, net, k)
    <3>1. v.turn < rt.turns /\ (v.at # "none" => v.turn >= 1)
      <4>1. net.srv.at # "none"
        BY <1>8 DEF ServerToolEnds
      <4> QED
        BY <4>1, <2>1, <1>0 DEF Good, Core, Stored
    <3>2. k = [net EXCEPT !.srv = v]
      BY <1>0 DEF Worlds, ServerRuns
    <3> HIDE DEF v, k
    <3> QED
      BY <3>1, <3>2, <2>1, <1>0, GrowsSelf, SrvGrows
  <2>3. rt' = rt /\ net' = Emit(m, e)
    <3>1. CASE activation
      BY <3>1, <1>8 DEF ServerToolEnds
    <3>2. CASE ~activation
      BY <3>2, <1>8 DEF ServerToolEnds
    <3> QED
      BY <3>1, <3>2
  <2> HIDE DEF k
  <2>4. k \in Worlds /\ k.wire \in Seq(Events) /\ call \in Nat
    BY <2>2, <1>00 DEF Grows, Worlds
  <2>5. e \in Events
    BY <2>4, EventType
  <2> HIDE DEF e
  <2>6. d \in Events
    BY <2>5 DEF Events, EventTypes
  <2> HIDE DEF d
  <2>7. w \in Seq(Events)
    BY <2>4, <2>6
  <2> HIDE DEF w
  <2>8. Grows(rt, net, m)
    BY <2>2, <2>7, WireGrows
  <2> HIDE DEF m
  <2> QED
    BY <2>3, <2>5, <2>8, EmitGrows
<1>9. CASE ServerCompletes
  <2> DEFINE v == [net.srv EXCEPT !.at = "done"]
             m == [net EXCEPT !.srv = v]
             u == AnswerOf(net.srv.turn)
             k == [m EXCEPT !.log[net.srv.thread] = @ \cup {u}]
             e == Event(k, "run.completed", 0)
  <2>1. v \in ServerRuns /\ v.turn = net.srv.turn
    BY <1>0 DEF ServerRuns, RunPlaces
  <2>2. net.srv.turn >= 1 /\ net.srv.turn < rt.turns
    BY <1>0, <1>9 DEF ServerCompletes, Good, Core, Stored
  <2>3. u \in 1..(2 * rt.turns - 1)
    BY <2>2, <1>0, <1>00 DEF AnswerOf
  <2>4. Grows(rt, net, m)
    <3> HIDE DEF v
    <3> QED
      BY <2>1, <2>2, <1>0, GrowsSelf, SrvGrows
  <2>5. Grows(rt, net, k)
    <3> HIDE DEF m, u
    <3> QED
      BY <2>3, <2>4, <1>0, LogGrows
  <2>6. rt' = rt /\ net' = Emit(k, e)
    BY <1>9, <1>0 DEF ServerCompletes, Worlds
  <2> HIDE DEF k
  <2>7. e \in Events
    BY <2>5, EventType DEF Grows, EventTypes
  <2> HIDE DEF e
  <2> QED
    BY <2>5, <2>6, <2>7, EmitGrows
<1>10. CASE ServerFails
  <2> DEFINE v == [net.srv EXCEPT !.at = "done"]
             e == Event(net, "run.failed", 0)
             k == Emit([net EXCEPT !.srv = v], e)
  <2>1. v \in ServerRuns /\ v.turn = net.srv.turn
    BY <1>0 DEF ServerRuns, RunPlaces
  <2>2. e \in Events
    BY <1>0, EventType DEF EventTypes
  <2>3. rt' = rt /\ net' = Fault(k) /\ net.srv.at # "none"
    BY <1>10 DEF ServerFails, UnderWay
  <2> HIDE DEF v, e
  <2>4. Grows(rt, net, k)
    BY <2>1, <2>2, <2>3, MoveGrows
  <2> HIDE DEF k
  <2> QED
    BY <2>3, <2>4, FaultGrows
<1>11. CASE ServerCancels
  BY <1>11, <1>1 DEF ServerCancels, UnderWay, EventTypes, RunPlaces
<1>12. CASE ServerCloses
  <2> DEFINE k == [net EXCEPT !.srv = NoRun]
  <2>1. Grows(rt, net, k)
    <3>1. NoRun.turn < rt.turns /\ (NoRun.at # "none" => NoRun.turn >= 1)
      BY <1>0, NoRunType DEF Good, Core, Known
    <3> QED
      BY <3>1, <1>0, NoRunType, GrowsSelf, SrvGrows
  <2>2. rt' = rt /\ net' = [k EXCEPT !.conn = "closed"]
    BY <1>12, <1>0 DEF ServerCloses, Worlds
  <2> HIDE DEF k
  <2>3. /\ net' \in Worlds /\ net'.pages = k.pages /\ net'.dels = k.dels /\ net'.gone = k.gone
        /\ net'.log = k.log /\ net'.srv = k.srv
    BY <2>1, <2>2 DEF Grows, Worlds
  <2> QED
    BY <2>1, <2>2, <2>3 DEF Grows, Stored
<1>13. CASE ConnectionBreaks
  <2>1. PICK n \in Abandoned(net), c \in 0..Len(net.wire) :
           net' = Fault([n EXCEPT !.conn = "broken", !.wire = SubSeq(@, 1, c)])
    BY <1>13 DEF ConnectionBreaks
  <2>2. rt.op # None /\ rt' = rt
    BY <1>13 DEF ConnectionBreaks
  <2>3. Grows(rt, net, n)
    BY <2>2, AbandonedGrows
  <2>4. n.wire \in Seq(Events) /\ n.wire = net.wire /\ n \in Worlds
    <3>1. n \in Worlds
      BY <2>3 DEF Grows
    <3>2. \A m \in Worlds : \A L : Torn(m).wire = m.wire /\ Torn([m EXCEPT !.log[m.srv.thread] = L]).wire = m.wire
      BY DEF Torn, Worlds
    <3>3. n.wire = net.wire
      BY <3>2, <1>0 DEF Abandoned
    <3> QED
      BY <3>1, <3>3, <1>00
  <2> DEFINE w == SubSeq(n.wire, 1, c)
             k == [n EXCEPT !.wire = w]
             m == [k EXCEPT !.conn = "broken"]
  <2>5. w \in Seq(Events)
    <3>1. Len(n.wire) \in Nat /\ c \in 0..Len(n.wire) /\ \A i \in 1..Len(n.wire) : n.wire[i] \in Events
      BY <2>4
    <3>2. w = [i \in 1..c |-> n.wire[i]]
      BY <3>1
    <3>3. \A i \in 1..c : n.wire[i] \in Events
      BY <3>1
    <3> QED
      BY <3>1, <3>2, <3>3
  <2>6. net' = Fault(m)
    BY <2>1, <2>4 DEF Worlds
  <2> HIDE DEF w
  <2>7. Grows(rt, net, k)
    BY <2>3, <2>5, WireGrows
  <2> HIDE DEF k
  <2>8. /\ m \in Worlds /\ m.pages = k.pages /\ m.dels = k.dels /\ m.gone = k.gone
        /\ m.log = k.log /\ m.srv = k.srv
    BY <2>7 DEF Grows, Worlds
  <2> HIDE DEF m
  <2>9. Grows(rt, net, m)
    BY <2>7, <2>8 DEF Grows, Stored
  <2> QED
    BY <2>2, <2>6, <2>9, FaultGrows
<1>14. CASE EventRepeated
  <2>1. PICK i \in DOMAIN net.wire : net' = Fault([net EXCEPT !.wire = Append(@, net.wire[i])])
    BY <1>14 DEF EventRepeated
  <2> DEFINE w == Append(net.wire, net.wire[i])
             k == [net EXCEPT !.wire = w]
  <2>2. w \in Seq(Events)
    BY <1>00
  <2>3. net' = Fault(k)
    BY <2>1
  <2> HIDE DEF w
  <2>4. Grows(rt, net, k)
    BY <2>2, <1>0, GrowsSelf, WireGrows
  <2> HIDE DEF k
  <2> QED
    BY <2>3, <2>4, <1>14, FaultGrows DEF EventRepeated
<1> QED
  BY <1>2, <1>3, <1>4, <1>5, <1>6, <1>7, <1>8, <1>9, <1>10, <1>11, <1>12, <1>13, <1>14 DEF ServerStep, EventTypes

(***************************************************************************)
(* History.                                                                *)
(***************************************************************************)
\* A request for a page: what awaits an older one is superseded.
LEMMA LoadKeeps ==
  ASSUME NEW r, NEW n, Good(r, n), ~r.disposed, NEW s \in Present(r), ThreadOf(r, s) # None,
         NEW mode \in {"replace", "prepend"}, NEW m \in Worlds,
         m.pages = n.pages \cup {PageRequest(r, s, mode)},
         m.dels = n.dels, m.gone = n.gone, m.log = n.log, m.srv = n.srv
  PROVE  Good(BeginLoad(r, s), m)
<1>1. r \in Runtimes /\ n \in Worlds /\ Core(r, n) /\ Shown(r, n)
  BY DEF Good, Typed
<1>2. s \in Sessions
  BY <1>1 DEF Core, Known, Runtimes
<1>3. r.snap[s] \in Snapshots /\ r.snap[s].hist \in Histories /\ r.snap[s].hist.req \in Nat
  BY <1>1, <1>2 DEF Runtimes, Snapshots, Histories
<1>4. PICK c \in Nat : c = r.snap[s].hist.req + 1
  BY <1>3
<1> DEFINE q == BeginLoad(r, s)
           hist == [r.snap[s].hist EXCEPT !.req = c, !.status = "loading"]
           shot == [r.snap[s] EXCEPT !.hist = hist]
           snap == [r.snap EXCEPT ![s] = shot]
           hops == [r.hops EXCEPT ![s] = c]
           p0 == PageRequest(r, s, mode)
<1>5. hist \in Histories /\ hist.req = c
  BY <1>3 DEF Histories
<1>6. q = [r EXCEPT !.snap = snap, !.hops = hops]
  <2> DEFINE h1 == [r.snap[s].hist EXCEPT !.req = c]
             s1 == [r.snap[s] EXCEPT !.hist = h1]
             a  == [r EXCEPT !.snap = [r.snap EXCEPT ![s] = s1]]
             s2 == [a.snap[s] EXCEPT !.hist = [a.snap[s].hist EXCEPT !.status = "loading"]]
             b  == [a EXCEPT !.snap = [a.snap EXCEPT ![s] = s2]]
  <2>1. q = [b EXCEPT !.hops = [b.hops EXCEPT ![s] = c]]
    BY <1>4 DEF BeginLoad
  <2>2. h1 \in Histories /\ hist = [h1 EXCEPT !.status = "loading"]
    BY <1>3 DEF Histories
  <2> HIDE DEF h1, hist, q
  <2>3. s1 \in Snapshots /\ s1.hist = h1 /\ shot = [s1 EXCEPT !.hist = hist]
    BY <1>3, <2>2 DEF Snapshots
  <2> HIDE DEF s1, shot
  <2>4. a.snap = [r.snap EXCEPT ![s] = s1] /\ a.snap[s] = s1
    BY <1>1, <1>2 DEF Runtimes
  <2>5. s2 = shot
    BY <2>2, <2>3, <2>4
  <2> HIDE DEF s2
  <2>6. [a.snap EXCEPT ![s] = s2] = snap
    BY <2>4, <2>5, <1>1, <1>2 DEF Runtimes
  <2> HIDE DEF snap
  <2>7. b = [r EXCEPT !.snap = snap] /\ b.hops = r.hops
    BY <2>6, <1>1 DEF Runtimes
  <2> HIDE DEF b
  <2> QED
    BY <2>1, <2>7
<1> HIDE DEF hist
<1>7. shot \in Snapshots /\ shot.hist = hist /\ shot.thread = r.snap[s].thread /\ shot.msgs = r.snap[s].msgs /\ shot.run = r.snap[s].run
  BY <1>3, <1>5 DEF Snapshots
<1> HIDE DEF shot
<1>8. /\ snap \in [Sessions -> Snapshots] /\ snap[s] = shot /\ \A v \in Sessions \ {s} : snap[v] = r.snap[v]
      /\ hops \in [Sessions -> Nat] /\ hops[s] = c /\ \A v \in Sessions \ {s} : hops[v] = r.hops[v]
  BY <1>1, <1>2, <1>7 DEF Runtimes
<1> HIDE DEF snap, hops, q
<1>9. /\ q \in Runtimes /\ q.snap = snap /\ q.hops = hops /\ q.lru = r.lru /\ q.used = r.used
      /\ q.byThread = r.byThread /\ q.op = r.op /\ q.turns = r.turns /\ q.disposed = r.disposed
  BY <1>1, <1>6, <1>8 DEF Runtimes
<1>10. Present(q) = Present(r)
  BY <1>9 DEF Present
<1>11. \A v \in Sessions : /\ q.snap[v].thread = r.snap[v].thread /\ q.snap[v].msgs = r.snap[v].msgs
                           /\ q.snap[v].run = r.snap[v].run
  BY <1>7, <1>8, <1>9
<1>12. q.snap[s].hist.req = c /\ q.hops[s] = c /\ r.snap[s].hist.req = c - 1
  BY <1>3, <1>4, <1>5, <1>7, <1>8, <1>9
<1>13. \A v \in Sessions \ {s} : q.snap[v] = r.snap[v] /\ q.hops[v] = r.hops[v]
  BY <1>8, <1>9
<1>14. /\ p0.s = s /\ p0.thread = r.snap[s].thread /\ p0.mode = mode /\ p0.req = c /\ p0.reply = None
       /\ (mode = "replace" => p0.cursor = 0)
  BY <1>4 DEF PageRequest
<1> HIDE DEF p0
<1>15. r.op # None => r.op.s \in Sessions
  BY <1>1 DEF Runtimes, Operations
<1>16. Known(q)
  BY <1>1, <1>2, <1>9, <1>10, <1>13 DEF Core, Known
<1>17. Requests(q)
  <2> SUFFICES ASSUME NEW v \in Sessions
               PROVE  /\ q.hops[v] # 0 => q.hops[v] = q.snap[v].hist.req
                      /\ ~q.disposed /\ q.snap[v].hist.status = "loading" => q.hops[v] = q.snap[v].hist.req
    BY DEF Requests
  <2>1. CASE v = s
    BY <2>1, <1>12
  <2>2. CASE v # s
    BY <2>2, <1>1, <1>9, <1>13 DEF Core, Requests
  <2> QED
    BY <2>1, <2>2
<1>18. OneRunOf(q)
  BY <1>1, <1>9, <1>10, <1>11, <1>15 DEF Core, OneRunOf
<1>19. Asked(q)
  BY <1>1, <1>9, <1>11, <1>15 DEF Core, Asked, ThreadOf
<1>20. Stored(q, m)
  BY <1>1, <1>9 DEF Core, Stored
<1>21. ASSUME NEW p \in n.pages
       PROVE  /\ PageSound(r, n, p) /\ p.s \in Sessions /\ p.req \in Nat
              /\ p.s = s => p.req <= c - 1
  BY <1>1, <1>12 DEF Core, Paged, PageSound, Worlds, PageRequests
<1>22. Paged(q, m)
  <2> SUFFICES ASSUME NEW p \in m.pages
               PROVE  PageSound(q, m, p)
    BY DEF Paged
  <2>1. CASE p \in n.pages
    <3>1. PageSound(r, n, p) /\ p.s \in Sessions /\ p.req \in Nat /\ (p.s = s => p.req <= c - 1)
      BY <2>1, <1>21
    <3>2. CASE p.s = s
      <4>1. p.req <= q.snap[p.s].hist.req /\ p.req # q.hops[p.s]
        BY <3>1, <3>2, <1>12
      <4> QED
        BY <4>1, <3>1, <1>9 DEF PageSound, ReplySound
    <3>3. CASE p.s # s
      BY <3>1, <3>3, <1>9, <1>10, <1>13 DEF PageSound, ReplySound, ThreadOf
    <3> QED
      BY <3>2, <3>3
  <2>2. CASE p = p0
    <3>1. p.s \in q.used /\ p.req >= 1
      <4>1. c >= 1
        BY <1>3, <1>4
      <4> QED
        BY <4>1, <2>2, <1>1, <1>9, <1>14 DEF Core, Known
    <3>2. p.req <= q.snap[p.s].hist.req /\ p.thread = ThreadOf(q, p.s)
      BY <2>2, <1>2, <1>11, <1>12, <1>14 DEF ThreadOf
    <3> QED
      BY <3>1, <3>2, <2>2, <1>14 DEF PageSound
  <2> QED
    BY <2>1, <2>2 DEF p0
<1>23. Served(q, m)
  <2> SUFFICES ASSUME ~q.disposed, NEW v \in Sessions, q.hops[v] # 0
               PROVE  \E p \in m.pages : p.s = v /\ p.req = q.hops[v]
    BY DEF Served
  <2>1. CASE v = s
    <3>1. p0 \in m.pages
      BY DEF p0
    <3> QED
      BY <3>1, <2>1, <1>12, <1>14
  <2>2. CASE v # s
    BY <2>2, <1>1, <1>9, <1>13 DEF Core, Served
  <2> QED
    BY <2>1, <2>2
<1>24. Deleted(q, m)
  BY <1>1, <1>9 DEF Core, Deleted, Older, Running
<1>25. Placed(q)
  BY <1>1, <1>9, <1>11 DEF Shown, Placed, PlacedIn, MsgsOf
<1>26. Pair(q)
  BY <1>1, <1>9, <1>11, <1>15 DEF Shown, Pair, MsgsOf
<1>27. Fresh(q, m)
  <2> SUFFICES ASSUME r.op # None, NEW i \in DOMAIN MsgsOf(r, r.op.s),
                      FromPage(MsgsOf(r, r.op.s)[i], UserOf(r.op.turn))
               PROVE  Brought(q, m, UserOf(r.op.turn))
    BY <1>9, <1>11, <1>15 DEF Fresh, MsgsOf
  <2>1. Brought(r, n, UserOf(r.op.turn))
    BY <1>1 DEF Shown, Fresh
  <2>2. ThreadOf(q, r.op.s) = ThreadOf(r, r.op.s)
    BY <1>11, <1>15 DEF ThreadOf
  <2>3. ASSUME NEW p \in m.pages, p.s = r.op.s, p.req = q.hops[r.op.s], p.reply # None, p.mode = "replace"
        PROVE  \E k \in DOMAIN p.reply.items : p.reply.items[k] = UserOf(r.op.turn)
    <3>1. p \in n.pages
      BY <2>3, <1>14 DEF p0
    <3>2. r.op.s # s
      BY <3>1, <2>3, <1>12, <1>21
    <3> QED
      BY <3>1, <3>2, <2>1, <2>3, <1>13, <1>15 DEF Brought
  <2> QED
    BY <2>1, <2>2, <2>3, <1>9 DEF Brought
<1>28. Gone(q, m)
  <2> SUFFICES ASSUME NEW g \in n.gone
               PROVE  Absent(g, MsgsOf(q, g[1]))
    BY DEF Gone
  <2>1. g[1] \in Sessions
    BY <1>1 DEF Worlds
  <2> QED
    BY <2>1, <1>1, <1>11 DEF Shown, Gone, MsgsOf
<1>29. Core(q, m)
  BY <1>16, <1>17, <1>18, <1>19, <1>20, <1>22, <1>23, <1>24 DEF Core
<1>30. Shown(q, m)
  BY <1>25, <1>26, <1>27, <1>28 DEF Shown
<1> QED
  BY <1>9, <1>29, <1>30 DEF Good, Typed, q

\* A request has the type of one.
LEMMA RequestType ==
  ASSUME NEW r \in Runtimes, NEW s \in Sessions, ThreadOf(r, s) # None, NEW mode \in {"replace", "prepend"}
  PROVE  PageRequest(r, s, mode) \in PageRequests
<1>1. r.snap[s] \in Snapshots /\ r.snap[s].hist \in Histories /\ r.snap[s].hist.req \in Nat /\ r.snap[s].hist.cursor \in Nat
  BY DEF Runtimes, Snapshots, Histories
<1>2. r.snap[s].thread \in Threads /\ r.snap[s].hist.req + 1 \in Nat
  BY <1>1 DEF Snapshots, ThreadOf
<1> QED
  BY <1>1, <1>2 DEF PageRequest, PageRequests

\* Only the state of the history changes, and not to loading.
LEMMA HistKeeps ==
  ASSUME NEW r, NEW n, Good(r, n), NEW s \in Sessions, NEW hist \in Histories,
         hist.req = r.snap[s].hist.req, hist.status # "loading",
         NEW q, q = [r EXCEPT !.snap[s].hist = hist]
  PROVE  Good(q, n)
<1>1. r \in Runtimes
  BY DEF Good, Typed
<1>2. r.snap[s] \in Snapshots
  BY <1>1 DEF Runtimes
<1> DEFINE shot == [r.snap[s] EXCEPT !.hist = hist]
           snap == [r.snap EXCEPT ![s] = shot]
<1>3. shot \in Snapshots /\ shot.hist = hist /\ shot.thread = r.snap[s].thread /\ shot.msgs = r.snap[s].msgs /\ shot.run = r.snap[s].run
  BY <1>2 DEF Snapshots
<1>4. q = [r EXCEPT !.snap = snap]
  OBVIOUS
<1> HIDE DEF shot
<1>5. snap \in [Sessions -> Snapshots] /\ snap[s] = shot /\ \A v \in Sessions \ {s} : snap[v] = r.snap[v]
  BY <1>1, <1>3 DEF Runtimes
<1> HIDE DEF snap
<1>6. /\ q \in Runtimes /\ q.snap = snap /\ q.hops = r.hops /\ q.lru = r.lru /\ q.used = r.used
      /\ q.byThread = r.byThread /\ q.op = r.op /\ q.turns = r.turns /\ q.disposed = r.disposed
  BY <1>1, <1>4, <1>5 DEF Runtimes
<1>7. SameFrame(r, q)
  BY <1>3, <1>5, <1>6 DEF SameFrame, SameOp, SameRun, Present
<1>8. \A v \in Sessions : MsgsOf(q, v) = MsgsOf(r, v)
  BY <1>3, <1>5, <1>6 DEF MsgsOf
<1> QED
  BY <1>6, <1>7, <1>8, FrameKeeps

LEMMA LoadStepKeeps ==
  ASSUME IInv, NEW s \in Present(rt), ~rt.disposed, ThreadOf(rt, s) # None,
         NEW mode \in {"replace", "prepend"}, Load(s, mode)
  PROVE  IInv'
<1>1. Good(rt, net) /\ rt \in Runtimes /\ net \in Worlds
  BY DEF IInv, Good, Typed
<1>2. s \in Sessions
  BY <1>1 DEF Good, Core, Known, Runtimes
<1>3. PageRequest(rt, s, mode) \in PageRequests
  BY <1>1, <1>2, RequestType
<1>4. PICK c \in Nat : c = net.loads + 1
  BY <1>1 DEF Worlds
<1> DEFINE pages == net.pages \cup {PageRequest(rt, s, mode)}
<1>5. pages \in SUBSET PageRequests
  BY <1>1, <1>3 DEF Worlds
<1>6. net' = [net EXCEPT !.pages = pages, !.loads = c]
  BY <1>4 DEF Load
<1> HIDE DEF pages
<1>7. /\ net' \in Worlds /\ net'.pages = pages /\ net'.dels = net.dels /\ net'.gone = net.gone
      /\ net'.log = net.log /\ net'.srv = net.srv
  BY <1>1, <1>5, <1>6 DEF Worlds
<1>8. Good(BeginLoad(rt, s), net')
  BY <1>1, <1>7, LoadKeeps DEF pages
<1> QED
  BY <1>8 DEF Load, IInv

LEMMA EnsureHistoryKeeps ==
  ASSUME IInv, NEW s \in Sessions, NEW force \in BOOLEAN, EnsureHistory(s, force)
  PROVE  IInv'
<1>1. Good(rt, net) /\ rt \in Runtimes /\ s \in Present(rt) /\ ~rt.disposed
  BY DEF IInv, Good, Typed, EnsureHistory, Available
<1>2. CASE rt.snap[s].thread = None
  <2> DEFINE hist == [rt.snap[s].hist EXCEPT !.status = "ready"]
  <2>1. hist \in Histories /\ hist.req = rt.snap[s].hist.req /\ hist.status # "loading"
    <3>1. rt.snap[s].hist \in Histories
      BY <1>1 DEF Runtimes, Snapshots
    <3> QED
      BY <3>1 DEF Histories
  <2>2. rt' = [rt EXCEPT !.snap[s].hist = hist] /\ net' = net
    BY <1>2 DEF EnsureHistory
  <2> HIDE DEF hist
  <2>3. Good(rt', net)
    BY <2>1, <2>2, <1>1, HistKeeps
  <2> QED
    BY <2>2, <2>3 DEF IInv
<1>3. CASE rt.snap[s].thread # None
  BY <1>1, <1>3, LoadStepKeeps DEF EnsureHistory, ThreadOf
<1> QED
  BY <1>2, <1>3

LEMMA LoadOlderKeeps ==
  ASSUME IInv, NEW s \in Sessions, LoadOlder(s)
  PROVE  IInv'
<1>1. Good(rt, net) /\ rt \in Runtimes /\ s \in Present(rt) /\ ~rt.disposed
  BY DEF IInv, Good, Typed, LoadOlder, Available
<1>2. CASE Len(rt.snap[s].msgs) >= MaxMessages
  <2> DEFINE hist == [rt.snap[s].hist EXCEPT !.status = "ready", !.more = FALSE, !.cursor = 0]
  <2>1. hist \in Histories /\ hist.req = rt.snap[s].hist.req /\ hist.status # "loading"
    <3>1. rt.snap[s].hist \in Histories
      BY <1>1 DEF Runtimes, Snapshots
    <3> QED
      BY <3>1 DEF Histories
  <2>2. rt' = [rt EXCEPT !.snap[s].hist = hist] /\ net' = net
    BY <1>2 DEF LoadOlder, SetHist
  <2> HIDE DEF hist
  <2>3. Good(rt', net)
    BY <2>1, <2>2, <1>1, HistKeeps
  <2> QED
    BY <2>2, <2>3 DEF IInv
<1>3. CASE ~(Len(rt.snap[s].msgs) >= MaxMessages)
  BY <1>1, <1>3, LoadStepKeeps DEF LoadOlder, ThreadOf
<1> QED
  BY <1>2, <1>3

\* The elements of a sequence, and no others.
Lists(a, S) ==
  /\ \A k \in DOMAIN a : a[k] \in S
  /\ \A x \in S : \E k \in DOMAIN a : a[k] = x

LEMMA AscendingHas ==
  ASSUME NEW limit \in Nat, NEW S, S \subseteq 1..limit, NEW a, a = Ascending(S, limit)
  PROVE  a \in Seq(Nat) /\ Lists(a, S)
<1>1. PICK s : s = [i \in 1..limit |-> i]
  OBVIOUS
<1>2. s \in Seq(Nat) /\ DOMAIN s = 1..limit /\ \A i \in 1..limit : s[i] = i
  BY <1>1
<1>3. a = Keep(s, S)
  BY <1>1 DEF Ascending
<1>4. a \in Seq(Nat) /\ Kept(s, S, a)
  BY <1>2, <1>3, KeepHas
<1> QED
  BY <1>2, <1>4 DEF Kept, Lists

\* The newest rows before the cursor: what a page holds.
LEMMA PageHas ==
  ASSUME NEW last \in Nat, NEW rows, rows \subseteq 1..last, NEW items,
         items = {o \in rows : Cardinality({q \in rows : q > o}) < PageSize}
  PROVE  /\ items \subseteq rows
         /\ rows # items => items # {}
         /\ \A u \in rows : u + 1 >= last => u \in items
<1>1. PageSize \in Nat /\ PageSize >= 2
  BY RuntimeAssumption
<1>2. ASSUME rows # items
      PROVE  items # {}
  <2>1. rows # {} /\ rows \subseteq 0..last
    BY <1>2
  <2>2. PICK m \in rows : \A x \in rows : x <= m
    BY <2>1, LastOne
  <2>3. {q \in rows : q > m} = {}
    <3> SUFFICES ASSUME NEW q \in rows, q > m
                 PROVE  FALSE
      OBVIOUS
    <3>1. q \in Nat /\ m \in Nat /\ q <= m
      BY <2>1, <2>2
    <3> QED
      BY <3>1
  <2>4. Cardinality({q \in rows : q > m}) = 0
    BY <2>3, FS_EmptySet
  <2> QED
    BY <2>2, <2>4, <1>1
<1>3. ASSUME NEW u \in rows, u + 1 >= last
      PROVE  u \in items
  <2>1. u \in Nat
    OBVIOUS
  <2>2. \A q \in rows : q > u => q = u + 1
    <3> SUFFICES ASSUME NEW q \in rows, q > u
                 PROVE  q = u + 1
      OBVIOUS
    <3>1. q \in Nat /\ q <= last
      OBVIOUS
    <3> QED
      BY <3>1, <2>1, <1>3
  <2>3. {q \in rows : q > u} = {} \/ {q \in rows : q > u} = {u + 1}
    BY <2>2, <2>1
  <2>4. PICK above : above = {q \in rows : q > u}
    OBVIOUS
  <2>5. Cardinality(above) \in Nat /\ Cardinality(above) <= 1
    <3>1. CASE above = {}
      BY <3>1, FS_EmptySet
    <3>2. CASE above = {u + 1}
      <4>1. Cardinality({u + 1}) = 1
        BY FS_Singleton
      <4> QED
        BY <3>2, <4>1
    <3> QED
      BY <3>1, <3>2, <2>3, <2>4
  <2>6. Cardinality(above) < PageSize
    BY <2>5, <1>1
  <2> QED
    BY <2>4, <2>6
<1> QED
  BY <1>2, <1>3

LEMMA PageIsReadKeeps ==
  ASSUME IInv, NEW p \in net.pages, PageIsRead(p)
  PROVE  IInv'
<1>0. /\ Good(rt, net) /\ rt \in Runtimes /\ net \in Worlds /\ Core(rt, net) /\ Shown(rt, net)
      /\ rt.turns \in Nat /\ rt.turns >= 1
  BY DEF IInv, Good, Typed, Runtimes, Core, Known
<1>1. p \in PageRequests /\ p.thread \in Threads /\ PageSound(rt, net, p)
  BY <1>0 DEF Worlds, PageRequests, Core, Paged
<1>2. net.log[p.thread] \subseteq 1..(2 * rt.turns - 1)
  BY <1>0, <1>1 DEF Core, Stored
<1> DEFINE rows  == {o \in net.log[p.thread] : p.cursor = 0 \/ o < p.cursor}
           items == {o \in rows : Cardinality({q \in rows : q > o}) < PageSize}
           a     == Ascending(items, AnswerOf(rt.turns))
           reply == [items |-> a, more |-> rows # items]
           p2    == [p EXCEPT !.reply = reply]
           pages == (net.pages \ {p}) \cup {p2}
<1>3. net' = [net EXCEPT !.pages = pages] /\ rt' = rt
  BY DEF PageIsRead
<1>4. rows \subseteq 1..(2 * rt.turns - 1) /\ rows \subseteq net.log[p.thread]
  BY <1>2
<1>41. p.cursor = 0 => rows = net.log[p.thread]
  OBVIOUS
<1> HIDE DEF rows
<1>5. PICK last \in Nat : last = 2 * rt.turns - 1
  BY <1>0
<1>6. /\ items \subseteq rows /\ (rows # items => items # {})
      /\ \A u \in rows : u + 1 >= last => u \in items
  BY <1>4, <1>5, PageHas
<1> HIDE DEF items
<1>7. /\ a \in Seq(Nat)
      /\ \A k \in DOMAIN a : a[k] \in items
      /\ \A x \in items : \E k \in DOMAIN a : a[k] = x
  <2>1. AnswerOf(rt.turns) \in Nat /\ items \subseteq 1..AnswerOf(rt.turns)
    BY <1>0, <1>4, <1>6 DEF AnswerOf
  <2>2. a \in Seq(Nat) /\ Lists(a, items)
    <3>1. PICK limit \in Nat : limit = AnswerOf(rt.turns)
      BY <2>1
    <3>2. a = Ascending(items, limit) /\ items \subseteq 1..limit
      BY <2>1, <3>1
    <3> HIDE DEF a
    <3> QED
      BY <3>2, AscendingHas
  <2> HIDE DEF a
  <2> QED
    BY <2>2 DEF Lists
<1> HIDE DEF a
<1>8. reply \in Replies /\ reply.items = a /\ (reply.more <=> rows # items)
  BY <1>7 DEF Replies
<1> HIDE DEF reply
<1>9. /\ p2 \in PageRequests /\ p2.reply = reply /\ p2.s = p.s /\ p2.thread = p.thread
      /\ p2.mode = p.mode /\ p2.req = p.req /\ p2.cursor = p.cursor
  BY <1>1, <1>8 DEF PageRequests
<1> HIDE DEF p2
<1>10. pages \in SUBSET PageRequests
  BY <1>0, <1>9 DEF Worlds
<1> HIDE DEF pages
<1>11. /\ net' \in Worlds /\ net'.pages = pages /\ net'.dels = net.dels /\ net'.gone = net.gone
       /\ net'.log = net.log /\ net'.srv = net.srv
  BY <1>0, <1>3, <1>10 DEF Worlds
<1>12. ReplySound(rt, net', p2)
  <2>1. ASSUME NEW k \in DOMAIN a
        PROVE  a[k] < 2 * rt.turns /\ a[k] \in net.log[p.thread]
    <3>1. a[k] \in rows
      BY <1>6, <1>7
    <3>2. a[k] \in 1..(2 * rt.turns - 1)
      BY <3>1, <1>4
    <3> QED
      BY <3>1, <3>2, <1>4, <1>0
  <2>2. rows # items => Len(a) >= 1
    <3> SUFFICES ASSUME rows # items
                 PROVE  Len(a) >= 1
      OBVIOUS
    <3>1. PICK k \in DOMAIN a : TRUE
      BY <1>6, <1>7
    <3>2. DOMAIN a = 1..Len(a) /\ Len(a) \in Nat
      BY <1>7
    <3> QED
      BY <3>1, <3>2
  <2> QED
    BY <2>1, <2>2, <1>8, <1>9, <1>11 DEF ReplySound
<1>13. Paged(rt, net')
  <2> SUFFICES ASSUME NEW x \in pages
               PROVE  PageSound(rt, net', x)
    BY <1>11 DEF Paged
  <2>1. CASE x \in net.pages
    BY <2>1, <1>0, <1>11 DEF Core, Paged, PageSound, ReplySound
  <2>2. CASE x = p2
    BY <2>2, <1>1, <1>9, <1>12 DEF PageSound
  <2> QED
    BY <2>1, <2>2 DEF pages
<1>14. Served(rt, net')
  <2> SUFFICES ASSUME ~rt.disposed, NEW s \in Sessions, rt.hops[s] # 0
               PROVE  \E x \in pages : x.s = s /\ x.req = rt.hops[s]
    BY <1>11 DEF Served
  <2>1. PICK x \in net.pages : x.s = s /\ x.req = rt.hops[s]
    BY <1>0 DEF Core, Served
  <2>2. CASE x = p
    BY <2>1, <2>2, <1>9 DEF pages
  <2>3. CASE x # p
    BY <2>1, <2>3 DEF pages
  <2> QED
    BY <2>2, <2>3
<1>15. Fresh(rt, net')
  <2> DEFINE u == UserOf(rt.op.turn)
  <2> SUFFICES ASSUME rt.op # None, NEW i \in DOMAIN MsgsOf(rt, rt.op.s), FromPage(MsgsOf(rt, rt.op.s)[i], u)
               PROVE  Brought(rt, net', u)
    BY DEF Fresh
  <2>1. Brought(rt, net, u)
    BY <1>0 DEF Shown, Fresh
  <2>2. ASSUME NEW x \in pages, x.s = rt.op.s, x.req = rt.hops[rt.op.s], x.reply # None, x.mode = "replace"
        PROVE  \E k \in DOMAIN x.reply.items : x.reply.items[k] = u
    <3>1. CASE x \in net.pages
      BY <3>1, <2>1, <2>2 DEF Brought
    <3>2. CASE x = p2
      <4>1. p.thread = ThreadOf(rt, rt.op.s) /\ p.cursor = 0
        BY <3>2, <2>2, <1>1, <1>9 DEF PageSound
      <4>2. u \in rows
        BY <4>1, <1>41, <2>1 DEF Brought
      <4>3. u + 1 >= last
        <5>1. rt.op.turn + 1 = rt.turns /\ rt.op.turn \in Nat
          BY <1>0 DEF Core, Asked, Runtimes, Operations
        <5> QED
          BY <5>1, <1>5 DEF UserOf
      <4>4. u \in items
        BY <4>2, <4>3, <1>6
      <4> QED
        BY <4>4, <3>2, <1>7, <1>8, <1>9
    <3> QED
      BY <3>1, <3>2 DEF pages
  <2> HIDE DEF u
  <2> QED
    BY <2>1, <2>2, <1>11 DEF Brought
<1>16. Core(rt, net') /\ Shown(rt, net')
  BY <1>0, <1>11, <1>13, <1>14, <1>15 DEF Core, Shown, Stored, Deleted, Gone
<1> QED
  BY <1>0, <1>3, <1>11, <1>16 DEF IInv, Good, Typed

\* A request that was superseded, or whose runtime is gone, leaves nothing.
LEMMA DropKeeps ==
  ASSUME NEW r, NEW n, Good(r, n), NEW p \in n.pages, r.disposed \/ r.hops[p.s] # p.req,
         NEW m \in Worlds, m.pages = n.pages \ {p}, m.dels = n.dels, m.gone \subseteq n.gone,
         m.log = n.log, m.srv = n.srv
  PROVE  Good(r, m)
<1>1. r \in Runtimes /\ n \in Worlds /\ Core(r, n) /\ Shown(r, n)
  BY DEF Good, Typed
<1>2. Paged(r, m)
  BY <1>1 DEF Core, Paged, PageSound, ReplySound
<1>3. Served(r, m)
  <2> SUFFICES ASSUME ~r.disposed, NEW s \in Sessions, r.hops[s] # 0
               PROVE  \E x \in m.pages : x.s = s /\ x.req = r.hops[s]
    BY DEF Served
  <2>1. PICK x \in n.pages : x.s = s /\ x.req = r.hops[s]
    BY <1>1 DEF Core, Served
  <2> QED
    BY <2>1
<1>4. Fresh(r, m)
  BY <1>1 DEF Shown, Fresh, Brought
<1>5. Core(r, m) /\ Shown(r, m)
  BY <1>1, <1>2, <1>3, <1>4 DEF Core, Shown, Stored, Deleted, Gone
<1> QED
  BY <1>1, <1>5 DEF Good, Typed

\* The current request of a session ends: its messages may be others now.
LEMMA SettleKeeps ==
  ASSUME NEW r, NEW n, Good(r, n), ~r.disposed, NEW p \in n.pages, r.hops[p.s] = p.req,
         NEW msgs \in Seq(Messages), NEW hist \in Histories, hist.req = p.req, hist.status # "loading",
         NEW m \in Worlds, m.pages = n.pages \ {p}, m.dels = n.dels, m.gone \subseteq n.gone,
         m.log = n.log, m.srv = n.srv,
         NEW q, q = [r EXCEPT !.snap[p.s].msgs = msgs, !.snap[p.s].hist = hist, !.hops[p.s] = 0],
         \A i \in DOMAIN msgs : PlacedIn(r, msgs[i]),
         Running(r, p.s) => PairIn(r.op, msgs),
         Running(r, p.s) =>
           \A i \in DOMAIN msgs : FromPage(msgs[i], UserOf(r.op.turn)) =>
              ThreadOf(r, p.s) # None /\ UserOf(r.op.turn) \in n.log[ThreadOf(r, p.s)],
         \A g \in m.gone : g[1] = p.s => Absent(g, msgs)
  PROVE  Good(q, m) /\ ~q.disposed
<1>1. r \in Runtimes /\ n \in Worlds /\ Core(r, n) /\ Shown(r, n)
  BY DEF Good, Typed
<1>2. PICK s \in Sessions : s = p.s
  BY <1>1 DEF Worlds, PageRequests
<1>3. r.snap[s] \in Snapshots
  BY <1>1 DEF Runtimes
<1> DEFINE shot == [r.snap[s] EXCEPT !.msgs = msgs, !.hist = hist]
           snap == [r.snap EXCEPT ![s] = shot]
           hops == [r.hops EXCEPT ![s] = 0]
<1>4. shot \in Snapshots /\ shot.hist = hist /\ shot.thread = r.snap[s].thread /\ shot.msgs = msgs /\ shot.run = r.snap[s].run
  BY <1>3 DEF Snapshots
<1>5. q = [r EXCEPT !.snap = snap, !.hops = hops]
  <2> DEFINE s1 == [r.snap[s] EXCEPT !.msgs = msgs]
             a  == [r EXCEPT !.snap = [r.snap EXCEPT ![s] = s1]]
             s2 == [a.snap[s] EXCEPT !.hist = hist]
             b  == [a EXCEPT !.snap = [a.snap EXCEPT ![s] = s2]]
  <2>1. q = [b EXCEPT !.hops = [b.hops EXCEPT ![s] = 0]]
    BY <1>2
  <2>2. shot = [s1 EXCEPT !.hist = hist]
    BY <1>3 DEF Snapshots
  <2> HIDE DEF s1, shot
  <2>3. a.snap = [r.snap EXCEPT ![s] = s1] /\ a.snap[s] = s1
    BY <1>1, <1>2 DEF Runtimes
  <2>4. s2 = shot
    BY <2>2, <2>3
  <2> HIDE DEF s2
  <2>5. [a.snap EXCEPT ![s] = s2] = snap
    BY <2>3, <2>4, <1>1 DEF Runtimes
  <2> HIDE DEF snap
  <2>6. b = [r EXCEPT !.snap = snap] /\ b.hops = r.hops
    BY <2>5, <1>1 DEF Runtimes
  <2> HIDE DEF b
  <2> QED
    BY <2>1, <2>6
<1> HIDE DEF shot
<1>6. /\ snap \in [Sessions -> Snapshots] /\ snap[s] = shot /\ \A v \in Sessions \ {s} : snap[v] = r.snap[v]
      /\ hops \in [Sessions -> Nat] /\ hops[s] = 0 /\ \A v \in Sessions \ {s} : hops[v] = r.hops[v]
  BY <1>1, <1>4 DEF Runtimes
<1> HIDE DEF snap, hops
<1>7. /\ q \in Runtimes /\ q.snap = snap /\ q.hops = hops /\ q.lru = r.lru /\ q.used = r.used
      /\ q.byThread = r.byThread /\ q.op = r.op /\ q.turns = r.turns /\ q.disposed = r.disposed
  BY <1>1, <1>5, <1>6 DEF Runtimes
<1>8. Present(q) = Present(r)
  BY <1>7 DEF Present
<1>9. \A v \in Sessions : q.snap[v].thread = r.snap[v].thread /\ q.snap[v].run = r.snap[v].run
  BY <1>4, <1>6, <1>7
<1>10. /\ q.hops[s] = 0 /\ q.snap[s].hist = hist /\ q.snap[s].msgs = msgs
       /\ \A v \in Sessions \ {s} : q.snap[v] = r.snap[v] /\ q.hops[v] = r.hops[v]
  BY <1>4, <1>6, <1>7
<1>11. r.op # None => r.op.s \in Sessions
  BY <1>1 DEF Runtimes, Operations
<1>12. ASSUME NEW x \in n.pages
       PROVE  PageSound(r, n, x) /\ x.s \in Sessions /\ x.req \in Nat /\ x.req # 0
  BY <1>1 DEF Core, Paged, PageSound, Worlds, PageRequests
<1>13. p.thread = ThreadOf(r, s) /\ p.req = r.snap[s].hist.req
  <2>1. r.hops[s] # 0
    BY <1>2, <1>12
  <2> QED
    BY <2>1, <1>1, <1>2, <1>12 DEF PageSound, Core, Requests
<1>14. Known(q)
  BY <1>1, <1>7, <1>8, <1>10 DEF Core, Known
<1>15. Requests(q)
  <2> SUFFICES ASSUME NEW v \in Sessions
               PROVE  /\ q.hops[v] # 0 => q.hops[v] = q.snap[v].hist.req
                      /\ ~q.disposed /\ q.snap[v].hist.status = "loading" => q.hops[v] = q.snap[v].hist.req
    BY DEF Requests
  <2>1. CASE v = s
    BY <2>1, <1>10
  <2>2. CASE v # s
    BY <2>2, <1>1, <1>7, <1>10 DEF Core, Requests
  <2> QED
    BY <2>1, <2>2
<1>16. OneRunOf(q)
  BY <1>1, <1>7, <1>8, <1>9, <1>11 DEF Core, OneRunOf
<1>17. Asked(q)
  BY <1>1, <1>7, <1>9, <1>11 DEF Core, Asked, ThreadOf
<1>18. Stored(q, m)
  BY <1>1, <1>7 DEF Core, Stored
<1>19. Paged(q, m)
  <2> SUFFICES ASSUME NEW x \in m.pages
               PROVE  PageSound(q, m, x)
    BY DEF Paged
  <2>1. PageSound(r, n, x) /\ x.s \in Sessions /\ x.req \in Nat /\ x.req # 0
    BY <1>12
  <2>2. CASE x.s = s
    <3>1. x.req # q.hops[x.s]
      BY <2>1, <2>2, <1>10
    <3>2. q.snap[x.s].hist.req = r.snap[x.s].hist.req
      BY <2>2, <1>10, <1>13
    <3> QED
      BY <2>1, <3>1, <3>2, <1>7, <1>8 DEF PageSound, ReplySound
  <2>3. CASE x.s # s
    BY <2>1, <2>3, <1>7, <1>8, <1>10 DEF PageSound, ReplySound, ThreadOf
  <2> QED
    BY <2>2, <2>3
<1>20. Served(q, m)
  <2> SUFFICES ASSUME NEW v \in Sessions, q.hops[v] # 0
               PROVE  \E x \in m.pages : x.s = v /\ x.req = q.hops[v]
    BY DEF Served
  <2>1. v # s /\ q.hops[v] = r.hops[v]
    BY <1>10
  <2>2. PICK x \in n.pages : x.s = v /\ x.req = r.hops[v]
    BY <2>1, <1>1 DEF Core, Served
  <2> QED
    BY <2>1, <2>2, <1>2
<1>21. Deleted(q, m)
  BY <1>1, <1>7 DEF Core, Deleted, Older, Running
<1>22. Placed(q)
  <2> SUFFICES ASSUME NEW v \in Sessions, NEW i \in DOMAIN MsgsOf(q, v)
               PROVE  PlacedIn(q, MsgsOf(q, v)[i])
    BY DEF Placed
  <2>1. CASE v = s
    BY <2>1, <1>7, <1>10 DEF PlacedIn, MsgsOf
  <2>2. CASE v # s
    BY <2>2, <1>1, <1>7, <1>10 DEF Shown, Placed, PlacedIn, MsgsOf
  <2> QED
    BY <2>1, <2>2
<1>23. Pair(q)
  <2> SUFFICES ASSUME r.op # None
               PROVE  PairIn(r.op, MsgsOf(q, r.op.s))
    BY <1>7 DEF Pair
  <2>1. CASE r.op.s = s
    BY <2>1, <1>2, <1>10 DEF MsgsOf, Running
  <2>2. CASE r.op.s # s
    BY <2>2, <1>1, <1>10, <1>11 DEF Shown, Pair, MsgsOf
  <2> QED
    BY <2>1, <2>2
<1>24. Fresh(q, m)
  <2> SUFFICES ASSUME r.op # None, NEW i \in DOMAIN MsgsOf(q, r.op.s),
                      FromPage(MsgsOf(q, r.op.s)[i], UserOf(r.op.turn))
               PROVE  Brought(q, m, UserOf(r.op.turn))
    BY <1>7 DEF Fresh
  <2>1. CASE r.op.s = s
    <3>1. ThreadOf(r, s) # None /\ UserOf(r.op.turn) \in n.log[ThreadOf(r, s)]
      BY <2>1, <1>2, <1>10 DEF MsgsOf, Running
    <3>2. ThreadOf(q, s) = ThreadOf(r, s)
      BY <1>9 DEF ThreadOf
    <3>3. \A x \in m.pages : x.req # q.hops[s]
      BY <1>10, <1>12
    <3> QED
      BY <2>1, <3>1, <3>2, <3>3, <1>7 DEF Brought
  <2>2. CASE r.op.s # s
    <3>1. Brought(r, n, UserOf(r.op.turn))
      BY <2>2, <1>1, <1>10, <1>11 DEF Shown, Fresh, MsgsOf
    <3>2. ThreadOf(q, r.op.s) = ThreadOf(r, r.op.s) /\ q.hops[r.op.s] = r.hops[r.op.s] /\ q.op = r.op
      BY <2>2, <1>7, <1>9, <1>10, <1>11 DEF ThreadOf
    <3>3. m.pages \subseteq n.pages /\ m.log = n.log
      OBVIOUS
    <3> QED
      BY <3>1, <3>2, <3>3 DEF Brought
  <2> QED
    BY <2>1, <2>2
<1>25. Gone(q, m)
  <2> SUFFICES ASSUME NEW g \in m.gone
               PROVE  Absent(g, MsgsOf(q, g[1]))
    BY DEF Gone
  <2>1. g[1] \in Sessions /\ g \in n.gone
    BY <1>1 DEF Worlds
  <2>2. CASE g[1] = s
    BY <2>2, <1>2, <1>10 DEF MsgsOf
  <2>3. CASE g[1] # s
    BY <2>1, <2>3, <1>1, <1>10 DEF Shown, Gone, MsgsOf
  <2> QED
    BY <2>2, <2>3
<1>26. Core(q, m)
  BY <1>14, <1>15, <1>16, <1>17, <1>18, <1>19, <1>20, <1>21 DEF Core
<1>27. Shown(q, m)
  BY <1>22, <1>23, <1>24, <1>25 DEF Shown
<1> QED
  BY <1>7, <1>26, <1>27 DEF Good, Typed

\* The rows of a page, as messages.
Rows(items, page) ==
  /\ DOMAIN page = DOMAIN items
  /\ \A i \in DOMAIN items : /\ page[i].o = items[i] /\ page[i].saved = TRUE
                             /\ page[i].delivery = "persisted" /\ Id(page[i]) = <<items[i], TRUE>>

LEMMA PageMessages ==
  ASSUME NEW items \in Seq(Nat), NEW page, page = [i \in DOMAIN items |-> Persisted(items[i])]
  PROVE  page \in Seq(Messages) /\ Rows(items, page)
<1>1. DOMAIN items = 1..Len(items) /\ Len(items) \in Nat
  OBVIOUS
<1>2. ASSUME NEW o \in Nat
      PROVE  /\ Persisted(o) \in Messages /\ Persisted(o).o = o /\ Persisted(o).saved = TRUE
             /\ Persisted(o).delivery = "persisted"
  <2>1. (IF o % 2 = 1 THEN Canonical ELSE <<>>) \in Seq(Nat)
    BY DEF Canonical
  <2> QED
    BY <2>1 DEF Persisted, Message, Messages, Deliveries
<1>3. \A i \in DOMAIN items : items[i] \in Nat /\ page[i] = Persisted(items[i])
  BY <1>1
<1>4. page \in Seq(Messages)
  <2>1. PICK c \in Nat : c = Len(items)
    BY <1>1
  <2>2. page = [i \in 1..c |-> Persisted(items[i])]
    BY <1>1, <2>1
  <2>3. \A i \in 1..c : Persisted(items[i]) \in Messages
    <3> SUFFICES ASSUME NEW i \in 1..c
                 PROVE  Persisted(items[i]) \in Messages
      OBVIOUS
    <3>1. items[i] \in Nat
      BY <1>1, <2>1
    <3> QED
      BY <3>1, <1>2
  <2> QED
    BY <2>2, <2>3
<1>5. DOMAIN page = DOMAIN items
  OBVIOUS
<1> QED
  BY <1>2, <1>3, <1>4, <1>5 DEF Id, Rows

\* What the session shows once the page is there.
LEMMA ArrivalHas ==
  ASSUME NEW r, NEW n, Good(r, n), NEW p \in n.pages, r.hops[p.s] = p.req, p.reply # None,
         NEW page, page = [i \in DOMAIN p.reply.items |-> Persisted(p.reply.items[i])],
         NEW joined, joined = IF p.mode = "prepend" THEN PrependHistory(page, MsgsOf(r, p.s))
                                                    ELSE MergeHistory(page, MsgsOf(r, p.s)),
         NEW msgs, msgs = BoundMessages(r, p.s, joined)
  PROVE  /\ msgs \in Seq(Messages)
         /\ \A i \in DOMAIN msgs : PlacedIn(r, msgs[i])
         /\ Running(r, p.s) => PairIn(r.op, msgs)
         /\ Running(r, p.s) =>
              \A i \in DOMAIN msgs : FromPage(msgs[i], UserOf(r.op.turn)) =>
                 ThreadOf(r, p.s) # None /\ UserOf(r.op.turn) \in n.log[ThreadOf(r, p.s)]
         /\ \A g \in n.gone : g[1] = p.s /\ ~Contains(p.reply.items, g[2]) => Absent(g, msgs)
<1>1. r \in Runtimes /\ n \in Worlds /\ Core(r, n) /\ Shown(r, n) /\ r.turns \in Nat
  BY DEF Good, Typed, Runtimes
<1>2. PICK s \in Sessions : s = p.s
  BY <1>1 DEF Worlds, PageRequests
<1>3. /\ PageSound(r, n, p) /\ p \in PageRequests /\ p.thread \in Threads /\ p.reply \in Replies
      /\ p.thread = ThreadOf(r, s) /\ ThreadOf(r, s) # None
  <2>1. PageSound(r, n, p) /\ p \in PageRequests /\ p.thread \in Threads /\ p.reply \in Replies
    BY <1>1 DEF Core, Paged, Worlds, PageRequests
  <2> QED
    BY <2>1, <1>2, RuntimeAssumption DEF PageSound
<1>4. PICK items \in Seq(Nat) : items = p.reply.items
  BY <1>3 DEF Replies
<1>5. \A k \in DOMAIN items : /\ items[k] < 2 * r.turns
                              /\ items[k] % 2 = 0 => items[k] \in n.log[ThreadOf(r, s)]
  BY <1>3, <1>4 DEF PageSound, ReplySound
<1>6. page \in Seq(Messages) /\ Rows(items, page)
  BY <1>4, PageMessages
<1>61. DOMAIN page = DOMAIN items
  BY <1>6 DEF Rows
<1>62. ASSUME NEW i \in DOMAIN page
       PROVE  /\ page[i].o = items[i] /\ page[i].saved = TRUE
              /\ page[i].delivery = "persisted" /\ Id(page[i]) = <<items[i], TRUE>>
  BY <1>6 DEF Rows
<1>7. PICK current \in Seq(Messages) : current = MsgsOf(r, s)
  BY <1>1 DEF Runtimes, Snapshots, MsgsOf
<1>8. joined \in Seq(Messages)
  BY <1>2, <1>6, <1>7, MergeHas, PrependHas
<1>9. p.mode = "replace" => Merged(page, current, joined)
  BY <1>2, <1>6, <1>7, MergeHas
<1>10. p.mode # "replace" => Prepended(page, current, joined)
  <2>1. p.mode # "replace" => p.mode = "prepend"
    BY <1>3 DEF PageRequests
  <2> QED
    BY <2>1, <1>2, <1>6, <1>7, PrependHas
<1>11. /\ msgs \in Seq(Messages) /\ From(msgs, joined)
       /\ Running(r, s) => KeepsPair(r.op, joined, msgs)
  BY <1>2, <1>8, BoundHas DEF Running
<1>12. ASSUME NEW i \in DOMAIN msgs
       PROVE  (\E k \in DOMAIN page : msgs[i] = page[k]) \/ (\E k \in DOMAIN current : msgs[i] = current[k])
  <2>1. PICK j \in DOMAIN joined : msgs[i] = joined[j]
    BY <1>11 DEF From
  <2>2. (\E k \in DOMAIN page : joined[j] = page[k]) \/ (\E k \in DOMAIN current : joined[j] = current[k])
    BY <1>9, <1>10 DEF Merged, Prepended
  <2> QED
    BY <2>1, <2>2
<1>13. ASSUME NEW i \in DOMAIN msgs
       PROVE  PlacedIn(r, msgs[i])
  <2>1. ASSUME NEW k \in DOMAIN page, msgs[i] = page[k]
        PROVE  PlacedIn(r, msgs[i])
    <3>1. items[k] < 2 * r.turns
      BY <1>5, <1>61
    <3>2. page[k].o = items[k] /\ page[k].saved = TRUE
      BY <1>62
    <3> QED
      BY <2>1, <3>1, <3>2 DEF PlacedIn
  <2>2. ASSUME NEW k \in DOMAIN current, msgs[i] = current[k]
        PROVE  PlacedIn(r, msgs[i])
    BY <2>2, <1>1, <1>7 DEF Shown, Placed
  <2> QED
    BY <2>1, <2>2, <1>12
<1>14. Running(r, s) =>
         \A i \in DOMAIN msgs : FromPage(msgs[i], UserOf(r.op.turn)) =>
            ThreadOf(r, s) # None /\ UserOf(r.op.turn) \in n.log[ThreadOf(r, s)]
  <2> DEFINE u == UserOf(r.op.turn)
  <2> SUFFICES ASSUME Running(r, s), NEW i \in DOMAIN msgs, FromPage(msgs[i], u)
               PROVE  u \in n.log[ThreadOf(r, s)]
    BY <1>3
  <2>1. ASSUME NEW k \in DOMAIN page, msgs[i] = page[k]
        PROVE  u \in n.log[ThreadOf(r, s)]
    <3>1. items[k] = u
      BY <2>1, <1>62 DEF FromPage
    <3>2. u % 2 = 0
      BY <1>1 DEF UserOf, Running, Runtimes, Operations
    <3> QED
      BY <3>1, <3>2, <1>5, <1>61
  <2>2. ASSUME NEW k \in DOMAIN current, msgs[i] = current[k]
        PROVE  u \in n.log[ThreadOf(r, s)]
    BY <2>2, <1>1, <1>7 DEF Shown, Fresh, Brought, Running
  <2> QED
    BY <2>1, <2>2, <1>12
<1>15. ASSUME NEW g \in n.gone, g[1] = s, ~Contains(items, g[2])
       PROVE  Absent(g, msgs)
  <2> SUFFICES ASSUME NEW i \in DOMAIN msgs, Id(msgs[i]) = <<g[2], TRUE>>
               PROVE  FALSE
    BY DEF Absent
  <2>1. ASSUME NEW k \in DOMAIN page, msgs[i] = page[k]
        PROVE  FALSE
    <3>1. items[k] = g[2] /\ k \in 1..Len(items)
      <4>1. <<items[k], TRUE>> = <<g[2], TRUE>>
        BY <2>1, <1>62
      <4>2. DOMAIN items = 1..Len(items)
        OBVIOUS
      <4> QED
        BY <4>1, <4>2, <1>61
    <3> QED
      BY <3>1, <1>15 DEF Contains
  <2>2. ASSUME NEW k \in DOMAIN current, msgs[i] = current[k]
        PROVE  FALSE
    BY <2>2, <1>1, <1>7, <1>15 DEF Shown, Gone, Absent
  <2> QED
    BY <2>1, <2>2, <1>12
<1>16. Running(r, s) => PairIn(r.op, msgs)
  <2> SUFFICES ASSUME Running(r, s)
               PROVE  PairIn(r.op, msgs)
    OBVIOUS
  <2>1. PairIn(r.op, current)
    BY <1>1, <1>7 DEF Shown, Pair, Running
  <2>2. ASSUME NEW i \in DOMAIN page, IsAnswer(page[i], r.op)
        PROVE  FALSE
    <3>1. <<items[i], TRUE>> = <<AnswerOf(r.op.turn), FALSE>>
      BY <2>2, <1>62 DEF IsAnswer
    <3> QED
      BY <3>1
  <2>3. ASSUME NEW i \in DOMAIN joined, Id(joined[i]) \in PairIds(r.op)
        PROVE  \E k \in DOMAIN msgs : Id(msgs[k]) = Id(joined[i])
    BY <2>3, <1>11 DEF KeepsPair
  <2>4. \E i \in DOMAIN joined : IsAnswer(joined[i], r.op)
    <3>1. PICK i \in DOMAIN current : IsAnswer(current[i], r.op) /\ current[i].delivery = "streaming"
      BY <2>1 DEF PairIn
    <3>2. Id(current[i]) \notin IdsOf(page) /\ current[i].delivery # "persisted"
      BY <3>1, <2>2 DEF IdsOf, IsAnswer
    <3>3. PICK k \in DOMAIN joined : joined[k] = current[i]
      BY <3>2, <1>9, <1>10 DEF Merged, Prepended
    <3> QED
      BY <3>1, <3>3
  <2>5. \E i \in DOMAIN joined : IsUser(joined[i], r.op)
    <3>1. PICK i \in DOMAIN current : IsUser(current[i], r.op)
      BY <2>1 DEF PairIn
    <3>2. CASE p.mode # "replace"
      BY <3>1, <3>2, <1>10 DEF Prepended
    <3>3. CASE p.mode = "replace" /\ current[i].delivery = "persisted"
      <4>1. FromPage(current[i], UserOf(r.op.turn)) /\ r.op.userSaved = TRUE
        <5>1. PlacedIn(r, current[i]) /\ Id(current[i]) = <<UserOf(r.op.turn), r.op.userSaved>>
          BY <3>1, <1>1, <1>7 DEF Shown, Placed, IsUser
        <5>2. current[i].o = UserOf(r.op.turn) /\ current[i].saved = r.op.userSaved
          BY <5>1 DEF Id
        <5>3. current[i].saved \in BOOLEAN /\ current[i].saved
          BY <5>1, <3>3 DEF PlacedIn, Messages
        <5> QED
          BY <5>2, <5>3, <3>3 DEF FromPage
      <4>2. Brought(r, n, UserOf(r.op.turn)) /\ r.op.s = s
        BY <4>1, <1>1, <1>7 DEF Shown, Fresh, Running
      <4>3. PICK k \in DOMAIN items : items[k] = UserOf(r.op.turn)
        BY <4>2, <3>3, <1>2, <1>4 DEF Brought
      <4>4. PICK j \in DOMAIN joined : joined[j] = page[k]
        BY <3>3, <1>61, <1>9 DEF Merged
      <4>5. Id(joined[j]) = <<UserOf(r.op.turn), r.op.userSaved>>
        <5>1. k \in DOMAIN page
          BY <1>61
        <5>2. Id(page[k]) = <<items[k], TRUE>>
          BY <5>1, <1>62
        <5> QED
          BY <4>1, <4>3, <4>4, <5>2
      <4> QED
        BY <4>5 DEF IsUser
    <3>4. CASE p.mode = "replace" /\ current[i].delivery # "persisted" /\ Id(current[i]) \in IdsOf(page)
      <4>1. PICK k \in DOMAIN page : Id(page[k]) = Id(current[i])
        BY <3>4 DEF IdsOf
      <4>2. PICK j \in DOMAIN joined : joined[j] = page[k]
        BY <3>4, <1>9 DEF Merged
      <4> QED
        BY <3>1, <4>1, <4>2 DEF IsUser
    <3>5. CASE p.mode = "replace" /\ current[i].delivery # "persisted" /\ Id(current[i]) \notin IdsOf(page)
      <4>1. PICK j \in DOMAIN joined : joined[j] = current[i]
        BY <3>5, <1>9 DEF Merged
      <4> QED
        BY <3>1, <4>1
    <3> QED
      BY <3>2, <3>3, <3>4, <3>5
  <2>6. \E i \in DOMAIN msgs : IsAnswer(msgs[i], r.op)
    <3>1. PICK i \in DOMAIN joined : Id(joined[i]) = <<AnswerOf(r.op.turn), FALSE>>
      BY <2>4 DEF IsAnswer
    <3>2. Id(joined[i]) \in PairIds(r.op)
      BY <3>1 DEF PairIds
    <3>3. PICK k \in DOMAIN msgs : Id(msgs[k]) = Id(joined[i])
      BY <2>3, <3>2
    <3> QED
      BY <3>1, <3>3 DEF IsAnswer
  <2>7. \E i \in DOMAIN msgs : IsUser(msgs[i], r.op)
    <3>1. PICK i \in DOMAIN joined : Id(joined[i]) = <<UserOf(r.op.turn), r.op.userSaved>>
      BY <2>5 DEF IsUser
    <3>2. Id(joined[i]) \in PairIds(r.op)
      BY <3>1 DEF PairIds
    <3>3. PICK k \in DOMAIN msgs : Id(msgs[k]) = Id(joined[i])
      BY <2>3, <3>2
    <3> QED
      BY <3>1, <3>3 DEF IsUser
  <2>8. ASSUME NEW i \in DOMAIN msgs, IsAnswer(msgs[i], r.op)
        PROVE  msgs[i].delivery = "streaming"
    <3>1. PICK k \in DOMAIN current : msgs[i] = current[k]
      BY <2>2, <2>8, <1>12
    <3> QED
      BY <3>1, <2>1, <2>8 DEF PairIn
  <2> QED
    BY <2>6, <2>7, <2>8 DEF PairIn
<1> QED
  BY <1>2, <1>4, <1>11, <1>13, <1>14, <1>15, <1>16

LEMMA PageArrivesKeeps ==
  ASSUME IInv, NEW p \in net.pages, PageArrives(p)
  PROVE  IInv'
<1>0. Good(rt, net) /\ rt \in Runtimes /\ net \in Worlds
  BY DEF IInv, Good, Typed
<1> DEFINE gone == {g \in net.gone : ~(IsCurrentHistory(p) /\ g[1] = p.s /\ Contains(p.reply.items, g[2]))}
           pages == net.pages \ {p}
<1>1. net' = [net EXCEPT !.pages = pages, !.gone = gone] /\ p.reply # None
  BY <1>0 DEF PageArrives, Worlds
<1>2. gone \subseteq net.gone /\ pages \in SUBSET PageRequests /\ gone \in SUBSET (Sessions \X Nat)
  BY <1>0 DEF Worlds
<1>3. \A g \in gone : g[1] = p.s /\ IsCurrentHistory(p) => ~Contains(p.reply.items, g[2])
  OBVIOUS
<1> HIDE DEF gone
<1>4. /\ net' \in Worlds /\ net'.pages = net.pages \ {p} /\ net'.dels = net.dels /\ net'.gone = gone
      /\ net'.log = net.log /\ net'.srv = net.srv
  BY <1>0, <1>1, <1>2 DEF Worlds
<1>5. CASE ~IsCurrentHistory(p)
  <2>1. Good(rt, net')
    BY <1>0, <1>2, <1>4, <1>5, DropKeeps DEF IsCurrentHistory
  <2>2. CASE rt.disposed
    BY <2>1, <2>2, <1>5 DEF PageArrives, IInv
  <2>3. CASE ~rt.disposed
    <3>1. rt' = PruneSessions(rt)
      BY <2>3, <1>5 DEF PageArrives
    <3> QED
      BY <3>1, <2>1, <2>3, PruneKeeps DEF IInv
  <2> QED
    BY <2>2, <2>3
<1>6. CASE IsCurrentHistory(p)
  <2>1. ~rt.disposed /\ rt.hops[p.s] = p.req
    BY <1>6 DEF IsCurrentHistory
  <2> DEFINE current == MsgsOf(rt, p.s)
             page   == [i \in DOMAIN p.reply.items |-> Persisted(p.reply.items[i])]
             joined == IF p.mode = "prepend" THEN PrependHistory(page, current) ELSE MergeHistory(page, current)
             msgs   == BoundMessages(rt, p.s, joined)
             more   == /\ Len(msgs) < MaxMessages
                       /\ p.mode = "replace" \/ ~(IdsOf(page) \subseteq IdsOf(current))
                       /\ p.reply.more
             cursor == IF more THEN p.reply.items[1] ELSE 0
             hist   == [status |-> "ready", req |-> p.req, more |-> more, cursor |-> cursor]
             q      == [rt EXCEPT !.snap[p.s].msgs = msgs, !.snap[p.s].hist = hist, !.hops[p.s] = 0]
  <2>2. rt' = PruneSessions(q)
    BY <1>6, Zenon DEF PageArrives, MsgsOf
  <2>3. more => p.reply.more
    OBVIOUS
  <2>4. more \in BOOLEAN
    OBVIOUS
  <2>5. /\ msgs \in Seq(Messages)
        /\ \A i \in DOMAIN msgs : PlacedIn(rt, msgs[i])
        /\ Running(rt, p.s) => PairIn(rt.op, msgs)
        /\ Running(rt, p.s) =>
             \A i \in DOMAIN msgs : FromPage(msgs[i], UserOf(rt.op.turn)) =>
                ThreadOf(rt, p.s) # None /\ UserOf(rt.op.turn) \in net.log[ThreadOf(rt, p.s)]
        /\ \A g \in net.gone : g[1] = p.s /\ ~Contains(p.reply.items, g[2]) => Absent(g, msgs)
    <3> HIDE DEF page, joined, msgs
    <3> QED
      BY <1>0, <1>1, <2>1, ArrivalHas, Zenon DEF page, joined, msgs
  <2> HIDE DEF more, msgs
  <2>6. cursor \in Nat
    <3>1. CASE more
      <4>1. PageSound(rt, net, p) /\ p.reply \in Replies
        BY <1>0, <1>1 DEF Good, Core, Paged, Worlds, PageRequests
      <4>2. Len(p.reply.items) >= 1 /\ p.reply.items \in Seq(Nat)
        BY <4>1, <3>1, <2>3, <1>1 DEF PageSound, ReplySound, Replies
      <4>3. p.reply.items[1] \in Nat
        BY <4>2
      <4> QED
        BY <4>3, <3>1
    <3>2. CASE ~more
      BY <3>2
    <3> QED
      BY <3>1, <3>2
  <2> HIDE DEF cursor
  <2>7. hist \in Histories /\ hist.req = p.req /\ hist.status # "loading"
    <3>1. p.req \in Nat
      BY <1>0 DEF Worlds, PageRequests
    <3> QED
      BY <3>1, <2>4, <2>6 DEF Histories
  <2> HIDE DEF hist
  <2>8. \A g \in gone : g[1] = p.s => Absent(g, msgs)
    BY <1>2, <1>3, <1>6, <2>5
  <2>9. Good(q, net') /\ ~q.disposed
    <3> HIDE DEF q
    <3>1. q = [rt EXCEPT !.snap[p.s].msgs = msgs, !.snap[p.s].hist = hist, !.hops[p.s] = 0]
      BY DEF q
    <3> QED
      BY <1>0, <1>2, <1>4, <2>1, <2>5, <2>7, <2>8, <3>1, SettleKeeps, Zenon
  <2> HIDE DEF q
  <2> QED
    BY <2>2, <2>9, PruneKeeps DEF IInv
<1> QED
  BY <1>5, <1>6

LEMMA PageFailsKeeps ==
  ASSUME IInv, NEW p \in net.pages, PageFails(p)
  PROVE  IInv'
<1>0. /\ Good(rt, net) /\ rt \in Runtimes /\ net \in Worlds /\ Core(rt, net) /\ Shown(rt, net)
  BY DEF IInv, Good, Typed
<1> DEFINE pages == net.pages \ {p}
           gone  == [net EXCEPT !.pages = pages]
<1>1. pages \in SUBSET PageRequests
  BY <1>0 DEF Worlds
<1>2. /\ gone \in Worlds /\ gone.pages = pages /\ gone.dels = net.dels /\ gone.gone = net.gone
      /\ gone.log = net.log /\ gone.srv = net.srv
  BY <1>0, <1>1 DEF Worlds
<1>3. CASE ~IsCurrentHistory(p)
  <2>1. net' = gone
    BY <1>3 DEF PageFails
  <2> HIDE DEF gone
  <2>2. Good(rt, gone)
    BY <1>0, <1>2, <1>3, DropKeeps DEF IsCurrentHistory
  <2>3. CASE rt.disposed
    BY <2>1, <2>2, <2>3, <1>3 DEF PageFails, IInv
  <2>4. CASE ~rt.disposed
    <3>1. rt' = PruneSessions(rt)
      BY <2>4, <1>3 DEF PageFails
    <3> QED
      BY <3>1, <2>1, <2>2, <2>4, PruneKeeps DEF IInv
  <2> QED
    BY <2>3, <2>4
<1>4. CASE IsCurrentHistory(p)
  <2> DEFINE q == [rt EXCEPT !.snap[p.s].hist.status = "error", !.hops[p.s] = 0]
             hist == [rt.snap[p.s].hist EXCEPT !.status = "error"]
             msgs == MsgsOf(rt, p.s)
  <2>1. net' = Fault(gone) /\ rt' = PruneSessions(q)
    BY <1>4 DEF PageFails
  <2>2. ~rt.disposed /\ rt.hops[p.s] = p.req
    BY <1>4 DEF IsCurrentHistory
  <2>3. p.s \in Sessions /\ p.req # 0
    BY <1>0 DEF Core, Paged, PageSound, Worlds, PageRequests
  <2>4. rt.snap[p.s] \in Snapshots /\ rt.snap[p.s].hist \in Histories /\ msgs \in Seq(Messages)
    BY <2>3, <1>0 DEF Runtimes, Snapshots, MsgsOf
  <2>5. hist \in Histories /\ hist.req = p.req /\ hist.status # "loading"
    <3>1. rt.snap[p.s].hist.req = p.req
      BY <2>2, <2>3, <1>0 DEF Core, Requests
    <3> QED
      BY <3>1, <2>4 DEF Histories
  <2>6. q = [rt EXCEPT !.snap[p.s].msgs = msgs, !.snap[p.s].hist = hist, !.hops[p.s] = 0]
    <3> DEFINE a == [rt EXCEPT !.snap[p.s].msgs = msgs]
    <3>1. a.snap[p.s].hist = rt.snap[p.s].hist /\ [rt.snap[p.s] EXCEPT !.msgs = msgs] = rt.snap[p.s]
      BY <2>3, <2>4, <1>0 DEF MsgsOf, Runtimes, Snapshots
    <3>2. [rt.snap EXCEPT ![p.s] = rt.snap[p.s]] = rt.snap
      BY <2>3, <1>0 DEF Runtimes
    <3>3. a = rt
      BY <3>1, <3>2, <1>0 DEF Runtimes
    <3> QED
      BY <3>3
  <2>7. PICK f \in Nat : f = gone.faults + 1
    BY <1>2 DEF Worlds
  <2>8. net' = [gone EXCEPT !.faults = f]
    BY <2>1, <2>7 DEF Fault
  <2>81. net' = [net EXCEPT !.pages = pages, !.faults = f]
    BY <2>8
  <2> HIDE DEF gone, q, hist
  <2>9. /\ net' \in Worlds /\ net'.pages = pages /\ net'.dels = net.dels /\ net'.gone = net.gone
        /\ net'.log = net.log /\ net'.srv = net.srv
    BY <1>0, <1>1, <2>81 DEF Worlds
  <2>10. \A i \in DOMAIN msgs : PlacedIn(rt, msgs[i])
    BY <2>3, <1>0 DEF Shown, Placed
  <2>11. Running(rt, p.s) => PairIn(rt.op, msgs)
    BY <1>0 DEF Shown, Pair, Running
  <2>12. Running(rt, p.s) =>
           \A i \in DOMAIN msgs : FromPage(msgs[i], UserOf(rt.op.turn)) =>
              ThreadOf(rt, p.s) # None /\ UserOf(rt.op.turn) \in net.log[ThreadOf(rt, p.s)]
    BY <1>0 DEF Shown, Fresh, Brought, Running
  <2>13. \A g \in net.gone : g[1] = p.s => Absent(g, msgs)
    BY <1>0 DEF Shown, Gone
  <2> HIDE DEF msgs
  <2>14. Good(q, net') /\ ~q.disposed
    BY <1>0, <2>2, <2>4, <2>5, <2>6, <2>9, <2>10, <2>11, <2>12, <2>13, SettleKeeps
  <2> QED
    BY <2>1, <2>14, PruneKeeps DEF IInv
<1> QED
  BY <1>3, <1>4

(***************************************************************************)
(* Deletions.                                                              *)
(***************************************************************************)
\* Requests to delete come and go; a log may lose an answer, no question.
LEMMA DelsKeeps ==
  ASSUME NEW r, NEW n, Good(r, n), NEW m \in Worlds, m.pages = n.pages, m.gone = n.gone, m.srv = n.srv,
         \A t \in Threads : /\ m.log[t] \subseteq n.log[t]
                            /\ \A u \in n.log[t] : u % 2 = 0 => u \in m.log[t],
         Deleted(r, m)
  PROVE  Good(r, m)
<1>1. r \in Runtimes /\ n \in Worlds /\ Core(r, n) /\ Shown(r, n)
  BY DEF Good, Typed
<1>2. Stored(r, m)
  BY <1>1 DEF Core, Stored
<1>3. Paged(r, m)
  <2> SUFFICES ASSUME NEW p \in n.pages
               PROVE  PageSound(r, m, p)
    BY DEF Paged
  <2>1. PageSound(r, n, p) /\ p.thread \in Threads
    BY <1>1 DEF Core, Paged, Worlds, PageRequests
  <2> QED
    BY <2>1 DEF PageSound, ReplySound
<1>4. Fresh(r, m)
  <2> SUFFICES ASSUME r.op # None, NEW i \in DOMAIN MsgsOf(r, r.op.s),
                      FromPage(MsgsOf(r, r.op.s)[i], UserOf(r.op.turn))
               PROVE  Brought(r, m, UserOf(r.op.turn))
    BY DEF Fresh
  <2>1. Brought(r, n, UserOf(r.op.turn))
    BY <1>1 DEF Shown, Fresh
  <2>2. ThreadOf(r, r.op.s) \in Threads \cup {None}
    BY <1>1 DEF Runtimes, Operations, Snapshots, ThreadOf
  <2>3. UserOf(r.op.turn) % 2 = 0
    BY <1>1 DEF Runtimes, Operations, UserOf
  <2> QED
    BY <2>1, <2>2, <2>3 DEF Brought
<1>5. Core(r, m) /\ Shown(r, m)
  BY <1>1, <1>2, <1>3, <1>4 DEF Core, Shown, Served, Gone
<1> QED
  BY <1>1, <1>5 DEF Good, Typed

LEMMA DeleteMessageKeeps ==
  ASSUME IInv, NEW s \in Sessions, NEW m \in Range(rt.snap[s].msgs), DeleteMessage(s, m)
  PROVE  IInv'
<1>0. /\ Good(rt, net) /\ rt \in Runtimes /\ net \in Worlds /\ Core(rt, net) /\ Shown(rt, net)
  BY DEF IInv, Good, Typed
<1>1. PICK i \in DOMAIN rt.snap[s].msgs : m = rt.snap[s].msgs[i]
  BY DEF Range
<1>2. m \in Messages /\ PlacedIn(rt, m) /\ m.delivery = "persisted" /\ m.o % 2 = 1
  <2>1. rt.snap[s].msgs \in Seq(Messages)
    BY <1>0 DEF Runtimes, Snapshots
  <2>2. m \in Messages
    BY <2>1, <1>1
  <2> QED
    BY <2>2, <1>0, <1>1 DEF Shown, Placed, MsgsOf, DeleteMessage
<1>3. m.saved = TRUE /\ m.o \in Nat /\ m.o < 2 * rt.turns
  BY <1>2 DEF PlacedIn, Messages
<1>4. ~Running(rt, s)
  BY <1>0 DEF DeleteMessage, Available, Core, OneRunOf, Running
<1>5. rt.snap[s].thread \in Threads
  BY <1>0 DEF DeleteMessage, Runtimes, Snapshots
<1> DEFINE d == [s |-> s, thread |-> rt.snap[s].thread, m |-> Id(m), reply |-> None]
           dels == net.dels \cup {d}
<1>6. PICK c \in Nat : c = net.drops + 1
  BY <1>0 DEF Worlds
<1>7. d \in Deletions /\ d.s = s /\ d.m = <<m.o, TRUE>>
  BY <1>3, <1>5 DEF Deletions, Id
<1> HIDE DEF d
<1>8. dels \in SUBSET Deletions
  BY <1>0, <1>7 DEF Worlds
<1>9. net' = [net EXCEPT !.dels = dels, !.drops = c] /\ rt' = rt
  BY <1>6 DEF DeleteMessage, d
<1> HIDE DEF dels
<1>10. /\ net' \in Worlds /\ net'.pages = net.pages /\ net'.dels = dels /\ net'.gone = net.gone
       /\ net'.log = net.log /\ net'.srv = net.srv
  BY <1>0, <1>8, <1>9 DEF Worlds
<1>11. Deleted(rt, net')
  <2>1. Older(rt, d.s, d.m[1]) /\ d.m = <<d.m[1], TRUE>>
    BY <1>2, <1>3, <1>4, <1>7 DEF Older
  <2>2. ASSUME NEW x \in dels
        PROVE  Older(rt, x.s, x.m[1]) /\ x.m = <<x.m[1], TRUE>>
    <3>1. CASE x = d
      BY <3>1, <2>1
    <3>2. CASE x \in net.dels
      BY <3>2, <1>0 DEF Core, Deleted
    <3> QED
      BY <3>1, <3>2 DEF dels
  <2> QED
    BY <2>2, <1>0, <1>10 DEF Core, Deleted
<1> QED
  BY <1>0, <1>9, <1>10, <1>11, DelsKeeps DEF IInv

LEMMA DeletionReachesKeeps ==
  ASSUME IInv, NEW d \in net.dels, DeletionReaches(d)
  PROVE  IInv'
<1>0. /\ Good(rt, net) /\ rt \in Runtimes /\ net \in Worlds /\ Core(rt, net) /\ Shown(rt, net)
  BY DEF IInv, Good, Typed
<1>1. d \in Deletions /\ d.thread \in Threads /\ Older(rt, d.s, d.m[1]) /\ d.m = <<d.m[1], TRUE>>
  BY <1>0 DEF Worlds, Deletions, Core, Deleted
<1> DEFINE found == d.m[1] \in net.log[d.thread]
           reply == IF found THEN "deleted" ELSE "refused"
           e     == [d EXCEPT !.reply = reply]
           dels  == (net.dels \ {d}) \cup {e}
           left  == IF found THEN net.log[d.thread] \ {d.m[1]} ELSE net.log[d.thread]
           log   == [net.log EXCEPT ![d.thread] = left]
<1>2. net' = [net EXCEPT !.dels = dels, !.log = log] /\ rt' = rt
  <2>1. net.log \in [Threads -> SUBSET Nat]
    BY <1>0 DEF Worlds
  <2> QED
    BY <2>1, <1>1 DEF DeletionReaches
<1>3. reply \in {"deleted", "refused", None}
  OBVIOUS
<1> HIDE DEF reply
<1>4. e \in Deletions /\ e.s = d.s /\ e.m = d.m
  BY <1>1, <1>3 DEF Deletions
<1> HIDE DEF e
<1>5. dels \in SUBSET Deletions
  BY <1>0, <1>4 DEF Worlds
<1>6. left \subseteq net.log[d.thread] /\ \A u \in net.log[d.thread] : u % 2 = 0 => u \in left
  BY <1>1 DEF Older
<1> HIDE DEF left
<1>7. /\ log \in [Threads -> SUBSET Nat] /\ log[d.thread] = left
      /\ \A t \in Threads \ {d.thread} : log[t] = net.log[t]
  BY <1>0, <1>1, <1>6 DEF Worlds
<1> HIDE DEF log, dels
<1>8. /\ net' \in Worlds /\ net'.pages = net.pages /\ net'.dels = dels /\ net'.gone = net.gone
      /\ net'.log = log /\ net'.srv = net.srv
  BY <1>0, <1>2, <1>5, <1>7 DEF Worlds
<1>9. Deleted(rt, net')
  <2>1. ASSUME NEW x \in dels
        PROVE  Older(rt, x.s, x.m[1]) /\ x.m = <<x.m[1], TRUE>>
    <3>1. CASE x = e
      BY <3>1, <1>1, <1>4
    <3>2. CASE x \in net.dels
      BY <3>2, <1>0 DEF Core, Deleted
    <3> QED
      BY <3>1, <3>2 DEF dels
  <2> QED
    BY <2>1, <1>0, <1>8 DEF Core, Deleted
<1>10. \A t \in Threads : /\ net'.log[t] \subseteq net.log[t]
                          /\ \A u \in net.log[t] : u % 2 = 0 => u \in net'.log[t]
  <2> SUFFICES ASSUME NEW t \in Threads
               PROVE  /\ log[t] \subseteq net.log[t]
                      /\ \A u \in net.log[t] : u % 2 = 0 => u \in log[t]
    BY <1>8
  <2>1. CASE t = d.thread
    BY <2>1, <1>6, <1>7
  <2>2. CASE t # d.thread
    BY <2>2, <1>7
  <2> QED
    BY <2>1, <2>2
<1>11. Good(rt, net')
  BY <1>0, <1>8, <1>9, <1>10, DelsKeeps
<1> QED
  BY <1>2, <1>11 DEF IInv

\* Other messages in one session: nothing else changes.
MsgsChange(r, q, s, msgs) ==
  /\ q \in Runtimes /\ SameFrame(r, q) /\ q.op = r.op
  /\ MsgsOf(q, s) = msgs
  /\ \A v \in Sessions \ {s} : MsgsOf(q, v) = MsgsOf(r, v)
  /\ \A v \in Sessions : q.snap[v].run = r.snap[v].run /\ q.snap[v].hist = r.snap[v].hist
  /\ q.lru = r.lru /\ q.subs = r.subs /\ q.active = r.active

LEMMA MsgsSet ==
  ASSUME NEW r \in Runtimes, NEW s \in Sessions, NEW msgs \in Seq(Messages),
         NEW q, q = [r EXCEPT !.snap[s].msgs = msgs]
  PROVE  MsgsChange(r, q, s, msgs)
<1>1. r.snap[s] \in Snapshots
  BY DEF Runtimes
<1> DEFINE shot == [r.snap[s] EXCEPT !.msgs = msgs]
           snap == [r.snap EXCEPT ![s] = shot]
<1>2. /\ shot \in Snapshots /\ shot.hist = r.snap[s].hist /\ shot.thread = r.snap[s].thread
      /\ shot.msgs = msgs /\ shot.run = r.snap[s].run
  BY <1>1 DEF Snapshots
<1>3. q = [r EXCEPT !.snap = snap]
  OBVIOUS
<1> HIDE DEF shot
<1>4. snap \in [Sessions -> Snapshots] /\ snap[s] = shot /\ \A v \in Sessions \ {s} : snap[v] = r.snap[v]
  BY <1>2 DEF Runtimes
<1> HIDE DEF snap
<1>5. /\ q \in Runtimes /\ q.snap = snap /\ q.hops = r.hops /\ q.lru = r.lru /\ q.used = r.used
      /\ q.byThread = r.byThread /\ q.op = r.op /\ q.turns = r.turns /\ q.disposed = r.disposed
      /\ q.subs = r.subs /\ q.active = r.active
  BY <1>3, <1>4 DEF Runtimes
<1>6. \A v \in Sessions : /\ q.snap[v].thread = r.snap[v].thread /\ q.snap[v].run = r.snap[v].run
                          /\ q.snap[v].hist = r.snap[v].hist
  BY <1>2, <1>4, <1>5
<1>7. SameFrame(r, q)
  BY <1>5, <1>6 DEF SameFrame, SameOp, SameRun, Present
<1>8. MsgsOf(q, s) = msgs /\ \A v \in Sessions \ {s} : MsgsOf(q, v) = MsgsOf(r, v)
  BY <1>2, <1>4, <1>5 DEF MsgsOf
<1> QED
  BY <1>5, <1>6, <1>7, <1>8 DEF MsgsChange

\* The answer that was deleted leaves the session; the running pair stays.
LEMMA WithoutKeeps ==
  ASSUME NEW r, NEW n, Good(r, n), NEW d \in n.dels,
         NEW q, q = [r EXCEPT !.snap[d.s].msgs = Keep(@, {i \in DOMAIN @ : Id(@[i]) # d.m})],
         NEW m \in Worlds, m.pages = n.pages, m.dels = n.dels \ {d}, m.srv = n.srv, m.log = n.log,
         m.gone = n.gone \cup {<<d.s, d.m[1]>>}
  PROVE  Good(q, m) /\ q.disposed = r.disposed
<1>0. r \in Runtimes /\ n \in Worlds /\ Core(r, n) /\ Shown(r, n)
  BY DEF Good, Typed
<1>1. PICK s \in Sessions : s = d.s
  BY <1>0 DEF Worlds, Deletions
<1>2. Older(r, s, d.m[1]) /\ d.m = <<d.m[1], TRUE>>
  BY <1>0, <1>1 DEF Core, Deleted
<1>3. PICK current \in Seq(Messages) : current = MsgsOf(r, s)
  BY <1>0 DEF Runtimes, Snapshots, MsgsOf
<1> DEFINE places == {i \in DOMAIN current : Id(current[i]) # d.m}
<1>4. PICK msgs : msgs = Keep(current, places)
  OBVIOUS
<1>5. msgs \in Seq(Messages) /\ Kept(current, places, msgs)
  BY <1>3, <1>4, KeepHas
<1>6. q = [r EXCEPT !.snap[s].msgs = msgs]
  BY <1>1, <1>3, <1>4 DEF MsgsOf
<1>7. MsgsChange(r, q, s, msgs)
  BY <1>0, <1>5, <1>6, MsgsSet
<1>8. /\ q \in Runtimes /\ SameFrame(r, q) /\ q.op = r.op /\ MsgsOf(q, s) = msgs
      /\ \A v \in Sessions \ {s} : MsgsOf(q, v) = MsgsOf(r, v)
  BY <1>7 DEF MsgsChange
<1>9. q.disposed = r.disposed /\ q.turns = r.turns /\ q.hops = r.hops /\ \A v \in Sessions : ThreadOf(q, v) = ThreadOf(r, v)
  BY <1>8 DEF SameFrame, ThreadOf
<1>10. Core(q, n)
  BY <1>0, <1>8, FrameCore
<1>11. Core(q, m)
  <2>1. Older(q, s, d.m[1])
    BY <1>2, <1>8, <1>9 DEF Older, Running
  <2>2. Deleted(q, m)
    <3>1. ASSUME NEW g \in m.gone
          PROVE  Older(q, g[1], g[2])
      <4>1. CASE g \in n.gone
        BY <4>1, <1>10 DEF Core, Deleted
      <4>2. CASE g = <<d.s, d.m[1]>>
        BY <4>2, <2>1, <1>1
      <4> QED
        BY <4>1, <4>2
    <3> QED
      BY <3>1, <1>10 DEF Core, Deleted
  <2> QED
    BY <2>2, <1>10 DEF Core, Stored, Paged, PageSound, ReplySound, Served
<1>12. ASSUME NEW k \in DOMAIN msgs
       PROVE  \E i \in DOMAIN current : Id(current[i]) # d.m /\ msgs[k] = current[i]
  BY <1>5 DEF Kept
<1>13. ASSUME NEW i \in DOMAIN current, Id(current[i]) # d.m
       PROVE  \E k \in DOMAIN msgs : msgs[k] = current[i]
  BY <1>5, <1>13 DEF Kept
<1>14. Placed(q)
  <2> SUFFICES ASSUME NEW v \in Sessions, NEW i \in DOMAIN MsgsOf(q, v)
               PROVE  PlacedIn(q, MsgsOf(q, v)[i])
    BY DEF Placed
  <2>1. CASE v = s
    <3>1. PICK j \in DOMAIN current : MsgsOf(q, v)[i] = current[j]
      BY <2>1, <1>8, <1>12
    <3> QED
      BY <3>1, <1>0, <1>3, <1>9 DEF Shown, Placed, PlacedIn
  <2>2. CASE v # s
    BY <2>2, <1>0, <1>8, <1>9 DEF Shown, Placed, PlacedIn
  <2> QED
    BY <2>1, <2>2
<1>15. r.op # None => r.op.s \in Sessions /\ r.op.turn \in Nat
  BY <1>0 DEF Runtimes, Operations
<1>16. Pair(q)
  <2> SUFFICES ASSUME r.op # None
               PROVE  PairIn(r.op, MsgsOf(q, r.op.s))
    BY <1>8 DEF Pair
  <2>1. CASE r.op.s = s
    <3>1. PairIn(r.op, current)
      BY <2>1, <1>0, <1>3 DEF Shown, Pair
    <3>2. d.m # <<UserOf(r.op.turn), r.op.userSaved>>
      <4> SUFFICES ASSUME d.m = <<UserOf(r.op.turn), r.op.userSaved>>
                   PROVE  FALSE
        OBVIOUS
      <4>1. d.m[1] = UserOf(r.op.turn)
        OBVIOUS
      <4> QED
        BY <4>1, <1>2, <1>15 DEF Older, UserOf
    <3>3. d.m # <<AnswerOf(r.op.turn), FALSE>>
      <4> SUFFICES ASSUME d.m = <<AnswerOf(r.op.turn), FALSE>>
                   PROVE  FALSE
        OBVIOUS
      <4>1. d.m[2] = FALSE
        OBVIOUS
      <4>2. <<d.m[1], TRUE>>[2] = TRUE
        OBVIOUS
      <4> QED
        BY <4>1, <4>2, <1>2
    <3>4. \E k \in DOMAIN msgs : IsUser(msgs[k], r.op)
      <4>1. PICK i \in DOMAIN current : IsUser(current[i], r.op)
        BY <3>1 DEF PairIn
      <4>2. Id(current[i]) # d.m
        BY <4>1, <3>2 DEF IsUser
      <4>3. PICK k \in DOMAIN msgs : msgs[k] = current[i]
        BY <4>2, <1>13
      <4> QED
        BY <4>1, <4>3
    <3>5. \E k \in DOMAIN msgs : IsAnswer(msgs[k], r.op)
      <4>1. PICK i \in DOMAIN current : IsAnswer(current[i], r.op)
        BY <3>1 DEF PairIn
      <4>2. Id(current[i]) # d.m
        BY <4>1, <3>3 DEF IsAnswer
      <4>3. PICK k \in DOMAIN msgs : msgs[k] = current[i]
        BY <4>2, <1>13
      <4> QED
        BY <4>1, <4>3
    <3>6. ASSUME NEW k \in DOMAIN msgs, IsAnswer(msgs[k], r.op)
          PROVE  msgs[k].delivery = "streaming"
      <4>1. PICK i \in DOMAIN current : msgs[k] = current[i]
        BY <1>12
      <4> QED
        BY <4>1, <3>1, <3>6 DEF PairIn
    <3> QED
      BY <2>1, <3>4, <3>5, <3>6, <1>8 DEF PairIn
  <2>2. CASE r.op.s # s
    BY <2>2, <1>0, <1>8, <1>15 DEF Shown, Pair
  <2> QED
    BY <2>1, <2>2
<1>17. Fresh(q, m)
  <2> SUFFICES ASSUME r.op # None, NEW k \in DOMAIN MsgsOf(q, r.op.s),
                      FromPage(MsgsOf(q, r.op.s)[k], UserOf(r.op.turn))
               PROVE  Brought(q, m, UserOf(r.op.turn))
    BY <1>8 DEF Fresh
  <2>1. \E i \in DOMAIN MsgsOf(r, r.op.s) : FromPage(MsgsOf(r, r.op.s)[i], UserOf(r.op.turn))
    <3>1. CASE r.op.s = s
      <4>1. PICK i \in DOMAIN current : MsgsOf(q, r.op.s)[k] = current[i]
        BY <3>1, <1>8, <1>12
      <4> QED
        BY <4>1, <3>1, <1>3
    <3>2. CASE r.op.s # s
      BY <3>2, <1>8, <1>15
    <3> QED
      BY <3>1, <3>2
  <2>2. Brought(r, n, UserOf(r.op.turn))
    BY <2>1, <1>0 DEF Shown, Fresh
  <2>3. ThreadOf(q, r.op.s) = ThreadOf(r, r.op.s)
    BY <1>9, <1>15
  <2> QED
    BY <2>2, <2>3, <1>8, <1>9 DEF Brought
<1>18. Gone(q, m)
  <2> SUFFICES ASSUME NEW g \in m.gone
               PROVE  Absent(g, MsgsOf(q, g[1]))
    BY DEF Gone
  <2>1. CASE g = <<d.s, d.m[1]>>
    <3>1. g[1] = s /\ <<g[2], TRUE>> = d.m
      BY <2>1, <1>1, <1>2
    <3>2. \A k \in DOMAIN msgs : Id(msgs[k]) # d.m
      BY <1>12
    <3> QED
      BY <3>1, <3>2, <1>8 DEF Absent
  <2>2. CASE g \in n.gone /\ g[1] = s
    <3>1. Absent(g, current)
      BY <2>2, <1>0, <1>3 DEF Shown, Gone
    <3>2. \A k \in DOMAIN msgs : Id(msgs[k]) # <<g[2], TRUE>>
      BY <3>1, <1>12 DEF Absent
    <3> QED
      BY <3>2, <2>2, <1>8 DEF Absent
  <2>3. CASE g \in n.gone /\ g[1] # s
    <3>1. g[1] \in Sessions
      BY <2>3, <1>0 DEF Worlds
    <3> QED
      BY <3>1, <2>3, <1>0, <1>8 DEF Shown, Gone
  <2> QED
    BY <2>1, <2>2, <2>3
<1> QED
  BY <1>8, <1>9, <1>11, <1>14, <1>16, <1>17, <1>18 DEF Good, Typed, Shown

LEMMA FaultKeeps ==
  ASSUME NEW r, NEW n, Good(r, n)
  PROVE  Good(r, Fault(n))
<1>1. Grows(r, n, Fault(n))
  BY GrowsSelf, FaultGrows
<1> QED
  BY <1>1, GrowsKeeps

LEMMA DeletionAnsweredKeeps ==
  ASSUME IInv, NEW d \in net.dels, DeletionAnswered(d)
  PROVE  IInv'
<1>0. /\ Good(rt, net) /\ rt \in Runtimes /\ net \in Worlds /\ Core(rt, net) /\ Shown(rt, net)
  BY DEF IInv, Good, Typed
<1> DEFINE dels == net.dels \ {d}
           n    == [net EXCEPT !.dels = dels]
           gone == net.gone \cup {<<d.s, d.m[1]>>}
           m    == [net EXCEPT !.dels = dels, !.gone = gone]
           q    == [rt EXCEPT !.snap[d.s].msgs = Keep(@, {i \in DOMAIN @ : Id(@[i]) # d.m})]
<1>1. dels \in SUBSET Deletions /\ gone \in SUBSET (Sessions \X Nat)
  BY <1>0 DEF Worlds, Deletions
<1>2. /\ n \in Worlds /\ n.pages = net.pages /\ n.dels = dels /\ n.gone = net.gone
      /\ n.log = net.log /\ n.srv = net.srv
  BY <1>0, <1>1 DEF Worlds
<1>3. /\ m \in Worlds /\ m.pages = net.pages /\ m.dels = dels /\ m.gone = gone
      /\ m.log = net.log /\ m.srv = net.srv
  <2> HIDE DEF dels, gone
  <2> QED
    BY <1>0, <1>1 DEF Worlds
<1>4. \/ rt' = rt /\ (net' = n \/ net' = Fault(n))
      \/ ~rt.disposed /\ rt' = PruneSessions(q) /\ net' = m
  <2>1. PICK lost \in BOOLEAN :
          LET seen == d.reply = "deleted" /\ ~lost /\ Available /\ d.s \in Present(rt)
          IN  /\ rt' = IF seen THEN WithoutMessage(rt, d) ELSE rt
              /\ net' = IF lost THEN Fault(n)
                        ELSE IF seen THEN [n EXCEPT !.gone = @ \cup {<<d.s, d.m[1]>>}] ELSE n
    BY DEF DeletionAnswered
  <2>2. [n EXCEPT !.gone = @ \cup {<<d.s, d.m[1]>>}] = m
    BY <1>0 DEF Worlds
  <2>3. WithoutMessage(rt, d) = PruneSessions(q)
    BY DEF WithoutMessage
  <2> HIDE DEF m, q, n
  <2> QED
    BY <2>1, <2>2, <2>3 DEF Available
<1> HIDE DEF n, m, q
<1>5. Good(rt, n)
  <2>1. Deleted(rt, n)
    BY <1>0, <1>2 DEF Core, Deleted
  <2> QED
    BY <2>1, <1>0, <1>2, DelsKeeps
<1>6. CASE rt' = rt /\ (net' = n \/ net' = Fault(n))
  BY <1>5, <1>6, FaultKeeps DEF IInv
<1>7. CASE ~rt.disposed /\ rt' = PruneSessions(q) /\ net' = m
  <2>1. Good(q, m) /\ q.disposed = rt.disposed
    BY <1>0, <1>3, WithoutKeeps DEF q
  <2> QED
    BY <2>1, <1>7, PruneKeeps DEF IInv
<1> QED
  BY <1>4, <1>6, <1>7

LEMMA HistoryStepKeeps ==
  ASSUME IInv, HistoryStep
  PROVE  IInv'
  BY LoadOlderKeeps, EnsureHistoryKeeps, PageIsReadKeeps, PageArrivesKeeps, PageFailsKeeps,
     DeleteMessageKeeps, DeletionReachesKeeps, DeletionAnsweredKeeps DEF HistoryStep

(***************************************************************************)
(* The run of a session.                                                   *)
(***************************************************************************)
\* What a step of the run may do to the messages of its session: the user
\* message takes its saved id, the answer goes on streaming.
Follows(op, old, o, msgs) ==
  /\ DOMAIN msgs = DOMAIN old
  /\ \A i \in DOMAIN old :
        /\ msgs[i].o = old[i].o
        /\ msgs[i].saved = old[i].saved \/ (IsUser(old[i], op) /\ msgs[i].saved = TRUE)
        /\ msgs[i].delivery = old[i].delivery \/ (IsAnswer(old[i], op) /\ msgs[i].delivery = "streaming")
        /\ IsUser(old[i], op) => msgs[i].saved = o.userSaved

LEMMA FollowsSelf ==
  ASSUME NEW op, NEW old, NEW o, o.userSaved = op.userSaved
  PROVE  Follows(op, old, o, old)
<1> SUFFICES ASSUME NEW i \in DOMAIN old, IsUser(old[i], op)
             PROVE  old[i].saved = op.userSaved
  BY DEF Follows
<1>1. <<old[i].o, old[i].saved>> = <<UserOf(op.turn), op.userSaved>>
  BY DEF IsUser, Id
<1> QED
  BY <1>1

\* While an operation is there its session shows its run.
LEMMA RunIsThere ==
  ASSUME NEW r, NEW n, Good(r, n), r.op # None
  PROVE  /\ r.op \in Operations /\ r.op.s \in Sessions /\ r.op.s \in Present(r) /\ ~r.disposed
         /\ r.snap[r.op.s] \in Snapshots /\ r.snap[r.op.s].run \in Runs
         /\ r.snap[r.op.s].run.turn = r.op.turn /\ r.op.turn \in Nat
<1>1. r \in Runtimes /\ Core(r, n)
  BY DEF Good, Typed
<1>2. r.op \in Operations /\ r.op.s \in Sessions /\ r.op.turn \in Nat
  BY <1>1 DEF Runtimes, Operations
<1>3. ~r.disposed /\ r.snap[r.op.s].run # None /\ r.snap[r.op.s].run.turn = r.op.turn /\ r.op.s \in Present(r)
  BY <1>1, <1>2 DEF Core, Asked, OneRunOf
<1>4. r.snap[r.op.s] \in Snapshots
  BY <1>1, <1>2 DEF Runtimes
<1>5. r.snap[r.op.s].run \in Runs
  BY <1>3, <1>4 DEF Snapshots
<1> QED
  BY <1>2, <1>3, <1>4, <1>5

\* Two fields of the runtime are others.
Two(r, o, snap) == [r EXCEPT !.op = o, !.snap = snap]

LEMMA TwoIs ==
  ASSUME NEW r \in Runtimes, NEW o, NEW snap
  PROVE  /\ Two(r, o, snap).op = o /\ Two(r, o, snap).snap = snap
         /\ \A x : [Two(r, o, snap) EXCEPT !.op = x] = Two(r, x, snap)
         /\ \A x : [Two(r, o, snap) EXCEPT !.snap = x] = Two(r, o, x)
         /\ r = Two(r, r.op, r.snap)
  BY DEF Two, Runtimes

RunUpdate(r, o, run, msgs) ==
  Two(r, o, [r.snap EXCEPT ![r.op.s] = [r.snap[r.op.s] EXCEPT !.run = run, !.msgs = msgs]])

OpUpdate(r, o, run) ==
  Two(r, o, [r.snap EXCEPT ![r.op.s] = [r.snap[r.op.s] EXCEPT !.run = run]])

LEMMA RunKeeps ==
  ASSUME NEW r, NEW n, Good(r, n), r.op # None,
         NEW o \in Operations, o.s = r.op.s, o.turn = r.op.turn, o.stage = r.op.stage,
         NEW run \in Runs, run.turn = r.op.turn,
         NEW msgs \in Seq(Messages), Follows(r.op, MsgsOf(r, r.op.s), o, msgs),
         NEW q, q = RunUpdate(r, o, run, msgs)
  PROVE  Good(q, n)
<1>1. r \in Runtimes /\ n \in Worlds /\ Core(r, n) /\ Shown(r, n)
  BY DEF Good, Typed
<1>2. PICK s \in Sessions : s = r.op.s
  BY RunIsThere
<1>3. r.snap[s] \in Snapshots /\ r.snap[s].run # None /\ r.snap[s].run.turn = r.op.turn /\ r.op.turn \in Nat
  BY <1>2, RunIsThere, NullIsNone
<1>4. run # None /\ o # None
  BY NullIsNone
<1> DEFINE shot == [r.snap[s] EXCEPT !.run = run, !.msgs = msgs]
           snap == [r.snap EXCEPT ![s] = shot]
<1>5. /\ shot \in Snapshots /\ shot.hist = r.snap[s].hist /\ shot.thread = r.snap[s].thread
      /\ shot.msgs = msgs /\ shot.run = run
  BY <1>3 DEF Snapshots
<1>6. q = [r EXCEPT !.op = o, !.snap = snap]
  BY <1>2 DEF RunUpdate, Two
<1> HIDE DEF shot
<1>7. snap \in [Sessions -> Snapshots] /\ snap[s] = shot /\ \A v \in Sessions \ {s} : snap[v] = r.snap[v]
  BY <1>1, <1>5 DEF Runtimes
<1> HIDE DEF snap
<1>8. /\ q \in Runtimes /\ q.snap = snap /\ q.op = o /\ q.hops = r.hops /\ q.lru = r.lru /\ q.used = r.used
      /\ q.byThread = r.byThread /\ q.turns = r.turns /\ q.disposed = r.disposed
  BY <1>1, <1>6, <1>7 DEF Runtimes
<1>9. SameFrame(r, q)
  <2>1. Present(q) = Present(r)
    BY <1>8 DEF Present
  <2>2. SameOp(r, q)
    BY <1>4, <1>8 DEF SameOp
  <2>3. ASSUME NEW v \in Sessions
        PROVE  /\ q.snap[v].thread = r.snap[v].thread /\ q.snap[v].hist = r.snap[v].hist
               /\ SameRun(r, q, v)
    <3>1. CASE v = s
      BY <3>1, <1>3, <1>4, <1>5, <1>7, <1>8 DEF SameRun
    <3>2. CASE v # s
      BY <3>2, <1>7, <1>8 DEF SameRun
    <3> QED
      BY <3>1, <3>2
  <2> QED
    BY <2>1, <2>2, <2>3, <1>8 DEF SameFrame
<1>10. Core(q, n)
  BY <1>1, <1>8, <1>9, FrameCore
<1>11. MsgsOf(q, s) = msgs /\ \A v \in Sessions \ {s} : MsgsOf(q, v) = MsgsOf(r, v)
  BY <1>5, <1>7, <1>8 DEF MsgsOf
<1>12. PICK old : old = MsgsOf(r, s)
  OBVIOUS
<1>13. DOMAIN msgs = DOMAIN old
  BY <1>2, <1>12 DEF Follows
<1>14. ASSUME NEW i \in DOMAIN old
       PROVE  /\ msgs[i].o = old[i].o
              /\ msgs[i].saved = old[i].saved \/ (IsUser(old[i], r.op) /\ msgs[i].saved = TRUE)
              /\ msgs[i].delivery = old[i].delivery \/ (IsAnswer(old[i], r.op) /\ msgs[i].delivery = "streaming")
              /\ IsUser(old[i], r.op) => msgs[i].saved = o.userSaved
  BY <1>2, <1>12 DEF Follows
<1>15. ASSUME NEW m, IsUser(m, r.op)
       PROVE  m.o = UserOf(r.op.turn) /\ m.saved = r.op.userSaved
  <2>1. <<m.o, m.saved>> = <<UserOf(r.op.turn), r.op.userSaved>>
    BY <1>15 DEF IsUser, Id
  <2> QED
    BY <2>1
<1>16. ASSUME NEW m, IsAnswer(m, r.op)
       PROVE  m.o = AnswerOf(r.op.turn) /\ m.saved = FALSE
  <2>1. <<m.o, m.saved>> = <<AnswerOf(r.op.turn), FALSE>>
    BY <1>16 DEF IsAnswer, Id
  <2> QED
    BY <2>1
<1>17. Placed(q)
  <2> SUFFICES ASSUME NEW v \in Sessions, NEW i \in DOMAIN MsgsOf(q, v)
               PROVE  PlacedIn(q, MsgsOf(q, v)[i])
    BY DEF Placed
  <2>1. CASE v = s
    <3>1. i \in DOMAIN old /\ MsgsOf(q, v)[i] = msgs[i]
      BY <2>1, <1>11, <1>13
    <3>2. PlacedIn(r, old[i])
      BY <3>1, <1>1, <1>12 DEF Shown, Placed
    <3> QED
      BY <3>1, <3>2, <1>8, <1>14 DEF PlacedIn
  <2>2. CASE v # s
    BY <2>2, <1>1, <1>8, <1>11 DEF Shown, Placed, PlacedIn
  <2> QED
    BY <2>1, <2>2
<1>18. PairIn(r.op, old)
  BY <1>1, <1>2, <1>12 DEF Shown, Pair
<1>19. Pair(q)
  <2>1. \E i \in DOMAIN msgs : IsUser(msgs[i], o)
    <3>1. PICK i \in DOMAIN old : IsUser(old[i], r.op)
      BY <1>18 DEF PairIn
    <3>2. msgs[i].o = UserOf(r.op.turn) /\ msgs[i].saved = o.userSaved
      BY <3>1, <1>14, <1>15
    <3>3. IsUser(msgs[i], o)
      BY <3>2 DEF IsUser, Id
    <3> QED
      BY <3>3, <1>13
  <2>2. \E i \in DOMAIN msgs : IsAnswer(msgs[i], o)
    <3>1. PICK i \in DOMAIN old : IsAnswer(old[i], r.op)
      BY <1>18 DEF PairIn
    <3>2. ~IsUser(old[i], r.op)
      <4> SUFFICES ASSUME IsUser(old[i], r.op)
                   PROVE  FALSE
        OBVIOUS
      <4>1. old[i].o = UserOf(r.op.turn) /\ old[i].o = AnswerOf(r.op.turn)
        BY <3>1, <1>15, <1>16
      <4> QED
        BY <4>1, <1>3 DEF UserOf, AnswerOf
    <3>3. msgs[i].o = AnswerOf(r.op.turn) /\ msgs[i].saved = FALSE
      BY <3>1, <3>2, <1>14, <1>16
    <3>4. IsAnswer(msgs[i], o)
      BY <3>3 DEF IsAnswer, Id
    <3> QED
      BY <3>4, <1>13
  <2>3. ASSUME NEW i \in DOMAIN msgs, IsAnswer(msgs[i], o)
        PROVE  msgs[i].delivery = "streaming"
    <3>1. i \in DOMAIN old /\ IsAnswer(msgs[i], r.op)
      BY <2>3, <1>13 DEF IsAnswer
    <3>2. msgs[i].o = AnswerOf(r.op.turn) /\ msgs[i].saved = FALSE
      BY <3>1, <1>16
    <3>3. old[i].o = AnswerOf(r.op.turn) /\ old[i].saved = FALSE
      BY <3>1, <3>2, <1>14
    <3>4. IsAnswer(old[i], r.op)
      BY <3>3 DEF IsAnswer, Id
    <3>5. old[i].delivery = "streaming"
      BY <3>1, <3>4, <1>18 DEF PairIn
    <3> QED
      BY <3>1, <3>5, <1>14
  <2> QED
    BY <2>1, <2>2, <2>3, <1>2, <1>8, <1>11 DEF Pair, PairIn
<1>20. Fresh(q, n)
  <2> SUFFICES ASSUME NEW i \in DOMAIN msgs, FromPage(msgs[i], UserOf(r.op.turn))
               PROVE  Brought(q, n, UserOf(r.op.turn))
    BY <1>2, <1>8, <1>11 DEF Fresh
  <2>1. i \in DOMAIN old /\ FromPage(old[i], UserOf(r.op.turn))
    BY <1>13, <1>14 DEF FromPage
  <2>2. Brought(r, n, UserOf(r.op.turn))
    BY <2>1, <1>1, <1>2, <1>12 DEF Shown, Fresh
  <2>3. ThreadOf(q, s) = ThreadOf(r, s)
    BY <1>9 DEF SameFrame, ThreadOf
  <2> QED
    BY <2>2, <2>3, <1>2, <1>8 DEF Brought
<1>21. Gone(q, n)
  <2> SUFFICES ASSUME NEW g \in n.gone
               PROVE  Absent(g, MsgsOf(q, g[1]))
    BY DEF Gone
  <2>1. g[1] \in Sessions /\ Absent(g, MsgsOf(r, g[1])) /\ Older(r, g[1], g[2])
    BY <1>1 DEF Worlds, Shown, Gone, Core, Deleted
  <2>2. CASE g[1] = s
    <3> SUFFICES ASSUME NEW i \in DOMAIN msgs, Id(msgs[i]) = <<g[2], TRUE>>
                 PROVE  FALSE
      BY <2>2, <1>11 DEF Absent
    <3>1. i \in DOMAIN old /\ msgs[i].o = g[2] /\ msgs[i].saved = TRUE
      <4>1. <<msgs[i].o, msgs[i].saved>> = <<g[2], TRUE>>
        BY DEF Id
      <4> QED
        BY <4>1, <1>13
    <3>2. old[i].saved # TRUE
      BY <2>1, <2>2, <3>1, <1>12, <1>14 DEF Absent, Id
    <3>3. IsUser(old[i], r.op)
      BY <3>1, <3>2, <1>14
    <3>4. g[2] = UserOf(r.op.turn)
      BY <3>1, <3>3, <1>14, <1>15
    <3> QED
      BY <3>4, <2>1, <1>3 DEF Older, UserOf
  <2>3. CASE g[1] # s
    BY <2>1, <2>3, <1>11
  <2> QED
    BY <2>2, <2>3
<1> QED
  BY <1>1, <1>8, <1>10, <1>17, <1>19, <1>20, <1>21 DEF Good, Typed, Shown

\* Neither the messages nor the id of the user message change.
LEMMA OpKeeps ==
  ASSUME NEW r, NEW n, Good(r, n), r.op # None,
         NEW o \in Operations, o.s = r.op.s, o.turn = r.op.turn, o.stage = r.op.stage,
         o.userSaved = r.op.userSaved,
         NEW run \in Runs, run.turn = r.op.turn,
         NEW q, q = OpUpdate(r, o, run)
  PROVE  Good(q, n)
<1>1. r \in Runtimes
  BY DEF Good, Typed
<1>2. PICK s \in Sessions : s = r.op.s
  BY RunIsThere
<1>3. r.snap[s] \in Snapshots
  BY <1>2, RunIsThere
<1>4. PICK msgs \in Seq(Messages) : msgs = MsgsOf(r, s)
  BY <1>3 DEF Snapshots, MsgsOf
<1>5. Follows(r.op, MsgsOf(r, r.op.s), o, msgs)
  BY <1>2, <1>4, FollowsSelf
<1>6. q = RunUpdate(r, o, run, msgs)
  <2> DEFINE s1 == [r.snap[s] EXCEPT !.run = run]
  <2>1. s1.msgs = msgs /\ [s1 EXCEPT !.msgs = msgs] = s1
    BY <1>3, <1>4 DEF Snapshots, MsgsOf
  <2> QED
    BY <2>1, <1>2 DEF RunUpdate, OpUpdate
<1> QED
  BY <1>4, <1>5, <1>6, RunKeeps

\* Only the operation changes.
LEMMA OpOnlyKeeps ==
  ASSUME NEW r, NEW n, Good(r, n), r.op # None,
         NEW o \in Operations, o.s = r.op.s, o.turn = r.op.turn, o.stage = r.op.stage,
         o.userSaved = r.op.userSaved,
         NEW q, q = [r EXCEPT !.op = o]
  PROVE  Good(q, n)
<1>1. r \in Runtimes
  BY DEF Good, Typed
<1>2. PICK s \in Sessions : s = r.op.s
  BY RunIsThere
<1>3. r.snap[s] \in Snapshots /\ r.snap[s].run \in Runs /\ r.snap[s].run.turn = r.op.turn
  BY <1>2, RunIsThere
<1>4. PICK run \in Runs : run = r.snap[s].run
  BY <1>3
<1>5. q = OpUpdate(r, o, run)
  <2>1. [r.snap[s] EXCEPT !.run = run] = r.snap[s]
    BY <1>3, <1>4 DEF Snapshots
  <2>2. [r.snap EXCEPT ![s] = r.snap[s]] = r.snap
    BY <1>1 DEF Runtimes
  <2>3. OpUpdate(r, o, run) = Two(r, o, r.snap)
    BY <2>1, <2>2, <1>2 DEF OpUpdate
  <2> QED
    BY <2>3, <1>1 DEF Two, Runtimes
<1>6. run.turn = r.op.turn
  BY <1>3, <1>4
<1> QED
  BY <1>5, <1>6, OpKeeps

LEMMA StopKeeps ==
  ASSUME IInv, NEW s \in Sessions, Stop(s)
  PROVE  IInv'
<1>0. Good(rt, net) /\ rt \in Runtimes /\ rt.op # None /\ rt.op.s = s
  BY DEF IInv, Good, Typed, Stop
<1>1. rt.op \in Operations /\ rt.snap[s] \in Snapshots /\ rt.snap[s].run \in Runs /\ rt.snap[s].run.turn = rt.op.turn
  BY <1>0, RunIsThere
<1> DEFINE early == rt.snap[s].thread = None \/ ~rt.op.runKnown
           cancel == IF early THEN "none" ELSE "asked"
           o1   == [rt.op EXCEPT !.stop = TRUE]
           o2   == [o1 EXCEPT !.aborted = early]
           o3   == [o2 EXCEPT !.cancel = cancel]
           run  == [rt.snap[s].run EXCEPT !.lifecycle = "stopping"]
           shot == [rt.snap[s] EXCEPT !.run = run]
           snap == [rt.snap EXCEPT ![s] = shot]
<1>2. early \in BOOLEAN /\ cancel \in {"none", "asked", "answered"}
  OBVIOUS
<1>3. rt' = Two(rt, o3, snap) /\ net' = net
  <2>1. [rt EXCEPT !.op = o1] = Two(rt, o1, rt.snap)
    BY <1>0 DEF Two, Runtimes
  <2> HIDE DEF o1
  <2>2. [Two(rt, o1, rt.snap) EXCEPT !.snap[s].run.lifecycle = "stopping"] = Two(rt, o1, snap)
    BY <1>0, TwoIs
  <2> HIDE DEF snap
  <2>3. [Two(rt, o1, snap) EXCEPT !.op.aborted = early] = Two(rt, o2, snap)
    BY <1>0, TwoIs
  <2> HIDE DEF o2
  <2>4. [Two(rt, o2, snap) EXCEPT !.op.cancel = cancel] = Two(rt, o3, snap)
    BY <1>0, TwoIs
  <2>5. rt' = [[[[rt EXCEPT !.op = o1] EXCEPT !.snap[s].run.lifecycle = "stopping"]
                   EXCEPT !.op.aborted = early] EXCEPT !.op.cancel = cancel]
    BY DEF Stop, o1
  <2>6. net' = net
    BY DEF Stop
  <2> HIDE DEF o3, early, cancel
  <2> QED
    BY <2>1, <2>2, <2>3, <2>4, <2>5, <2>6
<1> HIDE DEF early, cancel
<1>4. run \in Runs /\ run.turn = rt.op.turn
  BY <1>1 DEF Runs
<1>5. /\ o3 \in Operations /\ o3.s = s /\ o3.turn = rt.op.turn /\ o3.stage = rt.op.stage
      /\ o3.userSaved = rt.op.userSaved
  BY <1>0, <1>1, <1>2 DEF Operations
<1>6. rt' = OpUpdate(rt, o3, run)
  BY <1>0, <1>3 DEF OpUpdate
<1> HIDE DEF o3, run
<1>7. Good(rt', net)
  BY <1>0, <1>4, <1>5, <1>6, OpKeeps
<1> QED
  BY <1>3, <1>7 DEF IInv

LEMMA CancelAnsweredKeeps ==
  ASSUME IInv, CancelAnswered
  PROVE  IInv'
<1>0. Good(rt, net) /\ rt \in Runtimes /\ rt.op # None
  BY DEF IInv, Good, Typed, CancelAnswered, Streaming
<1>1. rt.op \in Operations
  BY <1>0, RunIsThere
<1> DEFINE o == [rt.op EXCEPT !.cancel = "answered", !.grace = TRUE]
<1>2. rt' = [rt EXCEPT !.op = o] /\ net' = net
  BY <1>0 DEF CancelAnswered, Runtimes
<1>3. /\ o \in Operations /\ o.s = rt.op.s /\ o.turn = rt.op.turn /\ o.stage = rt.op.stage
      /\ o.userSaved = rt.op.userSaved
  BY <1>1 DEF Operations
<1> HIDE DEF o
<1>4. Good(rt', net)
  BY <1>0, <1>2, <1>3, OpOnlyKeeps
<1> QED
  BY <1>2, <1>4 DEF IInv

LEMMA CancelFailsKeeps ==
  ASSUME IInv, CancelFails
  PROVE  IInv'
<1>0. Good(rt, net) /\ rt \in Runtimes /\ rt.op # None
  BY DEF IInv, Good, Typed, CancelFails, Streaming
<1>1. rt.op \in Operations
  BY <1>0, RunIsThere
<1> DEFINE o == [rt.op EXCEPT !.cancel = "answered", !.aborted = TRUE]
<1>2. rt' = [rt EXCEPT !.op = o] /\ net' = Fault(net)
  BY <1>0 DEF CancelFails, Runtimes
<1>3. /\ o \in Operations /\ o.s = rt.op.s /\ o.turn = rt.op.turn /\ o.stage = rt.op.stage
      /\ o.userSaved = rt.op.userSaved
  BY <1>1 DEF Operations
<1> HIDE DEF o
<1>4. Good(rt', net)
  BY <1>0, <1>2, <1>3, OpOnlyKeeps
<1>5. Good(rt', Fault(net))
  BY <1>4, FaultKeeps
<1> QED
  BY <1>2, <1>5 DEF IInv

LEMMA StopGraceKeeps ==
  ASSUME IInv, StopGraceElapsed
  PROVE  IInv'
<1>0. Good(rt, net) /\ rt \in Runtimes /\ rt.op # None
  BY DEF IInv, Good, Typed, StopGraceElapsed
<1>1. rt.op \in Operations
  BY <1>0, RunIsThere
<1> DEFINE o == [rt.op EXCEPT !.grace = FALSE, !.aborted = TRUE]
<1>2. rt' = [rt EXCEPT !.op = o] /\ net' = net
  BY <1>0 DEF StopGraceElapsed, Runtimes
<1>3. /\ o \in Operations /\ o.s = rt.op.s /\ o.turn = rt.op.turn /\ o.stage = rt.op.stage
      /\ o.userSaved = rt.op.userSaved
  BY <1>1 DEF Operations
<1> HIDE DEF o
<1>4. Good(rt', net)
  BY <1>0, <1>2, <1>3, OpOnlyKeeps
<1> QED
  BY <1>2, <1>4 DEF IInv

LEMMA CancelReachesKeeps ==
  ASSUME IInv, CancelReaches
  PROVE  IInv'
<1>0. Good(rt, net) /\ rt \in Runtimes /\ net \in Worlds /\ net.srv \in ServerRuns
  BY DEF IInv, Good, Typed, Worlds
<1> DEFINE v == [net.srv EXCEPT !.cancel = TRUE]
<1>1. v \in ServerRuns /\ v.turn = net.srv.turn /\ v.at = net.srv.at
  BY <1>0 DEF ServerRuns
<1>2. net' = [net EXCEPT !.srv = v] /\ rt' = rt
  BY DEF CancelReaches
<1> HIDE DEF v
<1>3. v.turn < rt.turns /\ (v.at # "none" => v.turn >= 1)
  BY <1>0, <1>1 DEF Good, Core, Stored
<1>4. Grows(rt, net, net')
  BY <1>0, <1>1, <1>2, <1>3, GrowsSelf, SrvGrows
<1> QED
  BY <1>0, <1>2, <1>4, GrowsKeeps DEF IInv

LEMMA ThreadIsCreatedKeeps ==
  ASSUME IInv, NEW t \in Threads, ThreadIsCreated(t)
  PROVE  IInv'
<1>0. Good(rt, net) /\ rt \in Runtimes /\ net \in Worlds /\ net.srv \in ServerRuns
  BY DEF IInv, Good, Typed, Worlds
<1> DEFINE v == [net.srv EXCEPT !.thread = t]
           threads == net.threads \cup {t}
           k == [net EXCEPT !.threads = threads]
<1>1. v \in ServerRuns /\ v.turn = net.srv.turn /\ v.at = net.srv.at
  BY <1>0 DEF ServerRuns
<1>2. threads \in SUBSET Threads
  BY <1>0 DEF Worlds
<1>3. net' = [k EXCEPT !.srv = v] /\ rt' = rt
  BY <1>0 DEF ThreadIsCreated, Worlds
<1> HIDE DEF v, threads
<1>4. /\ k \in Worlds /\ k.pages = net.pages /\ k.dels = net.dels /\ k.gone = net.gone
      /\ k.log = net.log /\ k.srv = net.srv
  BY <1>0, <1>2 DEF Worlds
<1> HIDE DEF k
<1>5. Grows(rt, net, k)
  BY <1>0, <1>4, GrowsSelf DEF Grows, Stored
<1>6. v.turn < rt.turns /\ (v.at # "none" => v.turn >= 1)
  BY <1>0, <1>1 DEF Good, Core, Stored
<1>7. Grows(rt, net, net')
  BY <1>1, <1>3, <1>5, <1>6, SrvGrows
<1> QED
  BY <1>0, <1>3, <1>7, GrowsKeeps DEF IInv

(***************************************************************************)
(* Decisions on tool calls.                                                *)
(***************************************************************************)
LEMMA AsksGrows ==
  ASSUME NEW r, NEW n, NEW m, Grows(r, n, m), NEW asks \in SUBSET Decisions
  PROVE  Grows(r, n, [m EXCEPT !.asks = asks])
<1> DEFINE k == [m EXCEPT !.asks = asks]
<1>1. /\ k \in Worlds /\ k.pages = m.pages /\ k.dels = m.dels /\ k.gone = m.gone
      /\ k.log = m.log /\ k.srv = m.srv
  BY DEF Grows, Worlds
<1> HIDE DEF k
<1>2. Grows(r, n, k)
  BY <1>1 DEF Grows, Stored
<1> QED
  BY <1>2 DEF k

LEMMA ResolveApprovalKeeps ==
  ASSUME IInv, NEW s \in Sessions, NEW yes \in BOOLEAN, ResolveApproval(s, yes)
  PROVE  IInv'
<1>0. Good(rt, net) /\ rt \in Runtimes /\ net \in Worlds /\ rt.op # None /\ rt.op.s = s
  BY DEF IInv, Good, Typed, ResolveApproval, Streaming
<1>1. /\ rt.op \in Operations /\ rt.snap[s] \in Snapshots /\ rt.snap[s].run \in Runs
      /\ rt.snap[s].run.turn = rt.op.turn /\ rt.op.turn \in Nat
  BY <1>0, RunIsThere
<1>2. rt.snap[s].run.approval \in Approvals
  BY <1>1 DEF ResolveApproval, Runs
<1> DEFINE approval == [rt.snap[s].run.approval EXCEPT !.resolving = TRUE]
           run  == [rt.snap[s].run EXCEPT !.approval = approval]
           a    == [turn |-> rt.op.turn, yes |-> yes, reply |-> None, call |-> rt.snap[s].run.approval.call]
           asks == net.asks \cup {a}
<1>3. approval \in Approvals /\ a \in Decisions
  BY <1>1, <1>2 DEF Approvals, Decisions
<1>4. run \in Runs /\ run.turn = rt.op.turn
  BY <1>1, <1>3 DEF Runs
<1>5. rt' = OpUpdate(rt, rt.op, run)
  <2>1. rt' = [rt EXCEPT !.snap = [rt.snap EXCEPT ![s] = [rt.snap[s] EXCEPT !.run = run]]]
    BY DEF ResolveApproval
  <2> QED
    BY <2>1, <1>0 DEF OpUpdate, Two, Runtimes
<1>6. net' = [net EXCEPT !.asks = asks]
  BY DEF ResolveApproval
<1>7. asks \in SUBSET Decisions
  BY <1>0, <1>3 DEF Worlds
<1> HIDE DEF run, asks
<1>8. Good(rt', net)
  BY <1>0, <1>1, <1>4, <1>5, OpKeeps
<1>9. Grows(rt', net, net')
  BY <1>6, <1>7, <1>8, GrowsSelf, AsksGrows
<1> QED
  BY <1>8, <1>9, GrowsKeeps DEF IInv

LEMMA DecisionReachesKeeps ==
  ASSUME IInv, NEW a \in net.asks, DecisionReaches(a)
  PROVE  IInv'
<1>0. Good(rt, net) /\ rt \in Runtimes /\ net \in Worlds /\ net.srv \in ServerRuns /\ net.asks \in SUBSET Decisions
  BY DEF IInv, Good, Typed, Worlds
<1> SUFFICES rt' = rt /\ Grows(rt, net, net')
  BY <1>0, GrowsKeeps DEF IInv
<1>1. rt' = rt
  BY DEF DecisionReaches
<1> DEFINE Answered(n, ok) == [n EXCEPT !.asks = (@ \ {a}) \cup {[a EXCEPT !.reply = ok]}]
           waits == /\ net.srv.at = "waiting" /\ net.srv.turn = a.turn /\ net.srv.calls = a.call
<1>2. ASSUME NEW n, Grows(rt, net, n), n.asks \in SUBSET Decisions, NEW ok \in {"taken", "refused"}
      PROVE  Grows(rt, net, Answered(n, ok))
  <2> DEFINE asks == (n.asks \ {a}) \cup {[a EXCEPT !.reply = ok]}
  <2>1. [a EXCEPT !.reply = ok] \in Decisions
    BY <1>0 DEF Decisions
  <2>2. asks \in SUBSET Decisions
    BY <2>1, <1>2
  <2>3. Answered(n, ok) = [n EXCEPT !.asks = asks]
    OBVIOUS
  <2> HIDE DEF asks
  <2> QED
    BY <2>2, <2>3, <1>2, AsksGrows
<1>3. CASE ~waits
  <2>1. net' = Answered(net, "refused")
    BY <1>3 DEF DecisionReaches
  <2> QED
    BY <2>1, <1>0, <1>1, <1>2, GrowsSelf
<1>4. CASE waits /\ a.yes
  <2> DEFINE v == [net.srv EXCEPT !.at = "preflight", !.open = net.srv.open \cup {net.srv.calls}]
             m == [net EXCEPT !.srv = v]
             e == Event(m, "tool.started", net.srv.calls)
  <2>1. v \in ServerRuns /\ v.turn = net.srv.turn /\ v.calls = net.srv.calls
    BY <1>0 DEF ServerRuns, RunPlaces
  <2>2. m \in Worlds /\ m.srv = v
    <3> HIDE DEF v
    <3> QED
      BY <2>1, <1>0, MovedType
  <2>3. Started(net) = Emit(m, e)
    <3>1. m = [net EXCEPT !.srv.at = "preflight", !.srv.open = @ \cup {net.srv.calls}]
      BY <1>0 DEF Worlds, ServerRuns
    <3> QED
      BY <3>1, <2>1, <2>2 DEF Started
  <2>4. net.srv.calls \in Nat
    BY <1>0 DEF ServerRuns
  <2>5. e \in Events
    <3> HIDE DEF m
    <3> QED
      BY <2>2, <2>4, EventType DEF EventTypes
  <2>6. net' = Answered(Emit(m, e), "taken")
    BY <1>4, <2>3 DEF DecisionReaches
  <2> HIDE DEF v, e
  <2>7. Grows(rt, net, Emit(m, e))
    BY <2>1, <2>5, <1>4, MoveGrows
  <2>8. Emit(m, e).asks \in SUBSET Decisions
    BY <2>7 DEF Grows, Worlds
  <2> HIDE DEF m, Answered
  <2> QED
    BY <2>6, <2>7, <2>8, <1>1, <1>2
<1>5. CASE waits /\ ~a.yes
  <2> DEFINE v == [net.srv EXCEPT !.at = "preflight"]
             m == [net EXCEPT !.srv = v]
             e == Event(net, "tool.failed", a.call)
  <2>1. v \in ServerRuns /\ v.turn = net.srv.turn
    BY <1>0 DEF ServerRuns, RunPlaces
  <2>2. a.call \in Nat
    BY <1>0 DEF Decisions
  <2>3. e \in Events
    BY <1>0, <2>2, EventType DEF EventTypes
  <2>4. net' = Answered(Emit(m, e), "taken")
    BY <1>5 DEF DecisionReaches
  <2> HIDE DEF v, e
  <2>5. Grows(rt, net, Emit(m, e))
    BY <2>1, <2>3, <1>5, MoveGrows
  <2>6. Emit(m, e).asks \in SUBSET Decisions
    BY <2>5 DEF Grows, Worlds
  <2> HIDE DEF m, Answered
  <2> QED
    BY <2>4, <2>5, <2>6, <1>1, <1>2
<1> QED
  BY <1>3, <1>4, <1>5

LEMMA DecisionAnsweredKeeps ==
  ASSUME IInv, NEW a \in net.asks, DecisionAnswered(a)
  PROVE  IInv'
<1>0. Good(rt, net) /\ rt \in Runtimes /\ net \in Worlds /\ net.asks \in SUBSET Decisions
  BY DEF IInv, Good, Typed, Worlds
<1>1. PICK lost \in BOOLEAN :
        /\ LET n == [net EXCEPT !.asks = @ \ {a}] IN net' = IF lost THEN Fault(n) ELSE n
        /\ rt' = IF /\ rt.op # None /\ rt.op.turn = a.turn
                    /\ rt.snap[rt.op.s].run.approval # None
                    /\ rt.snap[rt.op.s].run.approval.call = a.call
                 THEN [rt EXCEPT !.snap[rt.op.s].run.approval =
                          IF a.reply = "taken" /\ ~lost THEN None
                          ELSE [@ EXCEPT !.resolving = FALSE]]
                 ELSE rt
  BY DEF DecisionAnswered
<1>2. Good(rt', net)
  <2>1. CASE rt' = rt
    BY <2>1, <1>0
  <2>2. CASE /\ rt.op # None /\ rt.snap[rt.op.s].run.approval # None
             /\ rt' = [rt EXCEPT !.snap[rt.op.s].run.approval =
                          IF a.reply = "taken" /\ ~lost THEN None
                          ELSE [@ EXCEPT !.resolving = FALSE]]
    <3>1. PICK s \in Sessions : s = rt.op.s
      BY <2>2, <1>0, RunIsThere
    <3>2. /\ rt.op \in Operations /\ rt.snap[s] \in Snapshots /\ rt.snap[s].run \in Runs
          /\ rt.snap[s].run.turn = rt.op.turn
      BY <2>2, <3>1, <1>0, RunIsThere
    <3> DEFINE approval == IF a.reply = "taken" /\ ~lost THEN None
                           ELSE [rt.snap[s].run.approval EXCEPT !.resolving = FALSE]
               run == [rt.snap[s].run EXCEPT !.approval = approval]
    <3>3. approval \in Approvals \cup {None}
      BY <2>2, <3>1, <3>2 DEF Runs, Approvals
    <3>4. rt' = [rt EXCEPT !.snap = [rt.snap EXCEPT ![s] = [rt.snap[s] EXCEPT !.run = run]]]
      BY <2>2, <3>1
    <3> HIDE DEF approval
    <3>5. run \in Runs /\ run.turn = rt.op.turn
      BY <3>2, <3>3 DEF Runs
    <3> HIDE DEF run
    <3>6. rt' = OpUpdate(rt, rt.op, run)
      BY <3>1, <3>4, <1>0 DEF OpUpdate, Two, Runtimes
    <3> QED
      BY <2>2, <3>2, <3>5, <3>6, <1>0, OpKeeps
  <2> QED
    BY <2>1, <2>2, <1>1
<1> DEFINE asks == net.asks \ {a}
           n == [net EXCEPT !.asks = asks]
<1>3. asks \in SUBSET Decisions
  BY <1>0
<1>4. net' = n \/ net' = Fault(n)
  BY <1>1
<1> HIDE DEF asks
<1>5. Grows(rt', net, n)
  BY <1>2, <1>3, GrowsSelf, AsksGrows
<1> HIDE DEF n
<1>6. Good(rt', n)
  BY <1>2, <1>5, GrowsKeeps
<1> QED
  BY <1>4, <1>6, FaultKeeps DEF IInv

(***************************************************************************)
(* The buffered deltas reach the answer.                                   *)
(***************************************************************************)
Flushed(r, q, n) ==
  /\ Good(q, n) /\ q.op \in Operations /\ q.op # None
  /\ q.op = [r.op EXCEPT !.pending = <<>>]

LEMMA FlushKeeps ==
  ASSUME NEW r, NEW n, Good(r, n), r.op # None
  PROVE  Flushed(r, FlushTokens(r), n)
<1>1. r \in Runtimes
  BY DEF Good, Typed
<1>2. PICK s \in Sessions : s = r.op.s
  BY RunIsThere
<1>3. /\ r.op \in Operations /\ r.snap[s] \in Snapshots /\ r.snap[s].run \in Runs
      /\ r.snap[s].run.turn = r.op.turn /\ r.op.turn \in Nat
  BY <1>2, RunIsThere
<1>4. CASE r.op.pending = <<>>
  <2>1. FlushTokens(r) = r
    BY <1>4 DEF FlushTokens
  <2>2. r.op = [r.op EXCEPT !.pending = <<>>]
    BY <1>3, <1>4 DEF Operations
  <2> QED
    BY <2>1, <2>2, <1>3 DEF Flushed
<1>5. CASE r.op.pending # <<>>
  <2> DEFINE old  == r.snap[s].msgs
             id   == <<AnswerOf(r.op.turn), FALSE>>
             at   == {i \in DOMAIN old : Id(old[i]) = id}
             o    == [r.op EXCEPT !.pending = <<>>]
             New(m) == WithDeltas(m, r.op.pending)
             msgs == [i \in DOMAIN old |-> IF i \in at THEN New(old[i]) ELSE old[i]]
             run  == r.snap[s].run
             shot == [r.snap[s] EXCEPT !.msgs = msgs]
             snap == [r.snap EXCEPT ![s] = shot]
  <2>1. old \in Seq(Messages) /\ r.op.pending \in Seq(Nat)
    BY <1>3 DEF Snapshots, Operations
  <2>2. FlushTokens(r) = Two(r, o, snap)
    <3> DEFINE M(x) == [i \in DOMAIN x |-> IF i \in at THEN WithDeltas(x[i], r.op.pending) ELSE x[i]]
    <3>1. FlushTokens(r) = [r EXCEPT !.op.pending = <<>>, !.snap[s].msgs = M(r.snap[s].msgs)]
      BY <1>2, <1>5 DEF FlushTokens
    <3>2. msgs = M(r.snap[s].msgs)
      OBVIOUS
    <3> HIDE DEF M, msgs
    <3>3. FlushTokens(r) = [r EXCEPT !.op = o, !.snap = snap]
      BY <3>1, <3>2, <1>1
    <3> QED
      BY <3>3 DEF Two
  <2>3. ASSUME NEW m \in Messages
        PROVE  /\ New(m) \in Messages /\ New(m).o = m.o /\ New(m).saved = m.saved
               /\ New(m).delivery = "streaming"
    <3>1. m.text \o r.op.pending \in Seq(Nat)
      BY <2>1 DEF Messages
    <3> QED
      BY <3>1 DEF Messages, Deliveries, WithDeltas
  <2>4. \A i \in DOMAIN old : old[i] \in Messages
    BY <2>1
  <2>5. \A i \in at : IsAnswer(old[i], r.op)
    BY DEF IsAnswer
  <2> HIDE DEF New
  <2>6. msgs \in Seq(Messages)
    <3>1. DOMAIN old = 1..Len(old) /\ Len(old) \in Nat
      BY <2>1
    <3>2. msgs \in [1..Len(old) -> Messages]
      BY <2>3, <2>4, <3>1
    <3> HIDE DEF msgs, old
    <3> QED
      BY <3>1, <3>2
  <2>7. Follows(r.op, old, o, msgs)
    <3>1. ASSUME NEW i \in DOMAIN old
          PROVE  /\ msgs[i].o = old[i].o /\ msgs[i].saved = old[i].saved
                 /\ msgs[i].delivery = old[i].delivery \/ (IsAnswer(old[i], r.op) /\ msgs[i].delivery = "streaming")
      BY <2>3, <2>4, <2>5
    <3>2. o.userSaved = r.op.userSaved
      BY <1>3 DEF Operations
    <3>3. Follows(r.op, old, o, old)
      BY <3>2, FollowsSelf
    <3>4. DOMAIN msgs = DOMAIN old
      OBVIOUS
    <3> HIDE DEF msgs, o
    <3> QED
      BY <3>1, <3>3, <3>4 DEF Follows
  <2>8. FlushTokens(r) = RunUpdate(r, o, run, msgs)
    <3>1. shot = [r.snap[s] EXCEPT !.run = run, !.msgs = msgs]
      BY <1>3 DEF Snapshots
    <3> HIDE DEF shot, msgs, o
    <3> QED
      BY <2>2, <3>1, <1>2 DEF RunUpdate
  <2>9. o \in Operations /\ o.s = r.op.s /\ o.turn = r.op.turn /\ o.stage = r.op.stage
    <3>1. <<>> \in Seq(Nat)
      OBVIOUS
    <3> QED
      BY <3>1, <1>3 DEF Operations
  <2>10. FlushTokens(r).op = o
    BY <2>2, <1>1, TwoIs
  <2> DEFINE q == FlushTokens(r)
  <2>11. q = RunUpdate(r, o, run, msgs)
    BY <2>8
  <2>12. o = [r.op EXCEPT !.pending = <<>>]
    OBVIOUS
  <2>13. Follows(r.op, MsgsOf(r, r.op.s), o, msgs)
    BY <2>7, <1>2 DEF MsgsOf
  <2>14. run \in Runs /\ run.turn = r.op.turn
    BY <1>3
  <2> HIDE DEF msgs, o, q, run
  <2>15. Good(q, n)
    BY <2>6, <2>9, <2>11, <2>13, <2>14, RunKeeps
  <2> QED
    BY <2>9, <2>10, <2>12, <2>15, NullIsNone DEF Flushed, q
<1> QED
  BY <1>4, <1>5

LEMMA FlushTimerKeeps ==
  ASSUME IInv, FlushTimer
  PROVE  IInv'
<1>0. Good(rt, net) /\ rt.op # None
  BY DEF IInv, FlushTimer
<1> DEFINE q == FlushTokens(rt)
           o == [q.op EXCEPT !.flush = FALSE]
<1>1. Flushed(rt, q, net)
  BY <1>0, FlushKeeps
<1>2. rt' = [q EXCEPT !.op.flush = FALSE] /\ net' = net
  BY DEF FlushTimer
<1> HIDE DEF q
<1>3. q \in Runtimes /\ q.op \in Operations /\ q.op # None /\ Good(q, net)
  BY <1>1 DEF Flushed, Good, Typed
<1>4. rt' = [q EXCEPT !.op = o]
  BY <1>2, <1>3 DEF Runtimes
<1>5. /\ o \in Operations /\ o.s = q.op.s /\ o.turn = q.op.turn /\ o.stage = q.op.stage
      /\ o.userSaved = q.op.userSaved
  BY <1>3 DEF Operations
<1> HIDE DEF o
<1>6. Good(rt', net)
  BY <1>3, <1>4, <1>5, OpOnlyKeeps
<1> QED
  BY <1>2, <1>6 DEF IInv

(***************************************************************************)
(* An event changes the steps of the run.                                  *)
(***************************************************************************)
LEMMA SettleType ==
  ASSUME NEW steps \in Seq(LiveSteps), NEW status \in StepStatuses
  PROVE  SettleActiveSteps(steps, status) \in Seq(LiveSteps)
<1>1. Len(steps) \in Nat /\ DOMAIN steps = 1..Len(steps) /\ \A i \in DOMAIN steps : steps[i] \in LiveSteps
  OBVIOUS
<1>2. ASSUME NEW x \in LiveSteps
      PROVE  [x EXCEPT !.status = status] \in LiveSteps
  BY DEF LiveSteps
<1>3. \E f \in [1..Len(steps) -> LiveSteps] : f = SettleActiveSteps(steps, status)
  BY <1>1, <1>2 DEF SettleActiveSteps
<1>4. PICK f \in [1..Len(steps) -> LiveSteps] : f = SettleActiveSteps(steps, status)
  BY <1>3
<1>5. f \in Seq(LiveSteps)
  BY <1>1
<1> QED
  BY <1>4, <1>5

LEMMA SettleModelType ==
  ASSUME NEW steps \in Seq(LiveSteps)
  PROVE  SettleActiveModelSteps(steps) \in Seq(LiveSteps)
<1>1. Len(steps) \in Nat /\ DOMAIN steps = 1..Len(steps) /\ \A i \in DOMAIN steps : steps[i] \in LiveSteps
  OBVIOUS
<1>2. ASSUME NEW x \in LiveSteps
      PROVE  [x EXCEPT !.status = "done"] \in LiveSteps
  BY DEF LiveSteps, StepStatuses
<1>3. \E f \in [1..Len(steps) -> LiveSteps] : f = SettleActiveModelSteps(steps)
  BY <1>1, <1>2 DEF SettleActiveModelSteps
<1>4. PICK f \in [1..Len(steps) -> LiveSteps] : f = SettleActiveModelSteps(steps)
  BY <1>3
<1>5. f \in Seq(LiveSteps)
  BY <1>1
<1> QED
  BY <1>4, <1>5

LEMMA PutType ==
  ASSUME NEW steps \in Seq(LiveSteps), NEW kind \in StepKinds, NEW key \in Nat,
         NEW status \in StepStatuses
  PROVE  Put(steps, kind, key, status) \in Seq(LiveSteps)
<1>1. Len(steps) \in Nat /\ DOMAIN steps = 1..Len(steps) /\ \A i \in DOMAIN steps : steps[i] \in LiveSteps
  OBVIOUS
<1>2. CASE Places(steps, kind, key) = {}
  <2>1. Step(kind, key, status) \in LiveSteps
    BY DEF Step, LiveSteps
  <2>2. Put(steps, kind, key, status) = Append(steps, Step(kind, key, status))
    BY <1>2 DEF Put
  <2> QED
    BY <2>1, <2>2
<1>3. CASE Places(steps, kind, key) # {}
  <2>1. PICK k : k = First(Places(steps, kind, key))
    OBVIOUS
  <2>2. Put(steps, kind, key, status) = [steps EXCEPT ![k] = [steps[k] EXCEPT !.status = status]]
    BY <2>1, <1>3 DEF Put
  <2>3. ASSUME NEW x \in LiveSteps
        PROVE  [x EXCEPT !.status = status] \in LiveSteps
    BY DEF LiveSteps
  <2>4. \E f \in [1..Len(steps) -> LiveSteps] : f = Put(steps, kind, key, status)
    BY <2>2, <2>3, <1>1
  <2>5. PICK f \in [1..Len(steps) -> LiveSteps] : f = Put(steps, kind, key, status)
    BY <2>4
  <2>6. f \in Seq(LiveSteps)
    BY <1>1
  <2> QED
    BY <2>5, <2>6
<1> QED
  BY <1>2, <1>3

LEMMA AnswerStepType ==
  ASSUME NEW steps \in Seq(LiveSteps), NEW turn \in Nat
  PROVE  StartAnswerStep(steps, turn) \in Seq(LiveSteps)
<1>1. Len(steps) \in Nat /\ DOMAIN steps = 1..Len(steps) /\ \A i \in DOMAIN steps : steps[i] \in LiveSteps
  OBVIOUS
<1> DEFINE Active(kind) == {i \in Places(steps, kind, turn) : steps[i].status = "active"}
<1>2. CASE Active("answer") # {}
  BY <1>2 DEF StartAnswerStep
<1>3. CASE Active("answer") = {} /\ Active("thinking") # {}
  <2>1. PICK k : k = First(Active("thinking"))
    OBVIOUS
  <2>2. StartAnswerStep(steps, turn) = [steps EXCEPT ![k] = [steps[k] EXCEPT !.kind = "answer"]]
    BY <2>1, <1>3 DEF StartAnswerStep
  <2>3. ASSUME NEW x \in LiveSteps
        PROVE  [x EXCEPT !.kind = "answer"] \in LiveSteps
    BY DEF LiveSteps, StepKinds
  <2>4. \E f \in [1..Len(steps) -> LiveSteps] : f = StartAnswerStep(steps, turn)
    BY <2>2, <2>3, <1>1
  <2>5. PICK f \in [1..Len(steps) -> LiveSteps] : f = StartAnswerStep(steps, turn)
    BY <2>4
  <2>6. f \in Seq(LiveSteps)
    BY <1>1
  <2> QED
    BY <2>5, <2>6
<1>4. CASE Active("answer") = {} /\ Active("thinking") = {}
  <2>1. Step("answer", turn, "active") \in LiveSteps /\ "done" \in StepStatuses
    BY DEF Step, LiveSteps, StepKinds, StepStatuses
  <2>2. SettleActiveSteps(steps, "done") \in Seq(LiveSteps)
    BY <2>1, SettleType
  <2>3. StartAnswerStep(steps, turn) = Append(SettleActiveSteps(steps, "done"), Step("answer", turn, "active"))
    BY <1>4 DEF StartAnswerStep
  <2> QED
    BY <2>1, <2>2, <2>3
<1> QED
  BY <1>2, <1>3, <1>4

LEMMA StartTurnType ==
  ASSUME NEW steps \in Seq(LiveSteps), NEW turn \in Nat
  PROVE  StartTurn(steps, turn) \in Seq(LiveSteps)
<1>1. Step("thinking", turn, "active") \in LiveSteps /\ "done" \in StepStatuses
  BY DEF Step, LiveSteps, StepKinds, StepStatuses
<1>2. PICK settled \in Seq(LiveSteps) : settled = SettleActiveSteps(steps, "done")
  BY <1>1, SettleType
<1>3. StartTurn(steps, turn) = settled \/ StartTurn(steps, turn) = Append(settled, Step("thinking", turn, "active"))
  BY <1>2 DEF StartTurn
<1> QED
  BY <1>1, <1>2, <1>3

LEMMA StepsType ==
  ASSUME NEW steps \in Seq(LiveSteps), NEW e \in Events
  PROVE  ReduceAgentRunSteps(steps, e) \in Seq(LiveSteps)
<1>1. e.key \in Nat
  BY DEF Events
<1>2. /\ "tool" \in StepKinds /\ "thinking" \in StepKinds /\ "answer" \in StepKinds
      /\ "active" \in StepStatuses /\ "done" \in StepStatuses /\ "error" \in StepStatuses
  BY DEF StepKinds, StepStatuses
<1>3. StartTurn(steps, e.key) \in Seq(LiveSteps) /\ StartAnswerStep(steps, e.key) \in Seq(LiveSteps)
  BY <1>1, StartTurnType, AnswerStepType
<1>4. SettleActiveSteps(steps, "done") \in Seq(LiveSteps) /\ SettleActiveSteps(steps, "error") \in Seq(LiveSteps)
  BY <1>2, SettleType
<1>5. UpsertToolStep(SettleActiveModelSteps(steps), e.key) \in Seq(LiveSteps)
  BY <1>1, <1>2, SettleModelType, PutType DEF UpsertToolStep
<1>6. /\ FinishToolStep(steps, e.key, "done") \in Seq(LiveSteps)
      /\ FinishToolStep(steps, e.key, "error") \in Seq(LiveSteps)
  BY <1>1, <1>2, PutType DEF FinishToolStep
<1>7. FinishModelStep(steps, e.key, e.tools) \in Seq(LiveSteps)
  BY <1>1, <1>2, PutType DEF FinishModelStep
<1> QED
  BY <1>3, <1>4, <1>5, <1>6, <1>7 DEF ReduceAgentRunSteps

LEMMA MessageAfterIs ==
  ASSUME NEW m \in Messages, NEW op, NEW e
  PROVE  /\ MessageAfter(m, op, e) \in Messages /\ MessageAfter(m, op, e).o = m.o
         /\ MessageAfter(m, op, e).delivery = m.delivery
         /\ MessageAfter(m, op, e).saved =
              IF e.type = "run.started" /\ IsUser(m, op) THEN TRUE ELSE m.saved
<1>1. Canonical \in Seq(Nat)
  BY DEF Canonical
<1>2. CASE e.type = "run.started" /\ IsUser(m, op)
  <2>1. MessageAfter(m, op, e) = [m EXCEPT !.saved = TRUE]
    BY <1>2 DEF MessageAfter, IsUser
  <2> QED
    BY <2>1, <1>2 DEF Messages
<1>3. CASE e.type = "run.completed" /\ IsAnswer(m, op)
  <2>1. MessageAfter(m, op, e) = [m EXCEPT !.text = Canonical]
    BY <1>3 DEF MessageAfter, IsAnswer
  <2> QED
    BY <2>1, <1>1, <1>3 DEF Messages
<1>4. CASE ~(e.type = "run.started" /\ IsUser(m, op)) /\ ~(e.type = "run.completed" /\ IsAnswer(m, op))
  BY <1>4 DEF MessageAfter, IsUser, IsAnswer
<1> QED
  BY <1>2, <1>3, <1>4

LEMMA HandleKeeps ==
  ASSUME NEW r, NEW n, Good(r, n), r.op # None, NEW e \in Events, NEW q, q = HandleEvent(r, e)
  PROVE  Good(q, n) /\ q.op \in Operations /\ q.op # None
<1>1. r \in Runtimes
  BY DEF Good, Typed
<1>2. PICK s \in Sessions : s = r.op.s
  BY RunIsThere
<1>3. /\ r.op \in Operations /\ r.snap[s] \in Snapshots /\ r.snap[s].run \in Runs
      /\ r.snap[s].run.turn = r.op.turn /\ r.op.turn \in Nat
  BY <1>2, RunIsThere
<1>4. CASE IsStale(r.op, e)
  BY <1>3, <1>4 DEF HandleEvent
<1>5. CASE ~IsStale(r.op, e)
  <2> DEFINE pending == CASE e.type = "message.delta" -> Append(r.op.pending, e.delta)
                          [] e.type = "run.completed" -> <<>>
                          [] OTHER -> r.op.pending
             old   == r.snap[s].msgs
             seen  == IF e.seq > r.op.seq THEN {e.type} ELSE r.op.seen \cup {e.type}
             saved == r.op.userSaved \/ e.type = "run.started"
             flush == pending # <<>>
             steps == ReduceAgentRunSteps(r.snap[s].run.steps, e)
             approval == ApprovalAfter(r.snap[s].run.approval, e)
             msgs  == [i \in DOMAIN old |-> MessageAfter(old[i], r.op, e)]
             o     == [r.op EXCEPT !.seen = seen, !.seq = e.seq, !.runKnown = TRUE, !.userSaved = saved,
                                   !.pending = pending, !.flush = flush]
             run   == [r.snap[s].run EXCEPT !.steps = steps, !.approval = approval]
             shot  == [r.snap[s] EXCEPT !.run = run, !.msgs = msgs]
             snap  == [r.snap EXCEPT ![s] = shot]
  <2>1. e.type \in EventTypes /\ e.seq \in Nat /\ e.key \in Nat /\ e.delta \in Nat
    BY DEF Events
  <2>2. old \in Seq(Messages) /\ r.op.pending \in Seq(Nat) /\ r.snap[s].run.steps \in Seq(LiveSteps)
    BY <1>3 DEF Snapshots, Operations, Runs
  <2>3. pending \in Seq(Nat)
    BY <2>1, <2>2
  <2>4. seen \in SUBSET EventTypes /\ saved \in BOOLEAN /\ flush \in BOOLEAN
    BY <2>1, <1>3 DEF Operations
  <2>5. steps \in Seq(LiveSteps)
    BY <2>2, StepsType
  <2>6. approval \in Approvals \cup {None}
    <3>1. [call |-> e.key, resolving |-> FALSE] \in Approvals
      BY <2>1 DEF Approvals
    <3> QED
      BY <3>1, <1>3 DEF ApprovalAfter, Runs
  <2>7. ASSUME NEW i \in DOMAIN old
        PROVE  /\ msgs[i] \in Messages /\ msgs[i].o = old[i].o /\ msgs[i].delivery = old[i].delivery
               /\ msgs[i].saved = IF e.type = "run.started" /\ IsUser(old[i], r.op) THEN TRUE ELSE old[i].saved
    <3>1. PICK m \in Messages : m = old[i]
      BY <2>2
    <3>2. msgs[i] = MessageAfter(m, r.op, e)
      BY <3>1
    <3> HIDE DEF msgs, old
    <3>3. /\ MessageAfter(m, r.op, e) \in Messages /\ MessageAfter(m, r.op, e).o = m.o
          /\ MessageAfter(m, r.op, e).delivery = m.delivery
          /\ MessageAfter(m, r.op, e).saved =
               IF e.type = "run.started" /\ IsUser(m, r.op) THEN TRUE ELSE m.saved
      BY MessageAfterIs
    <3> QED
      BY <3>1, <3>2, <3>3
  <2>8. DOMAIN msgs = DOMAIN old
    OBVIOUS
  <2>9. msgs \in Seq(Messages)
    <3>1. DOMAIN old = 1..Len(old) /\ Len(old) \in Nat
      BY <2>2
    <3>2. \E f \in [1..Len(old) -> Messages] : f = msgs
      BY <2>7, <3>1
    <3> HIDE DEF msgs, old
    <3> QED
      BY <3>1, <3>2
  <2>10. q = [r EXCEPT !.op.seen = seen, !.op.seq = e.seq, !.op.runKnown = TRUE, !.op.userSaved = saved,
                       !.op.pending = pending, !.op.flush = flush,
                       !.snap[s].run.steps = steps, !.snap[s].run.approval = approval,
                       !.snap[s].msgs = msgs]
    BY <1>2, <1>5 DEF HandleEvent
  <2>11. r.op.userSaved => saved
    OBVIOUS
  <2>12. e.type = "run.started" => saved = TRUE
    OBVIOUS
  <2>13. e.type # "run.started" => saved = r.op.userSaved
    BY <1>3 DEF Operations
  <2> HIDE DEF pending, seen, saved, flush, steps, approval, msgs, old
  <2>14. q = [r EXCEPT !.op = o, !.snap = snap]
    <3> DEFINE o1 == [r.op EXCEPT !.seen = seen, !.seq = e.seq, !.runKnown = TRUE]
               o2 == [o1 EXCEPT !.userSaved = saved, !.pending = pending, !.flush = flush]
               a  == [r EXCEPT !.op.seen = seen, !.op.seq = e.seq, !.op.runKnown = TRUE]
               b  == [a EXCEPT !.op.userSaved = saved, !.op.pending = pending, !.op.flush = flush]
               c  == [b EXCEPT !.snap[s].run.steps = steps, !.snap[s].run.approval = approval]
               d  == [c EXCEPT !.snap[s].msgs = msgs]
               s1 == [r.snap[s] EXCEPT !.run = run]
    <3>1. q = d
      BY <2>10
    <3>2. a = Two(r, o1, r.snap)
      BY <1>1 DEF Two, Runtimes
    <3>3. o2 = o
      BY <1>3 DEF Operations
    <3> HIDE DEF o1, o, a
    <3>4. b = Two(r, o, r.snap)
      <4>1. b = [a EXCEPT !.op = [[[a.op EXCEPT !.userSaved = saved] EXCEPT !.pending = pending] EXCEPT !.flush = flush]]
        BY <3>2, <1>1 DEF Two, Runtimes
      <4>2. a.op = o1
        BY <3>2, <1>1, TwoIs
      <4>3. b = [a EXCEPT !.op = o2]
        BY <4>1, <4>2
      <4> HIDE DEF o2, b
      <4> QED
        BY <4>3, <3>2, <3>3, <1>1, TwoIs
    <3> HIDE DEF b, run
    <3>5. c = Two(r, o, [r.snap EXCEPT ![s] = s1])
      <4> DEFINE x1 == [r.snap[s].run EXCEPT !.steps = steps]
                 y1 == [r.snap[s] EXCEPT !.run = x1]
                 z1 == [r.snap EXCEPT ![s] = y1]
                 c1 == [b EXCEPT !.snap[s].run.steps = steps]
      <4>1. b.snap = r.snap
        BY <3>4, <1>1, TwoIs
      <4>2. c1 = [b EXCEPT !.snap = z1]
        BY <4>1
      <4>3. c = [c1 EXCEPT !.snap = [c1.snap EXCEPT ![s] = [c1.snap[s] EXCEPT !.run = [c1.snap[s].run EXCEPT !.approval = approval]]]]
        OBVIOUS
      <4>4. [x1 EXCEPT !.approval = approval] = run
        BY <1>3 DEF run, Runs
      <4> HIDE DEF x1
      <4>5. y1.run = x1 /\ [y1 EXCEPT !.run = run] = s1
        BY <1>3 DEF Snapshots
      <4> HIDE DEF y1, s1
      <4>6. z1[s] = y1 /\ [z1 EXCEPT ![s] = s1] = [r.snap EXCEPT ![s] = s1]
        BY <1>1 DEF Runtimes
      <4> HIDE DEF z1, c1, c
      <4>7. c1 = Two(r, o, z1) /\ c1.snap = z1
        BY <4>2, <3>4, <1>1, TwoIs
      <4>8. c = [c1 EXCEPT !.snap = [r.snap EXCEPT ![s] = s1]]
        BY <4>3, <4>4, <4>5, <4>6, <4>7
      <4> QED
        BY <4>7, <4>8, <1>1, TwoIs
    <3> HIDE DEF c
    <3>6. d = Two(r, o, snap)
      <4>1. c.snap = [r.snap EXCEPT ![s] = s1]
        BY <3>5, <1>1, TwoIs
      <4>2. d = [c EXCEPT !.snap = [c.snap EXCEPT ![s] = [c.snap[s] EXCEPT !.msgs = msgs]]]
        OBVIOUS
      <4>3. c.snap[s] = s1 /\ [s1 EXCEPT !.msgs = msgs] = shot
        BY <4>1, <1>1, <1>3 DEF Runtimes, Snapshots
      <4>4. [[r.snap EXCEPT ![s] = s1] EXCEPT ![s] = shot] = snap
        <5> HIDE DEF s1, shot
        <5> QED
          BY <1>1 DEF Runtimes
      <4>5. d = [c EXCEPT !.snap = snap]
        BY <4>1, <4>2, <4>3, <4>4
      <4> HIDE DEF d, snap
      <4> QED
        BY <4>5, <3>5, <1>1, TwoIs
    <3> QED
      BY <3>1, <3>6 DEF Two
  <2>15. q = RunUpdate(r, o, run, msgs)
    BY <2>14, <1>2 DEF RunUpdate, Two
  <2>16. run \in Runs /\ run.turn = r.op.turn
    BY <2>5, <2>6, <1>3 DEF Runs
  <2>17. /\ o \in Operations /\ o.s = r.op.s /\ o.turn = r.op.turn /\ o.stage = r.op.stage
         /\ o.userSaved = saved
    BY <2>1, <2>3, <2>4, <1>3 DEF Operations
  <2>18. q.op = o
    BY <2>14, <1>1 DEF Runtimes
  <2> HIDE DEF o, run, shot, snap
  <2>19. Follows(r.op, old, o, msgs)
    <3>1. ASSUME NEW i \in DOMAIN old, IsUser(old[i], r.op)
          PROVE  msgs[i].saved = saved
      <4>1. old[i].saved = r.op.userSaved
        <5>1. <<old[i].o, old[i].saved>> = <<UserOf(r.op.turn), r.op.userSaved>>
          BY <3>1 DEF IsUser, Id
        <5> QED
          BY <5>1
      <4> QED
        BY <4>1, <3>1, <2>7, <2>12, <2>13
    <3> QED
      BY <3>1, <2>7, <2>8, <2>17 DEF Follows
  <2>20. Follows(r.op, MsgsOf(r, r.op.s), o, msgs)
    BY <2>19, <1>2 DEF MsgsOf, old
  <2>21. Good(q, n)
    BY <2>9, <2>15, <2>16, <2>17, <2>20, RunKeeps
  <2> QED
    BY <2>17, <2>18, <2>21, NullIsNone
<1> QED
  BY <1>4, <1>5

LEMMA EventIsReadKeeps ==
  ASSUME IInv, ReadEvent, rt.op.terminal = None
  PROVE  IInv'
<1>0. Good(rt, net) /\ rt \in Runtimes /\ net \in Worlds /\ rt.op # None
  BY DEF IInv, Good, Typed, ReadEvent, Streaming
<1> DEFINE e == Head(net.wire)
           n == [net EXCEPT !.wire = Tail(@)]
           q == HandleEvent(rt, e)
<1>1. net.wire \in Seq(Events) /\ net.wire # <<>>
  BY <1>0 DEF Worlds, ReadEvent
<1>2. e \in Events /\ Tail(net.wire) \in Seq(Events)
  BY <1>1
<1>3. /\ net' = [net EXCEPT !.wire = Tail(net.wire)]
      /\ rt' = IF e.type \in TerminalTypes THEN [q EXCEPT !.op.terminal = ToOutcome(e.type)] ELSE q
  BY DEF ReadEvent
<1> HIDE DEF e
<1>4. Good(q, net) /\ q.op \in Operations /\ q.op # None
  BY <1>0, <1>2, HandleKeeps
<1> HIDE DEF q
<1>5. q \in Runtimes
  BY <1>4 DEF Good, Typed
<1>6. Good(rt', net)
  <2>1. CASE e.type \in TerminalTypes
    <3> DEFINE o == [q.op EXCEPT !.terminal = ToOutcome(e.type)]
    <3>1. ToOutcome(e.type) \in Outcomes
      BY DEF ToOutcome, Outcomes
    <3>2. rt' = [q EXCEPT !.op = o]
      BY <1>3, <1>5, <2>1 DEF Runtimes
    <3>3. /\ o \in Operations /\ o.s = q.op.s /\ o.turn = q.op.turn /\ o.stage = q.op.stage
          /\ o.userSaved = q.op.userSaved
      BY <3>1, <1>4 DEF Operations
    <3> HIDE DEF o
    <3> QED
      BY <3>2, <3>3, <1>4, OpOnlyKeeps
  <2>2. CASE e.type \notin TerminalTypes
    BY <2>2, <1>3, <1>4
  <2> QED
    BY <2>1, <2>2
<1>7. Grows(rt', net, net')
  BY <1>2, <1>3, <1>6, GrowsSelf, WireGrows
<1> QED
  BY <1>6, <1>7, GrowsKeeps DEF IInv

(***************************************************************************)
(* The run ends.                                                           *)
(***************************************************************************)
\* What the outcome may make of a message.
SettledAs(x, m, op) ==
  /\ x \in Messages /\ x.o = m.o
  /\ x.saved = m.saved \/ (m.o = AnswerOf(op.turn) /\ x.saved = TRUE)
  /\ x.delivery = "persisted" => m.delivery = "persisted"

Ended(r, q, n) ==
  /\ Good(q, n) /\ r.op.s \in Present(q) /\ ~q.disposed
  /\ r.op.stage = "streaming" => ThreadOf(q, r.op.s) # None

LEMMA EndKeeps ==
  ASSUME NEW r, NEW n, Good(r, n), r.op # None, NEW outcome \in Outcomes
  PROVE  Ended(r, FinishOperation(r, outcome), n)
<1>1. PICK f : f = FlushTokens(r)
  OBVIOUS
<1>2. Good(f, n) /\ f.op \in Operations /\ f.op # None /\ f.op = [r.op EXCEPT !.pending = <<>>]
  BY <1>1, FlushKeeps DEF Flushed
<1>3. r.op \in Operations
  BY RunIsThere
<1>4. f.op.s = r.op.s /\ f.op.turn = r.op.turn /\ f.op.stage = r.op.stage
  BY <1>2, <1>3 DEF Operations
<1>5. f \in Runtimes /\ n \in Worlds /\ Core(f, n) /\ Shown(f, n)
  BY <1>2 DEF Good, Typed
<1>6. PICK s \in Sessions : s = f.op.s
  BY <1>2, RunIsThere
<1>7. /\ f.snap[s] \in Snapshots /\ f.snap[s].run \in Runs /\ s \in Present(f) /\ ~f.disposed
      /\ f.op.turn \in Nat
  BY <1>2, <1>6, RunIsThere
<1> DEFINE old  == f.snap[s].msgs
           id   == <<AnswerOf(f.op.turn), FALSE>>
           settled == [i \in DOMAIN old |->
              CASE Id(old[i]) = id /\ outcome = "completed" ->
                       [old[i] EXCEPT !.saved = TRUE, !.delivery = "complete"]
                [] Id(old[i]) = id /\ outcome # "completed" -> [old[i] EXCEPT !.delivery = outcome]
                [] Id(old[i]) # id /\ old[i].delivery = "pending" -> [old[i] EXCEPT !.delivery = "complete"]
                [] OTHER -> old[i]]
           done == [f EXCEPT !.op = None]
           B    == BoundMessages(done, s, settled)
           q    == FinishOperation(r, outcome)
           shot == [f.snap[s] EXCEPT !.run = None, !.msgs = B]
           snap == [f.snap EXCEPT ![s] = shot]
<1>8. q = [done EXCEPT !.snap[s].msgs = B, !.snap[s].run = None]
  BY <1>1, <1>4, <1>6 DEF FinishOperation
<1>9. old \in Seq(Messages)
  BY <1>7 DEF Snapshots
<1>10. ASSUME NEW i \in DOMAIN old
       PROVE  SettledAs(settled[i], old[i], f.op)
  <2>1. PICK m \in Messages : m = old[i]
    BY <1>9
  <2>2. settled[i] = CASE Id(m) = id /\ outcome = "completed" ->
                       [m EXCEPT !.saved = TRUE, !.delivery = "complete"]
                [] Id(m) = id /\ outcome # "completed" -> [m EXCEPT !.delivery = outcome]
                [] Id(m) # id /\ m.delivery = "pending" -> [m EXCEPT !.delivery = "complete"]
                [] OTHER -> m
    BY <2>1
  <2> HIDE DEF settled, old
  <2>3. CASE Id(m) = id
    <3>1. m.o = AnswerOf(f.op.turn)
      <4>1. <<m.o, m.saved>> = <<AnswerOf(f.op.turn), FALSE>>
        BY <2>3 DEF Id
      <4> QED
        BY <4>1
    <3>2. CASE outcome = "completed"
      <4>1. settled[i] = [m EXCEPT !.saved = TRUE, !.delivery = "complete"]
        BY <2>2, <2>3, <3>2
      <4> QED
        BY <4>1, <3>1, <2>1 DEF SettledAs, Messages, Deliveries
    <3>3. CASE outcome # "completed"
      <4>1. settled[i] = [m EXCEPT !.delivery = outcome]
        BY <2>2, <2>3, <3>3
      <4>2. outcome \in Deliveries /\ outcome # "persisted"
        BY <3>3 DEF Outcomes, Deliveries
      <4> QED
        BY <4>1, <4>2, <2>1 DEF SettledAs, Messages
    <3> QED
      BY <3>2, <3>3
  <2>4. CASE Id(m) # id /\ m.delivery = "pending"
    <3>1. settled[i] = [m EXCEPT !.delivery = "complete"]
      BY <2>2, <2>4
    <3> QED
      BY <3>1, <2>1 DEF SettledAs, Messages, Deliveries
  <2>5. CASE Id(m) # id /\ m.delivery # "pending"
    <3>1. settled[i] = m
      BY <2>2, <2>5
    <3> QED
      BY <3>1, <2>1 DEF SettledAs
  <2> QED
    BY <2>3, <2>4, <2>5
<1>11. DOMAIN settled = DOMAIN old
  OBVIOUS
<1> HIDE DEF settled, old
<1>12. settled \in Seq(Messages)
  <2>1. DOMAIN old = 1..Len(old) /\ Len(old) \in Nat
    BY <1>9
  <2>2. \A i \in DOMAIN settled : settled[i] \in Messages
    BY <1>10, <1>11 DEF SettledAs
  <2>3. settled = [i \in DOMAIN settled |-> settled[i]]
    BY DEF settled
  <2>4. settled \in [1..Len(old) -> Messages]
    BY <2>1, <2>2, <2>3, <1>11
  <2> QED
    BY <2>1, <2>4
<1>13. B \in Seq(Messages) /\ From(B, settled)
  BY <1>12, BoundHas
<1> HIDE DEF B
<1>14. q = Two(f, None, snap)
  <2>1. done = Two(f, None, f.snap)
    BY <1>5 DEF Two, Runtimes
  <2> DEFINE s1 == [f.snap[s] EXCEPT !.msgs = B]
             z1 == [f.snap EXCEPT ![s] = s1]
             c1 == [done EXCEPT !.snap[s].msgs = B]
  <2> HIDE DEF done
  <2>2. done.snap = f.snap
    BY <2>1, <1>5, TwoIs
  <2>3. c1 = [done EXCEPT !.snap = z1]
    BY <2>2
  <2>4. q = [c1 EXCEPT !.snap = [c1.snap EXCEPT ![s] = [c1.snap[s] EXCEPT !.run = None]]]
    BY <1>8
  <2>5. [s1 EXCEPT !.run = None] = shot
    BY <1>7, <1>13 DEF Snapshots
  <2> HIDE DEF s1, shot
  <2>6. z1[s] = s1 /\ [z1 EXCEPT ![s] = shot] = snap
    BY <1>5 DEF Runtimes
  <2> HIDE DEF z1, c1, q, snap
  <2>7. c1 = Two(f, None, z1) /\ c1.snap = z1
    BY <2>1, <2>3, <1>5, TwoIs
  <2>8. q = [c1 EXCEPT !.snap = snap]
    BY <2>4, <2>5, <2>6, <2>7
  <2> QED
    BY <2>7, <2>8, <1>5, TwoIs
<1>15. /\ shot \in Snapshots /\ shot.hist = f.snap[s].hist /\ shot.thread = f.snap[s].thread
       /\ shot.msgs = B /\ shot.run = None
  BY <1>7, <1>13 DEF Snapshots
<1> HIDE DEF shot
<1>16. snap \in [Sessions -> Snapshots] /\ snap[s] = shot /\ \A v \in Sessions \ {s} : snap[v] = f.snap[v]
  BY <1>5, <1>15 DEF Runtimes
<1> HIDE DEF snap, q
<1>17. /\ q \in Runtimes /\ q.snap = snap /\ q.op = None /\ q.hops = f.hops /\ q.lru = f.lru /\ q.used = f.used
       /\ q.byThread = f.byThread /\ q.turns = f.turns /\ q.disposed = f.disposed
  BY <1>5, <1>14, <1>16 DEF Two, Runtimes
<1>18. Present(q) = Present(f)
  BY <1>17 DEF Present
<1>19. \A v \in Sessions : /\ q.snap[v].thread = f.snap[v].thread /\ q.snap[v].hist = f.snap[v].hist
                           /\ q.snap[v].run = None
  <2>1. ASSUME NEW v \in Sessions \ {s}
        PROVE  f.snap[v].run = None
    BY <1>5, <1>6, <1>7 DEF Core, OneRunOf
  <2> QED
    BY <2>1, <1>15, <1>16, <1>17
<1>20. MsgsOf(q, s) = B /\ \A v \in Sessions \ {s} : MsgsOf(q, v) = MsgsOf(f, v)
  BY <1>15, <1>16, <1>17 DEF MsgsOf
<1>21. Core(q, n)
  <2>1. Known(q)
    BY <1>5, <1>17, <1>18 DEF Core, Known
  <2>2. Requests(q)
    BY <1>5, <1>17, <1>19 DEF Core, Requests
  <2>3. OneRunOf(q)
    BY <1>5, <1>17, <1>18, <1>19 DEF Core, OneRunOf
  <2>4. Asked(q)
    BY <1>17 DEF Asked
  <2>5. Stored(q, n)
    BY <1>5, <1>17 DEF Core, Stored
  <2>6. Paged(q, n)
    <3> SUFFICES ASSUME NEW p \in n.pages
                 PROVE  PageSound(q, n, p)
      BY DEF Paged
    <3>1. PageSound(f, n, p) /\ p.s \in Sessions
      BY <1>5 DEF Core, Paged, Worlds, PageRequests
    <3> QED
      BY <3>1, <1>17, <1>18, <1>19 DEF PageSound, ReplySound, ThreadOf
  <2>7. Served(q, n)
    BY <1>5, <1>17 DEF Core, Served
  <2>8. Deleted(q, n)
    BY <1>5, <1>17 DEF Core, Deleted, Older, Running
  <2> QED
    BY <2>1, <2>2, <2>3, <2>4, <2>5, <2>6, <2>7, <2>8 DEF Core
<1>22. ASSUME NEW k \in DOMAIN B
       PROVE  \E i \in DOMAIN old : SettledAs(B[k], old[i], f.op)
  BY <1>10, <1>11, <1>13 DEF From
<1>23. Placed(q)
  <2> SUFFICES ASSUME NEW v \in Sessions, NEW k \in DOMAIN MsgsOf(q, v)
               PROVE  PlacedIn(q, MsgsOf(q, v)[k])
    BY DEF Placed
  <2>1. CASE v = s
    <3>1. k \in DOMAIN B /\ MsgsOf(q, v)[k] = B[k]
      BY <2>1, <1>20
    <3>2. PICK i \in DOMAIN old : SettledAs(B[k], old[i], f.op)
      BY <3>1, <1>22
    <3>3. PlacedIn(f, old[i])
      BY <3>2, <1>5 DEF Shown, Placed, MsgsOf, old
    <3> QED
      BY <3>1, <3>2, <3>3, <1>17 DEF PlacedIn, SettledAs
  <2>2. CASE v # s
    BY <2>2, <1>5, <1>17, <1>20 DEF Shown, Placed, PlacedIn
  <2> QED
    BY <2>1, <2>2
<1>24. Pair(q) /\ Fresh(q, n)
  BY <1>17 DEF Pair, Fresh
<1>25. Gone(q, n)
  <2> SUFFICES ASSUME NEW g \in n.gone
               PROVE  Absent(g, MsgsOf(q, g[1]))
    BY DEF Gone
  <2>1. g[1] \in Sessions /\ g[2] \in Nat /\ Absent(g, MsgsOf(f, g[1])) /\ Older(f, g[1], g[2])
    BY <1>5 DEF Worlds, Shown, Gone, Core, Deleted
  <2>2. CASE g[1] = s
    <3> SUFFICES ASSUME NEW k \in DOMAIN B, Id(B[k]) = <<g[2], TRUE>>
                 PROVE  FALSE
      BY <2>2, <1>20 DEF Absent
    <3>1. B[k].o = g[2] /\ B[k].saved = TRUE
      <4>1. <<B[k].o, B[k].saved>> = <<g[2], TRUE>>
        BY DEF Id
      <4> QED
        BY <4>1
    <3>2. PICK i \in DOMAIN old : SettledAs(B[k], old[i], f.op)
      BY <1>22
    <3>3. Id(old[i]) # <<g[2], TRUE>>
      BY <2>1, <2>2, <3>2 DEF Absent, MsgsOf, old
    <3>4. old[i].saved # TRUE
      BY <3>1, <3>2, <3>3 DEF SettledAs, Id
    <3>5. g[2] = AnswerOf(f.op.turn)
      BY <3>1, <3>2, <3>4 DEF SettledAs
    <3>6. g[2] < UserOf(f.op.turn)
      BY <2>1, <2>2, <1>2, <1>6 DEF Older, Running
    <3> QED
      BY <3>5, <3>6, <1>7 DEF AnswerOf, UserOf
  <2>3. CASE g[1] # s
    BY <2>1, <2>3, <1>20
  <2> QED
    BY <2>2, <2>3
<1>26. Good(q, n)
  BY <1>5, <1>17, <1>21, <1>23, <1>24, <1>25 DEF Good, Typed, Shown
<1>27. r.op.stage = "streaming" => ThreadOf(q, s) # None
  BY <1>2, <1>4, <1>5, <1>6, <1>19 DEF Core, Asked, ThreadOf
<1> QED
  BY <1>4, <1>6, <1>7, <1>17, <1>18, <1>26, <1>27 DEF Ended, q

LEMMA FinishKeeps ==
  ASSUME IInv, rt.op # None, NEW n, Grows(rt, net, n), NEW outcome \in Outcomes,
         outcome = "completed" => rt.op.stage = "streaming", Finish(n, outcome)
  PROVE  IInv'
<1> DEFINE done == FinishOperation(rt, outcome)
           gone == [n EXCEPT !.conn = "none", !.wire = <<>>]
<1>1. PICK s : s = rt.op.s
  OBVIOUS
<1>2. Good(rt, n)
  BY GrowsKeeps DEF IInv
<1>3. Good(done, n) /\ s \in Present(done) /\ ~done.disposed /\ (rt.op.stage = "streaming" => ThreadOf(done, s) # None)
  BY <1>1, <1>2, EndKeeps DEF Ended
<1>4. /\ outcome = "completed" =>
           /\ rt' = BeginLoad(done, s)
           /\ net' = [gone EXCEPT !.pages = gone.pages \cup {PageRequest(done, s, "replace")}]
      /\ outcome # "completed" => rt' = done /\ net' = gone
  BY <1>1 DEF Finish
<1> HIDE DEF done
<1>5. done \in Runtimes /\ n \in Worlds
  BY <1>3 DEF Good, Typed
<1>6. /\ gone \in Worlds /\ gone.pages = n.pages /\ gone.dels = n.dels /\ gone.gone = n.gone
      /\ gone.log = n.log /\ gone.srv = n.srv
  <2>1. <<>> \in Seq(Events)
    OBVIOUS
  <2> QED
    BY <2>1, <1>5 DEF Worlds
<1> HIDE DEF gone
<1>7. Grows(done, n, gone)
  BY <1>3, <1>6 DEF Grows, Good, Core, Stored
<1>8. Good(done, gone)
  BY <1>3, <1>7, GrowsKeeps
<1>9. CASE outcome # "completed"
  BY <1>4, <1>8, <1>9 DEF IInv
<1>10. CASE outcome = "completed"
  <2>1. ThreadOf(done, s) # None
    BY <1>3, <1>10
  <2>2. s \in Sessions
    BY <1>3, <1>5 DEF Good, Core, Known, Runtimes
  <2>3. "replace" \in {"replace", "prepend"}
    OBVIOUS
  <2> DEFINE pages == gone.pages \cup {PageRequest(done, s, "replace")}
             m == [gone EXCEPT !.pages = pages]
  <2>4. PageRequest(done, s, "replace") \in PageRequests
    BY <2>1, <2>2, <2>3, <1>5, RequestType
  <2>5. pages \in SUBSET PageRequests
    BY <2>4, <1>6 DEF Worlds
  <2>6. rt' = BeginLoad(done, s) /\ net' = m
    BY <1>4, <1>10
  <2>7. pages = gone.pages \cup {PageRequest(done, s, "replace")}
    OBVIOUS
  <2> HIDE DEF pages
  <2>8. /\ m \in Worlds /\ m.pages = pages /\ m.dels = gone.dels /\ m.gone = gone.gone
        /\ m.log = gone.log /\ m.srv = gone.srv
    BY <2>5, <1>6 DEF Worlds
  <2> HIDE DEF m
  <2>9. m.pages = gone.pages \cup {PageRequest(done, s, "replace")}
    BY <2>7, <2>8
  <2>10. Good(BeginLoad(done, s), m)
    BY <2>1, <2>3, <2>8, <2>9, <1>3, <1>8, LoadKeeps
  <2> QED
    BY <2>6, <2>10 DEF IInv
<1> QED
  BY <1>9, <1>10

LEMMA OutcomeOfErrorIs == OutcomeOfError \in Outcomes /\ OutcomeOfError # "completed"
  BY DEF OutcomeOfError, Outcomes

\* The record that holds no run, in its place.
LEMMA NoRunGrows ==
  ASSUME IInv
  PROVE  Grows(rt, net, [net EXCEPT !.srv = NoRun])
<1>1. rt.turns \in Nat /\ rt.turns >= 1
  BY DEF IInv, Good, Typed, Runtimes, Core, Known
<1>2. Grows(rt, net, net)
  BY GrowsSelf DEF IInv
<1> QED
  BY <1>1, <1>2, NoRunType, SrvGrows

LEMMA CreateThreadFailsKeeps ==
  ASSUME IInv, CreateThreadFails
  PROVE  IInv'
<1>1. Grows(rt, net, Fault([net EXCEPT !.srv = NoRun]))
  BY NoRunGrows, FaultGrows
<1>2. rt.op # None /\ Finish(Fault([net EXCEPT !.srv = NoRun]), OutcomeOfError)
  BY DEF CreateThreadFails, Creating
<1> QED
  BY <1>1, <1>2, OutcomeOfErrorIs, FinishKeeps

LEMMA AbortSeenKeeps ==
  ASSUME IInv, AbortSeen
  PROVE  IInv'
<1>1. rt.op # None
  BY DEF AbortSeen
<1>2. PICK n \in Abandoned(net) : Finish(n, "cancelled")
  BY DEF AbortSeen
<1>3. Grows(rt, net, n)
  BY <1>1, <1>2, AbandonedGrows
<1>4. "cancelled" \in Outcomes /\ "cancelled" # "completed"
  BY DEF Outcomes
<1> QED
  BY <1>1, <1>2, <1>3, <1>4, FinishKeeps

LEMMA ReadEventKeeps ==
  ASSUME IInv, ReadEvent
  PROVE  IInv'
<1>1. CASE rt.op.terminal = None
  BY <1>1, EventIsReadKeeps
<1>2. CASE rt.op.terminal # None
  <2>1. rt.op # None /\ net.wire # <<>> /\ net \in Worlds
    BY DEF ReadEvent, Streaming, IInv, Good, Typed
  <2> DEFINE n == [net EXCEPT !.wire = Tail(net.wire)]
  <2>2. Finish(Torn(n), OutcomeOfError)
    BY <1>2 DEF ReadEvent
  <2>3. Tail(net.wire) \in Seq(Events)
    BY <2>1 DEF Worlds
  <2>4. Grows(rt, net, n)
    BY <2>3, GrowsSelf, WireGrows DEF IInv
  <2> HIDE DEF n
  <2>5. Grows(rt, net, Torn(n))
    BY <2>1, <2>4, TornGrows
  <2> QED
    BY <2>1, <2>2, <2>5, OutcomeOfErrorIs, FinishKeeps
<1> QED
  BY <1>1, <1>2

LEMMA StreamEndsKeeps ==
  ASSUME IInv, StreamEnds
  PROVE  IInv'
<1>1. rt.op # None /\ rt.op.stage = "streaming"
  BY DEF StreamEnds, Streaming
<1>2. rt.op \in Operations
  BY <1>1, RunIsThere DEF IInv
<1>3. Grows(rt, net, net)
  BY GrowsSelf DEF IInv
<1>4. Grows(rt, net, Torn(net))
  BY <1>1, <1>3, TornGrows
<1>5. CASE net.conn = "closed" /\ rt.op.terminal # None
  <2>1. rt.op.terminal \in Outcomes
    BY <1>2, <1>5 DEF Operations
  <2>2. Finish(net, rt.op.terminal)
    BY <1>5 DEF StreamEnds
  <2> QED
    BY <2>1, <2>2, <1>1, <1>3, FinishKeeps
<1>6. CASE ~(net.conn = "closed" /\ rt.op.terminal # None)
  <2>1. Finish(Torn(net), OutcomeOfError)
    BY <1>6 DEF StreamEnds
  <2> QED
    BY <2>1, <1>1, <1>4, OutcomeOfErrorIs, FinishKeeps
<1> QED
  BY <1>5, <1>6

(***************************************************************************)
(* The run is posted to the server.                                        *)
(***************************************************************************)
LEMMA PostGrows ==
  ASSUME NEW r, NEW n, NEW m, Grows(r, n, m), NEW t \in Threads, NEW turn \in Nat,
         turn >= 1, turn < r.turns
  PROVE  Grows(r, n, PostRun(m, t, turn))
<1> DEFINE v == [NoRun EXCEPT !.turn = turn, !.thread = t, !.at = "posted"]
           k == [m EXCEPT !.srv = v]
           p == PostRun(m, t, turn)
<1>1. v \in ServerRuns /\ v.turn = turn
  BY NoRunType DEF ServerRuns, RunPlaces
<1>2. p = [[k EXCEPT !.conn = "open"] EXCEPT !.wire = <<>>]
  BY DEF PostRun
<1> HIDE DEF v, p
<1>3. Grows(r, n, k)
  BY <1>1, SrvGrows
<1>4. k \in Worlds /\ <<>> \in Seq(Events)
  BY <1>3 DEF Grows
<1> HIDE DEF k
<1>5. /\ p \in Worlds /\ p.pages = k.pages /\ p.dels = k.dels /\ p.gone = k.gone
      /\ p.log = k.log /\ p.srv = k.srv
  BY <1>2, <1>4 DEF Worlds
<1>6. Grows(r, n, p)
  BY <1>3, <1>5 DEF Grows, Stored
<1> QED
  BY <1>6 DEF p

\* The session takes the thread made for it; no session had it, none of its
\* requests is about another one.
LEMMA BindKeeps ==
  ASSUME IInv, Creating, NEW t \in Threads, rt.byThread[t] \in {None, rt.op.s},
         NEW q, q = [rt EXCEPT !.byThread[t] = rt.op.s,
                               !.snap[rt.op.s].thread = t,
                               !.snap[rt.op.s].run.lifecycle = "running",
                               !.op.stage = "streaming"]
  PROVE  Good(q, net)
<1>1. rt \in Runtimes /\ net \in Worlds /\ Core(rt, net) /\ Shown(rt, net) /\ rt.op # None /\ Good(rt, net)
  BY DEF IInv, Good, Typed, Creating
<1>2. PICK s \in Sessions : s = rt.op.s
  BY <1>1, RunIsThere
<1>3. /\ rt.op \in Operations /\ rt.snap[s] \in Snapshots /\ rt.snap[s].run \in Runs
      /\ rt.snap[s].run.turn = rt.op.turn /\ s \in Present(rt) /\ ~rt.disposed
  BY <1>1, <1>2, RunIsThere
<1>4. rt.snap[s].thread = None /\ None \notin Sessions /\ None \notin Threads
  BY <1>1, <1>2, RuntimeAssumption DEF Creating, Core, Asked, ThreadOf
<1>5. rt.byThread[t] = None
  BY <1>1, <1>2, <1>3, <1>4 DEF Core, OneRunOf
<1> DEFINE run  == [rt.snap[s].run EXCEPT !.lifecycle = "running"]
           shot == [rt.snap[s] EXCEPT !.thread = t, !.run = run]
           snap == [rt.snap EXCEPT ![s] = shot]
           o    == [rt.op EXCEPT !.stage = "streaming"]
           byThread == [rt.byThread EXCEPT ![t] = s]
<1>6. q = [rt EXCEPT !.byThread = byThread, !.snap = snap, !.op = o]
  <2> DEFINE s1 == [rt.snap[s] EXCEPT !.thread = t]
             z1 == [rt.snap EXCEPT ![s] = s1]
             a  == [rt EXCEPT !.byThread = byThread]
             b  == [a EXCEPT !.snap = [a.snap EXCEPT ![s] = [a.snap[s] EXCEPT !.thread = t]]]
             c  == [b EXCEPT !.snap = [b.snap EXCEPT ![s] = [b.snap[s] EXCEPT !.run = [b.snap[s].run EXCEPT !.lifecycle = "running"]]]]
             d  == [c EXCEPT !.op = [c.op EXCEPT !.stage = "streaming"]]
  <2>1. q = d
    BY <1>2
  <2> HIDE DEF byThread
  <2>2. a.snap = rt.snap /\ a.op = rt.op
    BY <1>1 DEF Runtimes
  <2>3. s1.run = rt.snap[s].run /\ [s1 EXCEPT !.run = run] = shot
    BY <1>3 DEF Snapshots
  <2> HIDE DEF s1, run, shot
  <2>4. z1[s] = s1 /\ [z1 EXCEPT ![s] = shot] = snap
    BY <1>1 DEF Runtimes
  <2> HIDE DEF z1, snap
  <2>5. b = [a EXCEPT !.snap = z1]
    BY <2>2 DEF s1, z1
  <2> HIDE DEF b
  <2>6. b.snap = z1 /\ b.op = rt.op /\ b = [rt EXCEPT !.byThread = byThread, !.snap = z1]
    BY <2>2, <2>5, <1>1 DEF Runtimes
  <2>7. c = [b EXCEPT !.snap = snap]
    <3>1. [b.snap[s].run EXCEPT !.lifecycle = "running"] = run
      BY <2>3, <2>4, <2>6 DEF run
    <3> QED
      BY <3>1, <2>3, <2>4, <2>6
  <2> HIDE DEF a, c
  <2>8. c.op = rt.op /\ c = [rt EXCEPT !.byThread = byThread, !.snap = snap]
    BY <2>6, <2>7, <1>1 DEF Runtimes
  <2>9. d = [c EXCEPT !.op = o]
    BY <2>8
  <2> HIDE DEF d, o
  <2> QED
    BY <2>1, <2>8, <2>9, <1>1 DEF Runtimes
<1>7. run \in Runs /\ run.turn = rt.op.turn
  BY <1>3 DEF Runs
<1>8. /\ o \in Operations /\ o.s = s /\ o.turn = rt.op.turn /\ o.stage = "streaming"
      /\ o.userSaved = rt.op.userSaved
  BY <1>2, <1>3 DEF Operations
<1>9. byThread \in [Threads -> Sessions \cup {None}] /\ byThread[t] = s /\ \A u \in Threads \ {t} : byThread[u] = rt.byThread[u]
  BY <1>1 DEF Runtimes
<1> HIDE DEF run, o, byThread
<1>10. /\ shot \in Snapshots /\ shot.hist = rt.snap[s].hist /\ shot.thread = t
       /\ shot.msgs = rt.snap[s].msgs /\ shot.run = run
  BY <1>3, <1>7 DEF Snapshots
<1> HIDE DEF shot
<1>11. snap \in [Sessions -> Snapshots] /\ snap[s] = shot /\ \A v \in Sessions \ {s} : snap[v] = rt.snap[v]
  BY <1>1, <1>10 DEF Runtimes
<1> HIDE DEF snap
<1>12. /\ q \in Runtimes /\ q.snap = snap /\ q.op = o /\ q.hops = rt.hops /\ q.lru = rt.lru /\ q.used = rt.used
       /\ q.byThread = byThread /\ q.turns = rt.turns /\ q.disposed = rt.disposed
  BY <1>1, <1>6, <1>8, <1>9, <1>11 DEF Runtimes
<1>13. Present(q) = Present(rt)
  BY <1>12 DEF Present
<1>14. run # None /\ o # None
  BY <1>7, <1>8, NullIsNone
<1>15. \A v \in Sessions : q.snap[v].hist = rt.snap[v].hist /\ q.snap[v].msgs = rt.snap[v].msgs
  BY <1>10, <1>11, <1>12
<1>16. \A v \in Sessions \ {s} : q.snap[v] = rt.snap[v]
  BY <1>11, <1>12
<1>17. q.snap[s].thread = t /\ q.snap[s].run = run
  BY <1>10, <1>11, <1>12
<1>18. Core(q, net)
  <2>1. Known(q)
    BY <1>1, <1>12, <1>13 DEF Core, Known
  <2>2. Requests(q)
    BY <1>1, <1>12, <1>15 DEF Core, Requests
  <2>3. OneRunOf(q)
    <3>1. ASSUME NEW v \in Sessions
          PROVE  q.snap[v].run # None <=> v = s
      BY <1>1, <1>2, <1>3, <1>14, <1>16, <1>17 DEF Core, OneRunOf
    <3>2. ASSUME NEW u \in Threads, NEW v \in Sessions
          PROVE  q.byThread[u] = v <=> v \in Present(q) /\ q.snap[v].thread = u
      <4>1. rt.byThread[u] = v <=> v \in Present(rt) /\ rt.snap[v].thread = u
        BY <1>1, <1>3 DEF Core, OneRunOf
      <4>2. CASE u = t /\ v = s
        BY <4>2, <1>3, <1>9, <1>12, <1>13, <1>17
      <4>3. CASE u = t /\ v # s
        BY <4>1, <4>3, <1>4, <1>5, <1>9, <1>12, <1>13, <1>16
      <4>4. CASE u # t /\ v = s
        BY <4>1, <4>4, <1>4, <1>9, <1>12, <1>13, <1>17
      <4>5. CASE u # t /\ v # s
        BY <4>1, <4>5, <1>9, <1>12, <1>13, <1>16
      <4> QED
        BY <4>2, <4>3, <4>4, <4>5
    <3>3. q.op # None /\ q.op.s = s /\ s \in Present(q) /\ q.snap[s].run.turn = q.op.turn
      BY <1>3, <1>7, <1>8, <1>12, <1>13, <1>14, <1>17
    <3> QED
      BY <3>1, <3>2, <3>3 DEF OneRunOf
  <2>4. Asked(q)
    BY <1>1, <1>3, <1>4, <1>8, <1>12, <1>17 DEF Core, Asked, ThreadOf
  <2>5. Stored(q, net)
    BY <1>1, <1>12 DEF Core, Stored
  <2>6. Paged(q, net)
    <3> SUFFICES ASSUME NEW p \in net.pages
                 PROVE  PageSound(q, net, p)
      BY DEF Paged
    <3>1. PageSound(rt, net, p) /\ p.s \in Sessions /\ p.thread \in Threads
      BY <1>1 DEF Core, Paged, Worlds, PageRequests
    <3>2. p.req = q.hops[p.s] => p.thread = ThreadOf(q, p.s)
      <4>1. CASE p.s = s
        <5>1. p.req # rt.hops[s]
          BY <4>1, <3>1, <1>4 DEF PageSound, ThreadOf
        <5> QED
          BY <4>1, <5>1, <1>12
      <4>2. CASE p.s # s
        BY <4>2, <3>1, <1>12, <1>16 DEF PageSound, ThreadOf
      <4> QED
        BY <4>1, <4>2
    <3> QED
      BY <3>1, <3>2, <1>12, <1>13, <1>15 DEF PageSound, ReplySound
  <2>7. Served(q, net)
    BY <1>1, <1>12 DEF Core, Served
  <2>8. Deleted(q, net)
    <3>1. \A v, x : Older(q, v, x) <=> Older(rt, v, x)
      BY <1>1, <1>2, <1>8, <1>12, <1>14 DEF Older, Running
    <3> QED
      BY <3>1, <1>1 DEF Core, Deleted
  <2> QED
    BY <2>1, <2>2, <2>3, <2>4, <2>5, <2>6, <2>7, <2>8 DEF Core
<1>19. Placed(q)
  BY <1>1, <1>12, <1>15 DEF Shown, Placed, PlacedIn, MsgsOf
<1>20. Pair(q)
  <2>1. PairIn(rt.op, rt.snap[s].msgs)
    BY <1>1, <1>2 DEF Shown, Pair, MsgsOf
  <2>2. PairIn(o, rt.snap[s].msgs)
    BY <2>1, <1>8 DEF PairIn, IsUser, IsAnswer
  <2> QED
    BY <2>2, <1>8, <1>12, <1>15 DEF Pair, MsgsOf
<1>21. Fresh(q, net)
  <2> SUFFICES ASSUME NEW i \in DOMAIN MsgsOf(q, s), FromPage(MsgsOf(q, s)[i], UserOf(rt.op.turn))
               PROVE  FALSE
    BY <1>8, <1>12 DEF Fresh
  <2>1. MsgsOf(q, s) = MsgsOf(rt, s)
    BY <1>15 DEF MsgsOf
  <2>2. Brought(rt, net, UserOf(rt.op.turn))
    BY <2>1, <1>1, <1>2 DEF Shown, Fresh
  <2> QED
    BY <2>2, <1>2, <1>4 DEF Brought, ThreadOf
<1>22. Gone(q, net)
  <2> SUFFICES ASSUME NEW g \in net.gone
               PROVE  Absent(g, MsgsOf(q, g[1]))
    BY DEF Gone
  <2>1. g[1] \in Sessions
    BY <1>1 DEF Worlds
  <2> QED
    BY <2>1, <1>1, <1>15 DEF Shown, Gone, MsgsOf
<1> QED
  BY <1>1, <1>12, <1>18, <1>19, <1>20, <1>21, <1>22 DEF Good, Typed, Shown

LEMMA ThreadIsBoundKeeps ==
  ASSUME IInv, ThreadIsBound
  PROVE  IInv'
<1>1. rt \in Runtimes /\ net \in Worlds /\ rt.op # None /\ Creating
  BY DEF IInv, Good, Typed, ThreadIsBound, Creating
<1>2. PICK t : t = net.srv.thread
  OBVIOUS
<1>3. t \in Threads
  BY <1>1, <1>2 DEF ThreadIsBound, Worlds, ServerRuns
<1>4. CASE rt.byThread[t] \notin {None, rt.op.s}
  <2>1. Finish([net EXCEPT !.srv = NoRun], OutcomeOfError)
    BY <1>2, <1>4 DEF ThreadIsBound
  <2> QED
    BY <2>1, <1>1, NoRunGrows, OutcomeOfErrorIs, FinishKeeps
<1>5. CASE rt.byThread[t] \in {None, rt.op.s}
  <2>1. /\ rt' = [rt EXCEPT !.byThread[t] = rt.op.s,
                            !.snap[rt.op.s].thread = t,
                            !.snap[rt.op.s].run.lifecycle = "running",
                            !.op.stage = "streaming"]
        /\ net' = PostRun(net, t, rt.op.turn)
    BY <1>2, <1>5 DEF ThreadIsBound
  <2>2. PICK q : q = rt'
    OBVIOUS
  <2>3. Good(q, net)
    BY <2>1, <2>2, <1>1, <1>3, <1>5, BindKeeps
  <2>4. rt.op.turn \in Nat /\ rt.op.turn >= 1 /\ rt.op.turn < rt.turns
    BY <1>1 DEF IInv, Good, Core, Asked, Runtimes, Operations
  <2>5. q.turns = rt.turns
    BY <2>1, <2>2, <1>1 DEF Runtimes
  <2>6. Grows(q, net, net')
    BY <2>1, <2>3, <2>4, <2>5, <1>3, GrowsSelf, PostGrows
  <2> QED
    BY <2>2, <2>3, <2>6, GrowsKeeps DEF IInv
<1> QED
  BY <1>4, <1>5

(***************************************************************************)
(* A question is asked.                                                    *)
(***************************************************************************)
SentPair(op) == << Message(UserOf(op.turn), FALSE, "pending", <<>>),
                   Message(AnswerOf(op.turn), FALSE, "streaming", <<>>) >>

SentRun(op, t) == [turn |-> op.turn, steps |-> <<>>, approval |-> None,
                   lifecycle |-> IF t = None THEN "preparing" ELSE "running"]

SentB(op, old, B) ==
  \A k \in DOMAIN B : \/ \E i \in DOMAIN old : B[k] = old[i]
                      \/ /\ B[k].saved = FALSE /\ B[k].delivery # "persisted"
                         /\ B[k].o <= AnswerOf(op.turn)

\* The pair is the last of the messages; all the others are older.
LEMMA SentHas ==
  ASSUME NEW op \in Operations, op.userSaved = FALSE, NEW old \in Seq(Messages),
         \A i \in DOMAIN old : old[i].o < UserOf(op.turn),
         NEW r, r.op = op, op # None, NEW B, B = BoundMessages(r, op.s, old \o SentPair(op))
  PROVE  B \in Seq(Messages) /\ PairIn(op, B) /\ SentB(op, old, B)
<1> DEFINE user == Message(UserOf(op.turn), FALSE, "pending", <<>>)
           answer == Message(AnswerOf(op.turn), FALSE, "streaming", <<>>)
           pair == SentPair(op)
           joined == old \o pair
<1>1. op.turn \in Nat /\ UserOf(op.turn) \in Nat /\ AnswerOf(op.turn) = UserOf(op.turn) + 1
  BY DEF Operations, UserOf, AnswerOf
<1>2. /\ user \in Messages /\ user.o = UserOf(op.turn) /\ user.saved = FALSE /\ user.delivery = "pending"
      /\ answer \in Messages /\ answer.o = AnswerOf(op.turn) /\ answer.saved = FALSE /\ answer.delivery = "streaming"
  <2>1. <<>> \in Seq(Nat)
    OBVIOUS
  <2> QED
    BY <2>1, <1>1 DEF Message, Messages, Deliveries
<1>3. pair \in Seq(Messages) /\ DOMAIN pair = {1, 2} /\ pair[1] = user /\ pair[2] = answer
  <2>1. pair = <<user, answer>>
    BY DEF SentPair
  <2> HIDE DEF user, answer, pair
  <2> QED
    BY <2>1, <1>2
<1> HIDE DEF user, answer, pair
<1>4. joined \in Seq(Messages) /\ Joined(old, pair, joined)
  BY <1>3, JoinHas
<1>5. B = BoundMessages(r, op.s, joined)
  BY DEF pair
<1> HIDE DEF joined
<1>6. B \in Seq(Messages) /\ From(B, joined) /\ KeepsPair(op, joined, B)
  BY <1>4, <1>5, BoundHas
<1>7. ASSUME NEW k \in DOMAIN B
      PROVE  (\E i \in DOMAIN old : B[k] = old[i]) \/ B[k] = user \/ B[k] = answer
  <2>1. PICK j \in DOMAIN joined : B[k] = joined[j]
    BY <1>6 DEF From
  <2>2. (\E i \in DOMAIN old : joined[j] = old[i]) \/ (\E i \in DOMAIN pair : joined[j] = pair[i])
    BY <1>4 DEF Joined
  <2> QED
    BY <2>1, <2>2, <1>3
<1>8. Id(user) = <<UserOf(op.turn), op.userSaved>> /\ Id(answer) = <<AnswerOf(op.turn), FALSE>>
  BY <1>2 DEF Id
<1>9. \E k \in DOMAIN B : IsUser(B[k], op)
  <2>1. PICK j \in DOMAIN joined : joined[j] = user
    BY <1>3, <1>4 DEF Joined
  <2>2. \E k \in DOMAIN B : Id(B[k]) = Id(joined[j])
    BY <2>1, <1>6, <1>8 DEF KeepsPair, PairIds
  <2> QED
    BY <2>1, <2>2, <1>8 DEF IsUser
<1>10. \E k \in DOMAIN B : IsAnswer(B[k], op)
  <2>1. PICK j \in DOMAIN joined : joined[j] = answer
    BY <1>3, <1>4 DEF Joined
  <2>2. \E k \in DOMAIN B : Id(B[k]) = Id(joined[j])
    BY <2>1, <1>6, <1>8 DEF KeepsPair, PairIds
  <2> QED
    BY <2>1, <2>2, <1>8 DEF IsAnswer
<1>11. ASSUME NEW k \in DOMAIN B, IsAnswer(B[k], op)
       PROVE  B[k].delivery = "streaming"
  <2>1. B[k].o = AnswerOf(op.turn)
    <3>1. <<B[k].o, B[k].saved>> = <<AnswerOf(op.turn), FALSE>>
      BY <1>11 DEF IsAnswer, Id
    <3> QED
      BY <3>1
  <2>2. CASE \E i \in DOMAIN old : B[k] = old[i]
    <3>1. PICK i \in DOMAIN old : B[k] = old[i]
      BY <2>2
    <3>2. old[i].o < UserOf(op.turn) /\ old[i].o = UserOf(op.turn) + 1 /\ old[i] \in Messages
      BY <3>1, <2>1, <1>1
    <3> QED
      BY <3>2, <1>1 DEF Messages
  <2>3. CASE B[k] = user
    BY <2>1, <2>3, <1>1, <1>2
  <2>4. CASE B[k] = answer
    BY <2>4, <1>2
  <2> QED
    BY <2>2, <2>3, <2>4, <1>7
<1>12. PairIn(op, B)
  BY <1>9, <1>10, <1>11 DEF PairIn
<1>13. UserOf(op.turn) <= AnswerOf(op.turn) /\ AnswerOf(op.turn) <= AnswerOf(op.turn)
  BY <1>1
<1>14. ASSUME NEW k \in DOMAIN B
       PROVE  \/ \E i \in DOMAIN old : B[k] = old[i]
              \/ /\ B[k].saved = FALSE /\ B[k].delivery # "persisted"
                 /\ B[k].o <= AnswerOf(op.turn)
  BY <1>7, <1>2, <1>13
<1> QED
  BY <1>6, <1>12, <1>14 DEF SentB

LEMMA SendKeeps ==
  ASSUME IInv, NEW s \in Sessions, Send(s)
  PROVE  IInv'
<1>1. rt \in Runtimes /\ net \in Worlds /\ Core(rt, net) /\ Shown(rt, net) /\ Good(rt, net)
  BY DEF IInv, Good, Typed
<1>2. ~rt.disposed /\ s \in Present(rt) /\ rt.op = None
  BY DEF Send, Available
<1>3. rt.snap[s] \in Snapshots /\ rt.turns \in Nat /\ rt.turns >= 1
  BY <1>1 DEF Runtimes, Core, Known
<1> DEFINE t  == rt.snap[s].thread
           op == NewOperation(s, IF t = None THEN "creating" ELSE "streaming")
           a  == [rt EXCEPT !.op = op, !.turns = @ + 1]
           r  == Touch(a, s)
           old  == rt.snap[s].msgs
           B    == BoundMessages(r, s, old \o SentPair(op))
           run  == SentRun(op, t)
           shot == [rt.snap[s] EXCEPT !.run = run, !.msgs = B]
           snap == [rt.snap EXCEPT ![s] = shot]
           q    == [r EXCEPT !.snap = snap]
<1>4. t \in Threads \cup {None} /\ old \in Seq(Messages)
  BY <1>3 DEF Snapshots
<1>5. /\ op \in Operations /\ op.s = s /\ op.turn = rt.turns /\ op.userSaved = FALSE /\ op # None
      /\ op.stage = IF t = None THEN "creating" ELSE "streaming"
  <2>1. <<>> \in Seq(Nat) /\ {} \in SUBSET EventTypes
    OBVIOUS
  <2>2. op \in Operations /\ op.s = s /\ op.turn = rt.turns /\ op.userSaved = FALSE
        /\ op.stage = IF t = None THEN "creating" ELSE "streaming"
    BY <2>1, <1>3 DEF NewOperation, Operations
  <2> QED
    BY <2>2, NullIsNone
<1>6. PICK c \in Nat : c = rt.turns + 1
  BY <1>3
<1>7. /\ rt' = [r EXCEPT !.snap[s].msgs = BoundMessages(r, s, r.snap[s].msgs \o SentPair(op)), !.snap[s].run = run]
      /\ net' = IF t = None THEN net ELSE PostRun(net, t, op.turn)
  BY DEF Send, SentPair, SentRun
<1> HIDE DEF op
<1>8. run \in Runs /\ run.turn = rt.turns
  <2>1. <<>> \in Seq(LiveSteps)
    OBVIOUS
  <2> QED
    BY <2>1, <1>3, <1>5 DEF SentRun, Runs
<1> HIDE DEF run
<1>9. /\ a \in Runtimes /\ a.snap = rt.snap /\ a.op = op /\ a.turns = c /\ a.lru = rt.lru /\ a.used = rt.used
      /\ a.byThread = rt.byThread /\ a.hops = rt.hops /\ a.disposed = rt.disposed
  <2>1. a = [rt EXCEPT !.op = op, !.turns = c]
    BY <1>6
  <2> HIDE DEF a
  <2> QED
    BY <2>1, <1>1, <1>5 DEF Runtimes
<1>10. Present(a) = Present(rt)
  BY <1>9 DEF Present
<1> HIDE DEF a
<1>11. /\ r \in Runtimes /\ r.snap = rt.snap /\ r.op = op /\ r.turns = c /\ r.used = rt.used
       /\ Present(r) = Present(rt)
       /\ r.byThread = rt.byThread /\ r.hops = rt.hops /\ r.disposed = rt.disposed
  BY <1>9, <1>10, TouchIs
<1> HIDE DEF r
<1>12. \A v \in Sessions : \A i \in DOMAIN MsgsOf(rt, v) : PlacedIn(rt, MsgsOf(rt, v)[i])
  BY <1>1 DEF Shown, Placed
<1>13. \A i \in DOMAIN old : old[i].o < UserOf(op.turn)
  BY <1>5, <1>12 DEF PlacedIn, MsgsOf, UserOf
<1>14. B \in Seq(Messages) /\ PairIn(op, B) /\ SentB(op, old, B)
  <2> HIDE DEF old
  <2>1. PICK z : z = B
    OBVIOUS
  <2>2. z = BoundMessages(r, op.s, old \o SentPair(op))
    BY <2>1, <1>5
  <2> HIDE DEF B
  <2>3. z \in Seq(Messages) /\ PairIn(op, z) /\ SentB(op, old, z)
    BY <2>2, <1>4, <1>5, <1>11, <1>13, SentHas
  <2> QED
    BY <2>1, <2>3
<1>15. r.snap[s].msgs = old
  BY <1>11
<1>16. rt' = [r EXCEPT !.snap[s].msgs = B, !.snap[s].run = run]
  BY <1>7, <1>15
<1> HIDE DEF B
<1>17. rt' = q
  <2> DEFINE s1 == [rt.snap[s] EXCEPT !.msgs = B]
             z1 == [rt.snap EXCEPT ![s] = s1]
             c1 == [r EXCEPT !.snap[s].msgs = B]
  <2>1. c1 = [r EXCEPT !.snap = z1]
    BY <1>11
  <2>2. rt' = [c1 EXCEPT !.snap = [c1.snap EXCEPT ![s] = [c1.snap[s] EXCEPT !.run = run]]]
    BY <1>16
  <2>3. [s1 EXCEPT !.run = run] = shot
    BY <1>3 DEF Snapshots
  <2> HIDE DEF s1, shot
  <2>4. z1[s] = s1 /\ [z1 EXCEPT ![s] = shot] = snap
    BY <1>1 DEF Runtimes
  <2> HIDE DEF z1, c1, snap
  <2>5. c1.snap = z1
    BY <2>1, <1>11 DEF Runtimes
  <2>6. rt' = [c1 EXCEPT !.snap = snap]
    BY <2>2, <2>3, <2>4, <2>5
  <2> QED
    BY <2>1, <2>6, <1>11 DEF Runtimes
<1>18. /\ shot \in Snapshots /\ shot.hist = rt.snap[s].hist /\ shot.thread = t
       /\ shot.msgs = B /\ shot.run = run
  BY <1>3, <1>8, <1>14 DEF Snapshots
<1> HIDE DEF shot
<1>19. snap \in [Sessions -> Snapshots] /\ snap[s] = shot /\ \A v \in Sessions \ {s} : snap[v] = rt.snap[v]
  BY <1>1, <1>18 DEF Runtimes
<1> HIDE DEF snap
<1>20. /\ q \in Runtimes /\ q.snap = snap /\ q.op = op /\ q.hops = rt.hops /\ q.used = rt.used
       /\ q.lru = r.lru /\ q.byThread = rt.byThread /\ q.turns = c /\ q.disposed = rt.disposed
  BY <1>11, <1>19 DEF Runtimes
<1>21. Present(q) = Present(rt)
  BY <1>11, <1>20 DEF Present
<1> HIDE DEF q
<1>22. \A v \in Sessions : q.snap[v].hist = rt.snap[v].hist /\ q.snap[v].thread = rt.snap[v].thread
  BY <1>18, <1>19, <1>20
<1>23. \A v \in Sessions \ {s} : q.snap[v] = rt.snap[v]
  BY <1>19, <1>20
<1>24. q.snap[s].run = run /\ q.snap[s].msgs = B /\ run # None
  BY <1>8, <1>18, <1>19, <1>20, NullIsNone
<1>25. rt.turns < c /\ 2 * rt.turns < 2 * c /\ UserOf(op.turn) = 2 * rt.turns /\ AnswerOf(op.turn) < 2 * c
  BY <1>3, <1>5, <1>6 DEF UserOf, AnswerOf
<1>26. Core(q, net)
  <2>1. Known(q)
    BY <1>1, <1>3, <1>20, <1>21, <1>25 DEF Core, Known
  <2>2. Requests(q)
    BY <1>1, <1>20, <1>22 DEF Core, Requests
  <2>3. OneRunOf(q)
    <3>1. ASSUME NEW v \in Sessions
          PROVE  q.snap[v].run # None <=> v = s
      BY <1>1, <1>2, <1>23, <1>24 DEF Core, OneRunOf
    <3>2. q.op # None /\ q.op.s = s /\ q.op.turn = rt.turns
      BY <1>5, <1>20
    <3> QED
      BY <3>1, <3>2, <1>1, <1>2, <1>8, <1>20, <1>21, <1>22, <1>24 DEF Core, OneRunOf
  <2>4. Asked(q)
    BY <1>2, <1>3, <1>5, <1>6, <1>20, <1>22 DEF Asked, ThreadOf
  <2>5. Stored(q, net)
    <3>1. net.srv.turn \in Nat
      BY <1>1 DEF Worlds, ServerRuns
    <3>2. 1..(2 * rt.turns - 1) \subseteq 1..(2 * c - 1)
      BY <1>3, <1>25
    <3> QED
      BY <3>1, <3>2, <1>1, <1>3, <1>20, <1>25 DEF Core, Stored
  <2>6. Paged(q, net)
    <3> SUFFICES ASSUME NEW p \in net.pages
                 PROVE  PageSound(q, net, p)
      BY DEF Paged
    <3>1. PageSound(rt, net, p) /\ p.s \in Sessions /\ p.reply \in Replies \cup {None}
      BY <1>1 DEF Core, Paged, Worlds, PageRequests
    <3>2. p.reply # None => ReplySound(q, net, p)
      <4> SUFFICES ASSUME p.reply # None
                   PROVE  ReplySound(q, net, p)
        OBVIOUS
      <4>1. \A k \in DOMAIN p.reply.items : p.reply.items[k] \in Nat
        BY <3>1 DEF Replies
      <4>2. ReplySound(rt, net, p)
        BY <3>1 DEF PageSound
      <4> QED
        BY <4>1, <4>2, <1>3, <1>20, <1>25 DEF ReplySound
    <3> QED
      BY <3>1, <3>2, <1>20, <1>21, <1>22 DEF PageSound, ThreadOf
  <2>7. Served(q, net)
    BY <1>1, <1>20 DEF Core, Served
  <2>8. Deleted(q, net)
    <3>1. ASSUME NEW v, NEW o \in Nat, Older(rt, v, o)
          PROVE  Older(q, v, o)
      BY <3>1, <1>3, <1>20, <1>25 DEF Older
    <3>2. (\A d \in net.dels : d.m[1] \in Nat) /\ (\A g \in net.gone : g[2] \in Nat)
      BY <1>1 DEF Worlds, Deletions
    <3> QED
      BY <3>1, <3>2, <1>1 DEF Core, Deleted
  <2> QED
    BY <2>1, <2>2, <2>3, <2>4, <2>5, <2>6, <2>7, <2>8 DEF Core
<1>27. MsgsOf(q, s) = B /\ \A v \in Sessions \ {s} : MsgsOf(q, v) = MsgsOf(rt, v)
  BY <1>23, <1>24 DEF MsgsOf
<1>28. ASSUME NEW v \in Sessions, NEW i \in DOMAIN MsgsOf(rt, v)
       PROVE  MsgsOf(rt, v)[i] \in Messages /\ PlacedIn(rt, MsgsOf(rt, v)[i])
  <2>1. MsgsOf(rt, v) \in Seq(Messages)
    BY <1>1 DEF Runtimes, Snapshots, MsgsOf
  <2> QED
    BY <2>1, <1>12
<1>29. ASSUME NEW m \in Messages, PlacedIn(rt, m)
       PROVE  PlacedIn(q, m)
  BY <1>29, <1>3, <1>20, <1>25 DEF PlacedIn, Messages
<1>30. Placed(q)
  <2> SUFFICES ASSUME NEW v \in Sessions, NEW k \in DOMAIN MsgsOf(q, v)
               PROVE  PlacedIn(q, MsgsOf(q, v)[k])
    BY DEF Placed
  <2>1. CASE v = s
    <3>1. k \in DOMAIN B /\ MsgsOf(q, v)[k] = B[k] /\ B[k] \in Messages
      BY <2>1, <1>14, <1>27
    <3>2. CASE \E i \in DOMAIN old : B[k] = old[i]
      BY <3>1, <3>2, <1>28, <1>29 DEF MsgsOf
    <3>3. CASE B[k].delivery # "persisted" /\ B[k].o <= AnswerOf(op.turn)
      <4>1. B[k].o \in Nat /\ AnswerOf(op.turn) \in Nat
        BY <3>1, <1>3, <1>5 DEF Messages, AnswerOf
      <4> QED
        BY <4>1, <3>1, <3>3, <1>20, <1>25 DEF PlacedIn
    <3> QED
      BY <3>1, <3>2, <3>3, <1>14 DEF SentB
  <2>2. CASE v # s
    BY <2>2, <1>27, <1>28, <1>29
  <2> QED
    BY <2>1, <2>2
<1>31. Pair(q)
  BY <1>5, <1>14, <1>20, <1>27 DEF Pair
<1>32. Fresh(q, net)
  <2> SUFFICES ASSUME NEW k \in DOMAIN B, FromPage(B[k], UserOf(op.turn))
               PROVE  FALSE
    BY <1>5, <1>20, <1>27 DEF Fresh
  <2>1. PICK i \in DOMAIN old : B[k] = old[i]
    BY <1>14 DEF SentB, FromPage
  <2>2. old[i] \in Messages /\ old[i].o < UserOf(op.turn)
    BY <1>4, <1>13
  <2> QED
    BY <2>1, <2>2, <1>3, <1>25 DEF FromPage, Messages
<1>33. Gone(q, net)
  <2> SUFFICES ASSUME NEW g \in net.gone
               PROVE  Absent(g, MsgsOf(q, g[1]))
    BY DEF Gone
  <2>1. g[1] \in Sessions /\ Absent(g, MsgsOf(rt, g[1]))
    BY <1>1 DEF Worlds, Shown, Gone
  <2>2. CASE g[1] = s
    <3> SUFFICES ASSUME NEW k \in DOMAIN B, Id(B[k]) = <<g[2], TRUE>>
                 PROVE  FALSE
      BY <2>2, <1>27 DEF Absent
    <3>1. B[k].saved = TRUE
      <4>1. <<B[k].o, B[k].saved>> = <<g[2], TRUE>>
        BY DEF Id
      <4> QED
        BY <4>1
    <3>2. PICK i \in DOMAIN old : B[k] = old[i]
      BY <3>1, <1>14 DEF SentB
    <3> QED
      BY <3>2, <2>1, <2>2 DEF Absent, MsgsOf
  <2>3. CASE g[1] # s
    BY <2>1, <2>3, <1>27
  <2> QED
    BY <2>2, <2>3
<1>34. Good(q, net)
  BY <1>1, <1>20, <1>26, <1>30, <1>31, <1>32, <1>33 DEF Good, Typed, Shown
<1>35. CASE t = None
  BY <1>7, <1>17, <1>34, <1>35 DEF IInv
<1>36. CASE t # None
  <2>1. Grows(q, net, net)
    BY <1>34, GrowsSelf
  <2>2. Grows(q, net, PostRun(net, t, op.turn))
    BY <2>1, <1>3, <1>4, <1>5, <1>20, <1>25, <1>36, PostGrows
  <2>3. Good(q, PostRun(net, t, op.turn))
    BY <2>2, <1>34, GrowsKeeps
  <2> QED
    BY <2>3, <1>7, <1>17, <1>36 DEF IInv
<1> QED
  BY <1>35, <1>36

LEMMA RunStepKeeps ==
  ASSUME IInv, RunStep
  PROVE  IInv'
<1>1. CASE \E s \in Sessions : Send(s) \/ Stop(s) \/ \E yes \in BOOLEAN : ResolveApproval(s, yes)
  BY <1>1, SendKeeps, StopKeeps, ResolveApprovalKeeps
<1>2. CASE (\E t \in Threads : ThreadIsCreated(t)) \/ ThreadIsBound \/ CreateThreadFails
  BY <1>2, ThreadIsCreatedKeeps, ThreadIsBoundKeeps, CreateThreadFailsKeeps
<1>3. CASE CancelReaches \/ CancelAnswered \/ CancelFails \/ StopGraceElapsed \/ AbortSeen
  BY <1>3, CancelReachesKeeps, CancelAnsweredKeeps, CancelFailsKeeps, StopGraceKeeps, AbortSeenKeeps
<1>4. CASE ReadEvent \/ StreamEnds \/ FlushTimer
  BY <1>4, ReadEventKeeps, StreamEndsKeeps, FlushTimerKeeps
<1>5. CASE \E a \in net.asks : DecisionReaches(a) \/ DecisionAnswered(a)
  BY <1>5, DecisionReachesKeeps, DecisionAnsweredKeeps
<1> QED
  BY <1>1, <1>2, <1>3, <1>4, <1>5 DEF RunStep

(***************************************************************************)
(* The runtime is disposed of: no request of its is current any more.      *)
(***************************************************************************)
LEMMA DisposeKeeps ==
  ASSUME IInv, Dispose
  PROVE  IInv'
<1>1. rt \in Runtimes /\ net \in Worlds /\ Core(rt, net) /\ Shown(rt, net)
  BY DEF IInv, Good, Typed
<1> DEFINE hops == [s \in Sessions |-> 0]
           subs == [s \in Sessions |-> FALSE]
           q == [rt EXCEPT !.disposed = TRUE, !.op = None, !.hops = hops, !.subs = subs]
           k == [net EXCEPT !.conn = "none", !.wire = <<>>]
           m == [k EXCEPT !.srv = NoRun]
<1>2. rt' = q /\ net' = Fault(m)
  BY DEF Dispose
<1>3. hops \in [Sessions -> Nat] /\ subs \in [Sessions -> BOOLEAN] /\ \A s \in Sessions : hops[s] = 0
  OBVIOUS
<1> HIDE DEF hops, subs
<1>4. /\ q \in Runtimes /\ q.snap = rt.snap /\ q.op = None /\ q.hops = hops /\ q.used = rt.used
      /\ q.lru = rt.lru /\ q.byThread = rt.byThread /\ q.turns = rt.turns /\ q.disposed = TRUE
  BY <1>1, <1>3 DEF Runtimes
<1>5. Present(q) = Present(rt)
  BY <1>4 DEF Present
<1> HIDE DEF q
<1>6. Core(q, net)
  <2>1. Known(q)
    BY <1>1, <1>3, <1>4, <1>5 DEF Core, Known
  <2>2. Requests(q) /\ OneRunOf(q) /\ Asked(q) /\ Served(q, net)
    BY <1>3, <1>4 DEF Requests, OneRunOf, Asked, Served
  <2>3. Stored(q, net)
    BY <1>1, <1>4 DEF Core, Stored
  <2>4. Paged(q, net)
    <3> SUFFICES ASSUME NEW p \in net.pages
                 PROVE  PageSound(q, net, p)
      BY DEF Paged
    <3>1. PageSound(rt, net, p) /\ p.s \in Sessions /\ p.req \in Nat
      BY <1>1 DEF Core, Paged, Worlds, PageRequests
    <3>2. p.req # q.hops[p.s]
      BY <3>1, <1>3, <1>4 DEF PageSound
    <3> QED
      BY <3>1, <3>2, <1>4, <1>5 DEF PageSound, ReplySound
  <2>5. Deleted(q, net)
    BY <1>1, <1>4 DEF Core, Deleted, Older, Running
  <2> QED
    BY <2>1, <2>2, <2>3, <2>4, <2>5 DEF Core
<1>7. Shown(q, net)
  BY <1>1, <1>4 DEF Shown, Placed, PlacedIn, Pair, Fresh, Gone, MsgsOf
<1>8. Good(q, net)
  BY <1>1, <1>4, <1>6, <1>7 DEF Good, Typed
<1>9. /\ k \in Worlds /\ k.pages = net.pages /\ k.dels = net.dels /\ k.gone = net.gone
      /\ k.log = net.log /\ k.srv = net.srv
  <2>1. <<>> \in Seq(Events)
    OBVIOUS
  <2> QED
    BY <2>1, <1>1 DEF Worlds
<1> HIDE DEF k
<1>10. Grows(q, net, k)
  BY <1>8, <1>9 DEF Grows, Good, Core, Stored
<1>11. NoRun.turn < q.turns /\ (NoRun.at # "none" => NoRun.turn >= 1)
  BY <1>1, <1>4, NoRunType DEF Runtimes, Core, Known
<1>12. Grows(q, net, m)
  BY <1>10, <1>11, NoRunType, SrvGrows
<1> HIDE DEF m
<1>13. Good(q, Fault(m))
  BY <1>8, <1>12, FaultGrows, GrowsKeeps
<1> QED
  BY <1>2, <1>13 DEF IInv

(***************************************************************************)
(* The invariant is inductive.                                             *)
(***************************************************************************)
LEMMA InitConsistent == Init => IInv
<1> SUFFICES ASSUME Init
             PROVE  IInv
  OBVIOUS
<1>0. PICK bound \in Scenarios : \E old \in SUBSET bound.threads :
        /\ RuntimeInit
        /\ WorldInit([t \in Threads |-> IF t \in old THEN UserOf(1)..AnswerOf(OldTurns) ELSE {}], bound)
  BY DEF Init
<1>1. PICK old \in SUBSET bound.threads :
        /\ RuntimeInit
        /\ WorldInit([t \in Threads |-> IF t \in old THEN UserOf(1)..AnswerOf(OldTurns) ELSE {}], bound)
  BY <1>0
<1> DEFINE logs == [t \in Threads |-> IF t \in old THEN UserOf(1)..AnswerOf(OldTurns) ELSE {}]
           threads == {t \in Threads : logs[t] # {}}
<1>2. OldTurns \in Nat /\ None \notin Sessions /\ None \notin Threads
  BY RuntimeAssumption
<1>3. PICK c \in Nat : c = OldTurns + 1
  BY <1>2
<1>4. c >= 1 /\ UserOf(1) = 2 /\ AnswerOf(OldTurns) = 2 * c - 1
  BY <1>2, <1>3 DEF UserOf, AnswerOf
<1>5. logs \in [Threads -> SUBSET Nat] /\ \A t \in Threads : logs[t] \subseteq 1..(2 * c - 1)
  <2>1. UserOf(1)..AnswerOf(OldTurns) \subseteq 1..(2 * c - 1) /\ UserOf(1)..AnswerOf(OldTurns) \subseteq Nat
    BY <1>3, <1>4
  <2> QED
    BY <2>1
<1>6. threads \in SUBSET Threads
  OBVIOUS
<1> HIDE DEF logs, threads
<1>7. InitialSnapshot(None) = NoSnapshot /\ NoSnapshot \in Snapshots /\ NoSnapshot.thread = None
      /\ NoSnapshot.msgs = <<>> /\ NoSnapshot.run = None
      /\ NoSnapshot.hist.req = 0 /\ NoSnapshot.hist.status = "idle"
  BY EmptySnapshot DEF NoSnapshot
<1>8. /\ rt.lru = <<>> /\ rt.used = {} /\ rt.active = None /\ rt.op = None /\ rt.turns = c /\ rt.disposed = FALSE
      /\ rt.snap = [s \in Sessions |-> NoSnapshot] /\ rt.byThread = [t \in Threads |-> None]
      /\ rt.hops = [s \in Sessions |-> 0] /\ rt.subs = [s \in Sessions |-> FALSE]
  BY <1>1, <1>3 DEF RuntimeInit
<1>9. rt \in Runtimes
  <2>1. <<>> \in Seq(Sessions)
    OBVIOUS
  <2>2. /\ [s \in Sessions |-> NoSnapshot] \in [Sessions -> Snapshots]
        /\ [t \in Threads |-> None] \in [Threads -> Sessions \cup {None}]
        /\ [s \in Sessions |-> 0] \in [Sessions -> Nat]
        /\ [s \in Sessions |-> FALSE] \in [Sessions -> BOOLEAN]
    BY <1>7
  <2> HIDE DEF NoSnapshot
  <2> QED
    BY <2>1, <2>2, <1>1, <1>3 DEF RuntimeInit, Runtimes
<1>10. /\ net.bound = bound /\ net.threads = threads /\ net.log = logs /\ net.srv = NoRun /\ net.wire = <<>>
       /\ net.conn = "none" /\ net.pages = {} /\ net.asks = {} /\ net.torn = {} /\ net.dels = {} /\ net.gone = {}
  BY <1>1 DEF WorldInit, logs, threads
<1>11. net \in Worlds
  <2>1. <<>> \in Seq(Events)
    OBVIOUS
  <2>2. net = [bound |-> bound, threads |-> threads, log |-> logs, srv |-> NoRun, wire |-> <<>>, conn |-> "none",
               pages |-> {}, asks |-> {}, torn |-> {}, dels |-> {}, gone |-> {}, drops |-> 0, loads |-> 0, faults |-> 0]
    BY <1>1 DEF WorldInit, logs, threads
  <2> QED
    BY <2>1, <2>2, <1>5, <1>6, NoRunType DEF Worlds
<1>12. Present(rt) = {}
  BY <1>8 DEF Present, Range
<1>13. \A s \in Sessions : rt.snap[s] = NoSnapshot /\ rt.hops[s] = 0
  BY <1>8
<1>14. \A t \in Threads : rt.byThread[t] = None
  BY <1>8
<1>15. Core(rt, net)
  <2>1. Known(rt) /\ Asked(rt) /\ Paged(rt, net) /\ Deleted(rt, net)
    BY <1>4, <1>8, <1>10, <1>12, <1>13 DEF Known, Asked, Paged, Deleted
  <2>2. Requests(rt) /\ Served(rt, net)
    BY <1>7, <1>13 DEF Requests, Served
  <2>3. OneRunOf(rt)
    BY <1>2, <1>7, <1>8, <1>12, <1>13, <1>14 DEF OneRunOf
  <2>4. Stored(rt, net)
    BY <1>4, <1>5, <1>8, <1>10, NoRunType DEF Stored
  <2> QED
    BY <2>1, <2>2, <2>3, <2>4 DEF Core
<1>16. Shown(rt, net)
  <2>1. \A s \in Sessions : MsgsOf(rt, s) = <<>>
    BY <1>7, <1>13 DEF MsgsOf
  <2>2. Placed(rt)
    BY <2>1 DEF Placed
  <2> QED
    BY <2>2, <1>8, <1>10 DEF Shown, Pair, Fresh, Gone
<1> QED
  BY <1>9, <1>11, <1>15, <1>16 DEF IInv, Good, Typed

LEMMA NextConsistent == IInv /\ [Next]_vars => IInv'
<1> SUFFICES ASSUME IInv, [Next]_vars
             PROVE  IInv'
  OBVIOUS
<1>1. CASE UNCHANGED vars
  BY <1>1 DEF vars, IInv
<1>2. CASE Next
  BY <1>2, SessionStepKeeps, HistoryStepKeeps, ServerStepKeeps, RunStepKeeps, DisposeKeeps DEF Next
<1> QED
  BY <1>1, <1>2

(* The sessions, their one operation and their pages of history stay       *)
(* consistent: one run at a time and its session never evicted, its        *)
(* question and its streaming answer in the window whatever page arrives,  *)
(* a page that loads always under way, a deleted answer never shown again  *)
(* (updateSession, pruneSessions, boundMessages, mergeHistory and          *)
(* finishOperation of conversation-runtime.ts).                            *)
THEOREM ConversationHolds == Spec => []RuntimeConsistent
<1>1. Spec => []IInv
  BY InitConsistent, NextConsistent, PTL DEF Spec
<1> QED
  BY <1>1, GoodIsConsistent, PTL
=============================================================================
