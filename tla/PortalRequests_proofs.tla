------------------------ MODULE PortalRequests_proofs ------------------------
(***************************************************************************)
(* The buffers of the portal's answers, for any characters, sizes, queries *)
(* and lists: what is decoded, escaped or appended stays inside.           *)
(***************************************************************************)
EXTENDS PortalRequests, SequenceTheorems, WellFoundedInduction, TLAPS

------------------------------------------------------------------------------
\* The loops of the code are recursive functions here.  One lemma says that such a
\* function exists, the other that what holds at its start and is kept holds all along.
LEMMA LeastOf ==
    ASSUME NEW T \in SUBSET Nat, T # {}
    PROVE  \E n \in T : \A m \in T : n <= m
<1> DEFINE R == OpToRel(<, Nat)
<1>1. PICK n \in T : \A m \in T : ~(<<m, n>> \in R)
  <2>1. IsWellFoundedOn(R, Nat)
    BY NatLessThanWellFounded
  <2> HIDE DEF R
  <2> QED BY <2>1, WFMin
<1>2. \A m \in T : ~(m < n)
  BY <1>1 DEF OpToRel
<1> QED BY <1>2

LEMMA NaturalsFrom ==
    ASSUME NEW T, 0 \in T, \A n \in Nat : n \in T => n + 1 \in T
    PROVE  Nat \subseteq T
<1> SUFFICES ASSUME Nat \ T # {} PROVE FALSE
  BY Zenon
<1>1. PICK n \in Nat \ T : \A m \in Nat \ T : n <= m
  BY LeastOf
<1>2. n # 0 /\ n - 1 \in Nat /\ n - 1 \in T
  BY <1>1
<1> QED
  BY <1>1, <1>2

\* V is the type of the function's values, Step what one turn makes of the value before.
IsRecursion(n, V, first, Step, g) ==
    /\ g \in [0..n -> V]
    /\ g[0] = first
    /\ \A k \in 1..n : g[k] = Step[k][g[k - 1]]

LEMMA RecursionExists ==
    \A V : \A first \in V, Step \in [Nat -> [V -> V]], n \in Nat :
        \E g : IsRecursion(n, V, first, Step, g)
<1> SUFFICES ASSUME NEW V, NEW first \in V, NEW Step \in [Nat -> [V -> V]]
             PROVE  \A n \in Nat : \E g : IsRecursion(n, V, first, Step, g)
  BY Zenon
<1> DEFINE Is(n, g) == IsRecursion(n, V, first, Step, g)
           T == {n \in Nat : \E g : Is(n, g)}
<1> USE DEF IsRecursion
<1>1. 0 \in T
  <2>1. Is(0, [k \in 0..0 |-> first])
    OBVIOUS
  <2> QED
    BY <2>1
<1>2. ASSUME NEW n \in Nat, n \in T PROVE n + 1 \in T
  <2>1. PICK g : Is(n, g)
    BY <1>2
  <2> DEFINE h == [k \in 0..(n + 1) |-> IF k = n + 1 THEN Step[n + 1][g[n]] ELSE g[k]]
  <2>2. g[n] \in V /\ Step[n + 1][g[n]] \in V
    BY <2>1
  <2>3. h \in [0..(n + 1) -> V] /\ h[0] = first
    BY <2>1, <2>2
  <2>4. h[n + 1] = Step[n + 1][h[n]]
    OBVIOUS
  <2>5. ASSUME NEW k \in 1..n PROVE h[k] = Step[k][h[k - 1]]
    <3>1. h[k] = g[k] /\ h[k - 1] = g[k - 1]
      OBVIOUS
    <3> QED
      BY <2>1, <3>1
  <2>6. Is(n + 1, h)
    <3> HIDE DEF h
    <3> QED
      BY <2>3, <2>4, <2>5
  <2> HIDE DEF h, Is
  <2> QED
    BY <2>6
<1> HIDE DEF T, IsRecursion
<1>3. Nat \subseteq T
  BY <1>1, <1>2, NaturalsFrom
<1> QED
  BY <1>3 DEF T

LEMMA RecursionKeeps ==
    ASSUME NEW V, NEW n \in Nat, NEW f, f[0] \in V,
           \A k \in 1..n : f[k - 1] \in V => f[k] \in V
    PROVE  \A k \in 0..n : f[k] \in V
<1> DEFINE T == {k \in Nat : k <= n => f[k] \in V}
<1>1. 0 \in T
  OBVIOUS
<1>2. ASSUME NEW k \in Nat, k \in T PROVE k + 1 \in T
  <2> SUFFICES ASSUME k + 1 <= n PROVE f[k + 1] \in V
    OBVIOUS
  <2>1. k + 1 \in 1..n /\ (k + 1) - 1 = k
    OBVIOUS
  <2> QED
    BY <1>2, <2>1
<1> HIDE DEF T
<1>3. Nat \subseteq T
  BY <1>1, <1>2, NaturalsFrom
<1> QED
  BY <1>3 DEF T

------------------------------------------------------------------------------
\* JsonEscapeString, for the widths that an escape can have.
Widths == 1..6

EscapeLoop(name, size, di) ==
    di = [n \in 0..Len(name) |->
            IF n = 0 THEN 0
            ELSE IF di[n - 1] < size - 6 THEN di[n - 1] + name[n] ELSE di[n - 1]]

LEMMA EscapeLoopExists ==
    ASSUME NEW name \in Seq(Widths), NEW size \in Nat
    PROVE  \E di : EscapeLoop(name, size, di)
<1> DEFINE Step == [k \in Nat |-> [di \in Nat |->
                      IF k \in 1..Len(name) /\ di < size - 6 THEN di + name[k] ELSE di]]
<1>1. Step \in [Nat -> [Nat -> Nat]]
  <2>1. ASSUME NEW k \in Nat, NEW di \in Nat
        PROVE  (IF k \in 1..Len(name) /\ di < size - 6 THEN di + name[k] ELSE di) \in Nat
    <3>1. k \in 1..Len(name) => name[k] \in Nat
      BY DEF Widths
    <3> QED
      BY <3>1
  <2> QED
    BY <2>1
<1>2. PICK g : IsRecursion(Len(name), Nat, 0, Step, g)
  <2> HIDE DEF Step
  <2>1. Len(name) \in Nat /\ 0 \in Nat
    OBVIOUS
  <2> QED
    BY <1>1, <2>1, RecursionExists, Zenon
<1>3. ASSUME NEW k \in 1..Len(name)
      PROVE  g[k] = IF g[k - 1] < size - 6 THEN g[k - 1] + name[k] ELSE g[k - 1]
  <2>1. k \in Nat /\ k - 1 \in 0..Len(name)
    OBVIOUS
  <2>2. g[k] = Step[k][g[k - 1]]
    BY <1>2, Zenon DEF IsRecursion
  <2>3. g[k - 1] \in Nat
    BY <1>2, <2>1, Zenon DEF IsRecursion
  <2> QED
    BY <2>1, <2>2, <2>3
<1>4. EscapeLoop(name, size, g)
  <2> HIDE DEF Step
  <2> QED
    BY <1>2, <1>3 DEF EscapeLoop, IsRecursion
<1> QED
  BY <1>4

\* CaptivePortalHttp.cpp:317-349: whatever the name, its escape and the terminator stay
\* inside a buffer that has room for one escape.
THEOREM EscapeFits ==
    \A name \in Seq(1..6), size \in Nat :
        size > 6 => JsonEscapeString(name, size) \in 0..(size - 1)
<1> SUFFICES ASSUME NEW name \in Seq(Widths), NEW size \in Nat, size > 6
             PROVE  JsonEscapeString(name, size) \in 0..(size - 1)
  BY DEF Widths
<1> DEFINE di == CHOOSE di : EscapeLoop(name, size, di)
<1>1. JsonEscapeString(name, size) = di[Len(name)]
  BY DEF JsonEscapeString, EscapeLoop
<1>2. EscapeLoop(name, size, di)
  BY EscapeLoopExists
<1> HIDE DEF di
<1>3. di[0] \in 0..(size - 1)
  BY <1>2 DEF EscapeLoop
<1>4. ASSUME NEW k \in 1..Len(name), di[k - 1] \in 0..(size - 1)
      PROVE  di[k] \in 0..(size - 1)
  <2>1. di[k] = IF di[k - 1] < size - 6 THEN di[k - 1] + name[k] ELSE di[k - 1]
    BY <1>2 DEF EscapeLoop
  <2>2. name[k] \in 1..6
    BY DEF Widths
  <2> QED
    BY <1>4, <2>1, <2>2
<1>5. \A k \in 0..Len(name) : di[k] \in 0..(size - 1)
  <2> DEFINE V == 0..(size - 1)
  <2>1. di[0] \in V /\ \A k \in 1..Len(name) : di[k - 1] \in V => di[k] \in V
    BY <1>3, <1>4
  <2>2. Len(name) \in Nat
    OBVIOUS
  <2> HIDE DEF V
  <2>3. \A k \in 0..Len(name) : di[k] \in V
    BY <2>1, <2>2, RecursionKeeps, Zenon
  <2> QED
    BY <2>3 DEF V
<1> QED
  BY <1>1, <1>5

------------------------------------------------------------------------------
\* What FlattenSeq and the form's fields are made of stays a sequence.
FlattenLoop(seqs, flatten) ==
    flatten = [i \in 1..Len(seqs) |-> IF i = 1 THEN seqs[i] ELSE flatten[i - 1] \o seqs[i]]

LEMMA FlattenLoopExists ==
    ASSUME NEW S, NEW seqs \in Seq(Seq(S)), seqs # <<>>
    PROVE  \E flatten : FlattenLoop(seqs, flatten)
<1> DEFINE Step == [k \in Nat |-> [s \in Seq(S) |->
                      IF k + 1 \in 1..Len(seqs) THEN s \o seqs[k + 1] ELSE s]]
<1>1. Step \in [Nat -> [Seq(S) -> Seq(S)]]
  <2>1. ASSUME NEW k \in Nat, NEW s \in Seq(S)
        PROVE  (IF k + 1 \in 1..Len(seqs) THEN s \o seqs[k + 1] ELSE s) \in Seq(S)
    <3>1. k + 1 \in 1..Len(seqs) => seqs[k + 1] \in Seq(S)
      OBVIOUS
    <3> QED
      BY <3>1
  <2> QED
    BY <2>1
<1>2. Len(seqs) \in Nat /\ Len(seqs) # 0 /\ Len(seqs) - 1 \in Nat /\ seqs[1] \in Seq(S)
  OBVIOUS
<1>3. PICK g : IsRecursion(Len(seqs) - 1, Seq(S), seqs[1], Step, g)
  <2> HIDE DEF Step
  <2> QED
    BY <1>1, <1>2, RecursionExists, Zenon
<1> DEFINE h == [i \in 1..Len(seqs) |-> g[i - 1]]
<1>4. ASSUME NEW i \in 1..Len(seqs), i # 1
      PROVE  h[i] = h[i - 1] \o seqs[i]
  <2>1. /\ i - 1 \in 1..(Len(seqs) - 1) /\ i - 1 \in Nat /\ (i - 1) + 1 = i
        /\ i - 1 \in 1..Len(seqs) /\ (i - 1) - 1 \in 0..(Len(seqs) - 1)
    BY <1>2, <1>4
  <2>2. g[i - 1] = Step[i - 1][g[(i - 1) - 1]]
    BY <1>3, <2>1, Zenon DEF IsRecursion
  <2>3. g[(i - 1) - 1] \in Seq(S)
    BY <1>3, <2>1, Zenon DEF IsRecursion
  <2>4. Step[i - 1][g[(i - 1) - 1]] = g[(i - 1) - 1] \o seqs[i]
    BY <2>1, <2>3
  <2> QED
    BY <2>1, <2>2, <2>4
<1>5. h[1] = seqs[1]
  <2>1. g[0] = seqs[1]
    BY <1>3, Zenon DEF IsRecursion
  <2> QED
    BY <1>2, <2>1
<1>6. FlattenLoop(seqs, h)
  <2>1. h = [i \in 1..Len(seqs) |-> h[i]]
    OBVIOUS
  <2>2. \A i \in 1..Len(seqs) :
           h[i] = IF i = 1 THEN seqs[i] ELSE h[i - 1] \o seqs[i]
    BY <1>4, <1>5, Zenon
  <2> HIDE DEF h
  <2> QED
    BY <2>1, <2>2 DEF FlattenLoop
<1> QED
  BY <1>6

\* Where the parts of a flattened sequence are: part k fills the places from at[k - 1] + 1
\* to at[k].
IsLaidOut(seqs, flat, at) ==
    /\ at[0] = 0 /\ at[Len(seqs)] = Len(flat)
    /\ \A k \in 0..Len(seqs) : at[k] \in 0..Len(flat)
    /\ \A k \in 1..Len(seqs) :
          /\ at[k] = at[k - 1] + Len(seqs[k])
          /\ \A i \in 1..Len(seqs[k]) : flat[at[k - 1] + i] = seqs[k][i]

\* The loop starts with the empty sequence and adds one part at a time.
IsFlattening(S, seqs, p) ==
    /\ p \in [0..Len(seqs) -> Seq(S)]
    /\ p[0] = <<>> /\ p[Len(seqs)] = FlattenSeq(seqs)
    /\ \A k \in 1..Len(seqs) : p[k] = p[k - 1] \o seqs[k]

LEMMA FlattenGrows ==
    ASSUME NEW S, NEW seqs \in Seq(Seq(S))
    PROVE  \E p : IsFlattening(S, seqs, p)
<1>1. CASE seqs = <<>>
  <2> DEFINE p == [k \in 0..0 |-> <<>>]
  <2>1. p \in [0..0 -> Seq(S)] /\ p[0] = <<>> /\ Len(seqs) = 0
    BY <1>1, EmptySeq
  <2>2. FlattenSeq(seqs) = <<>>
    BY <1>1 DEF FlattenSeq
  <2> HIDE DEF p
  <2>3. IsFlattening(S, seqs, p)
    BY <2>1, <2>2 DEF IsFlattening
  <2> QED
    BY <2>3
<1>2. CASE seqs # <<>>
  <2> DEFINE flatten == CHOOSE flatten : FlattenLoop(seqs, flatten)
             p == [k \in 0..Len(seqs) |-> IF k = 0 THEN <<>> ELSE flatten[k]]
             V == Seq(S)
  <2>1. Len(seqs) \in Nat /\ Len(seqs) # 0
    BY <1>2
  <2>2. FlattenSeq(seqs) = flatten[Len(seqs)]
    BY <2>1 DEF FlattenSeq, FlattenLoop
  <2>3. FlattenLoop(seqs, flatten)
    BY <1>2, FlattenLoopExists
  <2> HIDE DEF flatten
  <2>4. p[0] = <<>> /\ \A k \in 1..Len(seqs) : p[k] = flatten[k]
    BY <2>1
  <2>5. ASSUME NEW k \in 1..Len(seqs) PROVE p[k] = p[k - 1] \o seqs[k]
    <3>1. seqs[k] \in Seq(S) /\ flatten[k] = IF k = 1 THEN seqs[k] ELSE flatten[k - 1] \o seqs[k]
      <4>1. seqs[k] \in Seq(S)
        OBVIOUS
      <4>2. flatten[k] = IF k = 1 THEN seqs[k] ELSE flatten[k - 1] \o seqs[k]
        BY <2>3, Zenon DEF FlattenLoop
      <4> QED
        BY <4>1, <4>2
    <3>2. CASE k = 1
      <4>1. k - 1 = 0 /\ <<>> \o seqs[k] = seqs[k]
        BY <3>1, <3>2, ConcatEmptySeq
      <4> HIDE DEF p
      <4> QED
        BY <2>4, <3>1, <3>2, <4>1
    <3>3. CASE k # 1
      <4>1. k - 1 \in 1..Len(seqs)
        BY <2>1, <3>3
      <4> HIDE DEF p
      <4> QED
        BY <2>4, <3>1, <3>3, <4>1
    <3> QED
      BY <3>2, <3>3
  <2>6. p = [k \in 0..Len(seqs) |-> p[k]]
    OBVIOUS
  <2> HIDE DEF p
  <2>7. p[0] \in V
    BY <2>4, EmptySeq
  <2>8. ASSUME NEW k \in 1..Len(seqs), p[k - 1] \in V PROVE p[k] \in V
    <3>1. seqs[k] \in Seq(S)
      OBVIOUS
    <3>2. p[k] = p[k - 1] \o seqs[k] /\ p[k - 1] \in Seq(S)
      BY <2>5, <2>8
    <3> QED
      BY <3>1, <3>2, ConcatProperties
  <2> HIDE DEF V
  <2>9. \A k \in 0..Len(seqs) : p[k] \in V
    BY <2>1, <2>7, <2>8, RecursionKeeps, Zenon
  <2>10. p \in [0..Len(seqs) -> Seq(S)]
    BY <2>6, <2>9 DEF V
  <2>11. p[Len(seqs)] = FlattenSeq(seqs)
    BY <2>1, <2>2, <2>4
  <2>12. IsFlattening(S, seqs, p)
    BY <2>4, <2>5, <2>10, <2>11 DEF IsFlattening
  <2> QED
    BY <2>12
<1> QED
  BY <1>1, <1>2

LEMMA FlattenType ==
    ASSUME NEW S, NEW seqs \in Seq(Seq(S))
    PROVE  FlattenSeq(seqs) \in Seq(S)
<1>1. PICK p : IsFlattening(S, seqs, p)
  BY FlattenGrows
<1>2. Len(seqs) \in 0..Len(seqs)
  OBVIOUS
<1> QED
  BY <1>1, <1>2 DEF IsFlattening

LEMMA ConcatAt ==
    ASSUME NEW S, NEW s \in Seq(S), NEW t \in Seq(S)
    PROVE  /\ s \o t \in Seq(S) /\ Len(s \o t) = Len(s) + Len(t)
           /\ \A i \in 1..Len(s) : (s \o t)[i] = s[i]
           /\ \A i \in 1..Len(t) : (s \o t)[Len(s) + i] = t[i]
<1> DEFINE both == s \o t
<1>1. /\ both \in Seq(S) /\ Len(both) = Len(s) + Len(t)
      /\ \A i \in 1..(Len(s) + Len(t)) : both[i] = IF i <= Len(s) THEN s[i] ELSE t[i - Len(s)]
  BY ConcatProperties
<1>2. Len(s) \in Nat /\ Len(t) \in Nat
  BY LenProperties
<1> HIDE DEF both
<1>3. \A i \in 1..Len(s) : both[i] = s[i]
  BY <1>1, <1>2
<1>4. ASSUME NEW i \in 1..Len(t) PROVE both[Len(s) + i] = t[i]
  <2>1. /\ Len(s) + i \in 1..(Len(s) + Len(t)) /\ ~(Len(s) + i <= Len(s))
        /\ (Len(s) + i) - Len(s) = i
    BY <1>2
  <2> QED
    BY <1>1, <2>1
<1> QED
  BY <1>1, <1>3, <1>4 DEF both

LEMMA FlattenPlaces ==
    ASSUME NEW S, NEW seqs \in Seq(Seq(S))
    PROVE  \E at : IsLaidOut(seqs, FlattenSeq(seqs), at)
<1> DEFINE n == Len(seqs)
           flat == FlattenSeq(seqs)
           Begins(s, t) == Len(s) <= Len(t) /\ \A i \in 1..Len(s) : t[i] = s[i]
<1>1. PICK p : IsFlattening(S, seqs, p)
  BY FlattenGrows
<1>2. n \in Nat /\ flat \in Seq(S) /\ \A k \in 1..n : seqs[k] \in Seq(S)
  BY FlattenType
<1>3. /\ \A k \in 0..n : p[k] \in Seq(S)
      /\ p[0] = <<>> /\ p[n] = flat
      /\ \A k \in 1..n : p[k] = p[k - 1] \o seqs[k]
  BY <1>1 DEF IsFlattening
<1> HIDE DEF n, flat
\* One part more.
<1>4. ASSUME NEW k \in 1..n
      PROVE  /\ Len(p[k]) = Len(p[k - 1]) + Len(seqs[k])
             /\ Len(p[k]) \in Nat /\ Len(p[k - 1]) \in Nat /\ Len(p[k - 1]) <= Len(p[k])
             /\ \A i \in 1..Len(seqs[k]) : Len(p[k - 1]) + i \in 1..Len(p[k])
             /\ \A i \in 1..Len(p[k - 1]) : p[k][i] = p[k - 1][i]
             /\ \A i \in 1..Len(seqs[k]) : p[k][Len(p[k - 1]) + i] = seqs[k][i]
  <2> DEFINE s == p[k - 1]
             t == seqs[k]
             both == s \o t
  <2>1. k - 1 \in 0..n
    BY <1>2
  <2>2. s \in Seq(S) /\ t \in Seq(S) /\ p[k] = both
    BY <1>2, <1>3, <2>1
  <2> HIDE DEF s, t
  <2>3. /\ Len(both) = Len(s) + Len(t)
        /\ \A i \in 1..Len(s) : both[i] = s[i]
        /\ \A i \in 1..Len(t) : both[Len(s) + i] = t[i]
    BY <2>2, ConcatAt
  <2>4. Len(s) \in Nat /\ Len(t) \in Nat
    BY <2>2, LenProperties
  <2> HIDE DEF both
  <2>5. /\ Len(both) \in Nat /\ Len(s) <= Len(both)
        /\ \A i \in 1..Len(t) : Len(s) + i \in 1..Len(both)
    BY <2>3, <2>4
  <2> QED
    BY <2>2, <2>3, <2>4, <2>5 DEF s, t
\* What is laid out stays.
<1>5. ASSUME NEW k \in 0..n PROVE Begins(p[k], flat)
  <2> DEFINE T == {m \in Nat : k + m <= n => Begins(p[k], p[k + m])}
  <2>1. 0 \in T
    <3>1. k + 0 = k /\ Len(p[k]) \in Nat
      BY <1>2, <1>3, LenProperties
    <3> QED
      BY <3>1
  <2>2. ASSUME NEW m \in Nat, m \in T PROVE m + 1 \in T
    <3> SUFFICES ASSUME k + (m + 1) <= n PROVE Begins(p[k], p[k + (m + 1)])
      OBVIOUS
    <3> DEFINE j == k + (m + 1)
    <3>1. j \in 1..n /\ j - 1 = k + m /\ k + m <= n /\ k + m \in 0..n
      BY <1>2
    <3>2. Begins(p[k], p[j - 1])
      BY <2>2, <3>1
    <3> HIDE DEF j
    <3>3. Len(p[k]) \in Nat
      BY <1>3, LenProperties
    <3>4. /\ Len(p[j - 1]) \in Nat /\ Len(p[j - 1]) <= Len(p[j]) /\ Len(p[j]) \in Nat
          /\ \A i \in 1..Len(p[j - 1]) : p[j][i] = p[j - 1][i]
      <4>1. j \in 1..n
        BY <3>1
      <4> QED
        BY <1>4, <4>1, Zenon
    <3>5. ASSUME NEW i \in 1..Len(p[k]) PROVE p[j][i] = p[k][i]
      <4>1. i \in 1..Len(p[j - 1])
        BY <3>2, <3>3, <3>4
      <4> QED
        BY <3>2, <3>4, <4>1
    <3>6. Begins(p[k], p[j])
      BY <3>2, <3>3, <3>4, <3>5
    <3> QED
      BY <3>6 DEF j
  <2> HIDE DEF T
  <2>3. Nat \subseteq T
    BY <2>1, <2>2, NaturalsFrom
  <2>4. PICK m \in Nat : k + m = n
    <3>1. n - k \in Nat /\ k + (n - k) = n
      BY <1>2
    <3> QED
      BY <3>1
  <2>5. m \in T
    BY <2>3
  <2>6. Begins(p[k], p[k + m])
    BY <1>2, <2>4, <2>5 DEF T
  <2> QED
    BY <1>3, <2>4, <2>6
<1> DEFINE at == [k \in 0..n |-> Len(p[k])]
<1>6. \A k \in 0..n : at[k] = Len(p[k]) /\ at[k] \in 0..Len(flat)
  <2> TAKE k \in 0..n
  <2>1. Len(p[k]) \in Nat /\ Len(p[k]) <= Len(flat) /\ Len(flat) \in Nat
    BY <1>2, <1>3, <1>5, LenProperties
  <2> QED
    BY <2>1
<1>7. at[0] = 0 /\ at[n] = Len(flat)
  BY <1>2, <1>3, <1>6
<1> HIDE DEF at
<1>8. ASSUME NEW k \in 1..n
      PROVE  /\ at[k] = at[k - 1] + Len(seqs[k])
             /\ \A i \in 1..Len(seqs[k]) : flat[at[k - 1] + i] = seqs[k][i]
  <2>1. k \in 0..n /\ k - 1 \in 0..n
    BY <1>2
  <2>2. at[k] = Len(p[k]) /\ at[k - 1] = Len(p[k - 1])
    BY <1>6, <2>1
  <2>3. ASSUME NEW i \in 1..Len(seqs[k]) PROVE flat[at[k - 1] + i] = seqs[k][i]
    <3>1. at[k - 1] + i \in 1..Len(p[k])
      <4>1. Len(p[k - 1]) + i \in 1..Len(p[k])
        BY <1>4, Zenon
      <4> QED
        BY <2>2, <4>1
    <3>2. flat[at[k - 1] + i] = p[k][at[k - 1] + i]
      BY <1>5, <2>1, <3>1
    <3>3. p[k][Len(p[k - 1]) + i] = seqs[k][i]
      BY <1>4
    <3> QED
      BY <2>2, <3>2, <3>3
  <2>4. Len(p[k]) = Len(p[k - 1]) + Len(seqs[k])
    BY <1>4
  <2> QED
    BY <2>2, <2>3, <2>4
<1>9. IsLaidOut(seqs, flat, at)
  BY <1>6, <1>7, <1>8 DEF IsLaidOut, n
<1> QED
  BY <1>9 DEF flat

\* The characters of a form, and those of its fields once they are encoded.
Escaped == {" ", "%", "&", "+", "="}
Digit   == {"0", "2", "3", "5", "6", "B", "D"}
Chars   == Symbols \cup Escaped \cup Digit \cup {"ssid", "password"}
Encoded == Chars \ {"&", "="}

\* No two escapes begin, or go on, in the same way.
LEMMA EscapesDiffer ==
    /\ \A x \in Escapes : x[1] \in Escaped /\ x[2] \in Digit /\ x[3] \in Digit
    /\ \A c : IsEscaped(c) <=> c \in Escaped
    /\ \A x, y \in Escapes : x[2] = y[2] /\ x[3] = y[3] => x[1] = y[1]
<1> DEFINE a == <<" ", "2", "0">>
           b == <<"%", "2", "5">>
           c == <<"&", "2", "6">>
           d == <<"+", "2", "B">>
           e == <<"=", "3", "D">>
<1>1. /\ a[1] = " " /\ a[2] = "2" /\ a[3] = "0"
      /\ b[1] = "%" /\ b[2] = "2" /\ b[3] = "5"
      /\ c[1] = "&" /\ c[2] = "2" /\ c[3] = "6"
      /\ d[1] = "+" /\ d[2] = "2" /\ d[3] = "B"
      /\ e[1] = "=" /\ e[2] = "3" /\ e[3] = "D"
  OBVIOUS
<1>2. Escapes = {a, b, c, d, e}
  BY DEF Escapes
<1> HIDE DEF a, b, c, d, e
<1>3. \A x \in Escapes : x[1] \in Escaped /\ x[2] \in Digit /\ x[3] \in Digit
  BY <1>1, <1>2 DEF Escaped, Digit
<1>4. \A s : IsEscaped(s) <=> s \in Escaped
  BY <1>1, <1>2 DEF IsEscaped, Escaped
<1>5. ASSUME NEW x \in Escapes, NEW y \in Escapes, x[2] = y[2], x[3] = y[3]
      PROVE  x[1] = y[1]
  BY <1>1, <1>2, <1>5
<1> QED
  BY <1>3, <1>4, <1>5

\* What encodeURIComponent makes of one character.
EscapeOf(c) == CHOOSE x \in Escapes : x[1] = c
Piece(c) == IF IsEscaped(c) THEN <<"%", EscapeOf(c)[2], EscapeOf(c)[3]>> ELSE <<c>>
Pieces(text) == [i \in DOMAIN text |-> Piece(text[i])]

LEMMA PieceIs ==
    ASSUME NEW c
    PROVE  /\ IsEscaped(c) => /\ EscapeOf(c) \in Escapes /\ EscapeOf(c)[1] = c
                              /\ Len(Piece(c)) = 3 /\ Piece(c)[1] = "%"
                              /\ Piece(c)[2] = EscapeOf(c)[2] /\ Piece(c)[3] = EscapeOf(c)[3]
           /\ ~IsEscaped(c) => Len(Piece(c)) = 1 /\ Piece(c)[1] = c
           /\ c \in Symbols => Piece(c) \in Seq(Encoded)
<1>1. CASE IsEscaped(c)
  <2>1. EscapeOf(c) \in Escapes /\ EscapeOf(c)[1] = c
    BY <1>1, Zenon DEF IsEscaped, EscapeOf
  <2> DEFINE x == EscapeOf(c)[2]
             y == EscapeOf(c)[3]
  <2>2. Piece(c) = <<"%", x, y>>
    BY <1>1 DEF Piece
  <2>3. x \in Digit /\ y \in Digit
    BY <2>1, EscapesDiffer
  <2>4. x \in Encoded /\ y \in Encoded /\ "%" \in Encoded
    BY <2>3 DEF Encoded, Chars, Digit, Escaped
  <2> HIDE DEF x, y
  <2>5. <<"%", x, y>> \in Seq(Encoded) /\ Len(<<"%", x, y>>) = 3
        /\ <<"%", x, y>>[1] = "%" /\ <<"%", x, y>>[2] = x /\ <<"%", x, y>>[3] = y
    BY <2>4
  <2> QED
    BY <1>1, <2>1, <2>2, <2>5 DEF x, y
<1>2. CASE ~IsEscaped(c)
  <2>1. Piece(c) = <<c>>
    BY <1>2 DEF Piece
  <2>2. c \in Symbols => c \in Encoded
    BY <1>2, EscapesDiffer DEF Encoded, Chars, Escaped
  <2> QED
    BY <1>2, <2>1, <2>2
<1> QED
  BY <1>1, <1>2

LEMMA EncodePieces ==
    ASSUME NEW text \in Seq(Symbols)
    PROVE  /\ EncodeURIComponent(text) = FlattenSeq(Pieces(text))
           /\ Pieces(text) \in Seq(Seq(Encoded)) /\ Len(Pieces(text)) = Len(text)
           /\ \A k \in 1..Len(text) : Pieces(text)[k] = Piece(text[k])
           /\ EncodeURIComponent(text) \in Seq(Encoded)
<1>1. EncodeURIComponent(text) = FlattenSeq(Pieces(text))
  BY DEF EncodeURIComponent, Pieces, Piece, EscapeOf
<1>2. DOMAIN text = 1..Len(text) /\ Len(text) \in Nat
      /\ \A i \in 1..Len(text) : text[i] \in Symbols
  OBVIOUS
<1>3. \A i \in 1..Len(text) : Piece(text[i]) \in Seq(Encoded)
  BY <1>2, PieceIs
<1>4. Pieces(text) \in Seq(Seq(Encoded)) /\ Len(Pieces(text)) = Len(text)
  BY <1>2, <1>3 DEF Pieces
<1>5. \A k \in 1..Len(text) : Pieces(text)[k] = Piece(text[k])
  BY <1>2 DEF Pieces
<1> QED
  BY <1>1, <1>4, <1>5, FlattenType

LEMMA EncodeType ==
    ASSUME NEW text \in Seq(Symbols)
    PROVE  EncodeURIComponent(text) \in Seq(Chars)
BY EncodePieces DEF Encoded

LEMMA FormType ==
    ASSUME NEW name \in Seq(Symbols), NEW password \in Seq(Symbols)
    PROVE  FormOf(name, password) \in Seq(Chars)
<1>1. <<"ssid", "=">> \in Seq(Chars) /\ <<"&", "password", "=">> \in Seq(Chars)
  BY DEF Chars, Escaped, Digit
<1> QED
  BY <1>1, EncodeType DEF FormOf

------------------------------------------------------------------------------
\* UrlDecode.  What is decoded at position i, before what follows.
CharAt(text, i) ==
    IF EscapesAt(text, i) # {} THEN (CHOOSE e \in EscapesAt(text, i) : TRUE)[1]
    ELSE IF text[i] = "+" THEN " " ELSE text[i]

DecodeLoop(text, decoded) ==
    decoded = [i \in 1..(Len(text) + 1) |->
                 IF i > Len(text) THEN <<>>
                 ELSE IF EscapesAt(text, i) # {}
                      THEN <<(CHOOSE e \in EscapesAt(text, i) : TRUE)[1]>> \o decoded[i + 3]
                 ELSE <<IF text[i] = "+" THEN " " ELSE text[i]>> \o decoded[i + 1]]

LEMMA CharAtType ==
    ASSUME NEW text \in Seq(Chars), NEW i \in 1..Len(text)
    PROVE  CharAt(text, i) \in Chars
<1>1. \A x \in Escapes : x[1] \in Chars
  <2> SUFFICES ASSUME NEW x \in Escapes PROVE x[1] \in {" ", "%", "&", "+", "="}
    BY DEF Chars, Escaped, Digit
  <2>1. CASE x = <<" ", "2", "0">>
    BY <2>1
  <2>2. CASE x = <<"%", "2", "5">>
    BY <2>2
  <2>3. CASE x = <<"&", "2", "6">>
    BY <2>3
  <2>4. CASE x = <<"+", "2", "B">>
    BY <2>4
  <2>5. CASE x = <<"=", "3", "D">>
    BY <2>5
  <2> QED
    BY <2>1, <2>2, <2>3, <2>4, <2>5, Zenon DEF Escapes
<1>2. CASE EscapesAt(text, i) # {}
  <2>1. (CHOOSE e \in EscapesAt(text, i) : TRUE) \in Escapes
    BY <1>2, Zenon DEF EscapesAt
  <2> QED
    BY <1>1, <1>2, <2>1, Zenon DEF CharAt
<1>3. CASE EscapesAt(text, i) = {}
  <2>1. text[i] \in Chars
    OBVIOUS
  <2>2. " " \in Chars
    BY DEF Chars, Escaped, Digit
  <2> QED
    BY <1>3, <2>1, <2>2, Zenon DEF CharAt
<1> QED
  BY <1>2, <1>3

\* The turns run from the end: each keeps what the last three have decoded.
LEMMA DecodeLoopExists ==
    ASSUME NEW text \in Seq(Chars)
    PROVE  \E decoded : DecodeLoop(text, decoded)
<1> DEFINE L == Len(text)
           V == [here : Seq(Chars), next : Seq(Chars), third : Seq(Chars)]
           After(i, v) == IF EscapesAt(text, i) # {} THEN v.third ELSE v.here
           Turn(i, v) == [here  |-> <<CharAt(text, i)>> \o After(i, v),
                          next  |-> v.here,
                          third |-> v.next]
           Step == [k \in Nat |-> [v \in V |->
                      IF k \in 1..L THEN Turn(L + 1 - k, v) ELSE v]]
           first == [here |-> <<>>, next |-> <<>>, third |-> <<>>]
<1>1. L \in Nat
  OBVIOUS
<1>2. ASSUME NEW i \in 1..L, NEW v \in V PROVE Turn(i, v) \in V
  <2>1. <<CharAt(text, i)>> \in Seq(Chars)
    BY CharAtType
  <2>2. After(i, v) \in Seq(Chars)
    OBVIOUS
  <2> HIDE DEF After
  <2>3. <<CharAt(text, i)>> \o After(i, v) \in Seq(Chars)
    BY <2>1, <2>2
  <2> QED
    BY <2>3
<1>3. Step \in [Nat -> [V -> V]]
  <2>1. ASSUME NEW k \in Nat, NEW v \in V
        PROVE  (IF k \in 1..L THEN Turn(L + 1 - k, v) ELSE v) \in V
    <3>1. k \in 1..L => L + 1 - k \in 1..L
      BY <1>1
    <3> HIDE DEF L, V, Turn
    <3> QED
      BY <1>2, <3>1
  <2> HIDE DEF L, V, Turn
  <2> QED
    BY <2>1
<1>4. first \in V
  OBVIOUS
<1>5. PICK g : IsRecursion(L, V, first, Step, g)
  <2> HIDE DEF L, V, first, Step
  <2> QED
    BY <1>1, <1>3, <1>4, RecursionExists, Zenon
<1>6. ASSUME NEW k \in 1..L
      PROVE  g[k] = Turn(L + 1 - k, g[k - 1]) /\ g[k - 1] \in V
  <2>1. k \in Nat /\ k - 1 \in 0..L
    BY <1>1
  <2>2. g[k] = Step[k][g[k - 1]] /\ g[k - 1] \in V
    BY <1>5, <2>1, Zenon DEF IsRecursion
  <2> HIDE DEF L, V, Turn
  <2> QED
    BY <2>1, <2>2
<1>7. g[0] = first
  BY <1>5, Zenon DEF IsRecursion
<1> HIDE DEF Step
<1>8. ASSUME NEW k \in 3..L PROVE g[k - 1].third = g[k - 3].here
  <2>1. /\ k - 1 \in 1..L /\ (k - 1) - 1 = k - 2
        /\ k - 2 \in 1..L /\ (k - 2) - 1 = k - 3
    BY <1>1
  <2>2. g[k - 1] = Turn(L + 1 - (k - 1), g[k - 2])
    BY <1>6, <2>1
  <2>3. g[k - 2] = Turn(L + 1 - (k - 2), g[k - 3])
    BY <1>6, <2>1
  <2>4. g[k - 1].third = g[k - 2].next
    BY <2>2
  <2>5. g[k - 2].next = g[k - 3].here
    BY <2>3
  <2> QED
    BY <2>4, <2>5
<1> DEFINE d == [i \in 1..(L + 1) |-> g[L + 1 - i].here]
<1>9. d[L + 1] = <<>>
  BY <1>1, <1>7
<1>10. ASSUME NEW i \in 1..L
       PROVE  d[i] = <<CharAt(text, i)>>
                        \o (IF EscapesAt(text, i) # {} THEN d[i + 3] ELSE d[i + 1])
  <2>1. /\ L + 1 - i \in 1..L /\ L + 1 - (L + 1 - i) = i
        /\ (L + 1 - i) - 1 = L + 1 - (i + 1)
        /\ i \in 1..(L + 1) /\ i + 1 \in 1..(L + 1)
    BY <1>1
  <2>2. d[i] = <<CharAt(text, i)>> \o After(i, g[L + 1 - (i + 1)])
    <3> HIDE DEF L
    <3>1. g[L + 1 - i] = Turn(i, g[L + 1 - (i + 1)])
      BY <1>6, <2>1
    <3>2. d[i] = g[L + 1 - i].here
      BY <2>1
    <3> QED
      BY <3>1, <3>2
  <2>3. d[i + 1] = g[L + 1 - (i + 1)].here
    <3> HIDE DEF L
    <3> QED BY <2>1
  <2>4. ASSUME EscapesAt(text, i) # {}
        PROVE  d[i + 3] = g[L + 1 - (i + 1)].third
    <3>1. i + 2 <= L
      BY <2>4 DEF EscapesAt
    <3> HIDE DEF L
    <3>2. /\ i + 3 \in 1..(L + 1) /\ L + 1 - i \in 3..L
          /\ (L + 1 - i) - 1 = L + 1 - (i + 1) /\ (L + 1 - i) - 3 = L + 1 - (i + 3)
      BY <1>1, <3>1
    <3>3. d[i + 3] = g[L + 1 - (i + 3)].here
      BY <3>2
    <3> HIDE DEF d
    <3> QED
      BY <1>8, <3>2, <3>3
  <2> HIDE DEF d, L
  <2> QED
    BY <2>2, <2>3, <2>4
<1>11. DecodeLoop(text, d)
  <2>1. d = [i \in 1..(L + 1) |-> d[i]]
    OBVIOUS
  <2>2. ASSUME NEW i \in 1..(L + 1)
        PROVE  d[i] = IF i > L THEN <<>>
                      ELSE IF EscapesAt(text, i) # {}
                           THEN <<(CHOOSE e \in EscapesAt(text, i) : TRUE)[1]>> \o d[i + 3]
                      ELSE <<IF text[i] = "+" THEN " " ELSE text[i]>> \o d[i + 1]
    <3> HIDE DEF d
    <3>1. CASE i > L
      <4>1. i = L + 1
        BY <1>1, <3>1
      <4> QED
        BY <1>9, <3>1, <4>1
    <3>2. CASE ~(i > L)
      <4>1. i \in 1..L
        BY <1>1, <3>2
      <4> HIDE DEF L
      <4> QED
        BY <1>10, <3>2, <4>1, Zenon DEF CharAt
    <3> QED
      BY <3>1, <3>2
  <2> HIDE DEF d
  <2> QED
    BY <2>1, <2>2 DEF DecodeLoop
<1> QED
  BY <1>11

\* CaptivePortalHttp.cpp:254-274: whatever the text, what is decoded and its terminator
\* stay inside the buffer.
THEOREM DecodeFits ==
    \A text \in Seq(Chars), size \in Nat \ {0} :
        Len(UrlDecode(text, size)) \in 0..(size - 1)
<1> SUFFICES ASSUME NEW text \in Seq(Chars), NEW size \in Nat \ {0}
             PROVE  Len(UrlDecode(text, size)) \in 0..(size - 1)
  OBVIOUS
<1> DEFINE d == CHOOSE decoded : DecodeLoop(text, decoded)
           L == Len(text)
           f == [k \in 0..L |-> d[L + 1 - k]]
<1>1. UrlDecode(text, size)
        = SubSeq(d[1], 1, IF Len(d[1]) < size THEN Len(d[1]) ELSE size - 1)
  BY DEF UrlDecode, DecodeLoop
<1>2. DecodeLoop(text, d)
  BY DecodeLoopExists
<1> HIDE DEF d
<1>3. L \in Nat
  OBVIOUS
<1> DEFINE T == {k \in Nat : \A i \in 1..(L + 1) : L + 1 - i <= k => d[i] \in Seq(Chars)}
<1>4. 0 \in T
  <2>1. d[L + 1] \in Seq(Chars)
    <3>1. L + 1 \in 1..(L + 1) /\ L + 1 > L
      BY <1>3
    <3>2. d[L + 1] = <<>>
      BY <1>2, <3>1, Zenon DEF DecodeLoop
    <3> QED
      BY <3>2, EmptySeq
  <2>2. ASSUME NEW i \in 1..(L + 1), L + 1 - i <= 0 PROVE d[i] \in Seq(Chars)
    <3>1. i = L + 1
      BY <1>3, <2>2
    <3> QED
      BY <2>1, <3>1, Zenon
  <2> HIDE DEF L
  <2> QED
    BY <2>2
<1>5. ASSUME NEW k \in Nat, k \in T PROVE k + 1 \in T
  <2>1. ASSUME NEW i \in 1..(L + 1), L + 1 - i <= k + 1 PROVE d[i] \in Seq(Chars)
    <3>1. CASE i = L + 1
      <4>1. 0 \in T
        BY <1>4
      <4>2. L + 1 - i <= 0
        BY <1>3, <3>1
      <4> HIDE DEF L
      <4> QED
        BY <4>1, <4>2
    <3>2. CASE i # L + 1
      <4>1. i \in 1..L /\ i + 1 \in 1..(L + 1) /\ L + 1 - (i + 1) <= k
        BY <1>3, <2>1, <3>2
      <4>2. d[i + 1] \in Seq(Chars)
        BY <1>5, <4>1
      <4>3. EscapesAt(text, i) # {} => d[i + 3] \in Seq(Chars)
        <5>1. EscapesAt(text, i) # {} => i + 2 <= L
          BY DEF EscapesAt
        <5>2. i + 2 <= L => i + 3 \in 1..(L + 1) /\ L + 1 - (i + 3) <= k
          BY <1>3, <4>1
        <5> HIDE DEF L
        <5> QED
          BY <1>5, <5>1, <5>2
      <4>4. d[i] = <<CharAt(text, i)>>
                     \o (IF EscapesAt(text, i) # {} THEN d[i + 3] ELSE d[i + 1])
        <5>1. ~(i > Len(text)) /\ i \in 1..(Len(text) + 1)
          BY <1>3, <4>1
        <5>2. d[i] = IF i > Len(text) THEN <<>>
                     ELSE IF EscapesAt(text, i) # {}
                      THEN <<(CHOOSE e \in EscapesAt(text, i) : TRUE)[1]>> \o d[i + 3]
                     ELSE <<IF text[i] = "+" THEN " " ELSE text[i]>> \o d[i + 1]
          BY <1>2, <5>1, Zenon DEF DecodeLoop
        <5> QED
          BY <5>1, <5>2, Zenon DEF CharAt
      <4>5. <<CharAt(text, i)>> \in Seq(Chars)
        BY <4>1, CharAtType
      <4> HIDE DEF L
      <4> QED
        BY <4>2, <4>3, <4>4, <4>5
    <3> QED
      BY <3>1, <3>2
  <2> HIDE DEF L
  <2> QED
    BY <2>1
<1>6. d[1] \in Seq(Chars)
  <2>1. L \in T
    <3> HIDE DEF T, L
    <3> QED BY <1>3, <1>4, <1>5, NaturalsFrom
  <2>2. 1 \in 1..(L + 1) /\ L + 1 - 1 <= L
    BY <1>3
  <2> HIDE DEF L
  <2> QED
    BY <2>1, <2>2
<1> DEFINE n == IF Len(d[1]) < size THEN Len(d[1]) ELSE size - 1
<1>7. n \in 0..(size - 1) /\ n <= Len(d[1])
  BY <1>6
<1>8. Len(SubSeq(d[1], 1, n)) = n
  <2> HIDE DEF n
  <2> QED
    BY <1>6, <1>7
<1> HIDE DEF n
<1> QED
  BY <1>1, <1>7, <1>8 DEF n

------------------------------------------------------------------------------
\* What was typed comes back.
LEMMA FirstOfSubSeq ==
    ASSUME NEW S, NEW s \in Seq(S), NEW k \in 1..Len(s)
    PROVE  <<s[k]>> \o SubSeq(s, k + 1, Len(s)) = SubSeq(s, k, Len(s))
<1> DEFINE one  == <<s[k]>>
           rest == SubSeq(s, k + 1, Len(s))
           both == one \o rest
           from == SubSeq(s, k, Len(s))
<1>1. Len(s) \in Nat /\ k \in Nat /\ k <= Len(s) /\ \A i \in 1..Len(s) : s[i] \in S
  OBVIOUS
<1>2. one \in Seq(S) /\ Len(one) = 1 /\ one[1] = s[k]
  BY <1>1
<1>3. /\ rest \in Seq(S) /\ Len(rest) = Len(s) - k
      /\ \A i \in 1..(Len(s) - k) : rest[i] = s[k + i]
  <2>1. \A i \in (k + 1)..Len(s) : s[i] \in S
    BY <1>1
  <2>2. /\ rest \in Seq(S)
        /\ Len(rest) = IF k + 1 <= Len(s) THEN Len(s) - (k + 1) + 1 ELSE 0
        /\ \A i \in 1..(Len(s) - (k + 1) + 1) : rest[i] = s[(k + 1) + i - 1]
    BY <1>1, <2>1, SubSeqProperties
  <2> HIDE DEF rest
  <2>3. Len(rest) = Len(s) - k
    BY <1>1, <2>2
  <2>4. ASSUME NEW i \in 1..(Len(s) - k) PROVE rest[i] = s[k + i]
    <3>1. i \in 1..(Len(s) - (k + 1) + 1) /\ (k + 1) + i - 1 = k + i
      BY <1>1
    <3> QED
      BY <2>2, <3>1
  <2> QED
    BY <2>2, <2>3, <2>4
<1>4. /\ from \in Seq(S) /\ Len(from) = Len(s) - k + 1
      /\ \A i \in 1..(Len(s) - k + 1) : from[i] = s[k + i - 1]
  <2>1. \A i \in k..Len(s) : s[i] \in S
    BY <1>1
  <2> QED
    BY <1>1, <2>1, SubSeqProperties
<1> HIDE DEF one, rest, from
<1>5. /\ both \in Seq(S) /\ Len(both) = 1 + Len(rest)
      /\ \A i \in 1..(1 + Len(rest)) : both[i] = IF i <= 1 THEN one[i] ELSE rest[i - 1]
  <2>1. /\ both \in Seq(S) /\ Len(both) = Len(one) + Len(rest)
        /\ \A i \in 1..(Len(one) + Len(rest)) :
              both[i] = IF i <= Len(one) THEN one[i] ELSE rest[i - Len(one)]
    BY <1>2, <1>3, ConcatProperties
  <2> QED
    BY <1>2, <2>1
<1> HIDE DEF both
<1>6. ASSUME NEW i \in 1..Len(both) PROVE both[i] = from[i]
  <2>1. from[i] = s[k + i - 1]
    BY <1>1, <1>3, <1>4, <1>5
  <2>2. CASE i = 1
    BY <1>1, <1>2, <1>3, <1>5, <2>1, <2>2
  <2>3. CASE i # 1
    <3>1. PICK m \in 1..(Len(s) - k) : i = m + 1
      <4>1. i - 1 \in 1..(Len(s) - k) /\ i = (i - 1) + 1
        BY <1>1, <1>3, <1>5, <2>3
      <4> QED
        BY <4>1
    <3>2. both[i] = rest[m]
      BY <1>1, <1>3, <1>5, <3>1
    <3>3. rest[m] = s[k + m] /\ k + i - 1 = k + m
      BY <1>1, <1>3, <3>1
    <3> QED
      BY <2>1, <3>2, <3>3
  <2> QED
    BY <2>2, <2>3
<1>7. both = from
  BY <1>1, <1>3, <1>4, <1>5, <1>6, SeqEqual
<1> QED
  BY <1>7 DEF both, one, rest, from

\* portal.html:180 with CaptivePortalHttp.cpp:254-274: what encodeURIComponent writes,
\* UrlDecode reads back, cut to its buffer: for every text, a "%" and two digits that
\* were typed among them.
THEOREM DecodeUndoesEncode ==
    \A text \in Seq(Symbols), size \in Nat \ {0} :
        UrlDecode(EncodeURIComponent(text), size) = Cut(text, size)
<1> SUFFICES ASSUME NEW text \in Seq(Symbols), NEW size \in Nat \ {0}
             PROVE  UrlDecode(EncodeURIComponent(text), size) = Cut(text, size)
  OBVIOUS
<1> DEFINE n == Len(text)
           t == EncodeURIComponent(text)
           d == CHOOSE decoded : DecodeLoop(t, decoded)
           pieces == Pieces(text)
<1>1. n \in Nat /\ t \in Seq(Encoded) /\ t \in Seq(Chars) /\ Len(t) \in Nat
      /\ \A k \in 1..n : text[k] \in Symbols
  BY EncodePieces, EncodeType
<1>2. PICK at : IsLaidOut(pieces, t, at)
  BY EncodePieces, FlattenPlaces
<1>3. /\ at[0] = 0 /\ at[n] = Len(t)
      /\ \A k \in 0..n : at[k] \in 0..Len(t)
      /\ \A k \in 1..n :
            /\ at[k] = at[k - 1] + Len(Piece(text[k]))
            /\ \A i \in 1..Len(Piece(text[k])) : t[at[k - 1] + i] = Piece(text[k])[i]
  BY <1>2, EncodePieces DEF IsLaidOut
<1>4. UrlDecode(t, size) = SubSeq(d[1], 1, IF Len(d[1]) < size THEN Len(d[1]) ELSE size - 1)
  BY DEF UrlDecode, DecodeLoop
<1>5. DecodeLoop(t, d)
  BY <1>1, DecodeLoopExists
<1> HIDE DEF d
<1>6. /\ d[Len(t) + 1] = <<>>
      /\ \A i \in 1..Len(t) :
            d[i] = <<CharAt(t, i)>> \o (IF EscapesAt(t, i) # {} THEN d[i + 3] ELSE d[i + 1])
  <2>1. ASSUME NEW i \in 1..(Len(t) + 1)
        PROVE  d[i] = IF i > Len(t) THEN <<>>
                      ELSE IF EscapesAt(t, i) # {}
                           THEN <<(CHOOSE e \in EscapesAt(t, i) : TRUE)[1]>> \o d[i + 3]
                      ELSE <<IF t[i] = "+" THEN " " ELSE t[i]>> \o d[i + 1]
    BY <1>5, Zenon DEF DecodeLoop
  <2>2. Len(t) + 1 \in 1..(Len(t) + 1) /\ Len(t) + 1 > Len(t)
    BY <1>1
  <2>3. ASSUME NEW i \in 1..Len(t) PROVE i \in 1..(Len(t) + 1) /\ ~(i > Len(t))
    BY <1>1
  <2> HIDE DEF t
  <2>4. d[Len(t) + 1] = <<>>
    BY <2>1, <2>2, Zenon
  <2>5. ASSUME NEW i \in 1..Len(t)
        PROVE  d[i] = <<CharAt(t, i)>> \o (IF EscapesAt(t, i) # {} THEN d[i + 3] ELSE d[i + 1])
    BY <2>1, <2>3, Zenon DEF CharAt
  <2> QED
    BY <2>4, <2>5
<1> HIDE DEF t, n, pieces
\* One character is read back.
<1>7. ASSUME NEW k \in 1..n
      PROVE  d[at[k - 1] + 1] = <<text[k]>> \o d[at[k] + 1]
  <2> DEFINE c == text[k]
             b == at[k - 1]
             i == b + 1
  <2>1. /\ b \in Nat /\ at[k] \in Nat /\ at[k] <= Len(t)
        /\ at[k] = b + Len(Piece(c))
        /\ \A m \in 1..Len(Piece(c)) : t[b + m] = Piece(c)[m]
    <3>1. k - 1 \in 0..n /\ k \in 0..n
      BY <1>1
    <3>2. at[k - 1] \in 0..Len(t) /\ at[k] \in 0..Len(t)
      BY <1>3, <3>1
    <3>3. /\ at[k] = b + Len(Piece(c))
          /\ \A m \in 1..Len(Piece(c)) : t[b + m] = Piece(c)[m]
      BY <1>3
    <3> QED
      BY <1>1, <3>2, <3>3
  <2> HIDE DEF c, b
  <2>2. CASE IsEscaped(c)
    <3> DEFINE e == EscapeOf(c)
    <3>1. /\ e \in Escapes /\ e[1] = c /\ Len(Piece(c)) = 3 /\ Piece(c)[1] = "%"
          /\ Piece(c)[2] = e[2] /\ Piece(c)[3] = e[3]
      BY <2>2, PieceIs
    <3>2. 1 \in 1..3 /\ 2 \in 1..3 /\ 3 \in 1..3
      OBVIOUS
    <3> HIDE DEF e
    <3>3. at[k] = b + 3 /\ t[b + 1] = "%" /\ t[b + 2] = e[2] /\ t[b + 3] = e[3]
      BY <2>1, <3>1, <3>2
    <3>4. /\ i + 1 = b + 2 /\ i + 2 = b + 3 /\ i + 3 = at[k] + 1
          /\ i + 2 <= Len(t) /\ i \in 1..Len(t)
      BY <1>1, <2>1, <3>3
    <3> HIDE DEF i
    <3>5. t[i] = "%" /\ t[i + 1] = e[2] /\ t[i + 2] = e[3]
      BY <3>3, <3>4 DEF i
    <3>6. e \in EscapesAt(t, i)
      BY <3>1, <3>4, <3>5 DEF EscapesAt
    <3>7. \A x \in EscapesAt(t, i) : x[1] = c
      BY <3>1, <3>5, EscapesDiffer DEF EscapesAt
    <3>8. CharAt(t, i) = c /\ EscapesAt(t, i) # {}
      BY <3>6, <3>7, Zenon DEF CharAt
    <3>9. d[i] = <<c>> \o d[i + 3]
      BY <1>6, <3>4, <3>8
    <3> QED
      BY <3>4, <3>9 DEF c, i, b
  <2>3. CASE ~IsEscaped(c)
    <3>1. Len(Piece(c)) = 1 /\ Piece(c)[1] = c
      BY <2>3, PieceIs
    <3>2. 1 \in 1..1
      OBVIOUS
    <3>3. at[k] = b + 1 /\ t[b + 1] = c
      BY <2>1, <3>1, <3>2
    <3>4. i + 1 = at[k] + 1 /\ i \in 1..Len(t)
      BY <1>1, <2>1, <3>3
    <3>5. c # "%" /\ c # "+"
      BY <2>3, EscapesDiffer DEF Escaped
    <3> HIDE DEF i
    <3>6. t[i] = c
      BY <3>3 DEF i
    <3>7. EscapesAt(t, i) = {} /\ CharAt(t, i) = c
      BY <3>5, <3>6 DEF EscapesAt, CharAt
    <3>8. d[i] = <<c>> \o d[i + 1]
      BY <1>6, <3>4, <3>7
    <3> QED
      BY <3>4, <3>8 DEF c, i, b
  <2> QED
    BY <2>2, <2>3
\* From the end, what is left of the text is read back.
<1> DEFINE T == {m \in Nat : \A k \in 0..n : n - k = m => d[at[k] + 1] = SubSeq(text, k + 1, n)}
<1>8. 0 \in T
  <2> SUFFICES ASSUME NEW k \in 0..n, n - k = 0 PROVE d[at[k] + 1] = SubSeq(text, k + 1, n)
    OBVIOUS
  <2>1. k = n
    BY <1>1
  <2>2. SubSeq(text, n + 1, n) = <<>>
    BY <1>1, SubSeqEmpty
  <2>3. d[at[n] + 1] = <<>>
    BY <1>3, <1>6
  <2> QED
    BY <2>1, <2>2, <2>3
<1>9. ASSUME NEW m \in Nat, m \in T PROVE m + 1 \in T
  <2> SUFFICES ASSUME NEW k \in 0..n, n - k = m + 1
               PROVE  d[at[k] + 1] = SubSeq(text, k + 1, n)
    OBVIOUS
  <2> DEFINE j == k + 1
  <2>1. j \in 1..n /\ j - 1 = k /\ j \in 0..n /\ n - j = m
    BY <1>1
  <2>2. d[at[j] + 1] = SubSeq(text, j + 1, n)
    BY <1>9, <2>1
  <2> HIDE DEF j
  <2>3. d[at[k] + 1] = <<text[j]>> \o d[at[j] + 1]
    <3>1. d[at[j - 1] + 1] = <<text[j]>> \o d[at[j] + 1]
      BY <1>7, <2>1
    <3> QED
      BY <2>1, <3>1
  <2>4. <<text[j]>> \o SubSeq(text, j + 1, n) = SubSeq(text, j, n)
    BY <2>1, FirstOfSubSeq DEF n
  <2> QED
    BY <2>2, <2>3, <2>4 DEF j
<1> HIDE DEF T
<1>10. d[1] = SubSeq(text, 1, n)
  <2>1. n \in T
    BY <1>1, <1>8, <1>9, NaturalsFrom
  <2>2. 0 \in 0..n /\ n - 0 = n /\ 0 + 1 = 1
    BY <1>1
  <2>3. d[at[0] + 1] = SubSeq(text, 0 + 1, n)
    BY <2>1, <2>2 DEF T
  <2> QED
    BY <1>3, <2>2, <2>3
<1>11. SubSeq(text, 1, n) = text
  BY DEF n
<1> QED
  BY <1>4, <1>10, <1>11 DEF Cut, t

------------------------------------------------------------------------------
\* The form is taken apart again.
LEMMA SizesType ==
    /\ SsidSize \in Nat \ {0} /\ PasswordSize \in Nat \ {0}
    /\ MaxName \in Nat /\ MaxPass \in Nat
    /\ \A length \in QueryLengths : length \in Nat /\ 12 <= length /\ length <= 512
    /\ QuestionCounts \subseteq Nat
BY RequestAssumption

LEMMA SubSeqIs ==
    ASSUME NEW S, NEW s \in Seq(S), NEW b \in Seq(S), NEW m \in Nat,
           m + Len(s) <= Len(b), \A i \in 1..Len(s) : b[m + i] = s[i]
    PROVE  SubSeq(b, m + 1, m + Len(s)) = s
<1> DEFINE part == SubSeq(b, m + 1, m + Len(s))
           L == Len(s)
<1>1. L \in Nat /\ \A i \in (m + 1)..(m + L) : b[i] \in S
  <2>1. Len(s) \in Nat /\ Len(b) \in Nat /\ \A i \in 1..Len(b) : b[i] \in S
    BY LenProperties
  <2> QED
    BY <2>1
<1>2. /\ part \in Seq(S)
      /\ Len(part) = IF m + 1 <= m + L THEN (m + L) - (m + 1) + 1 ELSE 0
      /\ \A i \in 1..((m + L) - (m + 1) + 1) : part[i] = b[(m + 1) + i - 1]
  <2> HIDE DEF part
  <2> QED
    BY <1>1, SubSeqProperties DEF part
<1> HIDE DEF part, L
<1>3. Len(part) = L
  BY <1>1, <1>2
<1>4. ASSUME NEW i \in 1..L PROVE part[i] = s[i]
  <2>1. i \in 1..((m + L) - (m + 1) + 1) /\ (m + 1) + i - 1 = m + i
    BY <1>1
  <2> QED
    BY <1>2, <2>1 DEF L
<1>5. part = s
  BY <1>2, <1>3, <1>4, SeqEqual DEF L
<1> QED
  BY <1>5 DEF part, L

\* A field whose name is at place j and nowhere before.
FieldAt(text, name, j, value) ==
    /\ text[j] = name /\ text[j + 1] = "=" /\ (j = 1 \/ text[j - 1] = "&")
    /\ j + 1 + Len(value) <= Len(text)
    /\ \A i \in 1..Len(value) : text[(j + 1) + i] = value[i]
    /\ j + 1 + Len(value) = Len(text) \/ text[j + 1 + Len(value) + 1] = "&"
    /\ \A k \in FieldStarts(text, name) : j + 2 <= k

LEMMA FieldFound ==
    ASSUME NEW text \in Seq(Chars), NEW name, NEW j \in Nat \ {0}, NEW value \in Seq(Encoded),
           FieldAt(text, name, j, value), NEW size
    PROVE  /\ FieldStarts(text, name) # {}
           /\ FindFormField(text, name, size) = UrlDecode(value, size)
<1> DEFINE L     == Len(value)
           starts == FieldStarts(text, name)
           first == CHOOSE i \in starts : \A k \in starts : i <= k
           ends  == {i \in first..Len(text) : text[i] = "&"} \cup {Len(text) + 1}
           end   == CHOOSE i \in ends : \A k \in ends : i <= k
<1>1. FindFormField(text, name, size) = UrlDecode(SubSeq(text, first, end - 1), size)
  BY DEF FindFormField
<1>2. L \in Nat /\ Len(text) \in Nat /\ j + 1 + L <= Len(text)
  BY DEF FieldAt
<1>3. j + 2 \in starts /\ starts \subseteq Nat
  <2>1. j \in 1..(Len(text) - 1)
    BY <1>2
  <2>2. j \in {k \in 1..(Len(text) - 1) :
                  (k = 1 \/ text[k - 1] = "&") /\ text[k] = name /\ text[k + 1] = "="}
    BY <2>1 DEF FieldAt
  <2> QED
    BY <2>2 DEF FieldStarts
<1>4. first = j + 2
  <2>1. \A k \in starts : j + 2 <= k
    BY DEF FieldAt
  <2> HIDE DEF starts
  <2>2. first \in starts /\ \A k \in starts : first <= k
    BY <1>3, <2>1
  <2> HIDE DEF first
  <2>3. first <= j + 2 /\ j + 2 <= first /\ first \in Nat
    BY <1>3, <2>1, <2>2
  <2> QED
    BY <2>3
<1> HIDE DEF first
<1>5. \A i \in first..(j + 1 + L) : text[i] # "&"
  <2> TAKE i \in first..(j + 1 + L)
  <2>1. PICK m \in 1..L : i = (j + 1) + m
    <3>1. i - (j + 1) \in 1..L /\ i = (j + 1) + (i - (j + 1))
      BY <1>2, <1>4
    <3> QED
      BY <3>1
  <2>2. text[i] = value[m] /\ value[m] \in Encoded
    BY <2>1 DEF FieldAt
  <2> QED
    BY <2>2 DEF Encoded
<1>6. j + 2 + L \in ends /\ \A k \in ends : k \in Nat /\ j + 2 + L <= k
  <2>1. j + 2 + L \in ends
    <3>1. CASE j + 1 + L = Len(text)
      <4>1. j + 2 + L = Len(text) + 1
        BY <1>2, <3>1
      <4> QED
        BY <4>1
    <3>2. CASE j + 1 + L # Len(text)
      <4>1. text[j + 1 + L + 1] = "&" /\ j + 1 + L + 1 = j + 2 + L
        BY <1>2, <3>2 DEF FieldAt
      <4>2. j + 2 + L \in first..Len(text)
        BY <1>2, <1>4, <3>2
      <4> QED
        BY <4>1, <4>2
    <3> QED
      BY <3>1, <3>2
  <2>2. ASSUME NEW k \in ends PROVE k \in Nat /\ j + 2 + L <= k
    <3>1. CASE k = Len(text) + 1
      BY <1>2, <3>1
    <3>2. CASE k \in first..Len(text) /\ text[k] = "&"
      <4>1. k \notin first..(j + 1 + L)
        BY <1>5, <3>2
      <4> HIDE DEF L
      <4> QED
        BY <1>2, <1>4, <3>2, <4>1
    <3> QED
      BY <3>1, <3>2
  <2> HIDE DEF ends
  <2> QED
    BY <2>1, <2>2
<1>7. end = j + 2 + L
  <2> HIDE DEF ends, L
  <2>1. end \in ends /\ \A k \in ends : end <= k
    BY <1>6
  <2> HIDE DEF end
  <2>2. end <= j + 2 + L /\ j + 2 + L <= end /\ end \in Nat
    BY <1>6, <2>1
  <2> QED
    BY <1>2, <2>2
<1> HIDE DEF end
<1>8. SubSeq(text, first, end - 1) = value
  <2>1. SubSeq(text, (j + 1) + 1, (j + 1) + Len(value)) = value
    <3>1. value \in Seq(Chars) /\ j + 1 \in Nat /\ (j + 1) + Len(value) <= Len(text)
      BY DEF Encoded, FieldAt
    <3>2. \A i \in 1..Len(value) : text[(j + 1) + i] = value[i]
      BY DEF FieldAt
    <3> DEFINE m == j + 1
    <3> HIDE DEF m
    <3>3. m \in Nat /\ m + Len(value) <= Len(text) /\ \A i \in 1..Len(value) : text[m + i] = value[i]
      BY <3>1, <3>2 DEF m
    <3>4. SubSeq(text, m + 1, m + Len(value)) = value
      BY <3>1, <3>3, SubSeqIs
    <3> QED
      BY <3>4 DEF m
  <2>2. first = (j + 1) + 1 /\ end - 1 = (j + 1) + Len(value)
    BY <1>2, <1>4, <1>7
  <2> QED
    BY <2>1, <2>2
<1> QED
  BY <1>1, <1>3, <1>8

\* Where the parts of the form are.
IsMadeOf(S, form, a, n, b, p) ==
    /\ form \in Seq(S) /\ Len(form) = ((Len(a) + Len(n)) + Len(b)) + Len(p)
    /\ \A i \in 1..Len(a) : form[i] = a[i]
    /\ \A i \in 1..Len(n) : form[Len(a) + i] = n[i]
    /\ \A i \in 1..Len(b) : form[(Len(a) + Len(n)) + i] = b[i]
    /\ \A i \in 1..Len(p) : form[((Len(a) + Len(n)) + Len(b)) + i] = p[i]

LEMMA FormPlaces ==
    ASSUME NEW S, NEW a \in Seq(S), NEW n \in Seq(S), NEW b \in Seq(S), NEW p \in Seq(S)
    PROVE  IsMadeOf(S, a \o n \o b \o p, a, n, b, p)
<1> DEFINE an == a \o n
           anb == an \o b
           form == anb \o p
<1>1. Len(a) \in Nat /\ Len(n) \in Nat /\ Len(b) \in Nat /\ Len(p) \in Nat
  BY LenProperties
<1>2. /\ an \in Seq(S) /\ Len(an) = Len(a) + Len(n)
      /\ \A i \in 1..Len(a) : an[i] = a[i]
      /\ \A i \in 1..Len(n) : an[Len(a) + i] = n[i]
  BY ConcatAt
<1> HIDE DEF an
<1>3. /\ anb \in Seq(S) /\ Len(anb) = Len(an) + Len(b)
      /\ \A i \in 1..Len(an) : anb[i] = an[i]
      /\ \A i \in 1..Len(b) : anb[Len(an) + i] = b[i]
  <2>1. an \in Seq(S)
    BY <1>2
  <2> QED
    BY <2>1, ConcatAt
<1> HIDE DEF anb
<1>4. /\ form \in Seq(S) /\ Len(form) = Len(anb) + Len(p)
      /\ \A i \in 1..Len(anb) : form[i] = anb[i]
      /\ \A i \in 1..Len(p) : form[Len(anb) + i] = p[i]
  <2>1. anb \in Seq(S)
    BY <1>3
  <2> QED
    BY <2>1, ConcatAt
<1> HIDE DEF form
<1>5. ASSUME NEW i \in 1..Len(a) PROVE form[i] = a[i]
  <2>1. i \in 1..Len(an) /\ i \in 1..Len(anb)
    BY <1>1, <1>2, <1>3
  <2> QED
    BY <1>2, <1>3, <1>4, <2>1
<1>6. ASSUME NEW i \in 1..Len(n) PROVE form[Len(a) + i] = n[i]
  <2>1. Len(a) + i \in 1..Len(an) /\ Len(a) + i \in 1..Len(anb)
    BY <1>1, <1>2, <1>3
  <2> QED
    BY <1>2, <1>3, <1>4, <2>1
<1>7. ASSUME NEW i \in 1..Len(b) PROVE form[(Len(a) + Len(n)) + i] = b[i]
  <2>1. Len(an) + i \in 1..Len(anb)
    BY <1>1, <1>2, <1>3
  <2> QED
    BY <1>2, <1>3, <1>4, <2>1
<1>8. ASSUME NEW i \in 1..Len(p) PROVE form[((Len(a) + Len(n)) + Len(b)) + i] = p[i]
  BY <1>2, <1>3, <1>4
<1> QED
  BY <1>2, <1>3, <1>4, <1>5, <1>6, <1>7, <1>8 DEF form, anb, an, IsMadeOf

LEMMA FormIsRead ==
    ASSUME NEW name \in Seq(Symbols), NEW password \in Seq(Symbols), NEW delivered,
           ParsePost(FormOf(name, password), delivered).answer = "ok"
    PROVE  ParsePost(FormOf(name, password), delivered).event
             = [ssid |-> Cut(name, SsidSize), password |-> Cut(password, PasswordSize)]
<1> DEFINE N == EncodeURIComponent(name)
           P == EncodeURIComponent(password)
           a == <<"ssid", "=">>
           b == <<"&", "password", "=">>
           form == a \o N \o b \o P
<1>1. N \in Seq(Encoded) /\ P \in Seq(Encoded) /\ N \in Seq(Chars) /\ P \in Seq(Chars)
  BY EncodePieces, EncodeType
<1>2. /\ a \in Seq(Chars) /\ Len(a) = 2 /\ a[1] = "ssid" /\ a[2] = "="
      /\ b \in Seq(Chars) /\ Len(b) = 3 /\ b[1] = "&" /\ b[2] = "password" /\ b[3] = "="
  BY DEF Chars, Escaped, Digit
<1>3. FormOf(name, password) = form
  BY DEF FormOf
<1> HIDE DEF a, b, N, P
<1>4. /\ form \in Seq(Chars) /\ Len(form) = ((Len(a) + Len(N)) + Len(b)) + Len(P)
      /\ \A i \in 1..Len(a) : form[i] = a[i]
      /\ \A i \in 1..Len(N) : form[Len(a) + i] = N[i]
      /\ \A i \in 1..Len(b) : form[(Len(a) + Len(N)) + i] = b[i]
      /\ \A i \in 1..Len(P) : form[((Len(a) + Len(N)) + Len(b)) + i] = P[i]
  <2>1. a \in Seq(Chars) /\ N \in Seq(Chars) /\ b \in Seq(Chars) /\ P \in Seq(Chars)
    BY <1>1, <1>2
  <2>2. IsMadeOf(Chars, form, a, N, b, P)
    BY <2>1, FormPlaces
  <2> QED
    BY <2>2 DEF IsMadeOf
<1> HIDE DEF form
<1> DEFINE L == Len(N)
           j == L + 4
<1>5. L \in Nat /\ Len(P) \in Nat
  BY <1>1, LenProperties
<1>6. /\ Len(form) = L + 5 + Len(P)
      /\ form[1] = "ssid" /\ form[2] = "="
      /\ \A i \in 1..L : form[2 + i] = N[i]
      /\ form[L + 3] = "&" /\ form[L + 4] = "password" /\ form[L + 5] = "="
      /\ \A i \in 1..Len(P) : form[(L + 5) + i] = P[i]
  <2>1. 1 \in 1..2 /\ 2 \in 1..2 /\ 1 \in 1..3 /\ 2 \in 1..3 /\ 3 \in 1..3
    OBVIOUS
  <2>2. form[1] = "ssid" /\ form[2] = "="
    BY <1>2, <1>4, <2>1
  <2>3. /\ (2 + L) + 1 = L + 3 /\ (2 + L) + 2 = L + 4 /\ (2 + L) + 3 = L + 5
    BY <1>5
  <2>4. form[(2 + L) + 1] = "&" /\ form[(2 + L) + 2] = "password" /\ form[(2 + L) + 3] = "="
    BY <1>2, <1>4, <2>1
  <2>5. Len(form) = L + 5 + Len(P)
    BY <1>2, <1>4, <1>5
  <2>6. \A i \in 1..L : form[2 + i] = N[i]
    BY <1>2, <1>4
  <2>7. ((2 + L) + 3) = L + 5
    BY <1>5
  <2>8. \A i \in 1..Len(P) : form[((2 + L) + 3) + i] = P[i]
    BY <1>2, <1>4
  <2> QED
    BY <2>2, <2>3, <2>4, <2>5, <2>6, <2>7, <2>8
<1> HIDE DEF L
\* An equals sign stands only behind the two names.
<1>7. \A k \in 1..(Len(form) - 1) : form[k + 1] = "=" => k = 1 \/ k = j
  <2> SUFFICES ASSUME NEW k \in 1..(Len(form) - 1), form[k + 1] = "=", k # 1, k # j
               PROVE  FALSE
    OBVIOUS
  <2>1. CASE k + 1 \in 3..(L + 2)
    <3>1. PICK i \in 1..L : k + 1 = 2 + i
      <4>1. (k + 1) - 2 \in 1..L /\ k + 1 = 2 + ((k + 1) - 2)
        BY <1>5, <1>6, <2>1
      <4> QED
        BY <4>1
    <3>2. N[i] = "="
      BY <1>6, <3>1
    <3>3. N[i] \in Encoded
      BY <1>1, <3>1 DEF L
    <3> QED
      BY <3>2, <3>3 DEF Encoded
  <2>2. CASE k + 1 \in (L + 6)..(L + 5 + Len(P))
    <3>1. PICK i \in 1..Len(P) : k + 1 = (L + 5) + i
      <4>1. (k + 1) - (L + 5) \in 1..Len(P) /\ k + 1 = (L + 5) + ((k + 1) - (L + 5))
        BY <1>5, <1>6, <2>2
      <4> QED
        BY <4>1
    <3>2. P[i] = "="
      BY <1>6, <3>1
    <3>3. P[i] \in Encoded
      BY <1>1, <3>1
    <3> QED
      BY <3>2, <3>3 DEF Encoded
  <2>3. CASE k + 1 = L + 3 \/ k + 1 = L + 4
    BY <1>6, <2>3
  <2> QED
    BY <1>5, <1>6, <2>1, <2>2, <2>3
<1>8. \A k \in FieldStarts(form, "ssid") : 1 + 2 <= k
  BY DEF FieldStarts
<1>9. \A k \in FieldStarts(form, "password") : j + 2 <= k
  <2> SUFFICES ASSUME NEW k \in 1..(Len(form) - 1), form[k] = "password", form[k + 1] = "="
               PROVE  k = j
    <3>1. \A k \in FieldStarts(form, "password") :
             \E m \in 1..(Len(form) - 1) : /\ form[m] = "password" /\ form[m + 1] = "="
                                           /\ k = m + 2
      BY DEF FieldStarts
    <3> QED
      BY <1>5, <3>1
  <2>1. k # 1
    BY <1>6
  <2> QED
    BY <1>7, <2>1
<1>10. /\ FieldStarts(form, "ssid") # {}
       /\ FindFormField(form, "ssid", SsidSize) = UrlDecode(N, SsidSize)
  <2> DEFINE one == 1
  <2>1. one \in Nat \ {0} /\ one + 1 = 2 /\ one = 1
    OBVIOUS
  <2> HIDE DEF one
  <2>2. /\ form[one] = "ssid" /\ form[one + 1] = "="
        /\ \A i \in 1..Len(N) : form[(one + 1) + i] = N[i]
    BY <1>6, <2>1 DEF L
  <2>3. one + 1 + Len(N) <= Len(form) /\ form[one + 1 + Len(N) + 1] = "&"
    <3>1. one + 1 + L + 1 = L + 3 /\ one + 1 + L <= L + 5 + Len(P)
      BY <1>5, <2>1
    <3> QED
      BY <1>6, <3>1 DEF L
  <2>4. \A k \in FieldStarts(form, "ssid") : one + 2 <= k
    BY <1>8, <2>1
  <2> QED
    <3>1. FieldAt(form, "ssid", one, N)
      BY <2>1, <2>2, <2>3, <2>4 DEF FieldAt
    <3>2. form \in Seq(Chars) /\ one \in Nat \ {0} /\ N \in Seq(Encoded)
      BY <1>1, <1>4, <2>1
    <3> QED
      BY <3>1, <3>2, FieldFound
<1>11. /\ FieldStarts(form, "password") # {}
       /\ FindFormField(form, "password", PasswordSize) = UrlDecode(P, PasswordSize)
  <2>1. /\ j \in Nat \ {0} /\ j + 1 = L + 5 /\ j - 1 = L + 3 /\ j = L + 4
        /\ j + 1 + Len(P) = L + 5 + Len(P)
    BY <1>5
  <2> HIDE DEF j
  <2>2. /\ form[j] = "password" /\ form[j + 1] = "=" /\ form[j - 1] = "&"
        /\ \A i \in 1..Len(P) : form[(j + 1) + i] = P[i]
        /\ j + 1 + Len(P) = Len(form)
    BY <1>6, <2>1
  <2>3. j + 1 + Len(P) <= Len(form)
    BY <1>5, <2>1, <2>2
  <2> QED
    <3>1. \A k \in FieldStarts(form, "password") : j + 2 <= k
      BY <1>9 DEF j
    <3>2. FieldAt(form, "password", j, P)
      BY <2>1, <2>2, <2>3, <3>1 DEF FieldAt
    <3>3. form \in Seq(Chars) /\ j \in Nat \ {0} /\ P \in Seq(Encoded)
      BY <1>1, <1>4, <2>1
    <3> QED
      BY <3>2, <3>3, FieldFound
<1>12. /\ UrlDecode(N, SsidSize) = Cut(name, SsidSize)
       /\ UrlDecode(P, PasswordSize) = Cut(password, PasswordSize)
  BY SizesType, DecodeUndoesEncode DEF N, P
<1>13. ParsePost(form, delivered).answer = "ok"
  BY <1>3
<1>14. ParsePost(form, delivered).event
         = [ssid     |-> FindFormField(form, "ssid", SsidSize),
            password |-> FindFormField(form, "password", PasswordSize)]
  BY <1>10, <1>11, <1>13 DEF ParsePost
<1> QED
  BY <1>3, <1>10, <1>11, <1>12, <1>14

------------------------------------------------------------------------------
\* What every request finds: the body is a text, the list and the walk keep to their
\* buffers.
ScanRecord == [i : Nat, count : Nat, pos : Nat, dropped : Nat]

ScanInv ==
    /\ scan \in ScanRecord
    /\ scan.dropped = 0 \/ scan.dropped >= Reserve
    /\ scan.pos <= kJsonBufSize
    /\ request = "scan" => scan.pos < kJsonBufSize

DnsRecord == [length : Nat, qdcount : Nat, q : Nat, questionEnd : Nat,
              offset : Nat, answers : Nat]

DnsInv ==
    /\ dns \in DnsRecord
    /\ dns.questionEnd <= dns.length /\ dns.length <= kMaxDnsPacketSize
    /\ request = "dns" => dns.q <= dns.qdcount /\ dns.offset = 0
    /\ request # "dns" => DnsAnswerFits

\* The body is the form of what was typed, until it is answered.
PostInv ==
    /\ typed \in [ssid : Seq(Symbols), password : Seq(Symbols)]
    /\ request = "post" => body = FormOf(typed.ssid, typed.password)
    /\ PostedIsReceived

RequestInv ==
    /\ body \in Seq(Chars)
    /\ EventIsUsable
    /\ PostInv
    /\ ScanInv
    /\ DnsInv

LEMMA RequestInitially == RequestInit => RequestInv
<1> SUFFICES ASSUME RequestInit PROVE RequestInv
  OBVIOUS
<1>1. body \in Seq(Chars) /\ EventIsUsable
  BY EmptySeq DEF RequestInit, EventIsUsable
<1>4. PostInv
  BY EmptySeq DEF RequestInit, PostInv, PostedIsReceived, none
<1>2. ScanInv
  BY DEF RequestInit, ScanInv, ScanRecord, NoScan, kJsonBufSize
<1>3. DnsInv
  BY DEF RequestInit, DnsInv, DnsRecord, DnsAnswerFits, NoQuery, kMaxDnsPacketSize
<1> QED
  BY <1>1, <1>2, <1>3, <1>4 DEF RequestInv

LEMMA BoundedType == ASSUME NEW S, NEW n \in Nat PROVE BoundedSeq(S, n) \subseteq Seq(S)
BY DEF BoundedSeq, SeqOf

LEMMA SubSeqType ==
    ASSUME NEW S, NEW text \in Seq(S), NEW m \in Nat \ {0}, NEW n \in Int, n <= Len(text)
    PROVE  SubSeq(text, m, n) \in Seq(S)
<1>1. \A i \in m..n : text[i] \in S
  OBVIOUS
<1> QED
  BY <1>1, SubSeqProperties

\* A field is found in a text, and what is decoded of it fits.
LEMMA FieldFits ==
    ASSUME NEW text \in Seq(Chars), NEW name, FieldStarts(text, name) # {},
           NEW size \in Nat \ {0}
    PROVE  Len(FindFormField(text, name, size)) < size
<1> DEFINE starts == FieldStarts(text, name)
           first == CHOOSE i \in starts : \A j \in starts : i <= j
           ends  == {i \in first..Len(text) : text[i] = "&"} \cup {Len(text) + 1}
           end   == CHOOSE i \in ends : \A j \in ends : i <= j
<1>1. FindFormField(text, name, size) = UrlDecode(SubSeq(text, first, end - 1), size)
  BY DEF FindFormField
<1>2. first \in Nat \ {0}
  <2>1. starts \in SUBSET (Nat \ {0}) /\ starts # {}
    BY DEF FieldStarts
  <2>2. \E i \in starts : \A j \in starts : i <= j
    BY <2>1, LeastOf
  <2> HIDE DEF starts
  <2> QED
    BY <2>1, <2>2
<1> HIDE DEF first
<1>3. end \in Nat \ {0} /\ end <= Len(text) + 1
  <2>1. ends \in SUBSET (Nat \ {0}) /\ Len(text) + 1 \in ends
    BY <1>2
  <2>2. \E i \in ends : \A j \in ends : i <= j
    BY <2>1, LeastOf
  <2>3. \A i \in ends : i <= Len(text) + 1
    BY <1>2
  <2> HIDE DEF ends
  <2> QED
    BY <2>1, <2>2, <2>3
<1> HIDE DEF end
<1>4. SubSeq(text, first, end - 1) \in Seq(Chars)
  BY <1>2, <1>3, SubSeqType
<1>5. Len(UrlDecode(SubSeq(text, first, end - 1), size)) \in 0..(size - 1)
  BY <1>4, DecodeFits
<1> QED
  BY <1>1, <1>5

LEMMA ParseFits ==
    ASSUME NEW text \in Seq(Chars), NEW delivered, ParsePost(text, delivered).answer = "ok"
    PROVE  LET posted == ParsePost(text, delivered).event IN
           /\ posted.ssid # <<>> /\ Len(posted.ssid) < SsidSize
           /\ Len(posted.password) < PasswordSize
<1> DEFINE ssid == FindFormField(text, "ssid", SsidSize)
           password == IF FieldStarts(text, "password") = {} THEN <<>>
                       ELSE FindFormField(text, "password", PasswordSize)
<1>1. /\ FieldStarts(text, "ssid") # {} /\ ssid # <<>>
      /\ ParsePost(text, delivered).event = [ssid |-> ssid, password |-> password]
  BY Zenon DEF ParsePost
<1>2. Len(ssid) < SsidSize
  BY <1>1, FieldFits, SizesType
<1>3. Len(password) < PasswordSize
  <2>1. CASE FieldStarts(text, "password") = {}
    <3>1. password = <<>>
      BY <2>1
    <3> HIDE DEF password
    <3> QED
      BY <3>1, SizesType
  <2>2. CASE FieldStarts(text, "password") # {}
    <3>1. password = FindFormField(text, "password", PasswordSize)
      BY <2>2
    <3> HIDE DEF password
    <3> QED
      BY <2>2, <3>1, FieldFits, SizesType
  <2> QED
    BY <2>1, <2>2
<1> HIDE DEF ssid, password
<1> QED
  BY <1>1, <1>2, <1>3

LEMMA SubmitStep == RequestInv /\ Submit => RequestInv'
<1> SUFFICES ASSUME RequestInv, Submit PROVE RequestInv'
  OBVIOUS
<1>1. PICK name \in BoundedSeq(Symbols, MaxName), password \in BoundedSeq(Symbols, MaxPass) :
         typed' = [ssid |-> name, password |-> password] /\ body' = FormOf(name, password)
  BY DEF Submit
<1>2. name \in Seq(Symbols) /\ password \in Seq(Symbols)
  BY BoundedType, SizesType
<1>3. body' \in Seq(Chars)
  BY <1>1, <1>2, FormType
<1>4. EventIsUsable'
  BY DEF Submit, EventIsUsable
<1>5. PostInv'
  BY <1>1, <1>2 DEF Submit, PostInv, PostedIsReceived
<1>6. ScanInv' /\ DnsInv'
  BY DEF Submit, RequestInv, ScanInv, DnsInv, DnsAnswerFits
<1> QED
  BY <1>3, <1>4, <1>5, <1>6 DEF RequestInv

LEMMA PostStep == RequestInv /\ (HandlePostConnect \/ PageReadsAnswer) => RequestInv'
<1> SUFFICES ASSUME RequestInv, HandlePostConnect \/ PageReadsAnswer PROVE RequestInv'
  OBVIOUS
<1>1. ScanInv' /\ DnsInv' /\ body' \in Seq(Chars)
  BY DEF HandlePostConnect, PageReadsAnswer, RequestInv, ScanInv, DnsInv, DnsAnswerFits
<1>2. PostInv' \/ answer' = "ok"
  BY DEF HandlePostConnect, PageReadsAnswer, RequestInv, PostInv, PostedIsReceived
<1>3. CASE PageReadsAnswer
  <2>1. EventIsUsable' /\ PostInv'
    BY <1>3 DEF PageReadsAnswer, RequestInv, EventIsUsable, PostInv, PostedIsReceived
  <2> QED
    BY <1>1, <2>1 DEF RequestInv
<1>4. CASE HandlePostConnect /\ answer' # "ok"
  BY <1>1, <1>2, <1>4 DEF RequestInv, EventIsUsable
<1>5. CASE HandlePostConnect /\ answer' = "ok"
  <2>1. PICK received \in 1..Len(body), delivered \in BOOLEAN :
           LET result == ParsePost(SubSeq(body, 1, received), delivered) IN
           /\ whole' = (received = Len(body))
           /\ answer' = result.answer /\ event' = result.event
    BY <1>5, Zenon DEF HandlePostConnect
  <2>2. SubSeq(body, 1, received) \in Seq(Chars)
    BY SubSeqType DEF RequestInv
  <2>3. EventIsUsable'
    BY <1>5, <2>1, <2>2, ParseFits, Zenon DEF EventIsUsable
  <2>4. ASSUME whole'
        PROVE  event' = [ssid     |-> Cut(typed.ssid, SsidSize),
                         password |-> Cut(typed.password, PasswordSize)]
    <3>1. received = Len(body)
      BY <2>1, <2>4, Zenon
    <3>2. SubSeq(body, 1, received) = body
      BY <3>1 DEF RequestInv
    <3>3. ParsePost(body, delivered).answer = "ok" /\ event' = ParsePost(body, delivered).event
      BY <1>5, <2>1, <3>2, Zenon
    <3>4. /\ body = FormOf(typed.ssid, typed.password)
          /\ typed.ssid \in Seq(Symbols) /\ typed.password \in Seq(Symbols)
      BY <1>5 DEF HandlePostConnect, RequestInv, PostInv
    <3> QED
      BY <3>3, <3>4, FormIsRead
  <2>5. UNCHANGED <<request, typed, body>>
    BY <1>5 DEF HandlePostConnect
  <2>6. PostInv'
    BY <2>4, <2>5 DEF RequestInv, PostInv, PostedIsReceived
  <2> QED
    BY <1>1, <2>3, <2>6 DEF RequestInv
<1> QED
  BY <1>3, <1>4, <1>5

\* JsonEscapeString's length is a number for the names there are.
LEMMA ConstantSeq ==
    ASSUME NEW S, NEW n \in Nat, NEW c \in S
    PROVE  [i \in 1..n |-> c] \in Seq(S)
OBVIOUS

LEMMA LengthsType == ObjectLengths \subseteq Nat
<1>1. \A name \in Names : name \in Seq(1..6)
  <2>1. \A width \in {1, 2, 6} : width \in 1..6
    OBVIOUS
  <2>2. \A width \in {1, 2, 6} : [i \in 1..32 |-> width] \in Seq(1..6)
    BY <2>1, ConstantSeq
  <2> QED
    BY <2>2, EmptySeq, Zenon DEF Names
<1>2. \A name \in Names : JsonEscapeString(name, Reserve) \in Nat
  BY <1>1, EscapeFits DEF Reserve
<1> QED
  BY <1>2 DEF ObjectLengths, Digits

\* The other requests leave the form alone.
LEMMA PostKept ==
    ASSUME RequestInv, UNCHANGED postVars, request' = "post" => request = "post"
    PROVE  body' \in Seq(Chars) /\ EventIsUsable' /\ PostInv'
<1>1. body' \in Seq(Chars) /\ EventIsUsable'
  BY DEF postVars, RequestInv, EventIsUsable
<1>2. PostInv'
  BY DEF postVars, RequestInv, PostInv, PostedIsReceived
<1> QED
  BY <1>1, <1>2

LEMMA ScanStep == RequestInv /\ (HandleGetScan \/ ScanObject \/ ScanEnds) => RequestInv'
<1> SUFFICES ASSUME RequestInv, HandleGetScan \/ ScanObject \/ ScanEnds PROVE RequestInv'
  OBVIOUS
<1>1. DnsInv' /\ body' \in Seq(Chars) /\ EventIsUsable' /\ PostInv'
  <2>1. request' # "post" \/ request' = request
    BY DEF HandleGetScan, ScanObject, ScanEnds
  <2>2. UNCHANGED postVars
    BY DEF HandleGetScan, ScanObject, ScanEnds
  <2>3. DnsInv'
    BY DEF HandleGetScan, ScanObject, ScanEnds, RequestInv, DnsInv, DnsAnswerFits
  <2> QED
    BY <2>1, <2>2, <2>3, PostKept
<1>2. CASE HandleGetScan
  <2>1. PICK count \in ScanCounts : scan' = [i |-> 0, count |-> count, pos |-> 1, dropped |-> 0]
    BY <1>2 DEF HandleGetScan, NoScan
  <2>2. count \in Nat
    BY DEF ScanCounts, kMaxScanResults
  <2>3. ScanInv'
    BY <2>1, <2>2 DEF ScanInv, ScanRecord, kJsonBufSize
  <2> QED
    BY <1>1, <2>3 DEF RequestInv
<1>3. CASE ScanObject
  <2> DEFINE pos == scan.pos + (IF scan.i > 0 THEN 1 ELSE 0)
  <2>1. PICK written \in ObjectLengths :
           scan' = IF pos + written < kJsonBufSize
                   THEN [scan EXCEPT !.i = @ + 1, !.pos = pos + written]
                   ELSE [scan EXCEPT !.i = scan.count, !.pos = pos, !.dropped = written]
    BY <1>3 DEF ScanObject
  <2>2. written \in Nat
    BY LengthsType
  <2>3. /\ scan \in ScanRecord
        /\ scan.dropped = 0 \/ scan.dropped >= Reserve
    BY DEF RequestInv, ScanInv
  <2>4. /\ scan.pos < kJsonBufSize - Reserve
        /\ request' = request
    BY <1>3, Zenon DEF ScanObject, Continues
  <2>5. /\ scan.i \in Nat /\ scan.count \in Nat /\ scan.pos \in Nat /\ scan.dropped \in Nat
        /\ pos \in Nat /\ pos <= kJsonBufSize - Reserve
    BY <2>3, <2>4 DEF ScanRecord, kJsonBufSize, Reserve
  <2> HIDE DEF pos
  <2>6. ASSUME pos + written < kJsonBufSize PROVE ScanInv'
    <3>1. scan' = [scan EXCEPT !.i = @ + 1, !.pos = pos + written]
      BY <2>1, <2>6, Zenon
    <3>2. scan' = [i |-> scan.i + 1, count |-> scan.count, pos |-> pos + written,
                   dropped |-> scan.dropped]
      BY <2>3, <3>1 DEF ScanRecord
    <3>3. scan' \in ScanRecord
      BY <2>2, <2>5, <3>2 DEF ScanRecord
    <3>4. scan'.pos < kJsonBufSize /\ scan'.dropped = scan.dropped
      BY <2>6, <3>2
    <3> QED
      BY <2>3, <3>3, <3>4 DEF ScanInv, ScanRecord, kJsonBufSize, Reserve
  <2>7. ASSUME ~(pos + written < kJsonBufSize) PROVE ScanInv'
    <3>1. scan' = [scan EXCEPT !.i = scan.count, !.pos = pos, !.dropped = written]
      BY <2>1, <2>7, Zenon
    <3>2. scan' = [i |-> scan.count, count |-> scan.count, pos |-> pos, dropped |-> written]
      BY <2>3, <3>1 DEF ScanRecord
    <3>3. scan' \in ScanRecord
      BY <2>2, <2>5, <3>2 DEF ScanRecord
    <3>4. scan'.pos < kJsonBufSize /\ scan'.dropped >= Reserve
      BY <2>2, <2>5, <2>7, <3>2 DEF kJsonBufSize, Reserve
    <3> QED
      BY <3>3, <3>4 DEF ScanInv, ScanRecord, kJsonBufSize, Reserve
  <2>8. ScanInv'
    BY <2>6, <2>7
  <2> QED
    BY <1>1, <2>8 DEF RequestInv
<1>4. CASE ScanEnds
  <2>1. scan' = [scan EXCEPT !.pos = @ + 1] /\ request' = "done" /\ request = "scan"
    BY <1>4 DEF ScanEnds
  <2>2. ScanInv'
    BY <2>1 DEF RequestInv, ScanInv, ScanRecord, kJsonBufSize
  <2> QED
    BY <1>1, <2>2 DEF RequestInv
<1> QED
  BY <1>2, <1>3, <1>4

LEMMA WalkStep ==
    ASSUME DnsInv, request = "dns", NEW end \in Nat, NEW q \in Nat, q <= dns.qdcount,
           WalksTo(end, q)
    PROVE  DnsInv'
<1>1. CASE end > dns.length
  BY <1>1 DEF WalksTo, DnsInv, DnsRecord, DnsAnswerFits, NoQuery, kMaxDnsPacketSize
<1>2. CASE ~(end > dns.length)
  <2>1. dns' = [dns EXCEPT !.questionEnd = end, !.q = q] /\ request' = request
    BY <1>2 DEF WalksTo
  <2>2. dns \in DnsRecord /\ dns.offset = 0 /\ dns.length <= kMaxDnsPacketSize
    BY DEF DnsInv
  <2>3. dns' = [length |-> dns.length, qdcount |-> dns.qdcount, q |-> q, questionEnd |-> end,
                offset |-> dns.offset, answers |-> dns.answers]
    BY <2>1, <2>2 DEF DnsRecord
  <2>4. dns' \in DnsRecord
    BY <2>2, <2>3 DEF DnsRecord
  <2> QED
    BY <1>2, <2>1, <2>2, <2>3, <2>4 DEF DnsInv, DnsRecord
<1> QED
  BY <1>1, <1>2

LEMMA DnsStep ==
    RequestInv /\ (DnsQuery \/ DnsLabel \/ DnsNameEnds \/ DnsNameHasNoEnd \/ DnsAnswers)
        => RequestInv'
<1> SUFFICES ASSUME RequestInv,
                    DnsQuery \/ DnsLabel \/ DnsNameEnds \/ DnsNameHasNoEnd \/ DnsAnswers
             PROVE  RequestInv'
  OBVIOUS
<1>1. ScanInv' /\ body' \in Seq(Chars) /\ EventIsUsable' /\ PostInv'
  <2>1. UNCHANGED <<postVars, scan>> /\ request' \in {"dns", "done"}
    BY DEF DnsQuery, DnsLabel, DnsNameEnds, DnsNameHasNoEnd, DnsAnswers, WalksTo,
           WalksQuestions
  <2>2. ScanInv'
    BY <2>1 DEF RequestInv, ScanInv
  <2> QED
    BY <2>1, <2>2, PostKept
<1>2. DnsInv /\ dns \in DnsRecord
  BY DEF RequestInv, DnsInv
<1>3. CASE DnsQuery
  <2>1. PICK length \in QueryLengths, qdcount \in QuestionCounts :
           dns' = [NoQuery EXCEPT !.length = length, !.qdcount = qdcount,
                                  !.questionEnd = kDnsHeaderSize]
    BY <1>3 DEF DnsQuery
  <2>2. length \in Nat /\ 12 <= length /\ length <= 512 /\ qdcount \in Nat
    BY SizesType
  <2>3. request' = "dns"
    BY <1>3 DEF DnsQuery
  <2>4. DnsInv'
    <3>1. dns' = [length |-> length, qdcount |-> qdcount, q |-> 0, questionEnd |-> 12,
                  offset |-> 0, answers |-> 0]
      BY <2>1 DEF NoQuery, kDnsHeaderSize
    <3> QED
      BY <2>2, <2>3, <3>1 DEF DnsInv, DnsRecord, kMaxDnsPacketSize
  <2> QED
    BY <1>1, <2>4 DEF RequestInv
<1>4. CASE DnsLabel
  <2>1. PICK label \in Labels : WalksTo(dns.questionEnd + 1 + label, dns.q)
    BY <1>4 DEF DnsLabel
  <2>2. dns.questionEnd + 1 + label \in Nat /\ dns.q \in Nat
    BY <1>2 DEF DnsRecord, Labels
  <2>3. request = "dns" /\ dns.q <= dns.qdcount
    BY <1>2, <1>4 DEF DnsLabel, WalksQuestions, DnsInv
  <2> QED
    BY <1>1, <1>2, <2>1, <2>2, <2>3, WalkStep DEF RequestInv
<1>5. CASE DnsNameEnds \/ DnsNameHasNoEnd
  <2>1. /\ dns.questionEnd + 5 \in Nat /\ dns.length + 1 \in Nat
        /\ dns.q \in Nat /\ dns.q + 1 \in Nat /\ dns.qdcount \in Nat
    BY <1>2 DEF DnsRecord
  <2>2. request = "dns" /\ dns.q < dns.qdcount
    BY <1>5 DEF DnsNameEnds, DnsNameHasNoEnd, WalksQuestions
  <2>3. dns.q <= dns.qdcount /\ dns.q + 1 <= dns.qdcount
    BY <2>1, <2>2
  <2> QED
    BY <1>1, <1>2, <1>5, <2>1, <2>2, <2>3, WalkStep
    DEF RequestInv, DnsNameEnds, DnsNameHasNoEnd
<1>6. CASE DnsAnswers
  <2> DEFINE room    == (kMaxDnsPacketSize - dns.questionEnd) \div AnswerSize
             answers == IF dns.qdcount <= room THEN dns.qdcount ELSE room
  <2>1. /\ dns' = [dns EXCEPT !.answers = answers,
                              !.offset = dns.questionEnd + AnswerSize * answers]
        /\ request' = "done"
    BY <1>6 DEF DnsAnswers
  <2>2. /\ dns.questionEnd \in Nat /\ dns.qdcount \in Nat /\ dns.length \in Nat
        /\ dns.questionEnd <= dns.length /\ dns.length <= 512
    BY <1>2 DEF DnsInv, DnsRecord, kMaxDnsPacketSize
  <2>3. /\ room \in Nat /\ 16 * room <= 512 - dns.questionEnd
        /\ 512 - dns.questionEnd < 16 * (room + 1)
    BY <2>2 DEF kMaxDnsPacketSize, AnswerSize
  <2> HIDE DEF room
  <2>4. /\ answers \in Nat /\ dns.questionEnd + 16 * answers <= 512
        /\ answers < dns.qdcount => dns.questionEnd + 16 * answers + 16 > 512
    BY <2>2, <2>3
  <2> HIDE DEF answers
  <2>5. DnsInv'
    <3>1. dns' = [length |-> dns.length, qdcount |-> dns.qdcount, q |-> dns.q,
                  questionEnd |-> dns.questionEnd,
                  offset |-> dns.questionEnd + 16 * answers, answers |-> answers]
      BY <1>2, <2>1 DEF DnsRecord, AnswerSize
    <3>2. dns' \in DnsRecord
      BY <1>2, <2>2, <2>4, <3>1 DEF DnsRecord
    <3> QED
      BY <2>1, <2>2, <2>4, <3>1, <3>2
      DEF DnsInv, DnsAnswerFits, kMaxDnsPacketSize, AnswerSize
  <2> QED
    BY <1>1, <2>5 DEF RequestInv
<1> QED
  BY <1>3, <1>4, <1>5, <1>6

LEMMA RequestInvariant == RequestSpec => []RequestInv
<1>1. RequestInv /\ UNCHANGED vars => RequestInv'
  <2> SUFFICES ASSUME RequestInv, UNCHANGED vars PROVE RequestInv'
    OBVIOUS
  <2>1. UNCHANGED <<postVars, request, scan, dns>>
    BY DEF vars
  <2>2. ScanInv' /\ DnsInv'
    BY <2>1 DEF RequestInv, ScanInv, DnsInv, DnsAnswerFits
  <2> QED
    BY <2>1, <2>2, PostKept DEF RequestInv
<1>2. RequestInv /\ [Next]_vars => RequestInv'
  BY <1>1, SubmitStep, PostStep, ScanStep, DnsStep DEF Next
<1> QED
  BY <1>2, RequestInitially, PTL DEF RequestSpec

------------------------------------------------------------------------------
\* CaptivePortalHttp.cpp:192-219: what is handed to the sink has a name, and name and
\* password fit the event, whatever is typed and however much of it arrives.
THEOREM EventCorrect == RequestSpec => []EventIsUsable
<1>1. RequestInv => EventIsUsable
  BY DEF RequestInv
<1> QED
  BY <1>1, RequestInvariant, PTL

\* CaptivePortalHttp.cpp:197-221 with portal.html:180: a form received whole hands the
\* sink what was typed, whatever characters that has, up to the sizes of the event.
THEOREM PostedCorrect == RequestSpec => []PostedIsReceived
<1>1. RequestInv => PostedIsReceived
  BY DEF RequestInv, PostInv
<1> QED
  BY <1>1, RequestInvariant, PTL

\* CaptivePortalHttp.cpp:139-166: the list stays inside its buffer.
THEOREM ScanCorrect == RequestSpec => []ScanAnswerFits
<1>1. RequestInv => ScanAnswerFits
  BY DEF RequestInv, ScanInv, ScanAnswerFits
<1> QED
  BY <1>1, RequestInvariant, PTL

\* CaptivePortalDns.cpp:185-248: for any query and any number of questions that it
\* announces, the answer stays inside its buffer and leaves out only what has no room.
THEOREM DnsCorrect == RequestSpec => []DnsAnswerFits
<1>1. RequestInv => DnsAnswerFits
  BY DEF RequestInv, DnsInv, DnsAnswerFits
<1> QED
  BY <1>1, RequestInvariant, PTL
==============================================================================
