------------------------------ MODULE HtifProofs ------------------------------
(***************************************************************************)
(* The way from the agent to the target, proved for all messages, buffer   *)
(* and pipe sizes: what the client reads is what the proxy framed          *)
(* (HtifDownlink).  Recursively defined functions (the stuffing, the CRC,  *)
(* FlattenSeq) are reasoned about by induction over a set of numbers       *)
(* (SetInduction).                                                         *)
(***************************************************************************)
EXTENDS HtifDownlink, Integers, TLAPS, WellFoundedInduction, SequenceTheorems

-----------------------------------------------------------------------------
(* Induction over numbers, and functions defined by recursion on them. *)

\* A set of numbers that has zero, and with a number the next one, has all.
LEMMA SetInduction ==
    ASSUME NEW S \in SUBSET Nat, 0 \in S, \A n \in S : n + 1 \in S
    PROVE  S = Nat
  <1>. SUFFICES ASSUME S # Nat PROVE FALSE
    OBVIOUS
  <1>. DEFINE R == OpToRel(<, Nat)  T == Nat \ S
  <1>1. T \subseteq Nat /\ T # {}
    OBVIOUS
  <1>2. IsWellFoundedOn(R, Nat)
    BY NatLessThanWellFounded
  <1>3. \A x, y \in Nat : x < y => <<x, y>> \in R
    BY DEF OpToRel
  <1>. HIDE DEF R
  <1>4. \E x \in T : \A y \in T : ~ (<<y, x>> \in R)
    <2>. HIDE DEF T
    <2>. QED  BY <1>1, <1>2, WFMin
  <1>5. PICK x \in T : \A y \in T : ~ (<<y, x>> \in R)
    BY <1>4
  <1>6. x \in Nat /\ x # 0 /\ x - 1 \in Nat /\ x - 1 < x /\ x - 1 + 1 = x
    OBVIOUS
  <1>7. x - 1 \notin T
    BY <1>3, <1>5, <1>6
  <1>. QED  BY <1>5, <1>6, <1>7

\* What a recursion of n steps is defined on.
Upto(n) == 0 .. n

\* f starts with a and goes on by h, up to n, and stays in X.
Iterates(f, X, a, h, n) ==
    /\ f = [k \in Upto(n) |-> f[k]] /\ \A k \in 0 .. n : f[k] \in X
    /\ f[0] = a /\ \A k \in 1 .. n : f[k] = h[f[k - 1]][k]

\* g starts with a and goes on by h, as far as it stays in X.
Follows(g, X, a, h, n) ==
    g[0] = a /\ \A k \in 1 .. n : g[k - 1] \in X => g[k] = h[g[k - 1]][k]

\* A recursion has a solution: a function that starts with a and goes on by h.
LEMMA IterationExists ==
    ASSUME NEW X, NEW a \in X, NEW N \in Nat, NEW h \in [X -> [1 .. N -> X]]
    PROVE  \E f : Iterates(f, X, a, h, N)
  <1>. DEFINE Good(n) == \E f : Iterates(f, X, a, h, n)
              S == {n \in Nat : n <= N => Good(n)}
  <1>1. 0 \in S
    <2>. DEFINE f == [k \in Upto(0) |-> a]
    <2>1. f[0] = a /\ f = [k \in Upto(0) |-> f[k]] /\ \A k \in 0 .. 0 : f[k] \in X
      BY DEF Upto
    <2>. HIDE DEF f
    <2>2. Iterates(f, X, a, h, 0)
      BY <2>1 DEF Iterates
    <2>. QED  BY <2>2
  <1>2. ASSUME NEW n \in S PROVE n + 1 \in S
    <2>. SUFFICES ASSUME n + 1 <= N PROVE Good(n + 1)
      OBVIOUS
    <2>1. n \in Nat /\ n <= N /\ n + 1 \in 1 .. N
      OBVIOUS
    <2>2. PICK f : Iterates(f, X, a, h, n)
      BY <2>1
    <2>3. h[f[n]][n + 1] \in X
      <3>1. n \in 0 .. n
        BY <2>1
      <3>2. f[n] \in X
        BY <2>2, <3>1, Zenon DEF Iterates
      <3>. QED  BY <2>1, <3>2
    <2>. DEFINE g == [k \in Upto(n + 1) |-> IF k <= n THEN f[k] ELSE h[f[n]][n + 1]]
    <2>4. g = [k \in Upto(n + 1) |-> g[k]] /\ \A k \in 0 .. n + 1 : g[k] \in X
      BY <2>1, <2>2, <2>3 DEF Iterates, Upto
    <2>5. g[0] = a /\ \A k \in 0 .. n : g[k] = f[k]
      BY <2>1, <2>2 DEF Iterates, Upto
    <2>6. g[n + 1] = h[g[n]][n + 1]
      BY <2>1, <2>5 DEF Upto
    <2>7. ASSUME NEW k \in 1 .. n + 1 PROVE g[k] = h[g[k - 1]][k]
      <3>1. CASE k = n + 1
        <4>1. k - 1 = n
          BY <2>1, <3>1
        <4>. HIDE DEF g
        <4>. QED  BY <2>6, <3>1, <4>1
      <3>2. CASE k # n + 1
        <4>1. k \in 1 .. n /\ k \in 0 .. n /\ k - 1 \in 0 .. n
          BY <2>1, <3>2
        <4>. HIDE DEF g
        <4>. QED  BY <2>2, <2>5, <4>1 DEF Iterates
      <3>. QED  BY <3>1, <3>2
    <2>. HIDE DEF g
    <2>8. Iterates(g, X, a, h, n + 1)
      BY <2>4, <2>5, <2>7 DEF Iterates
    <2>. QED  BY <2>8
  <1>3. S = Nat
    <2>1. S \in SUBSET Nat
      OBVIOUS
    <2>. HIDE DEF S
    <2>. QED  BY <1>1, <1>2, <2>1, SetInduction
  <1>4. N \in S /\ N <= N
    <2>. HIDE DEF S
    <2>. QED  BY <1>3
  <1>5. Good(N)
    <2>. HIDE DEF Good
    <2>. QED  BY <1>4
  <1>. QED  BY <1>5

\* It has only one.
LEMMA IterationUnique ==
    ASSUME NEW X, NEW a, NEW N \in Nat, NEW h, NEW f, NEW g, Iterates(f, X, a, h, N), Follows(g, X, a, h, N)
    PROVE  \A k \in 0 .. N : g[k] = f[k]
  <1>. DEFINE S == {n \in Nat : n <= N => g[n] = f[n]}
  <1>1. 0 \in S
    BY DEF Iterates, Follows
  <1>2. ASSUME NEW n \in S PROVE n + 1 \in S
    <2>. SUFFICES ASSUME n + 1 <= N PROVE g[n + 1] = f[n + 1]
      OBVIOUS
    <2>1. n \in 0 .. N /\ f[n] = g[n]
      OBVIOUS
    <2>2. PICK m \in 1 .. N : m = n + 1 /\ m - 1 = n
      OBVIOUS
    <2>. HIDE DEF S
    <2>3. f[n] \in X /\ f[m] = h[f[m - 1]][m]
      BY <2>1, Zenon DEF Iterates
    <2>4. g[m - 1] \in X => g[m] = h[g[m - 1]][m]
      BY DEF Follows
    <2>5. g[m] = f[m]
      BY <2>1, <2>2, <2>3, <2>4, Zenon
    <2>. QED  BY <2>2, <2>5
  <1>3. S = Nat
    <2>1. S \in SUBSET Nat
      OBVIOUS
    <2>. HIDE DEF S
    <2>. QED  BY <1>1, <1>2, <2>1, SetInduction
  <1>. QED  BY <1>3

-----------------------------------------------------------------------------
(* Stuffing and the CRC *)

\* Stuffing a byte yields one or two bytes, and none is a FLAG.
LEMMA StuffedByte ==
    ASSUME NEW b \in Byte
    PROVE  /\ Stuffed(b) \in Seq(Byte)
           /\ b \in {FLAG, ESC} => /\ Len(Stuffed(b)) = 2 /\ Stuffed(b)[1] = ESC
                                   /\ Stuffed(b)[2] = XorEsc(b) /\ XorEsc(Stuffed(b)[2]) = b
                                   /\ Stuffed(b)[2] # FLAG /\ Stuffed(b)[2] # ESC
           /\ b \notin {FLAG, ESC} => Len(Stuffed(b)) = 1 /\ Stuffed(b)[1] = b
           /\ FLAG \in Byte /\ ESC \in Byte /\ FLAG # ESC /\ FLAG # 0 /\ ESC # 0
  <1>1. XorEsc(126) = 94 /\ XorEsc(94) = 126 /\ XorEsc(125) = 93 /\ XorEsc(93) = 125
    BY DEF XorEsc, FlipBit
  <1>2. 94 \in Byte /\ 93 \in Byte /\ 125 \in Byte /\ 126 \in Byte
    BY DEF Byte
  <1>. QED  BY <1>1, <1>2 DEF Stuffed, FLAG, ESC

\* What StuffedAll computes: the stuffed bytes, one after the other.
LEMMA StuffedUnfolds ==
    ASSUME NEW raw \in Seq(Byte)
    PROVE  \E U : /\ U[0] = <<>> /\ StuffedAll(raw) = U[Len(raw)]
                  /\ \A k \in 0 .. Len(raw) : U[k] \in Seq(Byte)
                  /\ \A k \in 1 .. Len(raw) : U[k] = U[k - 1] \o Stuffed(raw[k])
  <1>. DEFINE N == Len(raw)
              h == [x \in Seq(Byte) |-> [k \in 1 .. N |-> x \o Stuffed(raw[k])]]
              upto[k \in Upto(N)] == IF k = 0 THEN <<>> ELSE upto[k - 1] \o Stuffed(raw[k])
  <1>1. N \in Nat /\ \A k \in 1 .. N : raw[k] \in Byte
    OBVIOUS
  <1>9. StuffedAll(raw) = upto[N]
    BY Zenon DEF StuffedAll, Upto
  <1>. HIDE DEF N
  <1>2. \A k \in 1 .. N : Stuffed(raw[k]) \in Seq(Byte)
    BY <1>1, StuffedByte
  <1>3. h \in [Seq(Byte) -> [1 .. N -> Seq(Byte)]]
    <2>. HIDE DEF upto
    <2>. QED  BY <1>2
  <1>4. <<>> \in Seq(Byte)
    OBVIOUS
  <1>5. PICK f : Iterates(f, Seq(Byte), <<>>, h, N)
    <2>. HIDE DEF h, upto
    <2>. QED  BY <1>1, <1>3, <1>4, IterationExists
  <1>6. \A k \in 0 .. N : f[k] = IF k = 0 THEN <<>> ELSE f[k - 1] \o Stuffed(raw[k])
    <2>1. \A k \in 0 .. N : k # 0 => k \in 1 .. N /\ k - 1 \in 0 .. N
      <3>. HIDE DEF upto
      <3>. QED  BY <1>1
    <2>2. \A k \in 1 .. N : f[k - 1] \in Seq(Byte) => h[f[k - 1]][k] = f[k - 1] \o Stuffed(raw[k])
      <3>. HIDE DEF upto
      <3>. QED  OBVIOUS
    <2>3. f[0] = <<>> /\ \A k \in 1 .. N : f[k] = h[f[k - 1]][k] /\ f[k - 1] \in Seq(Byte)
      <3>. HIDE DEF h, upto
      <3>1. /\ f[0] = <<>> /\ \A k \in 0 .. N : f[k] \in Seq(Byte)
            /\ \A k \in 1 .. N : f[k] = h[f[k - 1]][k]
        BY <1>5, Zenon DEF Iterates
      <3>. QED  BY <2>1, <3>1
    <2>. HIDE DEF h, upto
    <2>. QED  BY <2>1, <2>2, <2>3
  <1>7. f = [k \in Upto(N) |-> IF k = 0 THEN <<>> ELSE f[k - 1] \o Stuffed(raw[k])]
    <2>1. f = [k \in Upto(N) |-> f[k]]
      <3>. HIDE DEF h, upto
      <3>. QED  BY <1>5, Zenon DEF Iterates
    <2>2. \A k \in Upto(N) : f[k] = IF k = 0 THEN <<>> ELSE f[k - 1] \o Stuffed(raw[k])
      BY <1>6, Zenon DEF Upto
    <2>. HIDE DEF h, upto
    <2>. QED  BY <2>1, <2>2
  <1>8. upto = [k \in Upto(N) |-> IF k = 0 THEN <<>> ELSE upto[k - 1] \o Stuffed(raw[k])]
    BY <1>7, Zenon
  <1>10. upto[0] = <<>> /\ \A k \in 1 .. N : upto[k] = upto[k - 1] \o Stuffed(raw[k])
    <2>. HIDE DEF h, upto
    <2>1. 0 \in Upto(N) /\ \A k \in 1 .. N : k \in Upto(N) /\ k # 0
      BY <1>1 DEF Upto
    <2>. QED  BY <1>8, <2>1
  <1>11. \A k \in 0 .. N : upto[k] = f[k]
    <2>1. \A k \in 1 .. N : upto[k - 1] \in Seq(Byte) => upto[k] = h[upto[k - 1]][k]
      <3>. HIDE DEF upto
      <3>. QED  BY <1>10
    <2>2. Follows(upto, Seq(Byte), <<>>, h, N)
      <3>. HIDE DEF upto, h
      <3>. QED  BY <1>10, <2>1 DEF Follows
    <2>. HIDE DEF upto, h
    <2>. QED  BY <1>1, <1>5, <2>2, IterationUnique
  <1>12. \A k \in 0 .. N : upto[k] \in Seq(Byte)
    <2>. HIDE DEF upto, h
    <2>. QED  BY <1>5, <1>11, Zenon DEF Iterates
  <1>. HIDE DEF upto, h
  <1>. QED  BY <1>9, <1>10, <1>12, Zenon DEF N

\* Where a concatenation has its elements.
LEMMA ConcatAt ==
    ASSUME NEW X, NEW s \in Seq(X), NEW t \in Seq(X)
    PROVE  /\ s \o t \in Seq(X) /\ Len(s \o t) = Len(s) + Len(t)
           /\ Len(s) \in Nat /\ Len(t) \in Nat
           /\ \A i \in 1 .. Len(s) : (s \o t)[i] = s[i]
           /\ \A i \in 1 .. Len(t) : (s \o t)[Len(s) + i] = t[i]
           /\ \A i \in 1 .. Len(s \o t) : i <= Len(s) \/ \E j \in 1 .. Len(t) : i = Len(s) + j
  <1>1. /\ s \o t \in Seq(X) /\ Len(s \o t) = Len(s) + Len(t)
        /\ \A i \in 1 .. Len(s) + Len(t) : (s \o t)[i] = IF i <= Len(s) THEN s[i] ELSE t[i - Len(s)]
    BY ConcatProperties
  <1>2. Len(s) \in Nat /\ Len(t) \in Nat
    BY LenProperties
  <1>. DEFINE w == s \o t  m == Len(s)  n == Len(t)
  <1>3. w \in Seq(X) /\ Len(w) = m + n /\ \A i \in 1 .. m + n : w[i] = IF i <= m THEN s[i] ELSE t[i - m]
    BY <1>1
  <1>4. m \in Nat /\ n \in Nat
    BY <1>2
  <1>. HIDE DEF w, m, n
  <1>5. \A i \in 1 .. m : w[i] = s[i]
    BY <1>3, <1>4
  <1>6. ASSUME NEW i \in 1 .. n PROVE w[m + i] = t[i]
    <2>1. m + i \in 1 .. m + n /\ ~(m + i <= m) /\ (m + i) - m = i
      BY <1>4
    <2>. QED  BY <1>3, <2>1
  <1>7. ASSUME NEW i \in 1 .. m + n PROVE i <= m \/ \E j \in 1 .. n : i = m + j
    <2>1. CASE i > m
      <3>1. i - m \in 1 .. n /\ i = m + (i - m)
        BY <1>4, <2>1
      <3>. QED  BY <3>1
    <2>. QED  BY <1>4, <2>1
  <1>. QED  BY <1>3, <1>4, <1>5, <1>6, <1>7 DEF w, m, n

\* Off[k] bytes of the stuffed raw stand for its first k bytes.
Places(raw, Off) ==
    /\ Off[0] = 0 /\ Off[Len(raw)] = Len(StuffedAll(raw))
    /\ \A k \in 0 .. Len(raw) : Off[k] \in Nat /\ Off[k] <= Len(StuffedAll(raw))
    /\ \A k \in 1 .. Len(raw) :
          /\ Off[k] = Off[k - 1] + Len(Stuffed(raw[k]))
          /\ \A i \in 1 .. Len(Stuffed(raw[k])) : StuffedAll(raw)[Off[k - 1] + i] = Stuffed(raw[k])[i]

\* A stuffed sequence of bytes has no FLAG, and each byte of the original in its place.
LEMMA StuffedPlaces ==
    ASSUME NEW raw \in Seq(Byte)
    PROVE  /\ StuffedAll(raw) \in Seq(Byte)
           /\ \A i \in 1 .. Len(StuffedAll(raw)) : StuffedAll(raw)[i] # FLAG
           /\ \E Off : Places(raw, Off)
  <1>1. PICK U : /\ U[0] = <<>> /\ StuffedAll(raw) = U[Len(raw)]
                 /\ \A k \in 0 .. Len(raw) : U[k] \in Seq(Byte)
                 /\ \A k \in 1 .. Len(raw) : U[k] = U[k - 1] \o Stuffed(raw[k])
    BY StuffedUnfolds
  <1>2. PICK N \in Nat : N = Len(raw)
    OBVIOUS
  <1>3. \A k \in 1 .. N : raw[k] \in Byte
    BY <1>2
  <1>4. \A k \in 1 .. N : Stuffed(raw[k]) \in Seq(Byte) /\ \A i \in 1 .. Len(Stuffed(raw[k])) : Stuffed(raw[k])[i] # FLAG
    <2>. SUFFICES ASSUME NEW k \in 1 .. N
                  PROVE  Stuffed(raw[k]) \in Seq(Byte) /\ \A i \in 1 .. Len(Stuffed(raw[k])) : Stuffed(raw[k])[i] # FLAG
      OBVIOUS
    <2>1. PICK b \in Byte : b = raw[k]
      BY <1>3
    <2>2. Stuffed(b) \in Seq(Byte) /\ \A i \in 1 .. Len(Stuffed(b)) : Stuffed(b)[i] # FLAG
      <3>1. \A i \in 1 .. 1 : i = 1
        OBVIOUS
      <3>2. \A i \in 1 .. 2 : i = 1 \/ i = 2
        OBVIOUS
      <3>3. CASE b \in {FLAG, ESC}
        BY <3>2, <3>3, StuffedByte
      <3>4. CASE b \notin {FLAG, ESC}
        BY <3>1, <3>4, StuffedByte
      <3>. QED  BY <3>3, <3>4
    <2>. QED  BY <2>1, <2>2
  <1>. DEFINE Clean(n) == \A i \in 1 .. Len(U[n]) : U[n][i] # FLAG
              At(n, k) == /\ Len(U[k]) <= Len(U[n])
                          /\ \A i \in 1 .. Len(Stuffed(raw[k])) : U[n][Len(U[k - 1]) + i] = Stuffed(raw[k])[i]
              S == {n \in Nat : n <= N => Clean(n) /\ \A k \in 1 .. n : At(n, k)}
  <1>5. 0 \in S
    BY <1>1
  <1>6. ASSUME NEW n \in S PROVE n + 1 \in S
    <2>. SUFFICES ASSUME n + 1 <= N PROVE Clean(n + 1) /\ \A k \in 1 .. n + 1 : At(n + 1, k)
      OBVIOUS
    <2>1. n \in Nat /\ Clean(n) /\ \A k \in 1 .. n : At(n, k)
      OBVIOUS
    <2>. HIDE DEF S
    <2>2. PICK m \in 1 .. N : m = n + 1 /\ m - 1 = n
      BY <2>1
    <2>3. PICK s \in Seq(Byte) : s = U[n]
      BY <1>1, <1>2, <2>1, <2>2
    <2>4. PICK t \in Seq(Byte) : t = Stuffed(raw[m]) /\ \A i \in 1 .. Len(t) : t[i] # FLAG
      BY <1>4
    <2>5. U[m] = s \o t
      BY <1>1, <1>2, <2>2, <2>3, <2>4
    <2>6. Clean(m)
      <3>1. \A i \in 1 .. Len(s \o t) : (s \o t)[i] # FLAG
        <4>. SUFFICES ASSUME NEW i \in 1 .. Len(s \o t) PROVE (s \o t)[i] # FLAG
          OBVIOUS
        <4>1. CASE i <= Len(s)
          <5>1. i \in 1 .. Len(s)
            BY <4>1, ConcatAt
          <5>. QED  BY <2>1, <2>3, <5>1, ConcatAt
        <4>2. CASE \E j \in 1 .. Len(t) : i = Len(s) + j
          BY <2>4, <4>2, ConcatAt
        <4>. QED  BY <4>1, <4>2, ConcatAt
      <3>. QED  BY <2>5, <3>1
    <2>7. ASSUME NEW k \in 1 .. m PROVE At(m, k)
      <3>1. CASE k = m
        <4>1. Len(U[m]) <= Len(U[m])
          BY <2>5, ConcatAt
        <4>2. \A i \in 1 .. Len(t) : (s \o t)[Len(s) + i] = t[i]
          BY ConcatAt
        <4>. QED  BY <2>2, <2>3, <2>4, <2>5, <3>1, <4>1, <4>2
      <3>2. CASE k # m
        <4>1. k \in 1 .. n /\ k \in 1 .. N /\ k \in 0 .. N /\ k - 1 \in 0 .. N
          BY <2>1, <2>2, <3>2
        <4>2. /\ Len(U[k]) <= Len(s)
              /\ \A i \in 1 .. Len(Stuffed(raw[k])) : s[Len(U[k - 1]) + i] = Stuffed(raw[k])[i]
          BY <2>1, <2>3, <4>1
        <4>3. PICK v \in Seq(Byte) : v = U[k - 1]
          BY <1>1, <1>2, <4>1
        <4>4. PICK w \in Seq(Byte) : w = Stuffed(raw[k])
          BY <1>4, <4>1
        <4>5. U[k] = v \o w
          BY <1>1, <1>2, <4>1, <4>3, <4>4
        <4>6. Len(v) + Len(w) <= Len(s) /\ Len(v) \in Nat /\ Len(w) \in Nat /\ Len(s) \in Nat
          BY <4>2, <4>5, ConcatAt
        <4>7. Len(U[k]) <= Len(s \o t)
          BY <4>5, <4>6, ConcatAt
        <4>8. ASSUME NEW i \in 1 .. Len(w) PROVE (s \o t)[Len(v) + i] = w[i]
          <5>1. Len(v) + i \in 1 .. Len(s)
            BY <4>6
          <5>2. (s \o t)[Len(v) + i] = s[Len(v) + i]
            BY <5>1, ConcatAt
          <5>. QED  BY <4>2, <4>3, <4>4, <5>2
        <4>. QED  BY <2>5, <4>3, <4>4, <4>7, <4>8
      <3>. QED  BY <3>1, <3>2
    <2>. HIDE DEF Clean, At
    <2>. QED  BY <2>2, <2>6, <2>7
  <1>7. N \in S
    <2>1. S \in SUBSET Nat
      OBVIOUS
    <2>. HIDE DEF S
    <2>. QED  BY <1>5, <1>6, <2>1, SetInduction
  <1>8. Clean(N) /\ \A k \in 1 .. N : At(N, k)
    <2>. HIDE DEF Clean, At
    <2>. QED  BY <1>7
  <1>. DEFINE Off == [k \in Upto(N) |-> Len(U[k])]
  <1>9. \A k \in 0 .. N : Off[k] = Len(U[k]) /\ U[k] \in Seq(Byte) /\ Len(U[k]) \in Nat
    <2>1. \A k \in Upto(N) : Off[k] = Len(U[k])
      OBVIOUS
    <2>. HIDE DEF Off
    <2>. QED  BY <1>1, <1>2, <2>1 DEF Upto
  <1>10. \A k \in 1 .. N : k \in 0 .. N /\ k - 1 \in 0 .. N
    OBVIOUS
  <1>. HIDE DEF Off, S
  <1>11. Places(raw, Off)
    <2>1. 0 \in 0 .. N /\ N \in 0 .. N
      OBVIOUS
    <2>2. Off[0] = 0 /\ Off[N] = Len(U[N])
      BY <1>1, <1>9, <2>1
    <2>3. ASSUME NEW k \in 0 .. N PROVE Off[k] \in Nat /\ Off[k] <= Len(U[N])
      <3>1. CASE k = 0
        BY <1>9, <2>1, <2>2, <3>1
      <3>2. CASE k # 0
        <4>1. k \in 1 .. N
          BY <3>2
        <4>. QED  BY <1>8, <1>9, <4>1
      <3>. QED  BY <3>1, <3>2
    <2>4. ASSUME NEW k \in 1 .. N
          PROVE  /\ Off[k] = Off[k - 1] + Len(Stuffed(raw[k]))
                 /\ \A i \in 1 .. Len(Stuffed(raw[k])) : U[N][Off[k - 1] + i] = Stuffed(raw[k])[i]
      <3>1. U[k] = U[k - 1] \o Stuffed(raw[k]) /\ U[k - 1] \in Seq(Byte) /\ Stuffed(raw[k]) \in Seq(Byte)
        BY <1>1, <1>2, <1>4, <1>10
      <3>2. Len(U[k]) = Len(U[k - 1]) + Len(Stuffed(raw[k]))
        BY <3>1, ConcatAt
      <3>. QED  BY <1>8, <1>9, <1>10, <3>2
    <2>. HIDE DEF Clean, At
    <2>. QED  BY <1>1, <1>2, <2>2, <2>3, <2>4 DEF Places
  <1>12. StuffedAll(raw) \in Seq(Byte) /\ Clean(N)
    BY <1>1, <1>2, <1>8
  <1>. QED  BY <1>1, <1>2, <1>11, <1>12

Word == {c \in Int : 0 <= c /\ c <= 65535}

\* A step of the CRC stays within 16 bits.
LEMMA CrcBitTyped ==
    ASSUME NEW crc \in Word, NEW bit
    PROVE  CrcBit(crc, bit) \in Word
  <1>1. 2^16 = 65536 /\ 2^15 = 32768 /\ 2^12 = 4096 /\ 2^5 = 32 /\ 2^0 = 1
    OBVIOUS
  <1>2. \A c \in Word : FlipBit(c, 12) \in Word
    <2>. SUFFICES ASSUME NEW c \in Int, 0 <= c, c <= 65535 PROVE FlipBit(c, 12) \in Word
      BY DEF Word
    <2>1. PICK q \in Int : q = c \div 4096
      OBVIOUS
    <2>2. 4096 * q <= c /\ c < 4096 * q + 4096
      BY <2>1
    <2>3. FlipBit(c, 12) = IF q % 2 = 0 THEN c + 4096 ELSE c - 4096
      BY <1>1, <2>1 DEF FlipBit
    <2>4. q % 2 = 0 => q # 15
      OBVIOUS
    <2>5. q % 2 # 0 => q # 0
      OBVIOUS
    <2>6. q % 2 = 0 => c + 4096 \in Word
      <3>. SUFFICES ASSUME q # 15 PROVE c + 4096 \in Word
        BY <2>4
      <3>. QED  BY <2>2 DEF Word
    <2>7. q % 2 # 0 => c - 4096 \in Word
      <3>. SUFFICES ASSUME q # 0 PROVE c - 4096 \in Word
        BY <2>5
      <3>. QED  BY <2>2 DEF Word
    <2>. QED  BY <2>3, <2>6, <2>7
  <1>3. \A c \in Word : FlipBit(c, 5) \in Word
    <2>. SUFFICES ASSUME NEW c \in Int, 0 <= c, c <= 65535 PROVE FlipBit(c, 5) \in Word
      BY DEF Word
    <2>1. PICK q \in Int : q = c \div 32
      OBVIOUS
    <2>2. 32 * q <= c /\ c < 32 * q + 32
      BY <2>1
    <2>3. FlipBit(c, 5) = IF q % 2 = 0 THEN c + 32 ELSE c - 32
      BY <1>1, <2>1 DEF FlipBit
    <2>4. q % 2 = 0 => q # 2047
      OBVIOUS
    <2>5. q % 2 # 0 => q # 0
      OBVIOUS
    <2>6. q % 2 = 0 => c + 32 \in Word
      <3>. SUFFICES ASSUME q # 2047 PROVE c + 32 \in Word
        BY <2>4
      <3>. QED  BY <2>2 DEF Word
    <2>7. q % 2 # 0 => c - 32 \in Word
      <3>. SUFFICES ASSUME q # 0 PROVE c - 32 \in Word
        BY <2>5
      <3>. QED  BY <2>2 DEF Word
    <2>. QED  BY <2>3, <2>6, <2>7
  <1>4. \A c \in Word : FlipBit(c, 0) \in Word
    <2>. SUFFICES ASSUME NEW c \in Int, 0 <= c, c <= 65535 PROVE FlipBit(c, 0) \in Word
      BY DEF Word
    <2>1. FlipBit(c, 0) = IF c % 2 = 0 THEN c + 1 ELSE c - 1
      <3>1. c \div 1 = c
        OBVIOUS
      <3>. QED  BY <1>1, <3>1 DEF FlipBit
    <2>2. c % 2 = 0 => c # 65535
      OBVIOUS
    <2>3. c % 2 # 0 => c # 0
      OBVIOUS
    <2>. HIDE DEF Word
    <2>4. c # 65535 => c + 1 \in Word
      BY DEF Word
    <2>5. c # 0 => c - 1 \in Word
      BY DEF Word
    <2>. QED  BY <2>1, <2>2, <2>3, <2>4, <2>5
  <1>5. \A c \in Word : (2 * c) % 2^16 \in Word
    <2>1. \A c \in Int : (2 * c) % 65536 \in Int /\ 0 <= (2 * c) % 65536 /\ (2 * c) % 65536 < 65536
      OBVIOUS
    <2>. QED  BY <1>1, <2>1 DEF Word
  <1>. DEFINE shift[c \in 0 .. 2^16 - 1] ==
                 IF c \div 2^15 = bit THEN (2 * c) % 2^16
                 ELSE FlipBit(FlipBit(FlipBit((2 * c) % 2^16, 12), 5), 0)
  <1>6. crc \in 0 .. 2^16 - 1
    <2>1. \A n \in Int : n >= 65536 => crc \in 0 .. n - 1
      BY DEF Word
    <2>2. 2^16 \in Int /\ 2^16 >= 65536
      BY <1>1
    <2>. QED  BY <2>1, <2>2
  <1>7. shift[crc] = IF crc \div 2^15 = bit THEN (2 * crc) % 2^16
                     ELSE FlipBit(FlipBit(FlipBit((2 * crc) % 2^16, 12), 5), 0)
    BY <1>6
  <1>8. CrcBit(crc, bit) = shift[crc]
    BY DEF CrcBit
  <1>. HIDE DEF shift
  <1>. QED  BY <1>2, <1>3, <1>4, <1>5, <1>7, <1>8

\* So does a byte of it.
LEMMA CrcByteTyped ==
    ASSUME NEW crc \in Word, NEW b
    PROVE  CrcByte(crc, b) \in Word
  <1>. DEFINE bit(k) == (b \div 2^(8 - k)) % 2
              h == [x \in Word |-> [k \in 1 .. 8 |-> CrcBit(x, bit(k))]]
              after[k \in Upto(8)] == IF k = 0 THEN crc ELSE CrcBit(after[k - 1], bit(k))
  <1>1. CrcByte(crc, b) = after[8]
    BY DEF CrcByte, Upto
  <1>. HIDE DEF bit
  <1>2. h \in [Word -> [1 .. 8 -> Word]]
    BY CrcBitTyped
  <1>3. PICK f : Iterates(f, Word, crc, h, 8)
    <2>. HIDE DEF h
    <2>. QED  BY <1>2, IterationExists
  <1>4. f = [k \in Upto(8) |-> IF k = 0 THEN crc ELSE CrcBit(f[k - 1], bit(k))]
    <2>1. \A k \in 0 .. 8 : k # 0 => k \in 1 .. 8 /\ k - 1 \in 0 .. 8
      OBVIOUS
    <2>2. \A k \in 1 .. 8 : f[k - 1] \in Word => h[f[k - 1]][k] = CrcBit(f[k - 1], bit(k))
      OBVIOUS
    <2>. HIDE DEF h
    <2>3. \A k \in 0 .. 8 : f[k] = IF k = 0 THEN crc ELSE CrcBit(f[k - 1], bit(k))
      BY <1>3, <2>1, <2>2 DEF Iterates
    <2>4. f = [k \in Upto(8) |-> f[k]]
      BY <1>3 DEF Iterates
    <2>. QED  BY <2>3, <2>4 DEF Upto
  <1>5. after = [k \in Upto(8) |-> IF k = 0 THEN crc ELSE CrcBit(after[k - 1], bit(k))]
    <2>. HIDE DEF h
    <2>. QED  BY <1>4
  <1>6. Follows(after, Word, crc, h, 8)
    <2>1. 0 \in 0 .. 8 /\ \A k \in 1 .. 8 : k \in 0 .. 8 /\ k # 0
      OBVIOUS
    <2>. HIDE DEF after
    <2>2. after[0] = crc /\ \A k \in 1 .. 8 : after[k] = CrcBit(after[k - 1], bit(k))
      BY <1>5, <2>1 DEF Upto
    <2>. QED  BY <2>2 DEF Follows
  <1>. HIDE DEF h, after
  <1>7. \A k \in 0 .. 8 : after[k] = f[k] /\ f[k] \in Word
    <2>1. \A k \in 0 .. 8 : after[k] = f[k]
      BY <1>3, <1>6, IterationUnique
    <2>. QED  BY <1>3, <2>1 DEF Iterates
  <1>. QED  BY <1>1, <1>7

\* The CRC of any bytes has 16 bits.
LEMMA CrcTyped ==
    ASSUME NEW data \in Seq(Byte)
    PROVE  crc16_ccitt(data) \in Word
  <1>. DEFINE N == Len(data)
              h == [x \in Word |-> [k \in 1 .. N |-> CrcByte(x, data[k])]]
              after[k \in Upto(N)] == IF k = 0 THEN 2^16 - 1 ELSE CrcByte(after[k - 1], data[k])
  <1>1. crc16_ccitt(data) = after[N]
    BY Zenon DEF crc16_ccitt, Upto
  <1>. HIDE DEF after
  <1>2. N \in Nat /\ 2^16 - 1 \in Word
    BY DEF Word
  <1>. HIDE DEF N
  <1>3. h \in [Word -> [1 .. N -> Word]]
    BY CrcByteTyped
  <1>4. PICK f : Iterates(f, Word, 2^16 - 1, h, N)
    <2>. HIDE DEF h
    <2>. QED  BY <1>2, <1>3, IterationExists
  <1>5. f = [k \in Upto(N) |-> IF k = 0 THEN 2^16 - 1 ELSE CrcByte(f[k - 1], data[k])]
    <2>1. \A k \in 0 .. N : k # 0 => k \in 1 .. N /\ k - 1 \in 0 .. N
      BY <1>2
    <2>2. \A k \in 1 .. N : f[k - 1] \in Word => h[f[k - 1]][k] = CrcByte(f[k - 1], data[k])
      OBVIOUS
    <2>. HIDE DEF h
    <2>3. \A k \in Upto(N) : f[k] = IF k = 0 THEN 2^16 - 1 ELSE CrcByte(f[k - 1], data[k])
      <3>1. /\ f[0] = 2^16 - 1 /\ \A k \in 0 .. N : f[k] \in Word
            /\ \A k \in 1 .. N : f[k] = h[f[k - 1]][k]
        BY <1>4, Zenon DEF Iterates
      <3>. QED  BY <2>1, <2>2, <3>1 DEF Upto
    <2>4. f = [k \in Upto(N) |-> f[k]]
      BY <1>4, Zenon DEF Iterates
    <2>5. f = [k \in Upto(N) |-> IF k = 0 THEN 2^16 - 1 ELSE CrcByte(f[k - 1], data[k])]
      BY <2>3, <2>4
    <2>. QED  BY <2>5
  <1>6. after = [k \in Upto(N) |-> IF k = 0 THEN 2^16 - 1 ELSE CrcByte(after[k - 1], data[k])]
    BY <1>5, Zenon DEF after
  <1>7. Follows(after, Word, 2^16 - 1, h, N)
    <2>1. 0 \in 0 .. N /\ \A k \in 1 .. N : k \in 0 .. N /\ k # 0
      BY <1>2
    <2>2. after[0] = 2^16 - 1 /\ \A k \in 1 .. N : after[k] = CrcByte(after[k - 1], data[k])
      <3>1. 0 \in Upto(N) /\ \A k \in 1 .. N : k \in Upto(N) /\ k # 0
        BY <2>1 DEF Upto
      <3>. QED  BY <1>6, <3>1
    <2>. QED  BY <2>2 DEF Follows
  <1>. HIDE DEF h
  <1>8. \A k \in 0 .. N : after[k] = f[k]
    BY <1>2, <1>4, <1>7, IterationUnique
  <1>9. N \in 0 .. N
    BY <1>2
  <1>10. f[N] \in Word
    BY <1>4, <1>9, Zenon DEF Iterates
  <1>. QED  BY <1>1, <1>8, <1>9, <1>10

\* The CRC is two bytes.
LEMMA CrcIsBytes ==
    ASSUME NEW data \in Seq(Byte)
    PROVE  CrcBytes(data) \in Seq(Byte) /\ Len(CrcBytes(data)) = 2
  <1>1. PICK c \in Word : c = crc16_ccitt(data)
    BY CrcTyped
  <1>2. c \div 256 \in Byte /\ c % 256 \in Byte
    <2>1. c \in Int /\ 0 <= c /\ c <= 65535
      BY DEF Word
    <2>2. PICK q \in Int : q = c \div 256
      BY <2>1
    <2>3. 256 * q <= c /\ c < 256 * q + 256
      BY <2>1, <2>2
    <2>4. q \in Byte
      BY <2>1, <2>3 DEF Byte
    <2>5. c % 256 \in 0 .. 255
      BY <2>1
    <2>. QED  BY <2>2, <2>4, <2>5 DEF Byte
  <1>3. CrcBytes(data) = <<c \div 256, c % 256>>
    BY <1>1 DEF CrcBytes
  <1>. QED  BY <1>2, <1>3

-----------------------------------------------------------------------------
(* FlattenSeq and FittingOf *)

Bytes  == Seq(Byte)
Pieces == Seq(Bytes)

Joining(s) == [x \in Bytes |-> [k \in 1 .. Len(s) |-> x \o s[k]]]
Picking(s) == [x \in Pieces |-> [k \in 1 .. Len(s) |-> IF Fits(s[k]) THEN Append(x, s[k]) ELSE x]]

\* FlattenSeq joins the pieces, one after the other.
LEMMA FlattenUnfolds ==
    ASSUME NEW s \in Pieces
    PROVE  \E f : Iterates(f, Bytes, <<>>, Joining(s), Len(s)) /\ FlattenSeq(s) = f[Len(s)]
  <1>. DEFINE N == Len(s)  h == Joining(s)
              flatten[i \in 1 .. N] == IF i = 1 THEN s[i] ELSE flatten[i - 1] \o s[i]
  <1>1. N \in Nat /\ \A k \in 1 .. N : s[k] \in Bytes
    BY DEF Pieces
  <1>2. <<>> \in Bytes /\ \A x \in Bytes : <<>> \o x = x
    BY DEF Bytes
  <1>3. h \in [Bytes -> [1 .. N -> Bytes]]
    <2>1. \A x \in Bytes, y \in Bytes : x \o y \in Bytes
      BY DEF Bytes
    <2>. HIDE DEF Bytes
    <2>. QED  BY <1>1, <2>1 DEF Joining
  <1>4. FlattenSeq(s) = IF N = 0 THEN s ELSE flatten[N]
    BY DEF FlattenSeq
  <1>5. N = 0 => s = <<>>
    BY DEF Pieces
  <1>. HIDE DEF N, h
  <1>6. PICK f : Iterates(f, Bytes, <<>>, h, N)
    BY <1>1, <1>2, <1>3, IterationExists
  <1>7. \A k \in 1 .. N : k - 1 \in 0 .. N /\ (k = 1 \/ k - 1 \in 1 .. N)
    BY <1>1
  <1>8. f[0] = <<>> /\ \A k \in 1 .. N : f[k] = f[k - 1] \o s[k]
    <2>1. \A k \in 1 .. N : f[k] = h[f[k - 1]][k] /\ f[k - 1] \in Bytes
      BY <1>6, <1>7 DEF Iterates
    <2>2. \A k \in 1 .. N : \A x \in Bytes : h[x][k] = x \o s[k]
      BY DEF h, N, Joining
    <2>. QED  BY <1>6, <2>1, <2>2 DEF Iterates
  <1>9. flatten = [i \in 1 .. N |-> IF i = 1 THEN s[i] ELSE flatten[i - 1] \o s[i]]
    <2>. DEFINE e == [i \in 1 .. N |-> f[i]]
    <2>1. \A i \in 1 .. N : e[i] = f[i]
      OBVIOUS
    <2>. HIDE DEF e
    <2>2. \A i \in 1 .. N : e[i] = IF i = 1 THEN s[i] ELSE e[i - 1] \o s[i]
      <3>. SUFFICES ASSUME NEW i \in 1 .. N PROVE e[i] = IF i = 1 THEN s[i] ELSE e[i - 1] \o s[i]
        OBVIOUS
      <3>1. CASE i = 1
        <4>1. i - 1 = 0
          BY <3>1
        <4>2. e[i] = f[i - 1] \o s[i]
          BY <1>8, <2>1
        <4>3. f[i - 1] = <<>>
          BY <1>8, <4>1
        <4>4. <<>> \o s[i] = s[i]
          BY <1>1, <1>2
        <4>. QED  BY <3>1, <4>2, <4>3, <4>4
      <3>2. CASE i # 1
        BY <1>7, <1>8, <2>1, <3>2
      <3>. QED  BY <3>1, <3>2
    <2>3. e = [i \in 1 .. N |-> IF i = 1 THEN s[i] ELSE e[i - 1] \o s[i]]
      <3>1. e = [i \in 1 .. N |-> e[i]]
        BY DEF e
      <3>. QED  BY <2>2, <3>1
    <2>. QED  BY <2>3
  <1>. HIDE DEF flatten
  <1>10. \A i \in 1 .. N : flatten[i] = IF i = 1 THEN s[i] ELSE flatten[i - 1] \o s[i]
    BY <1>9
  <1>. DEFINE g == [i \in Upto(N) |-> IF i = 0 THEN <<>> ELSE flatten[i]]
  <1>11. g[0] = <<>> /\ \A i \in 1 .. N : g[i] = flatten[i]
    <2>1. 0 \in Upto(N) /\ \A i \in 1 .. N : i \in Upto(N) /\ i # 0
      BY <1>1 DEF Upto
    <2>. QED  BY <2>1
  <1>. HIDE DEF g
  <1>12. \A i \in 1 .. N : g[i] = g[i - 1] \o s[i]
    <2>. SUFFICES ASSUME NEW i \in 1 .. N PROVE g[i] = g[i - 1] \o s[i]
      OBVIOUS
    <2>1. CASE i = 1
      <3>1. i - 1 = 0
        BY <2>1
      <3>. QED  BY <1>1, <1>2, <1>10, <1>11, <2>1, <3>1
    <2>2. CASE i # 1
      BY <1>7, <1>10, <1>11, <2>2
    <2>. QED  BY <2>1, <2>2
  <1>13. Follows(g, Bytes, <<>>, h, N)
    <2>1. \A k \in 1 .. N : \A x \in Bytes : h[x][k] = x \o s[k]
      BY DEF h, N, Joining
    <2>. QED  BY <1>11, <1>12, <2>1 DEF Follows
  <1>14. \A k \in 0 .. N : g[k] = f[k]
    BY <1>1, <1>6, <1>13, IterationUnique
  <1>15. FlattenSeq(s) = f[N]
    <2>1. CASE N = 0
      BY <1>4, <1>5, <1>8, <2>1
    <2>2. CASE N # 0
      <3>1. N \in 1 .. N /\ N \in 0 .. N
        BY <1>1, <2>2
      <3>. QED  BY <1>4, <1>11, <1>14, <2>2, <3>1
    <2>. QED  BY <2>1, <2>2
  <1>. QED  BY <1>6, <1>15 DEF N, h

\* Flattening a sequence with one more piece appends the piece.
LEMMA FlattenAppend ==
    ASSUME NEW s \in Pieces, NEW c \in Bytes
    PROVE  FlattenSeq(Append(s, c)) = FlattenSeq(s) \o c /\ FlattenSeq(s) \in Bytes
  <1>. DEFINE t == Append(s, c)  n == Len(s)
  <1>1. t \in Pieces /\ Len(t) = n + 1 /\ n \in Nat /\ t[n + 1] = c /\ \A k \in 1 .. n : t[k] = s[k]
    BY DEF Pieces
  <1>. HIDE DEF t
  <1>2. PICK f : Iterates(f, Bytes, <<>>, Joining(s), n) /\ FlattenSeq(s) = f[n]
    BY FlattenUnfolds
  <1>3. PICK g : Iterates(g, Bytes, <<>>, Joining(t), n + 1) /\ FlattenSeq(t) = g[n + 1]
    BY <1>1, FlattenUnfolds
  <1>4. \A k \in 1 .. n + 1 : \A x \in Bytes : Joining(t)[x][k] = x \o t[k]
    BY <1>1 DEF Joining
  <1>5. \A k \in 1 .. n : \A x \in Bytes : Joining(s)[x][k] = x \o s[k]
    BY DEF Joining
  <1>. HIDE DEF n
  <1>6. PICK m \in 1 .. n + 1 : m = n + 1 /\ m - 1 = n
    BY <1>1
  <1>7. n \in 0 .. n /\ n \in 0 .. n + 1 /\ \A k \in 1 .. n : k \in 1 .. n + 1 /\ k - 1 \in 0 .. n + 1
    BY <1>1
  <1>8. g[n] \in Bytes /\ g[m] = Joining(t)[g[m - 1]][m]
    BY <1>3, <1>7 DEF Iterates
  <1>9. FlattenSeq(t) = g[n] \o c
    BY <1>1, <1>3, <1>4, <1>6, <1>8
  <1>10. Follows(g, Bytes, <<>>, Joining(s), n)
    <2>1. \A k \in 1 .. n : g[k] = Joining(t)[g[k - 1]][k] /\ g[k - 1] \in Bytes
      BY <1>3, <1>7 DEF Iterates
    <2>2. \A k \in 1 .. n : g[k] = Joining(s)[g[k - 1]][k]
      <3>. SUFFICES ASSUME NEW k \in 1 .. n PROVE g[k] = Joining(s)[g[k - 1]][k]
        OBVIOUS
      <3>1. k \in 1 .. n + 1 /\ t[k] = s[k]
        BY <1>1, <1>7
      <3>2. PICK x \in Bytes : x = g[k - 1]
        BY <2>1
      <3>3. Joining(t)[x][k] = x \o t[k]
        BY <1>4, <3>1
      <3>4. Joining(s)[x][k] = x \o s[k]
        BY <1>5
      <3>5. g[k] = Joining(t)[g[k - 1]][k]
        BY <2>1
      <3>. QED  BY <3>1, <3>2, <3>3, <3>4, <3>5, Zenon
    <2>3. g[0] = <<>>
      BY <1>3 DEF Iterates
    <2>. QED  BY <2>2, <2>3 DEF Follows
  <1>11. g[n] = f[n]
    BY <1>1, <1>2, <1>7, <1>10, IterationUnique
  <1>. QED  BY <1>2, <1>8, <1>9, <1>11 DEF t

\* FittingOf picks the chunks that fit, one after the other.
LEMMA FittingUnfolds ==
    ASSUME NEW s \in Pieces
    PROVE  \E f : Iterates(f, Pieces, <<>>, Picking(s), Len(s)) /\ FittingOf(s) = f[Len(s)]
  <1>. DEFINE N == Len(s)  h == Picking(s)
              upto[k \in Upto(N)] == IF k = 0 THEN <<>>
                                    ELSE IF Fits(s[k]) THEN Append(upto[k - 1], s[k]) ELSE upto[k - 1]
  <1>1. N \in Nat /\ \A k \in 1 .. N : s[k] \in Bytes
    BY DEF Pieces
  <1>2. <<>> \in Pieces /\ \A x \in Pieces, c \in Bytes : Append(x, c) \in Pieces
    BY DEF Pieces
  <1>3. h \in [Pieces -> [1 .. N -> Pieces]]
    BY <1>1, <1>2 DEF Picking
  <1>4. FittingOf(s) = upto[N]
    BY Zenon DEF FittingOf, Upto
  <1>5. \A k \in 1 .. N : \A x \in Pieces : h[x][k] = IF Fits(s[k]) THEN Append(x, s[k]) ELSE x
    BY DEF Picking
  <1>. HIDE DEF N, h, upto
  <1>6. PICK f : Iterates(f, Pieces, <<>>, h, N)
    BY <1>1, <1>2, <1>3, IterationExists
  <1>7. f = [k \in Upto(N) |-> IF k = 0 THEN <<>> ELSE IF Fits(s[k]) THEN Append(f[k - 1], s[k]) ELSE f[k - 1]]
    <2>1. \A k \in 0 .. N : k # 0 => k \in 1 .. N /\ k - 1 \in 0 .. N
      BY <1>1
    <2>2. \A k \in 0 .. N : f[k] = IF k = 0 THEN <<>> ELSE IF Fits(s[k]) THEN Append(f[k - 1], s[k]) ELSE f[k - 1]
      <3>. SUFFICES ASSUME NEW k \in 0 .. N, k # 0
                    PROVE  f[k] = IF Fits(s[k]) THEN Append(f[k - 1], s[k]) ELSE f[k - 1]
        BY <1>6 DEF Iterates
      <3>1. f[k] = h[f[k - 1]][k] /\ f[k - 1] \in Pieces /\ k \in 1 .. N
        BY <1>6, <2>1 DEF Iterates
      <3>. QED  BY <1>5, <3>1
    <2>3. f = [k \in Upto(N) |-> f[k]]
      BY <1>6 DEF Iterates
    <2>4. \A k \in Upto(N) : f[k] = IF k = 0 THEN <<>> ELSE IF Fits(s[k]) THEN Append(f[k - 1], s[k]) ELSE f[k - 1]
      BY <2>2 DEF Upto
    <2>. QED  BY <2>3, <2>4
  <1>8. upto = [k \in Upto(N) |-> IF k = 0 THEN <<>>
                                 ELSE IF Fits(s[k]) THEN Append(upto[k - 1], s[k]) ELSE upto[k - 1]]
    BY <1>7, Zenon DEF upto
  <1>9. Follows(upto, Pieces, <<>>, h, N)
    <2>1. 0 \in Upto(N) /\ \A k \in 1 .. N : k \in Upto(N) /\ k # 0
      BY <1>1 DEF Upto
    <2>2. upto[0] = <<>>
      BY <1>8, <2>1
    <2>3. \A k \in 1 .. N : upto[k] = IF Fits(s[k]) THEN Append(upto[k - 1], s[k]) ELSE upto[k - 1]
      BY <1>8, <2>1
    <2>. QED  BY <1>5, <2>2, <2>3 DEF Follows
  <1>10. N \in 0 .. N /\ \A k \in 0 .. N : upto[k] = f[k]
    BY <1>1, <1>6, <1>9, IterationUnique
  <1>11. FittingOf(s) = f[N]
    BY <1>4, <1>10
  <1>. QED  BY <1>6, <1>11 DEF N, h

\* One more chunk is picked if it fits.
LEMMA FittingAppend ==
    ASSUME NEW s \in Pieces, NEW c \in Bytes
    PROVE  /\ FittingOf(s) \in Pieces
           /\ FittingOf(Append(s, c)) = IF Fits(c) THEN Append(FittingOf(s), c) ELSE FittingOf(s)
  <1>. DEFINE t == Append(s, c)  n == Len(s)
  <1>1. t \in Pieces /\ Len(t) = n + 1 /\ n \in Nat /\ t[n + 1] = c /\ \A k \in 1 .. n : t[k] = s[k]
    BY DEF Pieces
  <1>. HIDE DEF t
  <1>2. PICK f : Iterates(f, Pieces, <<>>, Picking(s), n) /\ FittingOf(s) = f[n]
    BY FittingUnfolds
  <1>3. PICK g : Iterates(g, Pieces, <<>>, Picking(t), n + 1) /\ FittingOf(t) = g[n + 1]
    BY <1>1, FittingUnfolds
  <1>4. \A k \in 1 .. n + 1 : \A x \in Pieces : Picking(t)[x][k] = IF Fits(t[k]) THEN Append(x, t[k]) ELSE x
    BY <1>1 DEF Picking
  <1>5. \A k \in 1 .. n : \A x \in Pieces : Picking(s)[x][k] = IF Fits(s[k]) THEN Append(x, s[k]) ELSE x
    BY DEF Picking
  <1>. HIDE DEF n
  <1>6. PICK m \in 1 .. n + 1 : m = n + 1 /\ m - 1 = n
    BY <1>1
  <1>7. n \in 0 .. n /\ n \in 0 .. n + 1 /\ \A k \in 1 .. n : k \in 1 .. n + 1 /\ k - 1 \in 0 .. n + 1
    BY <1>1
  <1>8. g[n] \in Pieces /\ g[m] = Picking(t)[g[m - 1]][m]
    BY <1>3, <1>7 DEF Iterates
  <1>9. FittingOf(t) = IF Fits(c) THEN Append(g[n], c) ELSE g[n]
    BY <1>1, <1>3, <1>4, <1>6, <1>8
  <1>10. Follows(g, Pieces, <<>>, Picking(s), n)
    <2>1. \A k \in 1 .. n : g[k] = Picking(t)[g[k - 1]][k] /\ g[k - 1] \in Pieces
      BY <1>3, <1>7 DEF Iterates
    <2>2. \A k \in 1 .. n : g[k] = Picking(s)[g[k - 1]][k]
      <3>. SUFFICES ASSUME NEW k \in 1 .. n PROVE g[k] = Picking(s)[g[k - 1]][k]
        OBVIOUS
      <3>1. k \in 1 .. n + 1 /\ t[k] = s[k]
        BY <1>1, <1>7
      <3>2. PICK x \in Pieces : x = g[k - 1]
        BY <2>1
      <3>3. Picking(t)[x][k] = IF Fits(t[k]) THEN Append(x, t[k]) ELSE x
        BY <1>4, <3>1
      <3>4. Picking(s)[x][k] = IF Fits(s[k]) THEN Append(x, s[k]) ELSE x
        BY <1>5
      <3>5. g[k] = Picking(t)[g[k - 1]][k]
        BY <2>1
      <3>. QED  BY <3>1, <3>2, <3>3, <3>4, <3>5, Zenon
    <2>3. g[0] = <<>>
      BY <1>3 DEF Iterates
    <2>. QED  BY <2>2, <2>3 DEF Follows
  <1>11. g[n] = f[n]
    BY <1>1, <1>2, <1>7, <1>10, IterationUnique
  <1>. QED  BY <1>2, <1>8, <1>9, <1>11 DEF t

\* Of nothing, there is nothing.
LEMMA FittingNone == FittingOf(<<>>) = <<>> /\ FlattenSeq(<<>>) = <<>>
  <1>1. <<>> \in Pieces /\ Len(<<>>) = 0
    BY DEF Pieces
  <1>2. PICK f : Iterates(f, Pieces, <<>>, Picking(<<>>), Len(<<>>)) /\ FittingOf(<<>>) = f[Len(<<>>)]
    BY <1>1, FittingUnfolds
  <1>3. PICK g : Iterates(g, Bytes, <<>>, Joining(<<>>), Len(<<>>)) /\ FlattenSeq(<<>>) = g[Len(<<>>)]
    BY <1>1, FlattenUnfolds
  <1>. QED  BY <1>1, <1>2, <1>3 DEF Iterates

-----------------------------------------------------------------------------
(* One frame, byte by byte *)

\* What a frame holds: the chunk and its CRC.
Raw(c) == c \o CrcBytes(c)

\* A frame is a FLAG, the stuffed bytes of Raw and a FLAG.
LEMMA FrameShape ==
    ASSUME NEW c \in Bytes
    PROVE  /\ Raw(c) \in Bytes /\ Len(Raw(c)) = Len(c) + 2
           /\ hdlc_encode(c) \in Bytes
           /\ Len(hdlc_encode(c)) = Len(StuffedAll(Raw(c))) + 2
           /\ StuffedAll(Raw(c)) \in Bytes
           /\ hdlc_encode(c)[1] = FLAG /\ hdlc_encode(c)[Len(hdlc_encode(c))] = FLAG
           /\ \A i \in 1 .. Len(StuffedAll(Raw(c))) : hdlc_encode(c)[i + 1] = StuffedAll(Raw(c))[i]
  <1>1. PICK s \in Seq(Byte) : s = c
    BY DEF Bytes
  <1>2. PICK t \in Seq(Byte) : t = CrcBytes(s) /\ Len(t) = 2
    BY CrcIsBytes
  <1>3. s \o t \in Seq(Byte) /\ Len(s \o t) = Len(s) + 2
    <2>1. s \o t \in Seq(Byte) /\ Len(s \o t) = Len(s) + Len(t)
      BY ConcatProperties
    <2>. QED  BY <1>2, <2>1
  <1>4. Raw(c) = s \o t
    BY <1>1, <1>2 DEF Raw
  <1>5. PICK u \in Seq(Byte) : u = StuffedAll(Raw(c))
    BY <1>3, <1>4, StuffedPlaces
  <1>6. <<FLAG>> \in Seq(Byte) /\ Len(<<FLAG>>) = 1 /\ <<FLAG>>[1] = FLAG
    BY DEF FLAG, Byte
  <1>7. PICK v \in Seq(Byte) : v = <<FLAG>> \o u /\ Len(v) = Len(u) + 1 /\ v[1] = FLAG
                               /\ \A i \in 1 .. Len(u) : v[i + 1] = u[i]
    <2>. DEFINE v == <<FLAG>> \o u
    <2>1. v \in Seq(Byte) /\ Len(v) = Len(u) + 1 /\ Len(u) \in Nat
          /\ \A i \in 1 .. 1 + Len(u) : v[i] = IF i <= 1 THEN <<FLAG>>[i] ELSE u[i - 1]
      BY <1>6, ConcatProperties, LenProperties
    <2>. HIDE DEF v
    <2>2. v[1] = FLAG /\ \A i \in 1 .. Len(u) : v[i + 1] = u[i]
      BY <1>6, <2>1
    <2>. QED  BY <2>1, <2>2 DEF v
  <1>8. PICK w \in Seq(Byte) : w = v \o <<FLAG>> /\ Len(w) = Len(v) + 1 /\ w[Len(w)] = FLAG
                               /\ \A i \in 1 .. Len(v) : w[i] = v[i]
    <2>. DEFINE w == v \o <<FLAG>>
    <2>1. w \in Seq(Byte) /\ Len(w) = Len(v) + 1 /\ Len(v) \in Nat
          /\ \A i \in 1 .. Len(v) + 1 : w[i] = IF i <= Len(v) THEN v[i] ELSE <<FLAG>>[i - Len(v)]
      BY <1>6, ConcatProperties, LenProperties
    <2>. HIDE DEF w
    <2>2. \A i \in 1 .. Len(v) : w[i] = v[i]
      BY <2>1
    <2>3. PICK m \in 1 .. Len(v) + 1 : m = Len(v) + 1 /\ m - Len(v) = 1 /\ ~ (m <= Len(v))
      BY <2>1
    <2>4. w[m] = FLAG
      BY <1>6, <2>1, <2>3
    <2>. QED  BY <2>1, <2>2, <2>3, <2>4 DEF w
  <1>9. w = hdlc_encode(c)
    BY <1>5, <1>7, <1>8 DEF hdlc_encode, Raw
  <1>10. Len(w) = Len(u) + 2 /\ w[1] = FLAG /\ \A i \in 1 .. Len(u) : w[i + 1] = u[i]
    <2>1. Len(u) \in Nat
      BY LenProperties
    <2>. QED  BY <1>7, <1>8, <2>1
  <1>11. w \in Bytes /\ u \in Bytes /\ s \o t \in Bytes
    BY <1>3 DEF Bytes
  <1>12. Len(Raw(c)) = Len(c) + 2
    BY <1>1, <1>3, <1>4
  <1>. QED  BY <1>4, <1>5, <1>8, <1>9, <1>10, <1>11, <1>12

\* A frame's content is valid, and yields the chunk.
LEMMA RawIsValid ==
    ASSUME NEW c \in Bytes, c # <<>>
    PROVE  Valid(Raw(c)) /\ Payload(Raw(c)) = c
  <1>1. PICK s \in Seq(Byte) : s = c /\ s # <<>>
    BY DEF Bytes
  <1>2. PICK t \in Seq(Byte) : t = CrcBytes(s) /\ Len(t) = 2
    BY CrcIsBytes
  <1>3. PICK n \in Nat : n = Len(s) /\ n >= 1
    BY <1>1, EmptySeq
  <1>4. PICK r \in Seq(Byte) : r = s \o t /\ Len(r) = n + 2
    <2>1. s \o t \in Seq(Byte) /\ Len(s \o t) = Len(s) + Len(t)
      BY ConcatProperties
    <2>. QED  BY <1>2, <1>3, <2>1
  <1>5. r = Raw(c)
    BY <1>1, <1>2, <1>4 DEF Raw
  <1>6. SubSeq(r, 1, n) = s
    <2>1. SubSeq(s \o t, 1, n) = SubSeq(s, 1, n)
      BY <1>3, SubSeqOfConcat1
    <2>. QED  BY <1>3, <1>4, <2>1, SubSeqFull
  <1>7. SubSeq(r, n + 1, n + 2) = t
    <2>1. PICK a \in Len(s) + 1 .. Len(s) + Len(t), b \in Len(s) + 1 .. Len(s) + Len(t) :
               a = n + 1 /\ b = n + 2 /\ a - Len(s) = 1 /\ b - Len(s) = 2
      <3>1. n + 1 \in Len(s) + 1 .. Len(s) + Len(t) /\ n + 2 \in Len(s) + 1 .. Len(s) + Len(t)
        BY <1>2, <1>3
      <3>. QED  BY <1>3, <3>1
    <2>2. SubSeq(s \o t, a, b) = SubSeq(t, a - Len(s), b - Len(s))
      BY SubSeqOfConcat2
    <2>3. SubSeq(t, 1, 2) = t
      BY <1>2, SubSeqFull
    <2>. QED  BY <1>4, <2>1, <2>2, <2>3
  <1>8. Len(r) - 2 = n /\ Len(r) - 1 = n + 1 /\ Len(r) = n + 2 /\ Len(r) >= 3
    BY <1>3, <1>4
  <1>9. Payload(r) = s
    BY <1>6, <1>8 DEF Payload
  <1>10. Trailer(r) = t
    BY <1>7, <1>8 DEF Trailer
  <1>. QED  BY <1>1, <1>2, <1>5, <1>8, <1>9, <1>10 DEF Valid

\* The parser has read p - 1 bytes of a frame: a FLAG, and the stuffed bytes of
\* what it has gathered.
Gathered(q, raw, p) ==
    \E Off : /\ Places(raw, Off)
             /\ \E k \in 0 .. Len(raw) :
                   /\ q.buf = SubSeq(raw, 1, k)
                   /\ \/ q.state = "IN" /\ p = Off[k] + 2
                      \/ q.state = "ESC" /\ p = Off[k] + 3 /\ k < Len(raw) /\ raw[k + 1] \in {FLAG, ESC}

InFrame(q, c, p) == Gathered(q, Raw(c), p)

Parsers == [state : {"OUT", "IN", "ESC"}, buf : Bytes]

\* A FLAG opens the frame.
LEMMA FrameOpens ==
    ASSUME NEW c \in Bytes
    PROVE  InFrame(Between, c, 2)
  <1>1. PICK Off : Places(Raw(c), Off)
    BY FrameShape, StuffedPlaces DEF Bytes
  <1>2. Off[0] = 0 /\ 0 \in 0 .. Len(Raw(c))
    <2>1. Off[0] = 0
      BY <1>1 DEF Places
    <2>2. Raw(c) \in Seq(Byte)
      BY FrameShape DEF Bytes
    <2>. QED  BY <2>1, <2>2
  <1>3. Between.state = "IN" /\ Between.buf = <<>>
    BY DEF Between
  <1>4. SubSeq(Raw(c), 1, 0) = <<>>
    OBVIOUS
  <1>. QED  BY <1>1, <1>2, <1>3, <1>4 DEF InFrame, Gathered

\* Where the next byte of a stuffed sequence is.
LEMMA NextPlace ==
    ASSUME NEW raw \in Seq(Byte), NEW Off, Places(raw, Off), NEW m \in 1 .. Len(raw)
    PROVE  /\ raw[m] \in Byte /\ Off[m - 1] \in Nat /\ Off[m] \in Nat /\ Off[m] <= Len(StuffedAll(raw))
           /\ raw[m] \in {FLAG, ESC} =>
                 /\ Off[m] = Off[m - 1] + 2
                 /\ StuffedAll(raw)[Off[m - 1] + 1] = ESC
                 /\ StuffedAll(raw)[Off[m - 1] + 2] \notin {FLAG, ESC}
                 /\ XorEsc(StuffedAll(raw)[Off[m - 1] + 2]) = raw[m]
           /\ raw[m] \notin {FLAG, ESC} =>
                 Off[m] = Off[m - 1] + 1 /\ StuffedAll(raw)[Off[m - 1] + 1] = raw[m]
  <1>1. m \in 0 .. Len(raw) /\ m - 1 \in 0 .. Len(raw)
    <2>1. Len(raw) \in Nat
      BY LenProperties
    <2>. QED  BY <2>1
  <1>2. Off[m - 1] \in Nat /\ Off[m] \in Nat /\ Off[m] <= Len(StuffedAll(raw))
    BY <1>1 DEF Places
  <1>3. PICK b \in Byte : b = raw[m]
    BY ElementOfSeq
  <1>4. PICK t : t = StuffedAll(raw)
    OBVIOUS
  <1>5. /\ Off[m] = Off[m - 1] + Len(Stuffed(b))
        /\ \A i \in 1 .. Len(Stuffed(b)) : t[Off[m - 1] + i] = Stuffed(b)[i]
    BY <1>3, <1>4 DEF Places
  <1>6. b \in {FLAG, ESC} => /\ Len(Stuffed(b)) = 2 /\ Stuffed(b)[1] = ESC
                             /\ XorEsc(Stuffed(b)[2]) = b /\ Stuffed(b)[2] \notin {FLAG, ESC}
    BY StuffedByte
  <1>7. b \notin {FLAG, ESC} => Len(Stuffed(b)) = 1 /\ Stuffed(b)[1] = b
    BY StuffedByte
  <1>8. ASSUME b \in {FLAG, ESC}
        PROVE  /\ Off[m] = Off[m - 1] + 2 /\ t[Off[m - 1] + 1] = ESC
               /\ t[Off[m - 1] + 2] \notin {FLAG, ESC} /\ XorEsc(t[Off[m - 1] + 2]) = b
    <2>1. PICK s : s = Stuffed(b) /\ Len(s) = 2 /\ s[1] = ESC /\ XorEsc(s[2]) = b /\ s[2] \notin {FLAG, ESC}
      BY <1>6, <1>8
    <2>2. 1 \in 1 .. Len(s) /\ 2 \in 1 .. Len(s)
      BY <2>1
    <2>3. t[Off[m - 1] + 1] = s[1] /\ t[Off[m - 1] + 2] = s[2]
      BY <1>5, <2>1, <2>2
    <2>. QED  BY <1>5, <2>1, <2>3
  <1>9. ASSUME b \notin {FLAG, ESC}
        PROVE  Off[m] = Off[m - 1] + 1 /\ t[Off[m - 1] + 1] = b
    <2>1. PICK s : s = Stuffed(b) /\ Len(s) = 1 /\ s[1] = b
      BY <1>7, <1>9
    <2>2. 1 \in 1 .. Len(s)
      BY <2>1
    <2>. QED  BY <1>5, <2>1, <2>2
  <1>. QED  BY <1>2, <1>3, <1>4, <1>8, <1>9

\* The first k + 1 elements are the first k and one more.
LEMMA FirstAppend ==
    ASSUME NEW X, NEW s \in Seq(X), NEW m \in 1 .. Len(s)
    PROVE  SubSeq(s, 1, m) = Append(SubSeq(s, 1, m - 1), s[m])
           /\ SubSeq(s, 1, m - 1) \in Seq(X) /\ Len(SubSeq(s, 1, m - 1)) = m - 1
  <1>1. Len(s) \in Nat
    BY LenProperties
  <1>2. 1 \in 1 .. Len(s) /\ m \in 1 .. Len(s) /\ m - 1 \in Nat
    BY <1>1
  <1>3. SubSeq(s, 1, m) = SubSeq(s, 1, m - 1) \o <<s[m]>>
    BY <1>2, SubSeqRecursiveSecond
  <1>4. \A i \in 1 .. m - 1 : s[i] \in X
    BY <1>1, ElementOfSeq
  <1>5. SubSeq(s, 1, m - 1) \in Seq(X) /\ Len(SubSeq(s, 1, m - 1)) = m - 1
    <2>1. PICK k \in Int : k = m - 1 /\ k >= 0
      BY <1>2
    <2>2. SubSeq(s, 1, k) \in Seq(X) /\ Len(SubSeq(s, 1, k)) = IF 1 <= k THEN k - 1 + 1 ELSE 0
      BY <1>4, <2>1, SubSeqProperties
    <2>. QED  BY <2>1, <2>2
  <1>6. Append(SubSeq(s, 1, m - 1), s[m]) = SubSeq(s, 1, m - 1) \o <<s[m]>>
    BY <1>5, ElementOfSeq, AppendIsConcat
  <1>. QED  BY <1>3, <1>5, <1>6

\* Within a frame a byte takes the parser one byte further, unless it has no room.
LEMMA FrameGoesOn ==
    ASSUME NEW c \in Bytes, NEW q \in Parsers, NEW p \in Nat, InFrame(q, c, p), p < Len(hdlc_encode(c)),
           NEW b, b = hdlc_encode(c)[p]
    PROVE  /\ ~Completes(q, b)
           /\ \/ InFrame(feed_parser(q, b, AccumSize), c, p + 1)
              \/ feed_parser(q, b, AccumSize) = NewParser /\ ~Fits(c)
  <1>1. PICK raw \in Seq(Byte) : raw = Raw(c) /\ Len(raw) = Len(c) + 2
    BY FrameShape DEF Bytes
  <1>2. PICK t \in Seq(Byte) : /\ t = StuffedAll(raw) /\ Len(hdlc_encode(c)) = Len(t) + 2
                               /\ \A i \in 1 .. Len(t) : hdlc_encode(c)[i + 1] = t[i]
    BY <1>1, FrameShape DEF Bytes
  <1>20. Gathered(q, raw, p)
    BY <1>1 DEF InFrame
  <1>21. PICK Off : /\ Places(raw, Off)
                    /\ \E k \in 0 .. Len(raw) :
                          /\ q.buf = SubSeq(raw, 1, k)
                          /\ \/ q.state = "IN" /\ p = Off[k] + 2
                             \/ q.state = "ESC" /\ p = Off[k] + 3 /\ k < Len(raw) /\ raw[k + 1] \in {FLAG, ESC}
    BY <1>20 DEF Gathered
  <1>3. PICK k \in 0 .. Len(raw) :
              /\ Places(raw, Off) /\ q.buf = SubSeq(raw, 1, k)
              /\ \/ q.state = "IN" /\ p = Off[k] + 2
                 \/ q.state = "ESC" /\ p = Off[k] + 3 /\ k < Len(raw) /\ raw[k + 1] \in {FLAG, ESC}
    BY <1>21
  <1>4. Len(raw) \in Nat /\ Len(t) \in Nat /\ k \in Nat
    BY LenProperties
  <1>5. Off[k] \in Nat
    BY <1>3 DEF Places
  <1>6. k < Len(raw)
    <2>1. SUFFICES ASSUME k = Len(raw) PROVE FALSE
      BY <1>4
    <2>2. Off[k] = Len(t)
      BY <1>2, <1>3, <2>1 DEF Places
    <2>. QED  BY <1>2, <1>3, <1>4, <2>1, <2>2
  <1>7. PICK m \in 1 .. Len(raw) : m = k + 1 /\ m - 1 = k
    BY <1>4, <1>6
  <1>8. /\ raw[m] \in Byte /\ Off[m] \in Nat /\ Off[m] <= Len(t)
        /\ raw[m] \in {FLAG, ESC} =>
                 /\ Off[m] = Off[k] + 2 /\ t[Off[k] + 1] = ESC
                 /\ t[Off[k] + 2] \notin {FLAG, ESC} /\ XorEsc(t[Off[k] + 2]) = raw[m]
        /\ raw[m] \notin {FLAG, ESC} => Off[m] = Off[k] + 1 /\ t[Off[k] + 1] = raw[m]
    <2>1. Places(raw, Off)
      BY <1>3
    <2>2. /\ raw[m] \in Byte /\ Off[m] \in Nat /\ Off[m] <= Len(StuffedAll(raw))
          /\ raw[m] \in {FLAG, ESC} =>
                 /\ Off[m] = Off[m - 1] + 2 /\ StuffedAll(raw)[Off[m - 1] + 1] = ESC
                 /\ StuffedAll(raw)[Off[m - 1] + 2] \notin {FLAG, ESC}
                 /\ XorEsc(StuffedAll(raw)[Off[m - 1] + 2]) = raw[m]
          /\ raw[m] \notin {FLAG, ESC} => Off[m] = Off[m - 1] + 1 /\ StuffedAll(raw)[Off[m - 1] + 1] = raw[m]
      BY <2>1, NextPlace
    <2>. QED  BY <1>2, <1>7, <2>2, Zenon
  <1>9. SubSeq(raw, 1, m) = Append(SubSeq(raw, 1, k), raw[m]) /\ Len(SubSeq(raw, 1, k)) = k
    BY <1>7, FirstAppend
  <1>10. q = [state |-> q.state, buf |-> q.buf]
    BY DEF Parsers
  <1>11. FLAG # ESC
    BY DEF FLAG, ESC
  <1>12. Len(q.buf) >= AccumSize => ~Fits(c)
    <2>1. k >= MaxPayload + 2 /\ k < Len(c) + 2 /\ MaxPayload \in Nat /\ Len(c) \in Nat => ~(Len(c) <= MaxPayload)
      BY <1>4
    <2>2. MaxPayload \in Nat
      BY DownlinkAssumption
    <2>3. Len(c) \in Nat
      BY LenProperties DEF Bytes
    <2>. QED  BY <1>1, <1>3, <1>6, <1>9, <2>1, <2>2, <2>3 DEF AccumSize, Fits
  <1>13. m \in 0 .. Len(Raw(c)) /\ k \in 0 .. Len(Raw(c)) /\ k < Len(Raw(c)) /\ m = k + 1
    BY <1>1, <1>4, <1>6, <1>7
  <1>. DEFINE r == feed_parser(q, b, AccumSize)
  <1>14. CASE q.state = "IN" /\ p = Off[k] + 2
    <2>1. b = t[Off[k] + 1]
      <3>1. PICK i \in 1 .. Len(t) : i = Off[k] + 1 /\ p = i + 1
        BY <1>2, <1>4, <1>5, <1>14
      <3>. QED  BY <1>2, <3>1
    <2>2. CASE raw[m] \in {FLAG, ESC}
      <3>1. b = ESC
        BY <1>8, <2>1, <2>2
      <3>2. ~Completes(q, b)
        BY <1>11, <3>1 DEF Completes
      <3>3. r = [q EXCEPT !.state = "ESC"]
        BY <1>11, <1>14, <3>1 DEF feed_parser, Gather
      <3>4. r.state = "ESC" /\ r.buf = SubSeq(raw, 1, k)
        BY <1>3, <1>10, <3>3
      <3>5. p + 1 = Off[k] + 3
        BY <1>5, <1>14
      <3>. HIDE DEF r
      <3>6. InFrame(r, c, p + 1)
        BY <1>1, <1>3, <1>7, <1>13, <2>2, <3>4, <3>5 DEF InFrame, Gathered
      <3>. QED  BY <3>2, <3>6 DEF r
    <2>3. CASE raw[m] \notin {FLAG, ESC}
      <3>1. b = raw[m] /\ b # FLAG /\ b # ESC
        BY <1>8, <2>1, <2>3
      <3>2. ~Completes(q, b)
        BY <3>1 DEF Completes
      <3>3. CASE Len(q.buf) >= AccumSize
        <4>1. r = NewParser
          BY <1>14, <3>1, <3>3 DEF feed_parser, Gather
        <4>. QED  BY <1>12, <3>2, <3>3, <4>1
      <3>4. CASE ~(Len(q.buf) >= AccumSize)
        <4>1. r = [state |-> "IN", buf |-> Append(q.buf, b)]
          BY <1>14, <3>1, <3>4 DEF feed_parser, Gather
        <4>2. r.state = "IN" /\ r.buf = SubSeq(raw, 1, m)
          BY <1>3, <1>9, <3>1, <4>1
        <4>3. p + 1 = Off[m] + 2
          BY <1>5, <1>8, <1>14, <2>3
        <4>. HIDE DEF r
        <4>4. InFrame(r, c, p + 1)
          BY <1>1, <1>3, <1>13, <4>2, <4>3 DEF InFrame, Gathered
        <4>. QED  BY <3>2, <4>4 DEF r
      <3>. QED  BY <3>3, <3>4
    <2>. QED  BY <2>2, <2>3
  <1>15. CASE q.state = "ESC" /\ p = Off[k] + 3 /\ raw[k + 1] \in {FLAG, ESC}
    <2>1. b = t[Off[k] + 2] /\ raw[m] \in {FLAG, ESC}
      <3>1. PICK i \in 1 .. Len(t) : i = Off[k] + 2 /\ p = i + 1
        BY <1>2, <1>4, <1>5, <1>15
      <3>. QED  BY <1>2, <1>7, <1>15, <3>1
    <2>2. XorEsc(b) = raw[m] /\ Off[m] = Off[k] + 2
      BY <1>8, <2>1
    <2>3. ~Completes(q, b)
      BY <1>15 DEF Completes
    <2>4. CASE Len(q.buf) >= AccumSize
      <3>1. r = NewParser
        BY <1>15, <2>4 DEF feed_parser, Gather
      <3>. QED  BY <1>12, <2>3, <2>4, <3>1
    <2>5. CASE ~(Len(q.buf) >= AccumSize)
      <3>1. r = [state |-> "IN", buf |-> Append(q.buf, XorEsc(b))]
        BY <1>15, <2>5 DEF feed_parser, Gather
      <3>2. r.state = "IN" /\ r.buf = SubSeq(raw, 1, m)
        <4>1. r.state = "IN" /\ r.buf = Append(q.buf, XorEsc(b))
          BY <3>1
        <4>. HIDE DEF r
        <4>. QED  BY <1>3, <1>9, <2>2, <4>1, Zenon
      <3>3. p + 1 = Off[m] + 2
        BY <1>5, <1>15, <2>2
      <3>. HIDE DEF r
      <3>4. InFrame(r, c, p + 1)
        BY <1>1, <1>3, <1>13, <3>2, <3>3 DEF InFrame, Gathered
      <3>. QED  BY <2>3, <3>4 DEF r
    <2>. QED  BY <2>4, <2>5
  <1>. QED  BY <1>3, <1>14, <1>15

\* At the closing FLAG the parser has the whole content.
LEMMA FrameCloses ==
    ASSUME NEW c \in Bytes, NEW q \in Parsers, NEW p \in Nat, InFrame(q, c, p), p = Len(hdlc_encode(c))
    PROVE  q.state = "IN" /\ q.buf = Raw(c)
  <1>1. PICK raw \in Seq(Byte) : raw = Raw(c)
    BY FrameShape DEF Bytes
  <1>2. PICK t \in Seq(Byte) : t = StuffedAll(raw) /\ Len(hdlc_encode(c)) = Len(t) + 2
    BY <1>1, FrameShape DEF Bytes
  <1>20. Gathered(q, raw, p)
    BY <1>1 DEF InFrame
  <1>21. PICK Off : /\ Places(raw, Off)
                    /\ \E k \in 0 .. Len(raw) :
                          /\ q.buf = SubSeq(raw, 1, k)
                          /\ \/ q.state = "IN" /\ p = Off[k] + 2
                             \/ q.state = "ESC" /\ p = Off[k] + 3 /\ k < Len(raw) /\ raw[k + 1] \in {FLAG, ESC}
    BY <1>20 DEF Gathered
  <1>3. PICK k \in 0 .. Len(raw) :
              /\ Places(raw, Off) /\ q.buf = SubSeq(raw, 1, k)
              /\ \/ q.state = "IN" /\ p = Off[k] + 2
                 \/ q.state = "ESC" /\ p = Off[k] + 3 /\ k < Len(raw) /\ raw[k + 1] \in {FLAG, ESC}
    BY <1>21
  <1>4. Len(raw) \in Nat /\ Len(t) \in Nat /\ k \in Nat
    BY LenProperties
  <1>5. Off[k] \in Nat
    BY <1>3 DEF Places
  <1>6. ASSUME k < Len(raw) PROVE FALSE
    <2>1. PICK m \in 1 .. Len(raw) : m = k + 1 /\ m - 1 = k
      BY <1>4, <1>6
    <2>2. /\ Off[m] <= Len(t) /\ Off[m] \in Nat
          /\ raw[m] \in {FLAG, ESC} => Off[m] = Off[k] + 2
          /\ raw[m] \notin {FLAG, ESC} => Off[m] = Off[k] + 1
      BY <1>2, <1>3, <2>1, NextPlace
    <2>3. CASE q.state = "IN" /\ p = Off[k] + 2
      <3>1. Off[k] = Len(t)
        BY <1>2, <1>4, <1>5, <2>3
      <3>2. Off[m] = Off[k] + 2 \/ Off[m] = Off[k] + 1
        BY <2>2
      <3>. QED  BY <1>4, <1>5, <2>2, <3>1, <3>2
    <2>4. CASE q.state = "ESC" /\ p = Off[k] + 3 /\ raw[k + 1] \in {FLAG, ESC}
      <3>1. Off[m] = Off[k] + 2
        BY <2>1, <2>2, <2>4
      <3>. QED  BY <1>2, <1>4, <1>5, <2>2, <2>4, <3>1
    <2>. QED  BY <1>3, <2>3, <2>4
  <1>7. k = Len(raw)
    BY <1>4, <1>6
  <1>8. SubSeq(raw, 1, Len(raw)) = raw
    BY SubSeqFull
  <1>. QED  BY <1>1, <1>3, <1>4, <1>7, <1>8

-----------------------------------------------------------------------------
(* What is on its way: frames, and heartbeats between them *)

\* b takes the reader from byte p of frame j to byte q of frame k: it is the
\* byte that is there, or a heartbeat before the frame.
Goes(b, cs, j, p, k, q) ==
    \/ p = 1 /\ b = 0 /\ k = j /\ q = 1
    \/ /\ j \in 1 .. Len(cs) /\ p \in 1 .. Len(hdlc_encode(cs[j])) /\ b = hdlc_encode(cs[j])[p]
       /\ IF p = Len(hdlc_encode(cs[j])) THEN k = j + 1 /\ q = 1 ELSE k = j /\ q = p + 1

\* J and P say where the reader is before each byte of s, and after the last.
Route(s, cs, J, P) ==
    /\ \A i \in 1 .. Len(s) + 1 : J[i] \in Nat /\ P[i] \in Nat
    /\ \A i \in 1 .. Len(s) : Goes(s[i], cs, J[i], P[i], J[i + 1], P[i + 1])

\* s takes the reader from byte p of frame j to the beginning of frame e.
Leads(s, cs, j, p, e) ==
    \E J, P : /\ Route(s, cs, J, P)
              /\ J[1] = j /\ P[1] = p /\ J[Len(s) + 1] = e /\ P[Len(s) + 1] = 1

\* Nothing leads nowhere.
LEMMA LeadsNone ==
    ASSUME NEW cs, NEW j \in Nat
    PROVE  Leads(<<>>, cs, j, 1, j)
  <1>. DEFINE J == [i \in 1 .. 1 |-> j]  P == [i \in 1 .. 1 |-> 1]
  <1>1. Len(<<>>) = 0 /\ Len(<<>>) + 1 = 1
    OBVIOUS
  <1>2. J[1] = j /\ P[1] = 1 /\ (\A i \in 1 .. 1 : J[i] \in Nat /\ P[i] \in Nat) /\ \A i \in 1 .. 0 : FALSE
    OBVIOUS
  <1>. HIDE DEF J, P
  <1>3. Route(<<>>, cs, J, P)
    BY <1>1, <1>2 DEF Route
  <1>. QED  BY <1>1, <1>2, <1>3 DEF Leads

\* A heartbeat may follow.
LEMMA LeadsBeat ==
    ASSUME NEW s \in Bytes, NEW cs, NEW j, NEW p, NEW e, Leads(s, cs, j, p, e)
    PROVE  Leads(Append(s, 0), cs, j, p, e)
  <1>1. PICK J, P : /\ Route(s, cs, J, P)
                    /\ J[1] = j /\ P[1] = p /\ J[Len(s) + 1] = e /\ P[Len(s) + 1] = 1
    BY DEF Leads
  <1>2. PICK n \in Nat : n = Len(s)
    BY LenProperties DEF Bytes
  <1>3. PICK t : t = Append(s, 0) /\ Len(t) = n + 1 /\ t[n + 1] = 0 /\ \A i \in 1 .. n : t[i] = s[i]
    <2>1. s \in Seq(Byte) /\ 0 \in Byte
      BY DEF Bytes, Byte
    <2>2. /\ Len(Append(s, 0)) = Len(s) + 1 /\ Append(s, 0)[Len(s) + 1] = 0
          /\ \A i \in 1 .. Len(s) : Append(s, 0)[i] = s[i]
      BY <2>1, AppendProperties
    <2>. QED  BY <1>2, <2>2
  <1>. DEFINE K == [i \in 1 .. n + 2 |-> IF i <= n + 1 THEN J[i] ELSE e]
              Q == [i \in 1 .. n + 2 |-> IF i <= n + 1 THEN P[i] ELSE 1]
  <1>4. \A i \in 1 .. n + 1 : K[i] = J[i] /\ Q[i] = P[i]
    OBVIOUS
  <1>5. K[n + 2] = e /\ Q[n + 2] = 1
    BY <1>2
  <1>. HIDE DEF K, Q
  <1>6. J[n + 1] = e /\ P[n + 1] = 1 /\ \A i \in 1 .. n + 1 : J[i] \in Nat /\ P[i] \in Nat
    BY <1>1, <1>2 DEF Route
  <1>7. K[1] = j /\ Q[1] = p
    BY <1>1, <1>4
  <1>8. \A i \in 1 .. n + 2 : K[i] \in Nat /\ Q[i] \in Nat
    <2>. SUFFICES ASSUME NEW i \in 1 .. n + 2 PROVE K[i] \in Nat /\ Q[i] \in Nat
      OBVIOUS
    <2>1. CASE i \in 1 .. n + 1
      BY <1>4, <1>6, <2>1
    <2>2. CASE i = n + 2
      <3>1. n + 1 \in 1 .. n + 1
        OBVIOUS
      <3>. QED  BY <1>5, <1>6, <2>2, <3>1
    <2>. QED  BY <2>1, <2>2
  <1>9. ASSUME NEW i \in 1 .. n + 1 PROVE Goes(t[i], cs, K[i], Q[i], K[i + 1], Q[i + 1])
    <2>1. CASE i \in 1 .. n
      <3>1. i + 1 \in 1 .. n + 1
        BY <2>1
      <3>2. Goes(s[i], cs, J[i], P[i], J[i + 1], P[i + 1])
        BY <1>1, <1>2, <2>1 DEF Route
      <3>. QED  BY <1>3, <1>4, <2>1, <3>1, <3>2
    <2>2. CASE i = n + 1
      <3>1. i + 1 = n + 2
        BY <2>2
      <3>2. t[i] = 0 /\ K[i] = e /\ Q[i] = 1 /\ K[i + 1] = e /\ Q[i + 1] = 1
        BY <1>3, <1>4, <1>5, <1>6, <2>2, <3>1
      <3>. QED  BY <3>2 DEF Goes
    <2>. QED  BY <2>1, <2>2
  <1>10. Len(t) + 1 = n + 2
    BY <1>3
  <1>11. Route(t, cs, K, Q)
    BY <1>3, <1>8, <1>9, <1>10 DEF Route
  <1>. QED  BY <1>3, <1>5, <1>7, <1>10, <1>11 DEF Leads

\* So may the next frame.
LEMMA LeadsFrame ==
    ASSUME NEW s \in Bytes, NEW cs \in Pieces, NEW j, NEW p, NEW e \in 1 .. Len(cs), Leads(s, cs, j, p, e)
    PROVE  Leads(s \o hdlc_encode(cs[e]), cs, j, p, e + 1)
  <1>1. PICK J, P : /\ Route(s, cs, J, P)
                    /\ J[1] = j /\ P[1] = p /\ J[Len(s) + 1] = e /\ P[Len(s) + 1] = 1
    BY DEF Leads
  <1>2. PICK n \in Nat : n = Len(s)
    BY LenProperties DEF Bytes
  <1>3. cs[e] \in Bytes
    BY ElementOfSeq DEF Pieces
  <1>4. PICK f \in Seq(Byte) : f = hdlc_encode(cs[e]) /\ Len(f) >= 2
    <2>1. hdlc_encode(cs[e]) \in Bytes /\ Len(hdlc_encode(cs[e])) = Len(StuffedAll(Raw(cs[e]))) + 2
          /\ StuffedAll(Raw(cs[e])) \in Bytes
      BY <1>3, FrameShape
    <2>2. Len(StuffedAll(Raw(cs[e]))) \in Nat
      BY <2>1, LenProperties DEF Bytes
    <2>3. Len(StuffedAll(Raw(cs[e]))) + 2 >= 2
      BY <2>2
    <2>. QED  BY <2>1, <2>3 DEF Bytes
  <1>5. PICK m \in Nat : m = Len(f) /\ m >= 2
    BY <1>4, LenProperties
  <1>6. PICK t : /\ t = s \o f /\ Len(t) = n + m
                 /\ \A i \in 1 .. n + m : t[i] = IF i <= n THEN s[i] ELSE f[i - n]
    <2>1. s \in Seq(Byte)
      BY DEF Bytes
    <2>2. /\ Len(s \o f) = Len(s) + Len(f)
          /\ \A i \in 1 .. Len(s) + Len(f) : (s \o f)[i] = IF i <= Len(s) THEN s[i] ELSE f[i - Len(s)]
      BY <2>1, ConcatProperties
    <2>. QED  BY <1>2, <1>5, <2>2
  <1>. DEFINE K == [i \in 1 .. n + m + 1 |-> IF i <= n THEN J[i] ELSE IF i <= n + m THEN e ELSE e + 1]
              Q == [i \in 1 .. n + m + 1 |-> IF i <= n THEN P[i] ELSE IF i <= n + m THEN i - n ELSE 1]
  <1>7. \A i \in 1 .. n + 1 : K[i] = J[i] /\ Q[i] = P[i]
    <2>. SUFFICES ASSUME NEW i \in 1 .. n + 1 PROVE K[i] = J[i] /\ Q[i] = P[i]
      OBVIOUS
    <2>1. i \in 1 .. n + m + 1
      BY <1>5
    <2>2. CASE i <= n
      BY <2>1, <2>2
    <2>3. CASE i = n + 1
      <3>1. i - n = 1 /\ i <= n + m /\ ~(i <= n)
        BY <1>5, <2>3
      <3>2. K[i] = e /\ Q[i] = 1
        BY <2>1, <3>1
      <3>. HIDE DEF K, Q
      <3>. QED  BY <1>1, <1>2, <2>3, <3>2
    <2>. QED  BY <2>2, <2>3
  <1>8. \A i \in 1 .. m : K[n + i] = e /\ Q[n + i] = i
    <2>. SUFFICES ASSUME NEW i \in 1 .. m PROVE K[n + i] = e /\ Q[n + i] = i
      OBVIOUS
    <2>1. n + i \in 1 .. n + m + 1 /\ ~(n + i <= n) /\ n + i <= n + m /\ n + i - n = i
      OBVIOUS
    <2>. QED  BY <2>1
  <1>9. K[n + m + 1] = e + 1 /\ Q[n + m + 1] = 1
    <2>1. n + m + 1 \in 1 .. n + m + 1 /\ ~(n + m + 1 <= n) /\ ~(n + m + 1 <= n + m)
      OBVIOUS
    <2>. QED  BY <2>1
  <1>. HIDE DEF K, Q
  <1>10. \A i \in 1 .. n + 1 : J[i] \in Nat /\ P[i] \in Nat
    BY <1>1, <1>2 DEF Route
  <1>11. K[1] = j /\ Q[1] = p
    BY <1>1, <1>7
  <1>12. e \in Nat /\ e + 1 \in Nat
    BY LenProperties DEF Pieces
  <1>13. \A i \in 1 .. n + m + 1 : K[i] \in Nat /\ Q[i] \in Nat
    <2>. SUFFICES ASSUME NEW i \in 1 .. n + m + 1 PROVE K[i] \in Nat /\ Q[i] \in Nat
      OBVIOUS
    <2>1. CASE i <= n + 1
      BY <1>7, <1>10, <2>1
    <2>2. CASE i > n /\ i <= n + m
      <3>1. PICK k \in 1 .. m : i = n + k
        <4>1. i - n \in 1 .. m /\ i = n + (i - n)
          BY <2>2
        <4>. QED  BY <4>1
      <3>2. k \in Nat
        OBVIOUS
      <3>3. K[n + k] \in Nat /\ Q[n + k] \in Nat
        BY <1>8, <1>12, <3>2
      <3>. QED  BY <3>1, <3>3
    <2>3. CASE i = n + m + 1
      BY <1>9, <1>12, <2>3
    <2>. QED  BY <2>1, <2>2, <2>3
  <1>14. ASSUME NEW i \in 1 .. n + m PROVE Goes(t[i], cs, K[i], Q[i], K[i + 1], Q[i + 1])
    <2>1. CASE i <= n
      <3>1. i \in 1 .. n /\ i \in 1 .. n + 1 /\ i + 1 \in 1 .. n + 1
        BY <2>1
      <3>2. Goes(s[i], cs, J[i], P[i], J[i + 1], P[i + 1])
        BY <1>1, <1>2, <3>1 DEF Route
      <3>. QED  BY <1>6, <1>7, <2>1, <3>1, <3>2
    <2>2. CASE i > n
      <3>1. PICK k \in 1 .. m : i = n + k /\ i - n = k /\ ~(i <= n)
        <4>1. i - n \in 1 .. m /\ i = n + (i - n)
          BY <2>2
        <4>. QED  BY <2>2, <4>1
      <3>2. t[i] = f[k] /\ K[i] = e /\ Q[i] = k
        BY <1>6, <1>8, <3>1
      <3>3. CASE k = m
        <4>1. i + 1 = n + m + 1
          BY <3>1, <3>3
        <4>2. K[i + 1] = e + 1 /\ Q[i + 1] = 1
          BY <1>9, <4>1
        <4>3. k \in 1 .. Len(hdlc_encode(cs[e])) /\ k = Len(hdlc_encode(cs[e])) /\ t[i] = hdlc_encode(cs[e])[k]
          BY <1>4, <1>5, <3>2, <3>3
        <4>. QED  BY <3>2, <4>2, <4>3 DEF Goes
      <3>4. CASE k # m
        <4>1. PICK l \in 1 .. m : l = k + 1 /\ i + 1 = n + l
          BY <3>1, <3>4
        <4>2. K[i + 1] = e /\ Q[i + 1] = k + 1
          BY <1>8, <4>1
        <4>3. k \in 1 .. Len(hdlc_encode(cs[e])) /\ k # Len(hdlc_encode(cs[e])) /\ t[i] = hdlc_encode(cs[e])[k]
          BY <1>4, <1>5, <3>2, <3>4
        <4>. QED  BY <3>2, <4>2, <4>3 DEF Goes
      <3>. QED  BY <3>3, <3>4
    <2>. QED  BY <2>1, <2>2
  <1>15. Len(t) + 1 = n + m + 1
    BY <1>6
  <1>16. Route(t, cs, K, Q)
    BY <1>6, <1>13, <1>14, <1>15 DEF Route
  <1>. QED  BY <1>4, <1>6, <1>9, <1>11, <1>15, <1>16 DEF Leads

\* A new chunk does not matter to what is on its way.
LEMMA LeadsGrows ==
    ASSUME NEW s \in Bytes, NEW cs \in Pieces, NEW c \in Bytes, NEW j, NEW p, NEW e, Leads(s, cs, j, p, e)
    PROVE  Leads(s, Append(cs, c), j, p, e)
  <1>1. PICK J, P : /\ Route(s, cs, J, P)
                    /\ J[1] = j /\ P[1] = p /\ J[Len(s) + 1] = e /\ P[Len(s) + 1] = 1
    BY DEF Leads
  <1>2. PICK ds : ds = Append(cs, c) /\ Len(ds) = Len(cs) + 1 /\ \A k \in 1 .. Len(cs) : ds[k] = cs[k]
    <2>1. cs \in Seq(Bytes)
      BY DEF Pieces
    <2>2. Len(Append(cs, c)) = Len(cs) + 1 /\ \A k \in 1 .. Len(cs) : Append(cs, c)[k] = cs[k]
      BY <2>1, AppendProperties
    <2>. QED  BY <2>2
  <1>3. Len(cs) \in Nat
    BY LenProperties DEF Pieces
  <1>4. \A k \in 1 .. Len(cs) : k \in 1 .. Len(ds) /\ ds[k] = cs[k]
    BY <1>2, <1>3
  <1>5. ASSUME NEW i \in 1 .. Len(s) PROVE Goes(s[i], ds, J[i], P[i], J[i + 1], P[i + 1])
    <2>1. Goes(s[i], cs, J[i], P[i], J[i + 1], P[i + 1])
      BY <1>1 DEF Route
    <2>. QED  BY <1>4, <2>1 DEF Goes
  <1>6. Route(s, ds, J, P)
    BY <1>1, <1>5 DEF Route
  <1>. QED  BY <1>1, <1>2, <1>6 DEF Leads

\* The reader takes the first byte.
LEMMA LeadsOn ==
    ASSUME NEW s \in Bytes, s # <<>>, NEW cs, NEW j, NEW p, NEW e, Leads(s, cs, j, p, e)
    PROVE  \E k, q : Goes(Head(s), cs, j, p, k, q) /\ Leads(Tail(s), cs, k, q, e)
  <1>1. PICK J, P : /\ Route(s, cs, J, P)
                    /\ J[1] = j /\ P[1] = p /\ J[Len(s) + 1] = e /\ P[Len(s) + 1] = 1
    BY DEF Leads
  <1>2. PICK n \in Nat : n = Len(s) /\ n >= 1
    BY LenProperties, EmptySeq DEF Bytes
  <1>3. PICK t : t = Tail(s) /\ Len(t) = n - 1 /\ \A i \in 1 .. n - 1 : t[i] = s[i + 1]
    <2>1. s \in Seq(Byte)
      BY DEF Bytes
    <2>2. Len(Tail(s)) = Len(s) - 1 /\ \A i \in 1 .. Len(Tail(s)) : Tail(s)[i] = s[i + 1]
      BY <2>1, HeadTailProperties
    <2>. QED  BY <1>2, <2>2
  <1>4. Head(s) = s[1] /\ 1 \in 1 .. n
    BY <1>2 DEF Bytes
  <1>. DEFINE K == [i \in 1 .. n |-> J[i + 1]]  Q == [i \in 1 .. n |-> P[i + 1]]
  <1>5. \A i \in 1 .. n : K[i] = J[i + 1] /\ Q[i] = P[i + 1]
    OBVIOUS
  <1>. HIDE DEF K, Q
  <1>6. K[1] = J[2] /\ Q[1] = P[2] /\ K[n] = e /\ Q[n] = 1
    <2>1. 1 + 1 = 2 /\ 1 \in 1 .. n /\ n \in 1 .. n
      BY <1>2
    <2>. QED  BY <1>1, <1>2, <1>5, <2>1
  <1>7. \A i \in 1 .. n : K[i] \in Nat /\ Q[i] \in Nat
    <2>1. \A i \in 1 .. n : i + 1 \in 1 .. n + 1
      OBVIOUS
    <2>. QED  BY <1>1, <1>2, <1>5, <2>1 DEF Route
  <1>8. ASSUME NEW i \in 1 .. n - 1 PROVE Goes(t[i], cs, K[i], Q[i], K[i + 1], Q[i + 1])
    <2>1. PICK k \in 1 .. n : k = i + 1
      BY <1>2
    <2>2. i \in 1 .. n
      BY <1>2
    <2>3. Goes(s[k], cs, J[k], P[k], J[k + 1], P[k + 1])
      BY <1>1, <1>2 DEF Route
    <2>4. t[i] = s[k] /\ K[i] = J[k] /\ Q[i] = P[k] /\ K[k] = J[k + 1] /\ Q[k] = P[k + 1]
      BY <1>3, <1>5, <2>1, <2>2
    <2>. QED  BY <2>1, <2>3, <2>4
  <1>9. Len(t) + 1 = n
    BY <1>2, <1>3
  <1>10. Route(t, cs, K, Q)
    BY <1>3, <1>7, <1>8, <1>9 DEF Route
  <1>11. Leads(t, cs, J[2], P[2], e)
    BY <1>6, <1>9, <1>10 DEF Leads
  <1>12. Goes(s[1], cs, J[1], P[1], J[2], P[2])
    <2>1. 1 + 1 = 2
      OBVIOUS
    <2>. QED  BY <1>1, <1>2, <1>4, <2>1 DEF Route
  <1>. QED  BY <1>1, <1>3, <1>4, <1>11, <1>12

\* Heartbeats alone lead from the beginning of a frame, and no further.
LEMMA LeadsQuiet ==
    ASSUME NEW s \in Bytes, NEW cs \in Pieces, NEW j, NEW p, NEW e, Leads(s, cs, j, p, e),
           \A i \in 1 .. Len(s) : s[i] = 0
    PROVE  p = 1 /\ j = e
  <1>1. PICK J, P : /\ Route(s, cs, J, P)
                    /\ J[1] = j /\ P[1] = p /\ J[Len(s) + 1] = e /\ P[Len(s) + 1] = 1
    BY DEF Leads
  <1>2. PICK n \in Nat : n = Len(s)
    BY LenProperties DEF Bytes
  <1>. DEFINE At(i) == J[i] = e /\ P[i] = 1
              S == {d \in Nat : d <= n => At(n + 1 - d)}
  <1>3. 0 \in S
    <2>1. n + 1 - 0 = n + 1
      OBVIOUS
    <2>. QED  BY <1>1, <1>2, <2>1
  <1>4. ASSUME NEW d \in S PROVE d + 1 \in S
    <2>. SUFFICES ASSUME d + 1 <= n PROVE At(n + 1 - (d + 1))
      OBVIOUS
    <2>1. d \in Nat /\ d <= n /\ At(n + 1 - d)
      OBVIOUS
    <2>. HIDE DEF S
    <2>2. PICK i \in 1 .. n : i = n + 1 - (d + 1) /\ i + 1 = n + 1 - d
      BY <2>1
    <2>3. J[i + 1] = e /\ P[i + 1] = 1
      BY <2>1, <2>2
    <2>4. Goes(s[i], cs, J[i], P[i], J[i + 1], P[i + 1]) /\ s[i] = 0 /\ P[i] \in Nat
      BY <1>1, <1>2 DEF Route
    <2>5. PICK k, q : k = J[i] /\ q = P[i] /\ q \in Nat /\ Goes(0, cs, k, q, e, 1)
      BY <2>3, <2>4
    <2>6. k = e /\ q = 1
      <3>1. CASE q = 1 /\ 0 = 0 /\ e = k
        BY <3>1
      <3>2. CASE /\ k \in 1 .. Len(cs) /\ q \in 1 .. Len(hdlc_encode(cs[k])) /\ 0 = hdlc_encode(cs[k])[q]
                 /\ IF q = Len(hdlc_encode(cs[k])) THEN e = k + 1 /\ 1 = 1 ELSE e = k /\ 1 = q + 1
        <4>1. hdlc_encode(cs[k])[Len(hdlc_encode(cs[k]))] = FLAG
          BY <3>2, FrameShape, ElementOfSeq DEF Pieces
        <4>2. FLAG # 0
          BY DEF FLAG
        <4>3. q # Len(hdlc_encode(cs[k]))
          BY <3>2, <4>1, <4>2
        <4>4. 1 = q + 1
          BY <3>2, <4>3
        <4>5. q >= 1
          BY <2>5, <3>2
        <4>. QED  BY <2>5, <4>4, <4>5
      <3>. QED  BY <2>5, <3>1, <3>2 DEF Goes
    <2>. QED  BY <2>2, <2>5, <2>6
  <1>5. S = Nat
    <2>1. S \in SUBSET Nat
      OBVIOUS
    <2>. HIDE DEF S
    <2>. QED  BY <1>3, <1>4, <2>1, SetInduction
  <1>6. n \in S /\ n <= n /\ n + 1 - n = 1
    BY <1>2, <1>5
  <1>7. At(1)
    BY <1>6
  <1>. QED  BY <1>1, <1>7

-----------------------------------------------------------------------------
(* The parser, wherever the reader is *)

\* Only heartbeats since the last FLAG.
Silent(q) == q.state = "IN" /\ \E n \in 0 .. AccumSize : q.buf = [i \in 1 .. n |-> 0]

\* The parser's state when the reader is at byte p of frame j.
ParserAt(q, cs, j, p) ==
    /\ p = 1 => q.state = "OUT" \/ Silent(q)
    /\ p # 1 => /\ j \in 1 .. Len(cs) /\ p \in 2 .. Len(hdlc_encode(cs[j]))
                /\ q.state = "OUT" \/ InFrame(q, cs[j], p)

\* An open has interrupted a frame that would have fit.
Interrupted(q, cs, j, p) == p # 1 /\ q.state = "OUT" /\ Fits(cs[j])

\* A byte outside of a frame.
LEMMA OutsideByte ==
    ASSUME NEW q \in Parsers, NEW b, q.state = "OUT"
    PROVE  /\ ~Completes(q, b)
           /\ b = FLAG => feed_parser(q, b, AccumSize) = Between
           /\ b # FLAG => feed_parser(q, b, AccumSize) = q
  BY DEF Completes, feed_parser, Gather

\* A FLAG after a FLAG and, perhaps, heartbeats opens a frame.
LEMMA SilentFlag ==
    ASSUME NEW q \in Parsers, Silent(q)
    PROVE  ~Completes(q, FLAG) /\ feed_parser(q, FLAG, AccumSize) = Between
  <1>1. q.state = "IN"
    BY DEF Silent
  <1>2. ~Valid(q.buf)
    BY HeartbeatAssumption DEF Silent
  <1>. QED  BY <1>1, <1>2 DEF Completes, feed_parser, Gather

\* A heartbeat after it changes nothing, but for a parser that has no more room.
LEMMA SilentBeat ==
    ASSUME NEW q \in Parsers, Silent(q)
    PROVE  /\ ~Completes(q, 0)
           /\ feed_parser(q, 0, AccumSize) = NewParser \/ Silent(feed_parser(q, 0, AccumSize))
  <1>1. q.state = "IN"
    BY DEF Silent
  <1>2. PICK n \in 0 .. AccumSize : q.buf = [i \in 1 .. n |-> 0]
    BY DEF Silent
  <1>3. AccumSize \in Nat
    BY DownlinkAssumption DEF AccumSize
  <1>4. 0 # FLAG /\ 0 # ESC
    BY DEF FLAG, ESC
  <1>5. ~Completes(q, 0)
    BY <1>4 DEF Completes
  <1>6. CASE Len(q.buf) >= AccumSize
    <2>1. feed_parser(q, 0, AccumSize) = NewParser
      BY <1>1, <1>4, <1>6 DEF feed_parser, Gather
    <2>. QED  BY <1>5, <2>1
  <1>7. CASE ~(Len(q.buf) >= AccumSize)
    <2>1. PICK r : r = feed_parser(q, 0, AccumSize)
      OBVIOUS
    <2>2. r = [state |-> "IN", buf |-> Append(q.buf, 0)]
      BY <1>1, <1>4, <1>7, <2>1 DEF feed_parser, Gather
    <2>3. r.state = "IN" /\ r.buf = Append(q.buf, 0)
      BY <2>2
    <2>4. PICK z \in Seq(Nat) : z = [i \in 1 .. n |-> 0] /\ Len(z) = n
      <3>1. [i \in 1 .. n |-> 0] \in Seq(Nat) /\ Len([i \in 1 .. n |-> 0]) = n
        BY <1>3
      <3>. QED  BY <3>1
    <2>5. n + 1 \in 0 .. AccumSize
      BY <1>2, <1>3, <1>7, <2>4
    <2>6. Append(z, 0) = [i \in 1 .. n + 1 |-> 0]
      <3>1. /\ Append(z, 0) \in Seq(Nat) /\ Len(Append(z, 0)) = n + 1
            /\ \A i \in 1 .. n : Append(z, 0)[i] = z[i]
            /\ Append(z, 0)[n + 1] = 0
        BY <2>4, AppendProperties
      <3>2. n \in Nat /\ n + 1 \in Nat
        BY <1>3
      <3>3. \A i \in 1 .. n : z[i] = 0
        BY <2>4
      <3>4. \A i \in 1 .. n + 1 : Append(z, 0)[i] = 0
        BY <3>1, <3>2, <3>3
      <3>5. Append(z, 0) \in [1 .. n + 1 -> Nat]
        BY <3>1, LenProperties
      <3>. QED  BY <3>4, <3>5
    <2>7. Silent(r)
      BY <1>2, <2>3, <2>4, <2>5, <2>6 DEF Silent
    <2>. QED  BY <1>5, <2>1, <2>7
  <1>. QED  BY <1>6, <1>7

\* Between frames.
LEMMA BetweenIsSilent == Silent(Between) /\ Between.state = "IN" /\ NewParser.state = "OUT"
  <1>1. Between.state = "IN" /\ Between.buf = <<>> /\ NewParser.state = "OUT"
    BY DEF Between, NewParser
  <1>2. [i \in 1 .. 0 |-> 0] = <<>>
    OBVIOUS
  <1>3. 0 \in 0 .. AccumSize
    BY DownlinkAssumption DEF AccumSize
  <1>. QED  BY <1>1, <1>2, <1>3 DEF Silent

\* Flipping a bit of a byte leaves a byte.
LEMMA XorTyped ==
    ASSUME NEW b \in Byte
    PROVE  XorEsc(b) \in Byte
  <1>1. b \in Int /\ 0 <= b /\ b <= 255
    BY DEF Byte
  <1>2. PICK d \in Int : d = b \div 32 /\ 32 * d <= b /\ b < 32 * d + 32
    BY <1>1
  <1>3. 2^5 = 32
    OBVIOUS
  <1>4. CASE d % 2 = 0
    <2>1. d # 7
      BY <1>4
    <2>2. d <= 6
      BY <1>1, <1>2, <2>1
    <2>3. b + 32 \in Int /\ 0 <= b + 32 /\ b + 32 <= 255
      BY <1>1, <1>2, <2>2
    <2>4. XorEsc(b) = b + 32
      BY <1>2, <1>3, <1>4 DEF XorEsc, FlipBit
    <2>. QED  BY <2>3, <2>4 DEF Byte
  <1>5. CASE d % 2 # 0
    <2>1. d # 0
      BY <1>5
    <2>2. d >= 1
      BY <1>1, <1>2, <2>1
    <2>3. b - 32 \in Int /\ 0 <= b - 32 /\ b - 32 <= 255
      BY <1>1, <1>2, <2>2
    <2>4. XorEsc(b) = b - 32
      BY <1>2, <1>3, <1>5 DEF XorEsc, FlipBit
    <2>. QED  BY <2>3, <2>4 DEF Byte
  <1>. QED  BY <1>4, <1>5

\* The parser keeps its type and its bound.
LEMMA ParserTyped ==
    ASSUME NEW q \in Parsers, Len(q.buf) <= AccumSize, NEW b \in Byte
    PROVE  feed_parser(q, b, AccumSize) \in Parsers /\ Len(feed_parser(q, b, AccumSize).buf) <= AccumSize
  <1>1. q.buf \in Seq(Byte) /\ q.state \in {"OUT", "IN", "ESC"}
    BY DEF Parsers, Bytes
  <1>2. AccumSize \in Nat /\ Len(q.buf) \in Nat
    BY <1>1, DownlinkAssumption, LenProperties DEF AccumSize
  <1>3. NewParser \in Parsers /\ Between \in Parsers /\ Len(NewParser.buf) <= AccumSize /\ Len(Between.buf) <= AccumSize
    BY <1>2 DEF NewParser, Between, Parsers, Bytes
  <1>4. [q EXCEPT !.state = "ESC"] \in Parsers /\ [q EXCEPT !.state = "ESC"].buf = q.buf
    BY DEF Parsers
  <1>5. PICK d \in Byte : d = IF q.state = "ESC" THEN XorEsc(b) ELSE b
    BY XorTyped
  <1>. DEFINE r == [state |-> "IN", buf |-> Append(q.buf, d)]
  <1>6. Append(q.buf, d) \in Seq(Byte) /\ Len(Append(q.buf, d)) = Len(q.buf) + 1
    BY <1>1, AppendProperties
  <1>7. r \in Parsers /\ r.buf = Append(q.buf, d)
    BY <1>6 DEF Parsers, Bytes
  <1>. HIDE DEF r
  <1>8. \/ feed_parser(q, b, AccumSize) \in {q, NewParser, Between, [q EXCEPT !.state = "ESC"]}
        \/ ~(Len(q.buf) >= AccumSize) /\ feed_parser(q, b, AccumSize) = r
    BY <1>5, Zenon DEF feed_parser, Gather, r
  <1>9. ~(Len(q.buf) >= AccumSize) => Len(r.buf) <= AccumSize
    BY <1>2, <1>6, <1>7
  <1>. QED  BY <1>3, <1>4, <1>7, <1>8, <1>9

\* How long a frame is, and what begins and ends it.
LEMMA FrameEnds ==
    ASSUME NEW c \in Bytes
    PROVE  /\ Len(hdlc_encode(c)) \in Nat /\ Len(hdlc_encode(c)) >= 2
           /\ hdlc_encode(c)[1] = FLAG /\ hdlc_encode(c)[Len(hdlc_encode(c))] = FLAG
           /\ \A p \in 2 .. Len(hdlc_encode(c)) - 1 : hdlc_encode(c)[p] # FLAG
  <1>1. PICK t \in Seq(Byte) : /\ t = StuffedAll(Raw(c)) /\ Len(hdlc_encode(c)) = Len(t) + 2
                               /\ \A i \in 1 .. Len(t) : hdlc_encode(c)[i + 1] = t[i]
    BY FrameShape DEF Bytes
  <1>2. Len(t) \in Nat
    BY LenProperties
  <1>3. hdlc_encode(c)[1] = FLAG /\ hdlc_encode(c)[Len(hdlc_encode(c))] = FLAG
    BY FrameShape
  <1>4. \A i \in 1 .. Len(t) : t[i] # FLAG
    BY <1>1, FrameShape, StuffedPlaces DEF Bytes
  <1>5. ASSUME NEW p \in 2 .. Len(t) + 1 PROVE hdlc_encode(c)[p] # FLAG
    <2>1. PICK i \in 1 .. Len(t) : p = i + 1
      <3>1. p - 1 \in 1 .. Len(t) /\ p = (p - 1) + 1
        BY <1>2
      <3>. QED  BY <3>1
    <2>. QED  BY <1>1, <1>4, <2>1
  <1>6. Len(t) + 2 - 1 = Len(t) + 1
    BY <1>2
  <1>. QED  BY <1>1, <1>2, <1>3, <1>5, <1>6

\* One byte more, parsed: the reader stays with the frame, and an open cannot have
\* happened meanwhile; or the frame is over, and is decoded; or it is over and is not.
Stays(q, r, b, cs, j, p, k, o) ==
    k = j /\ ~Completes(q, b) /\ (Interrupted(r, cs, k, o) => Interrupted(q, cs, j, p))
Decodes(q, b, cs, j, k, o) ==
    /\ k = j + 1 /\ o = 1 /\ j \in 1 .. Len(cs)
    /\ Completes(q, b) /\ Payload(q.buf) = cs[j] /\ Fits(cs[j])
Misses(q, b, cs, j, p, k, o) ==
    /\ k = j + 1 /\ o = 1 /\ j \in 1 .. Len(cs)
    /\ ~Completes(q, b) /\ (Fits(cs[j]) => Interrupted(q, cs, j, p))

\* One of the three is what feed_parser does, wherever the reader is.
LEMMA ParserStep ==
    ASSUME NEW cs \in Pieces, \A i \in 1 .. Len(cs) : cs[i] # <<>>,
           NEW q \in Parsers, Len(q.buf) <= AccumSize,
           NEW b, NEW j \in Nat, NEW p \in Nat, NEW k, NEW o,
           ParserAt(q, cs, j, p), Goes(b, cs, j, p, k, o),
           NEW r, r = feed_parser(q, b, AccumSize)
    PROVE  /\ ParserAt(r, cs, k, o)
           /\ \/ Stays(q, r, b, cs, j, p, k, o)
              \/ Decodes(q, b, cs, j, k, o)
              \/ Misses(q, b, cs, j, p, k, o)
  <1>1. CASE p = 1 /\ b = 0 /\ k = j /\ o = 1
    <2>1. 0 # FLAG
      BY DEF FLAG
    <2>2. q.state = "OUT" \/ Silent(q)
      BY <1>1 DEF ParserAt
    <2>3. ~Completes(q, b) /\ (r.state = "OUT" \/ Silent(r))
      <3>1. CASE q.state = "OUT"
        BY <1>1, <2>1, <3>1, OutsideByte
      <3>2. CASE Silent(q)
        BY <1>1, <3>2, SilentBeat, BetweenIsSilent
      <3>. QED  BY <2>2, <3>1, <3>2
    <2>. QED  BY <1>1, <2>3 DEF ParserAt, Stays, Interrupted
  <1>2. CASE /\ j \in 1 .. Len(cs) /\ p \in 1 .. Len(hdlc_encode(cs[j])) /\ b = hdlc_encode(cs[j])[p]
             /\ IF p = Len(hdlc_encode(cs[j])) THEN k = j + 1 /\ o = 1 ELSE k = j /\ o = p + 1
    <2>1. PICK c \in Bytes : c = cs[j] /\ c # <<>>
      BY <1>2, ElementOfSeq DEF Pieces
    <2>2. PICK l \in Nat : /\ l = Len(hdlc_encode(c)) /\ l >= 2
                           /\ hdlc_encode(c)[1] = FLAG /\ hdlc_encode(c)[l] = FLAG
                           /\ \A i \in 2 .. l - 1 : hdlc_encode(c)[i] # FLAG
      BY FrameEnds
    <2>3. p \in 1 .. l /\ b = hdlc_encode(c)[p] /\ IF p = l THEN k = j + 1 /\ o = 1 ELSE k = j /\ o = p + 1
      BY <1>2, <2>1, <2>2
    <2>4. CASE p = 1
      <3>1. b = FLAG /\ k = j /\ o = 2 /\ o # 1
        BY <2>2, <2>3, <2>4
      <3>2. q.state = "OUT" \/ Silent(q)
        BY <2>4 DEF ParserAt
      <3>3. r = Between /\ ~Completes(q, b)
        BY <3>1, <3>2, OutsideByte, SilentFlag
      <3>4. r.state = "IN" /\ InFrame(r, c, 2)
        BY <3>3, FrameOpens, BetweenIsSilent
      <3>5. o \in 2 .. Len(hdlc_encode(cs[k]))
        BY <2>1, <2>2, <3>1
      <3>6. ParserAt(r, cs, k, o)
        BY <1>2, <2>1, <3>1, <3>4, <3>5 DEF ParserAt
      <3>7. ~Interrupted(r, cs, k, o)
        BY <3>4 DEF Interrupted
      <3>. QED  BY <3>1, <3>3, <3>6, <3>7 DEF Stays
    <2>5. CASE p # 1 /\ p # l
      <3>1. k = j /\ o = p + 1 /\ o # 1 /\ p \in 2 .. l - 1 /\ b # FLAG /\ o \in 2 .. Len(hdlc_encode(cs[k]))
        BY <2>1, <2>2, <2>3, <2>5
      <3>2. CASE q.state = "OUT"
        <4>1. r = q /\ ~Completes(q, b)
          BY <3>1, <3>2, OutsideByte
        <4>2. ParserAt(r, cs, k, o)
          BY <1>2, <3>1, <3>2, <4>1 DEF ParserAt
        <4>3. Interrupted(r, cs, k, o) => Interrupted(q, cs, j, p)
          BY <2>5, <3>1, <4>1 DEF Interrupted
        <4>. QED  BY <3>1, <4>1, <4>2, <4>3 DEF Stays
      <3>3. CASE InFrame(q, c, p)
        <4>1. p < Len(hdlc_encode(c))
          BY <2>2, <3>1
        <4>2. ~Completes(q, b) /\ (InFrame(r, c, p + 1) \/ (r = NewParser /\ ~Fits(c)))
          <5>1. b = hdlc_encode(c)[p]
            BY <2>3
          <5>2. /\ ~Completes(q, b)
                /\ \/ InFrame(feed_parser(q, b, AccumSize), c, p + 1)
                   \/ feed_parser(q, b, AccumSize) = NewParser /\ ~Fits(c)
            BY <3>3, <4>1, <5>1, FrameGoesOn
          <5>. QED  BY <5>2
        <4>3. CASE InFrame(r, c, p + 1)
          <5>1. ParserAt(r, cs, k, o)
            BY <1>2, <2>1, <3>1, <4>3 DEF ParserAt
          <5>2. r.state # "OUT"
            BY <4>3 DEF InFrame, Gathered
          <5>3. ~Interrupted(r, cs, k, o)
            BY <5>2 DEF Interrupted
          <5>. QED  BY <3>1, <4>2, <5>1, <5>3 DEF Stays
        <4>4. CASE r = NewParser /\ ~Fits(c)
          <5>1. r.state = "OUT"
            BY <4>4, BetweenIsSilent
          <5>2. ParserAt(r, cs, k, o)
            BY <1>2, <3>1, <5>1 DEF ParserAt
          <5>3. ~Interrupted(r, cs, k, o)
            BY <2>1, <3>1, <4>4 DEF Interrupted
          <5>. QED  BY <3>1, <4>2, <5>2, <5>3 DEF Stays
        <4>. QED  BY <4>2, <4>3, <4>4
      <3>4. q.state = "OUT" \/ InFrame(q, c, p)
        BY <2>1, <2>5 DEF ParserAt
      <3>. QED  BY <3>2, <3>3, <3>4
    <2>6. CASE p = l
      <3>1. p # 1 /\ b = FLAG /\ k = j + 1 /\ o = 1
        BY <2>2, <2>3, <2>6
      <3>2. CASE q.state = "OUT"
        <4>1. r = Between /\ ~Completes(q, b)
          BY <3>1, <3>2, OutsideByte
        <4>2. ParserAt(r, cs, k, o)
          BY <3>1, <4>1, BetweenIsSilent DEF ParserAt
        <4>3. Misses(q, b, cs, j, p, k, o)
          BY <1>2, <3>1, <3>2, <4>1 DEF Misses, Interrupted
        <4>. QED  BY <4>2, <4>3
      <3>3. CASE InFrame(q, c, p)
        <4>1. q.state = "IN" /\ q.buf = Raw(c)
          BY <2>2, <2>6, <3>3, FrameCloses
        <4>2. Completes(q, b) /\ Payload(q.buf) = c
          BY <2>1, <3>1, <4>1, RawIsValid DEF Completes
        <4>3. FLAG # ESC
          BY DEF FLAG, ESC
        <4>4. r = Between
          BY <3>1, <4>1 DEF feed_parser, Gather
        <4>5. Fits(c)
          <5>1. Len(c) + 2 <= MaxPayload + 2
            BY <4>1, FrameShape DEF AccumSize
          <5>2. Len(c) \in Nat /\ MaxPayload \in Nat
            BY DownlinkAssumption, LenProperties DEF Bytes
          <5>. QED  BY <5>1, <5>2 DEF Fits
        <4>6. ParserAt(r, cs, k, o)
          BY <3>1, <4>4, BetweenIsSilent DEF ParserAt
        <4>7. Decodes(q, b, cs, j, k, o)
          BY <1>2, <2>1, <3>1, <4>2, <4>5 DEF Decodes
        <4>. QED  BY <4>6, <4>7
      <3>4. q.state = "OUT" \/ InFrame(q, c, p)
        BY <2>1, <3>1 DEF ParserAt
      <3>. QED  BY <3>2, <3>3, <3>4
    <2>. QED  BY <2>4, <2>5, <2>6
  <1>. QED  BY <1>1, <1>2 DEF Goes

-----------------------------------------------------------------------------
(* Counting the frames *)

\* R[k] of the first k chunks fit.
Ranks(cs, R) ==
    /\ R[0] = 0 /\ R[Len(cs)] = Len(FittingOf(cs))
    /\ \A k \in 0 .. Len(cs) : R[k] \in Nat /\ R[k] <= Len(FittingOf(cs))
    /\ \A k \in 1 .. Len(cs) :
          /\ Fits(cs[k]) => R[k] = R[k - 1] + 1 /\ FittingOf(cs)[R[k]] = cs[k]
          /\ ~Fits(cs[k]) => R[k] = R[k - 1]

\* There are none yet.
LEMMA RanksNone == Ranks(<<>>, [k \in 0 .. 0 |-> 0])
  <1>1. Len(<<>>) = 0 /\ Len(FittingOf(<<>>)) = 0
    BY FittingNone
  <1>. DEFINE R == [k \in 0 .. 0 |-> 0]
  <1>2. R[0] = 0 /\ (\A k \in 0 .. 0 : R[k] = 0) /\ \A k \in 1 .. 0 : FALSE
    OBVIOUS
  <1>. HIDE DEF R
  <1>3. Ranks(<<>>, R)
    BY <1>1, <1>2 DEF Ranks
  <1>. QED  BY <1>3 DEF R

\* One more chunk.
LEMMA RanksGrow ==
    ASSUME NEW cs \in Pieces, NEW c \in Bytes, NEW R, Ranks(cs, R)
    PROVE  \E Q : Ranks(Append(cs, c), Q) /\ \A k \in 0 .. Len(cs) : Q[k] = R[k]
  <1>1. PICK n \in Nat : n = Len(cs)
    BY LenProperties DEF Pieces
  <1>2. PICK f \in Seq(Bytes) : f = FittingOf(cs)
    BY FittingAppend DEF Pieces
  <1>3. PICK ds : ds = Append(cs, c) /\ Len(ds) = n + 1 /\ ds[n + 1] = c /\ \A k \in 1 .. n : ds[k] = cs[k]
    <2>1. cs \in Seq(Bytes)
      BY DEF Pieces
    <2>2. /\ Len(Append(cs, c)) = Len(cs) + 1 /\ \A k \in 1 .. Len(cs) : Append(cs, c)[k] = cs[k]
          /\ Append(cs, c)[Len(cs) + 1] = c
      BY <2>1, AppendProperties
    <2>. QED  BY <1>1, <2>2
  <1>4. PICK g \in Seq(Bytes) : g = FittingOf(ds)
    <2>1. ds \in Pieces
      BY <1>3, AppendProperties DEF Pieces
    <2>. QED  BY <2>1, FittingAppend DEF Pieces
  <1>5. g = IF Fits(c) THEN Append(f, c) ELSE f
    BY <1>2, <1>3, <1>4, FittingAppend
  <1>6. Len(f) \in Nat
    BY LenProperties
  <1>7. /\ Fits(c) => Len(g) = Len(f) + 1 /\ g[Len(f) + 1] = c
        /\ ~Fits(c) => Len(g) = Len(f)
        /\ Len(g) \in Nat /\ Len(g) >= Len(f)
        /\ \A i \in 1 .. Len(f) : g[i] = f[i]
    <2>1. /\ Len(Append(f, c)) = Len(f) + 1 /\ Append(f, c)[Len(f) + 1] = c
          /\ \A i \in 1 .. Len(f) : Append(f, c)[i] = f[i]
      BY AppendProperties
    <2>. QED  BY <1>5, <1>6, <2>1
  <1>. DEFINE Q == [k \in 0 .. n + 1 |-> IF k <= n THEN R[k] ELSE Len(g)]
  <1>8. \A k \in 0 .. n : Q[k] = R[k]
    OBVIOUS
  <1>9. Q[n + 1] = Len(g)
    OBVIOUS
  <1>. HIDE DEF Q
  <1>10. R[0] = 0 /\ R[n] = Len(f) /\ \A k \in 0 .. n : R[k] \in Nat /\ R[k] <= Len(f)
    BY <1>1, <1>2 DEF Ranks
  <1>11. \A k \in 0 .. n + 1 : Q[k] \in Nat /\ Q[k] <= Len(g)
    <2>. SUFFICES ASSUME NEW k \in 0 .. n + 1 PROVE Q[k] \in Nat /\ Q[k] <= Len(g)
      OBVIOUS
    <2>1. CASE k \in 0 .. n
      BY <1>6, <1>7, <1>8, <1>10, <2>1
    <2>2. CASE k = n + 1
      BY <1>7, <1>9, <2>2
    <2>. QED  BY <2>1, <2>2
  <1>12. ASSUME NEW k \in 1 .. n + 1
         PROVE  /\ Fits(ds[k]) => Q[k] = Q[k - 1] + 1 /\ g[Q[k]] = ds[k]
                /\ ~Fits(ds[k]) => Q[k] = Q[k - 1]
    <2>1. CASE k \in 1 .. n
      <3>1. k \in 0 .. n /\ k - 1 \in 0 .. n
        BY <2>1
      <3>2. /\ Fits(cs[k]) => R[k] = R[k - 1] + 1 /\ f[R[k]] = cs[k]
            /\ ~Fits(cs[k]) => R[k] = R[k - 1]
        BY <1>1, <1>2, <2>1 DEF Ranks
      <3>3. Q[k] = R[k] /\ Q[k - 1] = R[k - 1] /\ ds[k] = cs[k]
        BY <1>3, <1>8, <2>1, <3>1
      <3>4. CASE Fits(cs[k])
        <4>1. R[k] \in 1 .. Len(f)
          BY <1>10, <3>1, <3>2, <3>4
        <4>. QED  BY <1>7, <3>2, <3>3, <3>4, <4>1
      <3>5. CASE ~Fits(cs[k])
        BY <3>2, <3>3, <3>5
      <3>. QED  BY <3>4, <3>5
    <2>2. CASE k = n + 1
      <3>1. k - 1 = n /\ n \in 0 .. n
        BY <2>2
      <3>2. Q[k - 1] = Len(f) /\ Q[k] = Len(g) /\ ds[k] = c
        BY <1>3, <1>8, <1>9, <1>10, <2>2, <3>1
      <3>. QED  BY <1>7, <3>2
    <2>. QED  BY <2>1, <2>2
  <1>13. Q[0] = 0
    <2>1. 0 \in 0 .. n
      OBVIOUS
    <2>. QED  BY <1>8, <1>10, <2>1
  <1>14. Ranks(ds, Q)
    BY <1>3, <1>4, <1>9, <1>11, <1>12, <1>13 DEF Ranks
  <1>. QED  BY <1>1, <1>3, <1>8, <1>14

\* The frames in g are the last of the first j - 1 that fit; at most one for each open
\* is missing, the one the reader is in if an open has interrupted it.
Accounted(q, cs, j, p, R, g, ear, op) ==
    /\ \E i \in Nat : /\ i >= ear /\ i + Len(g) = R[j - 1]
                      /\ \A k \in 1 .. Len(g) : g[k] = FittingOf(cs)[i + k]
    /\ ear + Len(g) + op >= R[j - 1]
    /\ Interrupted(q, cs, j, p) => g = <<>> /\ ear + op >= R[j - 1] + 1

\* It stays so while the reader stays with a frame.
LEMMA AccountedStays ==
    ASSUME NEW cs, NEW q, NEW r, NEW b, NEW j, NEW p, NEW k, NEW o, NEW R, NEW g, NEW ear, NEW op,
           Accounted(q, cs, j, p, R, g, ear, op), Stays(q, r, b, cs, j, p, k, o)
    PROVE  Accounted(r, cs, k, o, R, g, ear, op)
  BY DEF Accounted, Stays

\* A frame that is decoded is the next one that fits.
LEMMA AccountedDecodes ==
    ASSUME NEW cs \in Pieces, NEW q, NEW r, NEW b, NEW j, NEW p, NEW k, NEW o, NEW R,
           NEW g \in Pieces, NEW ear \in Nat, NEW op \in Nat,
           Ranks(cs, R), Accounted(q, cs, j, p, R, g, ear, op), Decodes(q, b, cs, j, k, o)
    PROVE  Accounted(r, cs, k, o, R, Append(g, cs[j]), ear, op)
  <1>1. k = j + 1 /\ o = 1 /\ j \in 1 .. Len(cs) /\ Fits(cs[j])
    BY DEF Decodes
  <1>2. PICK i \in Nat : /\ i >= ear /\ i + Len(g) = R[j - 1]
                         /\ \A l \in 1 .. Len(g) : g[l] = FittingOf(cs)[i + l]
    BY DEF Accounted
  <1>3. R[j] = R[j - 1] + 1 /\ FittingOf(cs)[R[j]] = cs[j]
    BY <1>1 DEF Ranks
  <1>4. PICK n \in Nat : n = Len(g)
    BY LenProperties DEF Pieces
  <1>5. PICK h : /\ h = Append(g, cs[j]) /\ Len(h) = n + 1 /\ h[n + 1] = cs[j]
                 /\ \A l \in 1 .. n : h[l] = g[l]
    <2>1. cs[j] \in Bytes /\ g \in Seq(Bytes)
      BY <1>1, ElementOfSeq DEF Pieces
    <2>2. /\ Len(Append(g, cs[j])) = Len(g) + 1 /\ Append(g, cs[j])[Len(g) + 1] = cs[j]
          /\ \A l \in 1 .. Len(g) : Append(g, cs[j])[l] = g[l]
      BY <2>1, AppendProperties
    <2>. QED  BY <1>4, <2>2
  <1>6. j \in Nat /\ k - 1 = j
    BY <1>1
  <1>7. i + (n + 1) = R[k - 1]
    BY <1>2, <1>3, <1>4, <1>6
  <1>8. ASSUME NEW l \in 1 .. n + 1 PROVE h[l] = FittingOf(cs)[i + l]
    <2>1. CASE l \in 1 .. n
      BY <1>2, <1>4, <1>5, <2>1
    <2>2. CASE l = n + 1
      <3>1. i + l = R[j]
        BY <1>6, <1>7, <2>2
      <3>. QED  BY <1>3, <1>5, <2>2, <3>1
    <2>. QED  BY <2>1, <2>2
  <1>9. ear + (n + 1) + op >= R[k - 1]
    <2>1. ear + n + op >= R[j - 1]
      BY <1>4 DEF Accounted
    <2>2. PICK x \in Nat : x = R[j - 1] /\ R[k - 1] = x + 1
      BY <1>2, <1>3, <1>4, <1>6
    <2>. QED  BY <2>1, <2>2
  <1>10. ~Interrupted(r, cs, k, o)
    BY <1>1 DEF Interrupted
  <1>. QED  BY <1>2, <1>5, <1>7, <1>8, <1>9, <1>10 DEF Accounted

\* A frame that is missed did not fit, or an open accounts for it.
LEMMA AccountedMisses ==
    ASSUME NEW cs \in Pieces, NEW q, NEW r, NEW b, NEW j, NEW p, NEW k, NEW o, NEW R,
           NEW g \in Pieces, NEW ear \in Nat, NEW op \in Nat,
           Ranks(cs, R), Accounted(q, cs, j, p, R, g, ear, op), Misses(q, b, cs, j, p, k, o)
    PROVE  Accounted(r, cs, k, o, R, g, ear, op)
  <1>1. k = j + 1 /\ o = 1 /\ j \in 1 .. Len(cs) /\ (Fits(cs[j]) => Interrupted(q, cs, j, p))
    BY DEF Misses
  <1>2. PICK i \in Nat : /\ i >= ear /\ i + Len(g) = R[j - 1]
                         /\ \A l \in 1 .. Len(g) : g[l] = FittingOf(cs)[i + l]
    BY DEF Accounted
  <1>3. k - 1 = j
    BY <1>1
  <1>4. ~Interrupted(r, cs, k, o)
    BY <1>1 DEF Interrupted
  <1>5. CASE ~Fits(cs[j])
    <2>1. R[j] = R[j - 1]
      BY <1>1, <1>5 DEF Ranks
    <2>. QED  BY <1>2, <1>3, <1>4, <2>1 DEF Accounted
  <1>6. CASE Fits(cs[j])
    <2>1. R[j] = R[j - 1] + 1
      BY <1>1, <1>6 DEF Ranks
    <2>2. g = <<>> /\ ear + op >= R[j - 1] + 1
      BY <1>1, <1>6 DEF Accounted
    <2>3. Len(g) = 0
      BY <2>2
    <2>4. i + 1 \in Nat /\ i + 1 >= ear /\ i + 1 + Len(g) = R[k - 1] /\ ear + Len(g) + op >= R[k - 1]
      BY <1>2, <1>3, <2>1, <2>2, <2>3
    <2>5. \A l \in 1 .. Len(g) : g[l] = FittingOf(cs)[i + 1 + l]
      BY <2>3
    <2>. QED  BY <1>4, <2>4, <2>5 DEF Accounted
  <1>. QED  BY <1>5, <1>6

\* An open accounts for the frame the reader is in.
LEMMA AccountedOpens ==
    ASSUME NEW cs, NEW q, NEW r, NEW j, NEW p, NEW R,
           NEW g \in Pieces, NEW ear \in Nat, NEW op \in Nat,
           Accounted(q, cs, j, p, R, g, ear, op)
    PROVE  Accounted(r, cs, j, p, R, <<>>, ear + Len(g), op + 1)
  <1>1. PICK n \in Nat : n = Len(g)
    BY LenProperties DEF Pieces
  <1>2. PICK i \in Nat : i >= ear /\ i + n = R[j - 1]
    BY <1>1 DEF Accounted
  <1>3. ear + n + op >= R[j - 1]
    BY <1>1 DEF Accounted
  <1>4. Len(<<>>) = 0
    OBVIOUS
  <1>5. i + n \in Nat /\ i + n >= ear + n /\ i + n + Len(<<>>) = R[j - 1]
    BY <1>2, <1>4
  <1>6. \A l \in 1 .. Len(<<>>) : <<>>[l] = FittingOf(cs)[i + n + l]
    BY <1>4
  <1>7. PICK x \in Nat : x = R[j - 1] /\ ear + n + op >= x
    BY <1>2, <1>3
  <1>8. ear + n + Len(<<>>) + (op + 1) >= R[j - 1] /\ ear + n + (op + 1) >= R[j - 1] + 1
    BY <1>4, <1>7
  <1>. QED  BY <1>1, <1>5, <1>6, <1>8 DEF Accounted

\* A new chunk does not matter to the reader.
LEMMA AccountedGrows ==
    ASSUME NEW cs \in Pieces, NEW c \in Bytes, NEW q, NEW j \in 1 .. Len(cs) + 1, NEW p, NEW R, NEW Q,
           NEW g \in Pieces, NEW ear, NEW op,
           Ranks(cs, R), \A k \in 0 .. Len(cs) : Q[k] = R[k],
           ParserAt(q, cs, j, p), Accounted(q, cs, j, p, R, g, ear, op)
    PROVE  ParserAt(q, Append(cs, c), j, p) /\ Accounted(q, Append(cs, c), j, p, Q, g, ear, op)
  <1>1. PICK n \in Nat : n = Len(cs)
    BY LenProperties DEF Pieces
  <1>2. PICK ds : ds = Append(cs, c) /\ Len(ds) = n + 1 /\ \A k \in 1 .. n : ds[k] = cs[k]
    <2>1. cs \in Seq(Bytes)
      BY DEF Pieces
    <2>2. /\ Len(Append(cs, c)) = Len(cs) + 1 /\ \A k \in 1 .. Len(cs) : Append(cs, c)[k] = cs[k]
      BY <2>1, AppendProperties
    <2>. QED  BY <1>1, <2>2
  <1>3. PICK f \in Seq(Bytes) : f = FittingOf(cs)
    BY FittingAppend DEF Pieces
  <1>4. PICK e : e = FittingOf(ds)
    OBVIOUS
  <1>5. \A i \in 1 .. Len(f) : e[i] = f[i]
    <2>1. e = IF Fits(c) THEN Append(f, c) ELSE f
      BY <1>2, <1>3, <1>4, FittingAppend
    <2>2. \A i \in 1 .. Len(f) : Append(f, c)[i] = f[i]
      BY AppendProperties
    <2>. QED  BY <2>1, <2>2
  <1>6. j - 1 \in 0 .. n
    BY <1>1
  <1>7. Q[j - 1] = R[j - 1] /\ R[j - 1] \in Nat /\ R[j - 1] <= Len(f)
    BY <1>1, <1>3, <1>6 DEF Ranks
  <1>8. PICK i \in Nat : /\ i >= ear /\ i + Len(g) = R[j - 1]
                         /\ \A l \in 1 .. Len(g) : g[l] = f[i + l]
    BY <1>3 DEF Accounted
  <1>9. \A l \in 1 .. Len(g) : g[l] = e[i + l]
    <2>. SUFFICES ASSUME NEW l \in 1 .. Len(g) PROVE g[l] = e[i + l]
      OBVIOUS
    <2>1. Len(g) \in Nat /\ Len(f) \in Nat
      BY LenProperties DEF Pieces
    <2>2. i + l \in 1 .. Len(f)
      BY <1>7, <1>8, <2>1
    <2>. QED  BY <1>5, <1>8, <2>2
  <1>10. p # 1 => j \in 1 .. n
    BY <1>1 DEF ParserAt
  <1>11. p # 1 => j \in 1 .. Len(ds) /\ ds[j] = cs[j]
    BY <1>2, <1>10
  <1>12. ParserAt(q, ds, j, p)
    BY <1>11 DEF ParserAt
  <1>13. Interrupted(q, ds, j, p) => Interrupted(q, cs, j, p)
    BY <1>11 DEF Interrupted
  <1>14. Accounted(q, ds, j, p, Q, g, ear, op)
    BY <1>4, <1>7, <1>8, <1>9, <1>13 DEF Accounted
  <1>. QED  BY <1>2, <1>12, <1>14

\* w is on its way, and leads to frame e: where the reader is, and what it has made of
\* the frames before.
Flowing(cs, w, e, q, g, ear, op) ==
    \E R, j, p : /\ Ranks(cs, R) /\ j \in 1 .. Len(cs) + 1 /\ p \in Nat
                 /\ Leads(w, cs, j, p, e)
                 /\ ParserAt(q, cs, j, p) /\ Accounted(q, cs, j, p, R, g, ear, op)

\* At first there is nothing.
LEMMA FlowBegins == Flowing(<<>>, <<>>, 1, NewParser, <<>>, 0, 0)
  <1>. DEFINE R == [k \in 0 .. 0 |-> 0]
  <1>1. Ranks(<<>>, R)
    BY RanksNone
  <1>2. R[0] = 0
    OBVIOUS
  <1>. HIDE DEF R
  <1>3. Len(<<>>) = 0 /\ 1 - 1 = 0 /\ 1 \in 1 .. 0 + 1
    OBVIOUS
  <1>4. Leads(<<>>, <<>>, 1, 1, 1)
    BY LeadsNone
  <1>5. ParserAt(NewParser, <<>>, 1, 1) /\ ~Interrupted(NewParser, <<>>, 1, 1)
    BY BetweenIsSilent DEF ParserAt, Interrupted
  <1>6. R[1 - 1] = 0
    BY <1>2, <1>3
  <1>7. \A k \in 1 .. Len(<<>>) : <<>>[k] = FittingOf(<<>>)[0 + k]
    BY <1>3
  <1>8. 0 \in Nat /\ 0 >= 0 /\ 0 + Len(<<>>) = 0 /\ 0 + Len(<<>>) + 0 >= 0
    BY <1>3
  <1>9. Accounted(NewParser, <<>>, 1, 1, R, <<>>, 0, 0)
    BY <1>5, <1>6, <1>7, <1>8 DEF Accounted
  <1>. QED  BY <1>1, <1>3, <1>4, <1>5, <1>9 DEF Flowing

\* The proxy has read a chunk.
LEMMA FlowReads ==
    ASSUME NEW cs \in Pieces, NEW w \in Bytes, NEW q, NEW g \in Pieces, NEW ear, NEW op, NEW c \in Bytes, NEW e,
           Flowing(cs, w, e, q, g, ear, op)
    PROVE  Flowing(Append(cs, c), w, e, q, g, ear, op)
  <1>1. PICK R, j, p : /\ Ranks(cs, R) /\ j \in 1 .. Len(cs) + 1 /\ p \in Nat
                       /\ Leads(w, cs, j, p, e)
                       /\ ParserAt(q, cs, j, p) /\ Accounted(q, cs, j, p, R, g, ear, op)
    BY DEF Flowing
  <1>2. PICK Q : Ranks(Append(cs, c), Q) /\ \A k \in 0 .. Len(cs) : Q[k] = R[k]
    BY <1>1, RanksGrow
  <1>3. ParserAt(q, Append(cs, c), j, p) /\ Accounted(q, Append(cs, c), j, p, Q, g, ear, op)
    BY <1>1, <1>2, AccountedGrows
  <1>4. Leads(w, Append(cs, c), j, p, e)
    BY <1>1, LeadsGrows
  <1>5. j \in 1 .. Len(Append(cs, c)) + 1
    <2>1. Len(Append(cs, c)) = Len(cs) + 1 /\ Len(cs) \in Nat
      BY AppendProperties, LenProperties DEF Pieces
    <2>. QED  BY <1>1, <2>1
  <1>. QED  BY <1>1, <1>2, <1>3, <1>4, <1>5 DEF Flowing

\* The proxy has the lock, and its frame is on its way.
LEMMA FlowFrame ==
    ASSUME NEW cs \in Pieces, NEW w \in Bytes, NEW q, NEW g, NEW ear, NEW op, NEW e \in 1 .. Len(cs),
           Flowing(cs, w, e, q, g, ear, op)
    PROVE  Flowing(cs, w \o hdlc_encode(cs[e]), e + 1, q, g, ear, op)
  <1>1. PICK R, j, p : /\ Ranks(cs, R) /\ j \in 1 .. Len(cs) + 1 /\ p \in Nat
                       /\ Leads(w, cs, j, p, e)
                       /\ ParserAt(q, cs, j, p) /\ Accounted(q, cs, j, p, R, g, ear, op)
    BY DEF Flowing
  <1>2. Leads(w \o hdlc_encode(cs[e]), cs, j, p, e + 1)
    BY <1>1, LeadsFrame
  <1>. QED  BY <1>1, <1>2 DEF Flowing

\* A heartbeat.
LEMMA FlowBeat ==
    ASSUME NEW cs, NEW w \in Bytes, NEW q, NEW g, NEW ear, NEW op, NEW e,
           Flowing(cs, w, e, q, g, ear, op)
    PROVE  Flowing(cs, Append(w, 0), e, q, g, ear, op)
  <1>1. PICK R, j, p : /\ Ranks(cs, R) /\ j \in 1 .. Len(cs) + 1 /\ p \in Nat
                       /\ Leads(w, cs, j, p, e)
                       /\ ParserAt(q, cs, j, p) /\ Accounted(q, cs, j, p, R, g, ear, op)
    BY DEF Flowing
  <1>2. Leads(Append(w, 0), cs, j, p, e)
    BY <1>1, LeadsBeat
  <1>. QED  BY <1>1, <1>2 DEF Flowing

\* The transport is opened again.
LEMMA FlowOpens ==
    ASSUME NEW cs, NEW w, NEW q, NEW g \in Pieces, NEW ear \in Nat, NEW op \in Nat, NEW e,
           Flowing(cs, w, e, q, g, ear, op)
    PROVE  Flowing(cs, w, e, NewParser, <<>>, ear + Len(g), op + 1)
  <1>1. PICK R, j, p : /\ Ranks(cs, R) /\ j \in 1 .. Len(cs) + 1 /\ p \in Nat
                       /\ Leads(w, cs, j, p, e)
                       /\ ParserAt(q, cs, j, p) /\ Accounted(q, cs, j, p, R, g, ear, op)
    BY DEF Flowing
  <1>2. Accounted(NewParser, cs, j, p, R, <<>>, ear + Len(g), op + 1)
    BY <1>1, AccountedOpens
  <1>3. ParserAt(NewParser, cs, j, p)
    BY <1>1, BetweenIsSilent DEF ParserAt
  <1>. QED  BY <1>1, <1>2, <1>3 DEF Flowing

\* The target takes a byte: a frame it decodes is a whole one, that fits.
LEMMA FlowByte ==
    ASSUME NEW cs \in Pieces, \A i \in 1 .. Len(cs) : cs[i] # <<>>,
           NEW w \in Bytes, w # <<>>, NEW q \in Parsers, Len(q.buf) <= AccumSize,
           NEW g \in Pieces, NEW ear \in Nat, NEW op \in Nat, NEW e,
           Flowing(cs, w, e, q, g, ear, op),
           NEW b, b = Head(w), NEW r, r = feed_parser(q, b, AccumSize)
    PROVE  /\ Completes(q, b) => /\ Payload(q.buf) \in Bytes /\ Fits(Payload(q.buf))
                                 /\ Flowing(cs, Tail(w), e, r, Append(g, Payload(q.buf)), ear, op)
           /\ ~Completes(q, b) => Flowing(cs, Tail(w), e, r, g, ear, op)
  <1>1. PICK R, j, p : /\ Ranks(cs, R) /\ j \in 1 .. Len(cs) + 1 /\ p \in Nat
                       /\ Leads(w, cs, j, p, e)
                       /\ ParserAt(q, cs, j, p) /\ Accounted(q, cs, j, p, R, g, ear, op)
    BY DEF Flowing
  <1>2. PICK k, o : Goes(b, cs, j, p, k, o) /\ Leads(Tail(w), cs, k, o, e)
    BY <1>1, LeadsOn
  <1>3. Len(cs) \in Nat /\ j \in Nat
    BY <1>1, LenProperties DEF Pieces
  <1>4. o \in Nat
    BY <1>1, <1>2 DEF Goes
  <1>5. /\ ParserAt(r, cs, k, o)
        /\ \/ Stays(q, r, b, cs, j, p, k, o)
           \/ Decodes(q, b, cs, j, k, o)
           \/ Misses(q, b, cs, j, p, k, o)
    BY <1>1, <1>2, <1>3, ParserStep
  <1>6. CASE Stays(q, r, b, cs, j, p, k, o)
    <2>1. Accounted(r, cs, k, o, R, g, ear, op)
      BY <1>1, <1>6, AccountedStays
    <2>2. k = j /\ ~Completes(q, b)
      BY <1>6 DEF Stays
    <2>3. Flowing(cs, Tail(w), e, r, g, ear, op)
      BY <1>1, <1>2, <1>4, <1>5, <2>1, <2>2 DEF Flowing
    <2>. QED  BY <2>2, <2>3
  <1>7. CASE Decodes(q, b, cs, j, k, o)
    <2>1. Accounted(r, cs, k, o, R, Append(g, cs[j]), ear, op)
      BY <1>1, <1>7, AccountedDecodes
    <2>2. k = j + 1 /\ j \in 1 .. Len(cs) /\ Completes(q, b) /\ Payload(q.buf) = cs[j] /\ Fits(cs[j])
      BY <1>7 DEF Decodes
    <2>3. k \in 1 .. Len(cs) + 1
      BY <1>3, <2>2
    <2>4. Flowing(cs, Tail(w), e, r, Append(g, cs[j]), ear, op)
      BY <1>1, <1>2, <1>4, <1>5, <2>1, <2>3 DEF Flowing
    <2>5. cs[j] \in Bytes
      BY <2>2, ElementOfSeq DEF Pieces
    <2>. QED  BY <2>2, <2>4, <2>5
  <1>8. CASE Misses(q, b, cs, j, p, k, o)
    <2>1. Accounted(r, cs, k, o, R, g, ear, op)
      BY <1>1, <1>8, AccountedMisses
    <2>2. k = j + 1 /\ j \in 1 .. Len(cs) /\ ~Completes(q, b)
      BY <1>8 DEF Misses
    <2>3. k \in 1 .. Len(cs) + 1
      BY <1>3, <2>2
    <2>4. Flowing(cs, Tail(w), e, r, g, ear, op)
      BY <1>1, <1>2, <1>4, <1>5, <2>1, <2>3 DEF Flowing
    <2>. QED  BY <2>2, <2>4
  <1>. QED  BY <1>5, <1>6, <1>7, <1>8

\* What has been decoded is a run of consecutive frames that fit.
LEMMA FlowInOrder ==
    ASSUME NEW cs \in Pieces, NEW w, NEW q, NEW g \in Pieces, NEW ear \in Nat, NEW op, NEW e,
           Flowing(cs, w, e, q, g, ear, op)
    PROVE  \E i \in ear .. Len(FittingOf(cs)) :
               IsPrefix(g, SubSeq(FittingOf(cs), i + 1, Len(FittingOf(cs))))
  <1>1. PICK R, j, p : Ranks(cs, R) /\ j \in 1 .. Len(cs) + 1 /\ Accounted(q, cs, j, p, R, g, ear, op)
    BY DEF Flowing
  <1>2. PICK f \in Seq(Bytes) : f = FittingOf(cs)
    <2>1. <<>> \in Bytes
      BY DEF Bytes
    <2>. QED  BY <2>1, FittingAppend DEF Pieces
  <1>3. PICK n \in Nat : n = Len(f)
    BY LenProperties
  <1>4. PICK m \in Nat : m = Len(g)
    BY LenProperties DEF Pieces
  <1>5. PICK i \in Nat : i >= ear /\ i + m = R[j - 1] /\ \A k \in 1 .. m : g[k] = f[i + k]
    BY <1>1, <1>2, <1>4 DEF Accounted
  <1>6. i + m <= n
    <2>1. j - 1 \in 0 .. Len(cs)
      <3>1. Len(cs) \in Nat
        BY LenProperties DEF Pieces
      <3>. QED  BY <1>1, <3>1
    <2>. QED  BY <1>1, <1>2, <1>3, <1>5, <2>1 DEF Ranks
  <1>7. i \in ear .. n /\ i + 1 \in Int /\ n \in Int
    <2>1. ear <= i /\ i <= n
      BY <1>4, <1>5, <1>6
    <2>. QED  BY <2>1
  <1>8. \A k \in i + 1 .. n : f[k] \in Bytes
    BY <1>3, ElementOfSeq
  <1>9. PICK t : /\ t = SubSeq(f, i + 1, n) /\ t \in Seq(Bytes) /\ Len(t) = n - i
                 /\ \A k \in 1 .. n - i : t[k] = f[i + k]
    <2>1. PICK a \in Int : a = i + 1
      BY <1>7
    <2>2. \A k \in a .. n : f[k] \in Bytes
      BY <1>8, <2>1
    <2>3. /\ SubSeq(f, a, n) \in Seq(Bytes)
          /\ Len(SubSeq(f, a, n)) = IF a <= n THEN n - a + 1 ELSE 0
          /\ \A k \in 1 .. n - a + 1 : SubSeq(f, a, n)[k] = f[a + k - 1]
      BY <1>7, <2>2, SubSeqProperties
    <2>4. Len(SubSeq(f, a, n)) = n - i /\ n - a + 1 = n - i
      BY <1>6, <1>7, <2>1, <2>3
    <2>5. \A k \in 1 .. n - i : a + k - 1 = i + k
      BY <2>1
    <2>6. PICK t : t = SubSeq(f, a, n)
      OBVIOUS
    <2>7. \A k \in 1 .. n - i : t[k] = f[i + k]
      BY <2>3, <2>4, <2>5, <2>6
    <2>8. t = SubSeq(f, i + 1, n) /\ t \in Seq(Bytes) /\ Len(t) = n - i
      BY <2>1, <2>3, <2>4, <2>6
    <2>. QED  BY <2>7, <2>8
  <1>10. IsPrefix(g, t)
    <2>1. m <= n - i
      BY <1>6
    <2>2. SubSeq(g, 1, m) = SubSeq(t, 1, m)
      <3>1. \A k \in 1 .. m : k \in 1 .. n - i
        BY <2>1
      <3>2. \A k \in 1 .. m : g[k] = t[k]
        BY <1>5, <1>9, <3>1
      <3>. QED  BY <3>2
    <2>3. g \in Seq(Bytes)
      BY DEF Pieces
    <2>. QED  BY <1>4, <1>9, <2>1, <2>2, <2>3 DEF IsPrefix
  <1>. QED  BY <1>2, <1>3, <1>7, <1>9, <1>10

\* When only heartbeats are on their way, every frame that fits is accounted for.
LEMMA FlowQuiet ==
    ASSUME NEW cs \in Pieces, NEW w \in Bytes, NEW q, NEW g, NEW ear, NEW op,
           Flowing(cs, w, Len(cs) + 1, q, g, ear, op), \A i \in 1 .. Len(w) : w[i] = 0
    PROVE  ear + Len(g) + op >= Len(FittingOf(cs))
  <1>1. PICK e \in Nat : e = Len(cs) + 1 /\ e - 1 = Len(cs)
    <2>1. Len(cs) \in Nat
      BY LenProperties DEF Pieces
    <2>2. Len(cs) + 1 \in Nat /\ (Len(cs) + 1) - 1 = Len(cs)
      BY <2>1
    <2>. QED  BY <2>2
  <1>2. PICK R, j, p : /\ Ranks(cs, R) /\ Leads(w, cs, j, p, e)
                       /\ Accounted(q, cs, j, p, R, g, ear, op)
    BY <1>1 DEF Flowing
  <1>3. j = e
    BY <1>2, LeadsQuiet
  <1>4. R[j - 1] = Len(FittingOf(cs))
    BY <1>1, <1>2, <1>3 DEF Ranks
  <1>. QED  BY <1>2, <1>4 DEF Accounted

-----------------------------------------------------------------------------
(* The invariant *)

\* The lock is its holder's; a frame waits for it whole, and is not yet written to the end.
Locked ==
    /\ lock = "agent" <=> apc = "write"
    /\ lock = "heartbeat" <=> hpc = "write"
    /\ apc = "lock" => chunks # <<>> /\ frame = hdlc_encode(chunks[Len(chunks)])
    /\ apc = "write" => frame # <<>>

\* What is in the pipe, and what will be before another writer's turn.
OnItsWay == IF apc = "write" THEN stdin \o frame ELSE stdin
Reached  == IF apc = "lock" THEN Len(chunks) ELSE Len(chunks) + 1

\* The client has, or can have, all the bytes of what was decoded, and only waits for
\* more when it has them.
HandedOut == delivered \o staged = FlattenSeq(got) /\ (rpc # "idle" => staged = <<>>)

Flow == Flowing(chunks, OnItsWay, Reached, parser, got, earlier, opens)

DownlinkInv ==
    /\ TypeOK /\ parser \in Parsers /\ \A i \in 1 .. Len(chunks) : chunks[i] # <<>>
    /\ Locked /\ HandedOut /\ Flow

\* The types, named as the lemmas name them.
LEMMA DownlinkTypes ==
    ASSUME DownlinkInv
    PROVE  /\ chunks \in Pieces /\ got \in Pieces /\ stdin \in Bytes /\ frame \in Bytes
           /\ OnItsWay \in Bytes /\ earlier \in Nat /\ opens \in Nat
           /\ parser \in Parsers /\ Len(parser.buf) <= AccumSize
           /\ staged \in Bytes /\ delivered \in Bytes /\ pty \in Bytes
  <1>1. /\ chunks \in Pieces /\ got \in Pieces /\ stdin \in Bytes /\ frame \in Bytes
        /\ earlier \in Nat /\ opens \in 0 .. MaxOpens
        /\ parser \in Parsers /\ Len(parser.buf) <= AccumSize
        /\ staged \in Bytes /\ delivered \in Bytes /\ pty \in Bytes
    BY DEF DownlinkInv, TypeOK, Pieces, Bytes
  <1>2. opens \in Nat
    BY <1>1
  <1>3. stdin \o frame \in Bytes
    BY <1>1, ConcatProperties DEF Bytes
  <1>. QED  BY <1>1, <1>2, <1>3 DEF OnItsWay

\* The transport is open, and nothing is on its way.
LEMMA DownlinkBegins == Init => DownlinkInv
  <1>. SUFFICES ASSUME Init PROVE DownlinkInv
    OBVIOUS
  <1>. USE DEF Init
  <1>1. MaxMsgs \in Nat /\ MaxOpens \in Nat /\ PipeSize \in Nat /\ MaxPayload \in Nat /\ AccumSize \in Nat
    BY DownlinkAssumption DEF AccumSize
  <1>2. NewParser \in Parsers /\ NewParser.buf = <<>> /\ NewParser.state = "OUT"
    BY DEF NewParser, Parsers, Bytes
  <1>3. Len(<<>>) = 0 /\ (\A X : <<>> \in Seq(X)) /\ 0 \in 0 .. MaxMsgs /\ 0 \in 0 .. MaxOpens
    BY <1>1
  <1>4. TypeOK
    BY <1>1, <1>2, <1>3 DEF TypeOK
  <1>5. \A i \in 1 .. Len(chunks) : chunks[i] # <<>>
    BY <1>3
  <1>6. Locked
    BY DEF Locked
  <1>7. HandedOut
    <2>1. <<>> \o <<>> = <<>>
      OBVIOUS
    <2>. QED  BY <2>1, FittingNone DEF HandedOut
  <1>8. OnItsWay = <<>> /\ Reached = 1
    BY <1>3 DEF OnItsWay, Reached
  <1>9. Flow
    BY <1>8, FlowBegins DEF Flow
  <1>. QED  BY <1>2, <1>4, <1>5, <1>6, <1>7, <1>9 DEF DownlinkInv

-----------------------------------------------------------------------------
(* The writers keep it *)

\* What the agent writes waits in its pty.
LEMMA AgentWritesKeeps == DownlinkInv /\ AgentWrites => DownlinkInv'
  <1>. SUFFICES ASSUME DownlinkInv, AgentWrites PROVE DownlinkInv'
    OBVIOUS
  <1>. USE DEF AgentWrites, writerVars, readerVars
  <1>1. pty' \in Seq(Byte)
    <2>1. PICK m \in AgentMsgs : pty' = pty \o m
      OBVIOUS
    <2>2. m \in Seq(Byte)
      BY DownlinkAssumption
    <2>3. pty \in Seq(Byte)
      BY DEF DownlinkInv, TypeOK
    <2>. QED  BY <2>1, <2>2, <2>3, ConcatProperties
  <1>2. nmsgs' \in 0 .. MaxMsgs
    BY DownlinkAssumption DEF DownlinkInv, TypeOK
  <1>3. TypeOK'
    BY <1>1, <1>2 DEF DownlinkInv, TypeOK
  <1>4. Flow'
    BY DEF DownlinkInv, Flow, OnItsWay, Reached
  <1>5. Locked' /\ HandedOut'
    BY DEF DownlinkInv, Locked, HandedOut
  <1>6. parser' \in Parsers /\ \A i \in 1 .. Len(chunks') : chunks'[i] # <<>>
    BY DEF DownlinkInv
  <1>. QED  BY <1>3, <1>4, <1>5, <1>6 DEF DownlinkInv

\* A new chunk is framed, and is not yet on its way.
LEMMA ReadPtyKeeps == DownlinkInv /\ ReadPty => DownlinkInv'
  <1>. SUFFICES ASSUME DownlinkInv, ReadPty PROVE DownlinkInv'
    OBVIOUS
  <1>1. PICK n : n = IF Len(pty) < ChunkMax THEN Len(pty) ELSE ChunkMax
    OBVIOUS
  <1>2. PICK c : c = SubSeq(pty, 1, n)
    OBVIOUS
  <1>3. /\ apc = "read" /\ pty # <<>> /\ pty' = SubSeq(pty, n + 1, Len(pty))
        /\ chunks' = Append(chunks, c) /\ frame' = hdlc_encode(c) /\ apc' = "lock"
        /\ UNCHANGED <<nmsgs, hpc, lock, stdin, readerVars>>
    BY <1>1, <1>2 DEF ReadPty
  <1>4. PICK l \in Nat : l = Len(pty) /\ l >= 1
    BY <1>3, DownlinkTypes, EmptySeq DEF Bytes
  <1>5. n \in 1 .. l
    BY <1>1, <1>4, DownlinkAssumption
  <1>6. \A i \in 1 .. l : pty[i] \in Byte
    BY <1>4, DownlinkTypes, ElementOfSeq DEF Bytes
  <1>7. c \in Seq(Byte) /\ Len(c) = n
    <2>1. 1 \in Int /\ n \in Int /\ (\A i \in 1 .. n : pty[i] \in Byte) /\ 1 <= n /\ n - 1 + 1 = n
      BY <1>5, <1>6
    <2>2. SubSeq(pty, 1, n) \in Seq(Byte) /\ Len(SubSeq(pty, 1, n)) = IF 1 <= n THEN n - 1 + 1 ELSE 0
      BY <2>1, SubSeqProperties
    <2>. QED  BY <1>2, <2>1, <2>2
  <1>8. c \in Bytes /\ c # <<>>
    BY <1>5, <1>7 DEF Bytes
  <1>9. pty' \in Seq(Byte)
    <2>1. PICK a \in Int : a = n + 1
      BY <1>5
    <2>2. l \in Int /\ \A i \in a .. l : pty[i] \in Byte
      BY <1>5, <1>6, <2>1
    <2>3. SubSeq(pty, a, l) \in Seq(Byte)
      BY <2>2, SubSeqProperties
    <2>. QED  BY <1>3, <1>4, <2>1, <2>3
  <1>10. chunks' \in Pieces /\ Len(chunks') = Len(chunks) + 1 /\ chunks'[Len(chunks) + 1] = c
         /\ Len(chunks) \in Nat /\ \A i \in 1 .. Len(chunks) : chunks'[i] = chunks[i]
    <2>1. chunks \in Seq(Bytes)
      BY DownlinkTypes DEF Pieces
    <2>2. /\ Append(chunks, c) \in Seq(Bytes) /\ Len(Append(chunks, c)) = Len(chunks) + 1
          /\ Append(chunks, c)[Len(chunks) + 1] = c /\ Len(chunks) \in Nat
          /\ \A i \in 1 .. Len(chunks) : Append(chunks, c)[i] = chunks[i]
      BY <1>8, <2>1, AppendProperties, LenProperties
    <2>. QED  BY <1>3, <2>2 DEF Pieces
  <1>11. frame' \in Seq(Byte)
    BY <1>3, <1>8, FrameShape DEF Bytes
  <1>12. TypeOK'
    <2>1. chunks' \in Seq(Seq(Byte))
      BY <1>10 DEF Pieces, Bytes
    <2>. QED  BY <1>3, <1>9, <1>11, <2>1 DEF DownlinkInv, TypeOK, readerVars
  <1>13. \A i \in 1 .. Len(chunks') : chunks'[i] # <<>>
    <2>. SUFFICES ASSUME NEW i \in 1 .. Len(chunks') PROVE chunks'[i] # <<>>
      OBVIOUS
    <2>1. CASE i \in 1 .. Len(chunks)
      BY <1>10, <2>1 DEF DownlinkInv
    <2>2. CASE i = Len(chunks) + 1
      BY <1>8, <1>10, <2>2
    <2>. QED  BY <1>10, <2>1, <2>2
  <1>14. Locked'
    <2>1. chunks' # <<>>
      BY <1>10
    <2>. QED  BY <1>3, <1>10, <2>1 DEF DownlinkInv, Locked
  <1>15. HandedOut'
    BY <1>3 DEF DownlinkInv, HandedOut, readerVars
  <1>16. Flow'
    <2>1. OnItsWay = stdin /\ OnItsWay' = stdin /\ Reached = Len(chunks) + 1 /\ Reached' = Len(chunks) + 1
      BY <1>3, <1>10 DEF OnItsWay, Reached
    <2>2. Flowing(chunks, stdin, Len(chunks) + 1, parser, got, earlier, opens)
      BY <2>1 DEF DownlinkInv, Flow
    <2>3. Flowing(Append(chunks, c), stdin, Len(chunks) + 1, parser, got, earlier, opens)
      BY <1>8, <2>2, DownlinkTypes, FlowReads
    <2>. QED  BY <1>3, <2>1, <2>3 DEF Flow, readerVars
  <1>17. parser' \in Parsers
    BY <1>3 DEF DownlinkInv, readerVars
  <1>. QED  BY <1>12, <1>13, <1>14, <1>15, <1>16, <1>17 DEF DownlinkInv

\* With the lock, the whole frame is.
LEMMA AcquireForFrameKeeps == DownlinkInv /\ AcquireForFrame => DownlinkInv'
  <1>. SUFFICES ASSUME DownlinkInv, AcquireForFrame PROVE DownlinkInv'
    OBVIOUS
  <1>. USE DEF AcquireForFrame, agentVars, readerVars
  <1>1. TypeOK' /\ parser' \in Parsers /\ \A i \in 1 .. Len(chunks') : chunks'[i] # <<>>
    BY DEF DownlinkInv, TypeOK
  <1>2. chunks # <<>> /\ frame = hdlc_encode(chunks[Len(chunks)]) /\ lock # "heartbeat" /\ hpc # "write"
    BY DEF DownlinkInv, Locked
  <1>3. PICK e : e = Len(chunks)
    OBVIOUS
  <1>4. e \in 1 .. Len(chunks) /\ e \in Nat
    <2>1. chunks \in Seq(Bytes)
      BY DownlinkTypes DEF Pieces
    <2>. QED  BY <1>2, <1>3, <2>1, EmptySeq
  <1>5. frame # <<>>
    <2>1. chunks[e] \in Bytes
      BY <1>4, DownlinkTypes, ElementOfSeq DEF Pieces
    <2>2. Len(hdlc_encode(chunks[e])) >= 2
      BY <2>1, FrameEnds
    <2>. QED  BY <1>2, <1>3, <2>2
  <1>6. Locked'
    BY <1>2, <1>5 DEF Locked
  <1>7. HandedOut'
    BY DEF DownlinkInv, HandedOut
  <1>8. Flow'
    <2>1. OnItsWay = stdin /\ OnItsWay' = stdin \o frame /\ Reached = e /\ Reached' = e + 1
      BY <1>3 DEF OnItsWay, Reached
    <2>2. Flowing(chunks, stdin, e, parser, got, earlier, opens)
      BY <2>1 DEF DownlinkInv, Flow
    <2>3. Flowing(chunks, stdin \o hdlc_encode(chunks[e]), e + 1, parser, got, earlier, opens)
      BY <1>4, <2>2, DownlinkTypes, FlowFrame
    <2>. QED  BY <1>2, <1>3, <2>1, <2>3 DEF Flow
  <1>. QED  BY <1>1, <1>6, <1>7, <1>8 DEF DownlinkInv

\* A byte that goes into the pipe was on its way before.
LEMMA WriteFrameByteKeeps == DownlinkInv /\ WriteFrameByte => DownlinkInv'
  <1>. SUFFICES ASSUME DownlinkInv, WriteFrameByte PROVE DownlinkInv'
    OBVIOUS
  <1>. USE DEF WriteFrameByte, agentVars, readerVars
  <1>1. stdin \in Seq(Byte) /\ frame \in Seq(Byte) /\ frame # <<>> /\ lock = "agent" /\ apc = "write" /\ hpc # "write"
    BY DEF DownlinkInv, TypeOK, Locked
  <1>2. PICK b \in Byte, t \in Seq(Byte) : b = Head(frame) /\ t = Tail(frame) /\ Len(t) = Len(frame) - 1
    BY <1>1, HeadTailProperties
  <1>3. stdin' = Append(stdin, b) /\ frame' = t /\ stdin' \in Seq(Byte) /\ Len(stdin') = Len(stdin) + 1
    BY <1>1, <1>2, AppendProperties
  <1>4. Len(frame) \in Nat /\ Len(frame) >= 1 /\ Len(stdin) \in Nat
    BY <1>1, EmptySeq, LenProperties
  <1>5. Len(stdin') <= PipeSize
    BY <1>3, <1>4, DownlinkAssumption
  <1>6. TypeOK'
    BY <1>3, <1>5 DEF DownlinkInv, TypeOK
  <1>7. parser' \in Parsers /\ \A i \in 1 .. Len(chunks') : chunks'[i] # <<>>
    BY DEF DownlinkInv
  <1>8. Locked'
    <2>1. CASE Len(frame) = 1
      BY <1>1, <2>1 DEF DownlinkInv, Locked
    <2>2. CASE Len(frame) # 1
      <3>1. t # <<>>
        <4>1. Len(t) # 0
          BY <1>2, <1>4, <2>2
        <4>2. Len(<<>>) = 0
          OBVIOUS
        <4>. QED  BY <4>1, <4>2
      <3>. QED  BY <1>1, <1>3, <2>2, <3>1 DEF DownlinkInv, Locked
    <2>. QED  BY <2>1, <2>2
  <1>9. HandedOut'
    BY DEF DownlinkInv, HandedOut
  <1>10. Append(stdin, b) \o t = stdin \o frame
    <2>1. Append(stdin, b) = stdin \o <<b>>
      BY <1>1, <1>2, AppendIsConcat
    <2>2. <<b>> \o t = frame
      BY <1>1, <1>2
    <2>3. <<b>> \in Seq(Byte)
      OBVIOUS
    <2>4. (stdin \o <<b>>) \o t = stdin \o (<<b>> \o t)
      BY <1>1, <1>2, <2>3, ConcatAssociative
    <2>. QED  BY <2>1, <2>2, <2>4
  <1>11. OnItsWay' = stdin \o frame
    <2>1. CASE Len(frame) = 1
      <3>1. t = <<>>
        BY <1>2, <1>4, <2>1, EmptySeq
      <3>2. Append(stdin, b) \o <<>> = Append(stdin, b)
        BY <1>3, ConcatEmptySeq
      <3>3. OnItsWay' = stdin'
        BY <2>1 DEF OnItsWay
      <3>. QED  BY <1>3, <1>10, <3>1, <3>2, <3>3
    <2>2. CASE Len(frame) # 1
      <3>1. OnItsWay' = stdin' \o frame'
        BY <1>1, <2>2 DEF OnItsWay
      <3>. QED  BY <1>3, <1>10, <3>1
    <2>. QED  BY <2>1, <2>2
  <1>12. Flow'
    <2>1. OnItsWay = stdin \o frame /\ Reached = Len(chunks) + 1 /\ Reached' = Len(chunks) + 1
      BY <1>1 DEF OnItsWay, Reached
    <2>. QED  BY <1>11, <2>1 DEF DownlinkInv, Flow
  <1>. QED  BY <1>6, <1>7, <1>8, <1>9, <1>12 DEF DownlinkInv

\* The heartbeat takes the lock.
LEMMA AcquireForBeatKeeps == DownlinkInv /\ AcquireForBeat => DownlinkInv'
  <1>. SUFFICES ASSUME DownlinkInv, AcquireForBeat PROVE DownlinkInv'
    OBVIOUS
  <1>. USE DEF AcquireForBeat, agentVars, readerVars
  <1>1. TypeOK' /\ parser' \in Parsers /\ \A i \in 1 .. Len(chunks') : chunks'[i] # <<>>
    BY DEF DownlinkInv, TypeOK
  <1>2. Locked' /\ HandedOut'
    BY DEF DownlinkInv, Locked, HandedOut
  <1>3. Flow'
    BY DEF DownlinkInv, Flow, OnItsWay, Reached
  <1>. QED  BY <1>1, <1>2, <1>3 DEF DownlinkInv

\* A heartbeat comes between frames.
LEMMA WriteBeatKeeps == DownlinkInv /\ WriteBeat => DownlinkInv'
  <1>. SUFFICES ASSUME DownlinkInv, WriteBeat PROVE DownlinkInv'
    OBVIOUS
  <1>. USE DEF WriteBeat, agentVars, readerVars
  <1>1. stdin \in Seq(Byte) /\ lock = "heartbeat" /\ apc # "write" /\ 0 \in Byte
    BY DEF DownlinkInv, TypeOK, Locked, Byte
  <1>2. stdin' \in Seq(Byte) /\ Len(stdin') = Len(stdin) + 1 /\ Len(stdin) \in Nat
    BY <1>1, AppendProperties, LenProperties
  <1>3. Len(stdin') <= PipeSize
    BY <1>2, DownlinkAssumption
  <1>4. TypeOK'
    BY <1>2, <1>3 DEF DownlinkInv, TypeOK
  <1>5. parser' \in Parsers /\ \A i \in 1 .. Len(chunks') : chunks'[i] # <<>>
    BY DEF DownlinkInv
  <1>6. Locked' /\ HandedOut'
    BY <1>1 DEF DownlinkInv, Locked, HandedOut
  <1>7. Flow'
    <2>1. OnItsWay = stdin /\ OnItsWay' = Append(stdin, 0) /\ Reached' = Reached
      BY <1>1 DEF OnItsWay, Reached
    <2>2. Flowing(chunks, stdin, Reached, parser, got, earlier, opens)
      BY <2>1 DEF DownlinkInv, Flow
    <2>3. Flowing(chunks, Append(stdin, 0), Reached, parser, got, earlier, opens)
      BY <2>2, DownlinkTypes, FlowBeat
    <2>. QED  BY <2>1, <2>3 DEF Flow
  <1>. QED  BY <1>4, <1>5, <1>6, <1>7 DEF DownlinkInv

-----------------------------------------------------------------------------
(* The target keeps it *)

\* What the caller gets and what stays staged are the bytes there were.
LEMMA Dealt ==
    ASSUME NEW bytes \in Bytes, NEW n \in Nat
    PROVE  /\ SubSeq(bytes, 1, Least(n, Len(bytes))) \in Bytes
           /\ SubSeq(bytes, Least(n, Len(bytes)) + 1, Len(bytes)) \in Bytes
           /\ SubSeq(bytes, 1, Least(n, Len(bytes))) \o SubSeq(bytes, Least(n, Len(bytes)) + 1, Len(bytes)) = bytes
           /\ Len(SubSeq(bytes, Least(n, Len(bytes)) + 1, Len(bytes))) <= Len(bytes)
  <1>1. bytes \in Seq(Byte)
    BY DEF Bytes
  <1>2. PICK l \in Nat : l = Len(bytes)
    BY <1>1, LenProperties
  <1>3. PICK k \in 0 .. l : k = Least(n, l)
    <2>1. Least(n, l) \in 0 .. l
      BY DEF Least
    <2>. QED  BY <2>1
  <1>4. \A i \in 1 .. l : bytes[i] \in Byte
    BY <1>1, <1>2, ElementOfSeq
  <1>5. SubSeq(bytes, 1, k) \in Seq(Byte)
    <2>1. 1 \in Int /\ k \in Int /\ \A i \in 1 .. k : bytes[i] \in Byte
      BY <1>4
    <2>. QED  BY <2>1, SubSeqProperties
  <1>6. SubSeq(bytes, k + 1, l) \in Seq(Byte) /\ Len(SubSeq(bytes, k + 1, l)) <= l
    <2>1. PICK a \in Int : a = k + 1 /\ a >= 1
      OBVIOUS
    <2>2. l \in Int /\ \A i \in a .. l : bytes[i] \in Byte
      BY <1>4, <2>1
    <2>3. /\ SubSeq(bytes, a, l) \in Seq(Byte)
          /\ Len(SubSeq(bytes, a, l)) = IF a <= l THEN l - a + 1 ELSE 0
      BY <2>2, SubSeqProperties
    <2>4. Len(SubSeq(bytes, a, l)) <= l
      BY <2>1, <2>3
    <2>. QED  BY <2>1, <2>3, <2>4
  <1>7. SubSeq(bytes, 1, k) \o SubSeq(bytes, k + 1, l) = bytes
    <2>1. 1 \in 1 .. Len(bytes) + 1 /\ k \in 1 - 1 .. Len(bytes) /\ Len(bytes) \in k .. Len(bytes)
      BY <1>2
    <2>2. SubSeq(bytes, 1, k) \o SubSeq(bytes, k + 1, Len(bytes)) = SubSeq(bytes, 1, Len(bytes))
      BY <1>1, <2>1, ConcatAdjacentSubSeq
    <2>3. SubSeq(bytes, 1, Len(bytes)) = bytes
      BY <1>1, SubSeqFull
    <2>. QED  BY <1>2, <2>2, <2>3
  <1>. QED  BY <1>2, <1>3, <1>5, <1>6, <1>7 DEF Bytes

\* An open forgets what was gathered, and the frames decoded are earlier ones.
LEMMA OpenKeeps == DownlinkInv /\ htif_transport_open => DownlinkInv'
  <1>. SUFFICES ASSUME DownlinkInv, htif_transport_open PROVE DownlinkInv'
    OBVIOUS
  <1>. USE DEF htif_transport_open, agentVars, writerVars
  <1>1. NewParser \in Parsers /\ NewParser.buf = <<>> /\ NewParser.state = "OUT"
    BY DEF NewParser, Parsers, Bytes
  <1>2. Len(<<>>) = 0 /\ (\A X : <<>> \in Seq(X)) /\ AccumSize \in Nat /\ MaxPayload \in Nat
    BY DownlinkAssumption DEF AccumSize
  <1>3. earlier' \in Nat /\ opens' \in 0 .. MaxOpens /\ opens' = opens + 1 /\ earlier' = earlier + Len(got)
    <2>1. earlier \in Nat /\ Len(got) \in Nat
      BY DownlinkTypes, LenProperties DEF Pieces
    <2>2. opens \in 0 .. MaxOpens /\ MaxOpens \in Nat
      BY DownlinkAssumption DEF DownlinkInv, TypeOK
    <2>. QED  BY <2>1, <2>2
  <1>4. TypeOK'
    BY <1>1, <1>2, <1>3 DEF DownlinkInv, TypeOK
  <1>5. parser' \in Parsers /\ \A i \in 1 .. Len(chunks') : chunks'[i] # <<>>
    BY <1>1 DEF DownlinkInv
  <1>6. Locked'
    BY DEF DownlinkInv, Locked
  <1>7. HandedOut'
    <2>1. <<>> \o <<>> = <<>>
      OBVIOUS
    <2>. QED  BY <2>1, FittingNone DEF HandedOut
  <1>8. Flow'
    <2>1. OnItsWay' = OnItsWay /\ Reached' = Reached
      BY DEF OnItsWay, Reached
    <2>2. Flowing(chunks, OnItsWay, Reached, NewParser, <<>>, earlier + Len(got), opens + 1)
      BY DownlinkTypes, FlowOpens DEF DownlinkInv, Flow
    <2>. QED  BY <2>1, <2>2 DEF Flow
  <1>. QED  BY <1>4, <1>5, <1>6, <1>7, <1>8 DEF DownlinkInv

\* What is staged goes to the caller.
LEMMA ReadStagedKeeps == ASSUME NEW n \in ReadLens PROVE DownlinkInv /\ ReadStaged(n) => DownlinkInv'
  <1>. SUFFICES ASSUME DownlinkInv, ReadStaged(n) PROVE DownlinkInv'
    OBVIOUS
  <1>. USE DEF ReadStaged, agentVars, writerVars
  <1>1. n \in Nat
    BY DownlinkAssumption
  <1>2. PICK a, z : /\ a = SubSeq(staged, 1, Least(n, Len(staged)))
                    /\ z = SubSeq(staged, Least(n, Len(staged)) + 1, Len(staged))
    OBVIOUS
  <1>3. a \in Bytes /\ z \in Bytes /\ a \o z = staged /\ Len(z) <= Len(staged)
    BY <1>1, <1>2, DownlinkTypes, Dealt
  <1>4. delivered' = delivered \o a /\ staged' = z
    BY <1>2 DEF HandOut
  <1>5. delivered' \in Bytes
    BY <1>3, <1>4, DownlinkTypes, ConcatProperties DEF Bytes
  <1>6. Len(z) <= MaxPayload
    <2>1. Len(staged) <= MaxPayload /\ Len(staged) \in Nat /\ Len(z) \in Nat /\ MaxPayload \in Nat
      BY <1>3, DownlinkTypes, LenProperties, DownlinkAssumption DEF DownlinkInv, TypeOK, Bytes
    <2>. QED  BY <1>3, <2>1
  <1>7. TypeOK'
    BY <1>3, <1>4, <1>5, <1>6 DEF DownlinkInv, TypeOK, Bytes
  <1>8. delivered' \o staged' = delivered \o staged
    <2>1. a \in Seq(Byte) /\ z \in Seq(Byte) /\ delivered \in Seq(Byte)
      BY <1>3, DownlinkTypes DEF Bytes
    <2>2. (delivered \o a) \o z = delivered \o (a \o z)
      BY <2>1, ConcatAssociative
    <2>. QED  BY <1>3, <1>4, <2>2
  <1>9. HandedOut'
    BY <1>8 DEF DownlinkInv, HandedOut
  <1>10. Locked' /\ parser' \in Parsers /\ \A i \in 1 .. Len(chunks') : chunks'[i] # <<>>
    BY DEF DownlinkInv, Locked
  <1>11. Flow'
    BY DEF DownlinkInv, Flow, OnItsWay, Reached
  <1>. QED  BY <1>7, <1>9, <1>10, <1>11 DEF DownlinkInv

\* A read begins.
LEMMA ReadCallKeeps == ASSUME NEW n \in ReadLens PROVE DownlinkInv /\ ReadCall(n) => DownlinkInv'
  <1>. SUFFICES ASSUME DownlinkInv, ReadCall(n) PROVE DownlinkInv'
    OBVIOUS
  <1>. USE DEF ReadCall, agentVars, writerVars
  <1>1. TypeOK' /\ parser' \in Parsers /\ \A i \in 1 .. Len(chunks') : chunks'[i] # <<>>
    BY DEF DownlinkInv, TypeOK
  <1>2. Locked' /\ HandedOut'
    BY DEF DownlinkInv, Locked, HandedOut
  <1>3. Flow'
    BY DEF DownlinkInv, Flow, OnItsWay, Reached
  <1>. QED  BY <1>1, <1>2, <1>3 DEF DownlinkInv

\* The clock is looked at.
LEMMA ReadPollKeeps == DownlinkInv /\ (ReadTimeout \/ ReadPoll) => DownlinkInv'
  <1>. SUFFICES ASSUME DownlinkInv, ReadTimeout \/ ReadPoll PROVE DownlinkInv'
    OBVIOUS
  <1>. USE DEF ReadTimeout, ReadPoll, agentVars, writerVars
  <1>1. TypeOK' /\ parser' \in Parsers /\ \A i \in 1 .. Len(chunks') : chunks'[i] # <<>>
    BY DEF DownlinkInv, TypeOK
  <1>2. Locked' /\ HandedOut'
    BY DEF DownlinkInv, Locked, HandedOut
  <1>3. Flow'
    BY DEF DownlinkInv, Flow, OnItsWay, Reached
  <1>. QED  BY <1>1, <1>2, <1>3 DEF DownlinkInv

\* A byte is parsed; the frame it completes is the next that fits.
LEMMA ReadByteKeeps == DownlinkInv /\ ReadByte => DownlinkInv'
  <1>. SUFFICES ASSUME DownlinkInv, ReadByte PROVE DownlinkInv'
    OBVIOUS
  <1>1. PICK b : b = Head(stdin)
    OBVIOUS
  <1>2. /\ rpc = "getc" /\ stdin # <<>> /\ stdin' = Tail(stdin)
        /\ parser' = feed_parser(parser, b, AccumSize)
        /\ IF Completes(parser, b)
           THEN /\ HandOut(Payload(parser.buf), len) /\ rpc' = "idle"
                /\ got' = Append(got, Payload(parser.buf))
           ELSE rpc' = "poll" /\ UNCHANGED <<delivered, staged, got>>
        /\ UNCHANGED <<agentVars, writerVars, len, opens, earlier>>
    BY <1>1 DEF ReadByte
  <1>. USE DEF agentVars, writerVars
  <1>3. stdin \in Seq(Byte) /\ frame \in Seq(Byte)
    BY DownlinkTypes DEF Bytes
  <1>4. b \in Byte /\ stdin' \in Seq(Byte) /\ Len(stdin') = Len(stdin) - 1 /\ Len(stdin) \in Nat
    BY <1>1, <1>2, <1>3, HeadTailProperties, LenProperties
  <1>5. Len(stdin') <= PipeSize
    <2>1. Len(stdin) <= PipeSize /\ PipeSize \in Nat
      BY DownlinkAssumption DEF DownlinkInv, TypeOK
    <2>. QED  BY <1>4, <2>1
  <1>6. parser' \in Parsers /\ Len(parser'.buf) <= AccumSize
    BY <1>2, <1>4, DownlinkTypes, ParserTyped
  <1>7. PICK w \in Bytes : w = OnItsWay
    BY DownlinkTypes
  <1>8. w # <<>> /\ b = Head(w) /\ OnItsWay' = Tail(w)
    <2>1. CASE apc = "write"
      <3>1. w = stdin \o frame /\ OnItsWay' = stdin' \o frame
        BY <1>2, <1>7, <2>1 DEF OnItsWay
      <3>2. stdin = <<b>> \o stdin'
        BY <1>1, <1>2, <1>3
      <3>3. <<b>> \in Seq(Byte)
        BY <1>4
      <3>4. w = <<b>> \o (stdin' \o frame)
        BY <1>3, <1>4, <3>1, <3>2, <3>3, ConcatAssociative
      <3>5. PICK t \in Seq(Byte) : t = stdin' \o frame
        BY <1>3, <1>4, ConcatProperties
      <3>6. <<b>> \o t # <<>> /\ Head(<<b>> \o t) = b /\ Tail(<<b>> \o t) = t
        BY <1>4
      <3>. QED  BY <3>1, <3>4, <3>5, <3>6
    <2>2. CASE apc # "write"
      BY <1>1, <1>2, <1>7, <2>2 DEF OnItsWay
    <2>. QED  BY <2>1, <2>2
  <1>9. PICK e : e = Reached /\ Reached' = e
    BY <1>2 DEF Reached
  <1>10. Flowing(chunks, w, e, parser, got, earlier, opens)
    BY <1>7, <1>9 DEF DownlinkInv, Flow
  <1>11. /\ Completes(parser, b) =>
               /\ Payload(parser.buf) \in Bytes /\ Fits(Payload(parser.buf))
               /\ Flowing(chunks, Tail(w), e, parser', Append(got, Payload(parser.buf)), earlier, opens)
         /\ ~Completes(parser, b) => Flowing(chunks, Tail(w), e, parser', got, earlier, opens)
    <2>1. \A i \in 1 .. Len(chunks) : chunks[i] # <<>>
      BY DEF DownlinkInv
    <2>2. PICK r : r = parser' /\ r = feed_parser(parser, b, AccumSize)
      BY <1>2
    <2>3. /\ Completes(parser, b) =>
               /\ Payload(parser.buf) \in Bytes /\ Fits(Payload(parser.buf))
               /\ Flowing(chunks, Tail(w), e, r, Append(got, Payload(parser.buf)), earlier, opens)
          /\ ~Completes(parser, b) => Flowing(chunks, Tail(w), e, r, got, earlier, opens)
      <3>1. /\ chunks \in Pieces /\ got \in Pieces /\ earlier \in Nat /\ opens \in Nat
            /\ parser \in Parsers /\ Len(parser.buf) <= AccumSize
        BY DownlinkTypes
      <3>. QED  BY <1>8, <1>10, <2>1, <2>2, <3>1, FlowByte
    <2>. QED  BY <2>2, <2>3
  <1>12. Locked' /\ \A i \in 1 .. Len(chunks') : chunks'[i] # <<>>
    BY <1>2 DEF DownlinkInv, Locked
  <1>13. staged = <<>>
    BY <1>2 DEF DownlinkInv, HandedOut
  <1>14. parser'.state \in {"OUT", "IN", "ESC"} /\ parser'.buf \in Seq(Byte)
    BY <1>6 DEF Parsers, Bytes
  <1>15. CASE Completes(parser, b)
    <2>1. PICK c \in Bytes : c = Payload(parser.buf) /\ Fits(c)
      BY <1>11, <1>15
    <2>2. HandOut(c, len) /\ rpc' = "idle" /\ got' = Append(got, c)
      BY <1>2, <1>15, <2>1
    <2>3. len \in Nat
      BY DownlinkAssumption DEF DownlinkInv, TypeOK
    <2>4. PICK a, z : a = SubSeq(c, 1, Least(len, Len(c))) /\ z = SubSeq(c, Least(len, Len(c)) + 1, Len(c))
      OBVIOUS
    <2>5. a \in Bytes /\ z \in Bytes /\ a \o z = c /\ Len(z) <= Len(c)
      BY <2>3, <2>4, Dealt
    <2>6. delivered' = delivered \o a /\ staged' = z
      BY <2>2, <2>4 DEF HandOut
    <2>7. delivered' \in Bytes
      BY <2>5, <2>6, DownlinkTypes, ConcatProperties DEF Bytes
    <2>8. Len(z) <= MaxPayload
      <3>1. Len(c) \in Nat /\ Len(z) \in Nat /\ MaxPayload \in Nat
        BY <2>5, LenProperties, DownlinkAssumption DEF Bytes
      <3>. QED  BY <2>1, <2>5, <3>1 DEF Fits
    <2>9. got' \in Pieces
      BY <2>2, DownlinkTypes, AppendProperties DEF Pieces
    <2>10. TypeOK'
      BY <1>2, <1>4, <1>5, <1>6, <1>14, <2>2, <2>5, <2>6, <2>7, <2>8, <2>9 DEF DownlinkInv, TypeOK, Bytes, Pieces
    <2>11. HandedOut'
      <3>1. FlattenSeq(Append(got, c)) = FlattenSeq(got) \o c
        BY DownlinkTypes, FlattenAppend
      <3>2. delivered = FlattenSeq(got)
        <4>1. delivered \o <<>> = delivered
          BY DownlinkTypes, ConcatEmptySeq DEF Bytes
        <4>. QED  BY <1>13, <4>1 DEF DownlinkInv, HandedOut
      <3>3. (delivered \o a) \o z = delivered \o (a \o z)
        <4>1. a \in Seq(Byte) /\ z \in Seq(Byte) /\ delivered \in Seq(Byte)
          BY <2>5, DownlinkTypes DEF Bytes
        <4>. QED  BY <4>1, ConcatAssociative
      <3>. QED  BY <2>2, <2>5, <2>6, <3>1, <3>2, <3>3 DEF HandedOut
    <2>12. Flow'
      BY <1>2, <1>8, <1>9, <1>11, <1>15, <2>1, <2>2 DEF Flow
    <2>. QED  BY <1>6, <1>12, <2>10, <2>11, <2>12 DEF DownlinkInv
  <1>16. CASE ~Completes(parser, b)
    <2>1. rpc' = "poll" /\ UNCHANGED <<delivered, staged, got>>
      BY <1>2, <1>16
    <2>2. TypeOK'
      BY <1>2, <1>4, <1>5, <1>6, <1>14, <2>1 DEF DownlinkInv, TypeOK
    <2>3. HandedOut'
      BY <1>13, <2>1 DEF DownlinkInv, HandedOut
    <2>4. Flow'
      BY <1>2, <1>8, <1>9, <1>11, <1>16, <2>1 DEF Flow
    <2>. QED  BY <1>6, <1>12, <2>2, <2>3, <2>4 DEF DownlinkInv
  <1>. QED  BY <1>15, <1>16

-----------------------------------------------------------------------------
(* The whole behaviour *)

\* Nothing but stuttering.
LEMMA DownlinkStutters == DownlinkInv /\ UNCHANGED vars => DownlinkInv'
  <1>. SUFFICES ASSUME DownlinkInv, UNCHANGED vars PROVE DownlinkInv'
    OBVIOUS
  <1>. USE DEF vars, agentVars, writerVars, readerVars
  <1>1. TypeOK' /\ parser' \in Parsers /\ \A i \in 1 .. Len(chunks') : chunks'[i] # <<>>
    BY DEF DownlinkInv, TypeOK
  <1>2. Locked' /\ HandedOut'
    BY DEF DownlinkInv, Locked, HandedOut
  <1>3. Flow'
    BY DEF DownlinkInv, Flow, OnItsWay, Reached
  <1>. QED  BY <1>1, <1>2, <1>3 DEF DownlinkInv

\* What is delivered is what was framed.
LEMMA DownlinkDelivers == DownlinkInv => FramesDelivered
  <1>. SUFFICES ASSUME DownlinkInv PROVE FramesDelivered
    OBVIOUS
  <1>1. Flowing(chunks, OnItsWay, Reached, parser, got, earlier, opens)
    BY DEF DownlinkInv, Flow
  <1>2. \E i \in earlier .. Len(Fitting) : IsPrefix(got, SubSeq(Fitting, i + 1, Len(Fitting)))
    BY <1>1, DownlinkTypes, FlowInOrder DEF Fitting
  <1>3. DeliveredInOrder
    BY <1>2 DEF DownlinkInv, HandedOut, DeliveredInOrder
  <1>4. NothingFittingLost
    <2>. SUFFICES ASSUME Quiet PROVE earlier + Len(got) + opens >= Len(Fitting)
      BY DEF NothingFittingLost
    <2>1. OnItsWay = stdin /\ Reached = Len(chunks) + 1
      BY DEF Quiet, OnItsWay, Reached
    <2>2. \A i \in 1 .. Len(stdin) : stdin[i] = 0
      <3>1. DOMAIN stdin = 1 .. Len(stdin)
        BY DownlinkTypes, LenProperties DEF Bytes
      <3>. QED  BY <3>1 DEF Quiet
    <2>3. Flowing(chunks, stdin, Len(chunks) + 1, parser, got, earlier, opens)
      BY <1>1, <2>1
    <2>. QED  BY <2>2, <2>3, DownlinkTypes, FlowQuiet DEF Fitting
  <1>. QED  BY <1>3, <1>4 DEF DownlinkInv, FramesDelivered

\* What the proxy reads from the agent reaches the client in whole frames, byte for byte and
\* in order, and no frame that fits is lost but to an open: for all messages, any number of
\* them, of opens and of read sizes, and any size of the payload, of a chunk and of the pipe
\* (agent_to_spike, heartbeat_to_spike, feed_parser, htif_transport_open and _read).
THEOREM FramesAreDelivered == Spec => []FramesDelivered
  <1>1. Init => DownlinkInv
    BY DownlinkBegins
  <1>2. DownlinkInv /\ [Next]_vars => DownlinkInv'
    <2>. SUFFICES ASSUME DownlinkInv, [Next]_vars PROVE DownlinkInv'
      OBVIOUS
    <2>1. CASE AgentWrites
      BY <2>1, AgentWritesKeeps
    <2>2. CASE Proxy
      BY <2>2, ReadPtyKeeps, AcquireForFrameKeeps, WriteFrameByteKeeps DEF Proxy
    <2>3. CASE Heartbeat
      BY <2>3, AcquireForBeatKeeps, WriteBeatKeeps DEF Heartbeat
    <2>4. CASE Reader \/ ReadTimeout
      BY <2>4, ReadPollKeeps, ReadByteKeeps DEF Reader
    <2>5. CASE Client
      BY <2>5, OpenKeeps, ReadStagedKeeps, ReadCallKeeps DEF Client
    <2>6. CASE UNCHANGED vars
      BY <2>6, DownlinkStutters
    <2>. QED  BY <2>1, <2>2, <2>3, <2>4, <2>5, <2>6 DEF Next
  <1>3. DownlinkInv => FramesDelivered
    BY DownlinkDelivers
  <1>. QED  BY <1>1, <1>2, <1>3, PTL DEF Spec
===============================================================================
