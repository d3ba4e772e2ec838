----------------------------- MODULE ListsProofs -----------------------------
(***************************************************************************)
(* Induction over natural numbers, in the form of a set that holds zero    *)
(* and is closed under the next number, and with it what FlattenSeq        *)
(* returns: for sequences of any length over any set.                      *)
(***************************************************************************)
EXTENDS Lists, WellFoundedInduction, TLAPS

LEMMA LeastNumber ==
  ASSUME NEW T, T \subseteq Nat, T # {}
  PROVE  \E x \in T : \A y \in T : x <= y
  <1> DEFINE R == OpToRel(<, Nat)
  <1>1. IsWellFoundedOn(R, Nat)
    BY NatLessThanWellFounded
  <1> HIDE DEF R
  <1>2. PICK x \in T : \A y \in T : ~ (<<y, x>> \in R)
    BY <1>1, WFMin
  <1>3. \A y \in T : ~(y < x)
    BY <1>2 DEF R, OpToRel
  <1> QED
    BY <1>2, <1>3

LEMMA Induction ==
  ASSUME NEW A, NEW n \in Nat, 0 \in A, \A k \in 1 .. n : k - 1 \in A => k \in A
  PROVE  n \in A
  <1> SUFFICES ASSUME (0 .. n) \ A # {} PROVE FALSE
    OBVIOUS
  <1>1. PICK x \in (0 .. n) \ A : \A y \in (0 .. n) \ A : x <= y
    <2> DEFINE T == (0 .. n) \ A
    <2>1. T \subseteq Nat /\ T # {}
      OBVIOUS
    <2> HIDE DEF T
    <2>2. \E x \in T : \A y \in T : x <= y
      BY <2>1, LeastNumber
    <2> QED
      BY <2>2 DEF T
  <1>2. x \in 1 .. n /\ x - 1 \in 0 .. n
    BY <1>1
  <1>3. x - 1 \in A
    BY <1>1, <1>2
  <1> QED
    BY <1>1, <1>2, <1>3

-----------------------------------------------------------------------------
\* A list made of another, element by element.
LEMMA Mapped ==
  ASSUME NEW S, NEW s, DOMAIN s = 1 .. Len(s), Len(s) \in Nat, NEW g,
         g = [i \in DOMAIN s |-> g[i]], \A i \in DOMAIN s : g[i] \in S
  PROVE  g \in Seq(S) /\ Len(g) = Len(s) /\ DOMAIN g = 1 .. Len(s)
  <1>1. g \in [1 .. Len(s) -> S]
    OBVIOUS
  <1> QED
    BY <1>1

-----------------------------------------------------------------------------
(* FlattenSeq.                                                             *)

\* The concatenation of the first k, for each k.
Joined(s, g) == g = [i \in 1 .. Len(s) |-> IF i = 1 THEN s[i] ELSE g[i - 1] \o s[i]]

LEMMA JoinedExists ==
  ASSUME NEW S, NEW s \in Seq(Seq(S))
  PROVE  \E g : Joined(s, g)
  <1> DEFINE Upto(k) == \E g : g = [i \in 1 .. k |-> IF i = 1 THEN s[i] ELSE g[i - 1] \o s[i]]
             A == {k \in Nat : Upto(k)}
  <1>1. 0 \in A
    <2> DEFINE g == [i \in 1 .. 0 |-> s[i]]
    <2>1. g = [i \in 1 .. 0 |-> IF i = 1 THEN s[i] ELSE g[i - 1] \o s[i]]
      OBVIOUS
    <2> QED
      BY <2>1
  <1>2. ASSUME NEW k \in 1 .. Len(s), k - 1 \in A PROVE k \in A
    <2>1. PICK h : h = [i \in 1 .. k - 1 |-> IF i = 1 THEN s[i] ELSE h[i - 1] \o s[i]]
      BY <1>2
    <2> DEFINE last == IF k = 1 THEN s[k] ELSE h[k - 1] \o s[k]
               g == [i \in 1 .. k |-> IF i = k THEN last ELSE h[i]]
    <2>2. ASSUME NEW i \in 1 .. k PROVE g[i] = IF i = 1 THEN s[i] ELSE g[i - 1] \o s[i]
      <3>1. CASE i = k
        <4>1. g[i] = last
          BY <3>1
        <4>2. i # 1 => g[i - 1] = h[i - 1]
          BY <3>1
        <4> HIDE DEF g
        <4> QED
          BY <3>1, <4>1, <4>2
      <3>2. CASE i # k
        <4>1. g[i] = h[i] /\ (i # 1 => g[i - 1] = h[i - 1])
          BY <3>2
        <4>2. h[i] = IF i = 1 THEN s[i] ELSE h[i - 1] \o s[i]
          <5>1. i \in 1 .. k - 1
            BY <3>2
          <5> HIDE DEF g
          <5> QED
            BY <2>1, <5>1
        <4> HIDE DEF g
        <4> QED
          BY <4>1, <4>2
      <3> QED
        BY <3>1, <3>2
    <2>3. g = [i \in 1 .. k |-> g[i]]
      OBVIOUS
    <2> HIDE DEF g
    <2>4. g = [i \in 1 .. k |-> IF i = 1 THEN s[i] ELSE g[i - 1] \o s[i]]
      BY <2>2, <2>3
    <2>5. Upto(k)
      BY ONLY <2>4
    <2> HIDE DEF Upto
    <2> QED
      BY <2>5
  <1> HIDE DEF A
  <1>3. Len(s) \in A
    BY <1>1, <1>2, Induction
  <1> QED
    BY <1>3 DEF A, Joined

\* What holds of nothing, and with each further sequence appended, holds of the
\* whole.
LEMMA FlattenInduction ==
  ASSUME NEW S, NEW s \in Seq(Seq(S)), NEW A,
         <<>> \in A[0],
         \A k \in 1 .. Len(s) : \A f \in Seq(S) : f \in A[k - 1] => f \o s[k] \in A[k]
  PROVE  FlattenSeq(s) \in Seq(S) /\ FlattenSeq(s) \in A[Len(s)]
  <1>1. CASE Len(s) = 0
    <2>1. FlattenSeq(s) = <<>>
      BY <1>1 DEF FlattenSeq
    <2> QED
      BY <1>1, <2>1
  <1>2. CASE Len(s) # 0
    <2> DEFINE G == CHOOSE g : Joined(s, g)
    <2>1. Joined(s, G)
      BY JoinedExists
    <2>2. FlattenSeq(s) = G[Len(s)]
      BY <1>2 DEF FlattenSeq, Joined
    <2> HIDE DEF G
    <2>3. \A i \in 1 .. Len(s) : G[i] = IF i = 1 THEN s[i] ELSE G[i - 1] \o s[i]
      BY <2>1 DEF Joined
    <2> DEFINE B == {0} \cup {k \in 1 .. Len(s) : G[k] \in Seq(S) /\ G[k] \in A[k]}
    <2>4. ASSUME NEW k \in 1 .. Len(s), k - 1 \in B PROVE k \in B
      <3>0. s[k] \in Seq(S)
        OBVIOUS
      <3>1. CASE k = 1
        <4>1. G[k] = <<>> \o s[k]
          BY <2>3, <3>0, <3>1
        <4>2. <<>> \in A[k - 1] /\ <<>> \in Seq(S)
          BY <3>1
        <4>3. <<>> \o s[k] \in A[k]
          BY <4>2
        <4>4. <<>> \o s[k] \in Seq(S)
          BY <3>0
        <4> QED
          BY <4>1, <4>3, <4>4
      <3>2. CASE k # 1
        <4>1. G[k - 1] \in Seq(S) /\ G[k - 1] \in A[k - 1]
          BY <2>4, <3>2
        <4>2. G[k] = G[k - 1] \o s[k]
          BY <2>3, <3>2
        <4>3. G[k - 1] \o s[k] \in A[k]
          BY <4>1
        <4>4. G[k - 1] \o s[k] \in Seq(S)
          BY <3>0, <4>1
        <4> QED
          BY <4>2, <4>3, <4>4
      <3> QED
        BY <3>1, <3>2
    <2> HIDE DEF B
    <2>5. 0 \in B /\ Len(s) \in B
      <3>1. 0 \in B
        BY DEF B
      <3> QED
        BY <2>4, <3>1, Induction
    <2> QED
      BY <1>2, <2>2, <2>5 DEF B
  <1> QED
    BY <1>1, <1>2

\* A sequence is empty or begins with one of H.
Opens(f, H) == f = <<>> \/ f[1] \in H

\* It stands in f in one piece, and what follows it there opens with one of H.
PlacedIn(part, f, S, H) ==
  \E pre, post \in Seq(S) : f = (pre \o part) \o post /\ Opens(post, H)

Reassociates(a, b, c) == (a \o b) \o c = a \o (b \o c)

LEMMA Reassociated ==
  ASSUME NEW S, NEW a \in Seq(S), NEW b \in Seq(S), NEW c \in Seq(S)
  PROVE  Reassociates(a, b, c)
  BY DEF Reassociates

\* Each part stands in the whole in one piece.  Where all parts open with one of
\* H, so does the whole, and so does what follows a part.
LEMMA FlattenPlaces ==
  ASSUME NEW S, NEW H, NEW s \in Seq(Seq(S)), \A k \in 1 .. Len(s) : Opens(s[k], H)
  PROVE  /\ FlattenSeq(s) \in Seq(S) /\ Opens(FlattenSeq(s), H)
         /\ \A k \in 1 .. Len(s) : PlacedIn(s[k], FlattenSeq(s), S, H)
  <1> DEFINE Placed(k, f) == PlacedIn(s[k], f, S, H)
             P(n, f) == Opens(f, H) /\ \A k \in 1 .. n : Placed(k, f)
             A == [n \in 0 .. Len(s) |-> {f \in Seq(S) : P(n, f)}]
  <1> HIDE DEF P
  <1>1. \A n \in 0 .. Len(s) : \A f \in Seq(S) : f \in A[n] <=> P(n, f)
    OBVIOUS
  <1> HIDE DEF A, Placed
  <1>2. P(0, <<>>)
    BY DEF P, Opens
  <1>3. ASSUME NEW k \in 1 .. Len(s), NEW f \in Seq(S), P(k - 1, f) PROVE P(k, f \o s[k])
    <2>1. s[k] \in Seq(S) /\ Opens(s[k], H)
      OBVIOUS
    <2>2. Opens(f, H) /\ \A j \in 1 .. k - 1 : Placed(j, f)
      BY <1>3 DEF P
    <2>3. Opens(f \o s[k], H)
      BY <2>1, <2>2 DEF Opens
    <2>4. Placed(k, f \o s[k])
      <3>1. f \o s[k] = (f \o s[k]) \o <<>> /\ <<>> \in Seq(S) /\ Opens(<<>>, H)
        BY <2>1 DEF Opens
      <3> QED
        BY <3>1 DEF Placed, PlacedIn
    <2>5. ASSUME NEW j \in 1 .. k - 1 PROVE Placed(j, f \o s[k])
      <3>1. PICK pre, post \in Seq(S) : f = (pre \o s[j]) \o post /\ Opens(post, H)
        BY <2>2 DEF Placed, PlacedIn
      <3>2. s[j] \in Seq(S) /\ post \o s[k] \in Seq(S)
        BY <2>1
      <3>3. ((pre \o s[j]) \o post) \o s[k] = (pre \o s[j]) \o (post \o s[k])
        <4>1. pre \o s[j] \in Seq(S) /\ post \in Seq(S) /\ s[k] \in Seq(S)
          BY <2>1, <3>2
        <4>2. Reassociates(pre \o s[j], post, s[k])
          BY <4>1, Reassociated
        <4> QED
          BY <4>2 DEF Reassociates
      <3>4. Opens(post \o s[k], H)
        <4>1. CASE post = <<>>
          BY <2>1, <4>1
        <4>2. CASE post # <<>>
          BY <2>1, <3>1, <4>2 DEF Opens
        <4> QED
          BY <4>1, <4>2
      <3> QED
        BY <3>1, <3>2, <3>3, <3>4 DEF Placed, PlacedIn
    <2>6. \A j \in 1 .. k : j = k \/ j \in 1 .. k - 1
      OBVIOUS
    <2> QED
      BY <2>3, <2>4, <2>5, <2>6 DEF P
  <1>4. <<>> \in A[0]
    <2>1. 0 \in 0 .. Len(s) /\ <<>> \in Seq(S)
      OBVIOUS
    <2> QED
      BY <1>1, <1>2, <2>1
  <1>5. ASSUME NEW k \in 1 .. Len(s), NEW f \in Seq(S), f \in A[k - 1]
        PROVE  f \o s[k] \in A[k]
    <2>1. k - 1 \in 0 .. Len(s) /\ k \in 0 .. Len(s) /\ f \o s[k] \in Seq(S)
      OBVIOUS
    <2> QED
      BY <1>1, <1>3, <1>5, <2>1
  <1>6. FlattenSeq(s) \in Seq(S) /\ FlattenSeq(s) \in A[Len(s)]
    BY <1>4, <1>5, FlattenInduction
  <1>7. Len(s) \in 0 .. Len(s)
    OBVIOUS
  <1>8. P(Len(s), FlattenSeq(s))
    BY <1>1, <1>6, <1>7
  <1> QED
    BY <1>6, <1>8 DEF P, Placed

\* There is nothing in the whole that is not in a part.
LEMMA FlattenElements ==
  ASSUME NEW S, NEW s \in Seq(Seq(S))
  PROVE  /\ FlattenSeq(s) \in Seq(S)
         /\ \A i \in DOMAIN FlattenSeq(s) : \E k \in 1 .. Len(s) : \E j \in DOMAIN s[k] :
              FlattenSeq(s)[i] = s[k][j]
  <1> DEFINE From(e, n) == \E k \in 1 .. n : \E j \in DOMAIN s[k] : e = s[k][j]
             P(n, f) == \A i \in DOMAIN f : From(f[i], n)
             A == [n \in 0 .. Len(s) |-> {f \in Seq(S) : P(n, f)}]
  <1> HIDE DEF P
  <1>1. \A n \in 0 .. Len(s) : \A f \in Seq(S) : f \in A[n] <=> P(n, f)
    OBVIOUS
  <1> HIDE DEF A, From
  <1>2. P(0, <<>>)
    BY DEF P
  <1>3. ASSUME NEW k \in 1 .. Len(s), NEW f \in Seq(S), P(k - 1, f) PROVE P(k, f \o s[k])
    <2>1. s[k] \in Seq(S) /\ f \o s[k] \in Seq(S)
      OBVIOUS
    <2>2. \A e : From(e, k - 1) => From(e, k)
      BY DEF From
    <2>3. ASSUME NEW i \in DOMAIN (f \o s[k]) PROVE From((f \o s[k])[i], k)
      <3>1. i \in 1 .. Len(f) + Len(s[k])
        BY <2>1, <2>3
      <3>2. CASE i <= Len(f)
        <4>1. i \in DOMAIN f /\ (f \o s[k])[i] = f[i]
          BY <2>1, <3>1, <3>2
        <4> QED
          BY <1>3, <2>2, <4>1 DEF P
      <3>3. CASE i > Len(f)
        <4>1. i - Len(f) \in DOMAIN s[k] /\ (f \o s[k])[i] = s[k][i - Len(f)]
          BY <2>1, <3>1, <3>3
        <4> QED
          BY <4>1 DEF From
      <3> QED
        BY <3>1, <3>2, <3>3
    <2> QED
      BY <2>3 DEF P
  <1>4. <<>> \in A[0]
    <2>1. 0 \in 0 .. Len(s) /\ <<>> \in Seq(S)
      OBVIOUS
    <2> QED
      BY <1>1, <1>2, <2>1
  <1>5. ASSUME NEW k \in 1 .. Len(s), NEW f \in Seq(S), f \in A[k - 1]
        PROVE  f \o s[k] \in A[k]
    <2>1. k - 1 \in 0 .. Len(s) /\ k \in 0 .. Len(s) /\ f \o s[k] \in Seq(S)
      OBVIOUS
    <2> QED
      BY <1>1, <1>3, <1>5, <2>1
  <1>6. FlattenSeq(s) \in Seq(S) /\ FlattenSeq(s) \in A[Len(s)]
    BY <1>4, <1>5, FlattenInduction
  <1>7. Len(s) \in 0 .. Len(s)
    OBVIOUS
  <1>8. P(Len(s), FlattenSeq(s))
    BY <1>1, <1>6, <1>7
  <1> QED
    BY <1>6, <1>8 DEF P, From

Ascending(f) == \A i, j \in DOMAIN f : i < j => f[i] < f[j]

LEMMA AppendElements ==
  ASSUME NEW S, NEW f \in Seq(S), NEW e \in S
  PROVE  ToSet(Append(f, e)) = ToSet(f) \cup {e}
  <1>1. Append(f, e) \in Seq(S) /\ Len(Append(f, e)) = Len(f) + 1
    OBVIOUS
  <1>2. \A i \in 1 .. Len(f) : Append(f, e)[i] = f[i]
    OBVIOUS
  <1>3. Append(f, e)[Len(f) + 1] = e
    OBVIOUS
  <1>4. DOMAIN Append(f, e) = 1 .. Len(f) \cup {Len(f) + 1}
    BY <1>1
  <1> QED
    BY <1>2, <1>3, <1>4 DEF ToSet

\* A loop with a test keeps the order of an ascending list, and what passed.
LEMMA FilterAscends ==
  ASSUME NEW s \in Seq(Int), Ascending(s), NEW kept \in Seq(Seq(Int)), Len(kept) = Len(s),
         \A k \in 1 .. Len(s) : kept[k] \in {<<>>, <<s[k]>>}
  PROVE  /\ FlattenSeq(kept) \in Seq(Int) /\ Ascending(FlattenSeq(kept))
         /\ ToSet(FlattenSeq(kept)) = {s[k] : k \in {j \in 1 .. Len(s) : kept[j] # <<>>}}
  <1> DEFINE Through(n) == {s[k] : k \in {j \in 1 .. n : kept[j] # <<>>}}
             P(n, f) == Ascending(f) /\ ToSet(f) = Through(n)
             A == [n \in 0 .. Len(kept) |-> {f \in Seq(Int) : P(n, f)}]
  <1> HIDE DEF P
  <1>1. \A n \in 0 .. Len(kept) : \A f \in Seq(Int) : f \in A[n] <=> P(n, f)
    OBVIOUS
  <1> HIDE DEF A, Through
  <1>2. P(0, <<>>)
    <2>1. Through(0) = {} /\ ToSet(<<>>) = {}
      BY DEF Through, ToSet
    <2>2. Ascending(<<>>)
      BY DEF Ascending
    <2> QED
      BY <2>1, <2>2 DEF P
  <1>3. ASSUME NEW k \in 1 .. Len(kept), NEW f \in Seq(Int), P(k - 1, f)
        PROVE  P(k, f \o kept[k])
    <2>1. Ascending(f) /\ ToSet(f) = Through(k - 1) /\ k \in 1 .. Len(s) /\ s[k] \in Int
      BY <1>3 DEF P
    <2>2. CASE kept[k] = <<>>
      <3>1. f \o kept[k] = f
        BY <2>2
      <3>2. Through(k) = Through(k - 1)
        <4>1. {j \in 1 .. k : kept[j] # <<>>} = {j \in 1 .. k - 1 : kept[j] # <<>>}
          BY <2>2
        <4> QED
          BY <4>1 DEF Through
      <3> QED
        BY <2>1, <3>1, <3>2 DEF P
    <2>3. CASE kept[k] = <<s[k]>>
      <3>1. \A x \in Through(k - 1) : x < s[k]
        <4>1. ASSUME NEW j \in 1 .. k - 1 PROVE s[j] < s[k]
          <5>1. j \in DOMAIN s /\ k \in DOMAIN s /\ j < k
            BY <2>1
          <5> QED
            BY <5>1 DEF Ascending
        <4> QED
          BY <4>1 DEF Through
      <3>2. \A i \in DOMAIN f : f[i] < s[k]
        BY <2>1, <3>1 DEF ToSet
      <3>3. f \o kept[k] = Append(f, s[k])
        BY <2>1, <2>3
      <3>4. Ascending(Append(f, s[k]))
        <4> DEFINE g == Append(f, s[k])
        <4>1. DOMAIN g = 1 .. Len(f) + 1 /\ g[Len(f) + 1] = s[k]
          BY <2>1
        <4>2. \A i \in 1 .. Len(f) : i \in DOMAIN f /\ g[i] = f[i]
          BY <2>1
        <4> HIDE DEF g
        <4>3. ASSUME NEW i \in DOMAIN g, NEW j \in DOMAIN g, i < j PROVE g[i] < g[j]
          <5>1. i \in 1 .. Len(f) /\ (j \in 1 .. Len(f) \/ j = Len(f) + 1)
            BY <4>1, <4>3
          <5> QED
            BY <2>1, <3>2, <4>1, <4>2, <4>3, <5>1 DEF Ascending
        <4> QED
          BY <4>3 DEF Ascending, g
      <3>5. ToSet(Append(f, s[k])) = ToSet(f) \cup {s[k]}
        BY <2>1, AppendElements
      <3>6. Through(k) = Through(k - 1) \cup {s[k]}
        <4>1. {j \in 1 .. k : kept[j] # <<>>} = {j \in 1 .. k - 1 : kept[j] # <<>>} \cup {k}
          <5>1. 1 .. k = (1 .. k - 1) \cup {k} /\ kept[k] # <<>>
            BY <2>3
          <5> QED
            BY <5>1
        <4> QED
          BY <4>1 DEF Through
      <3> QED
        BY <2>1, <3>3, <3>4, <3>5, <3>6 DEF P
    <2> QED
      BY <2>1, <2>2, <2>3
  <1>4. <<>> \in A[0]
    <2>1. 0 \in 0 .. Len(kept) /\ <<>> \in Seq(Int)
      OBVIOUS
    <2> QED
      BY <1>1, <1>2, <2>1
  <1>5. ASSUME NEW k \in 1 .. Len(kept), NEW f \in Seq(Int), f \in A[k - 1]
        PROVE  f \o kept[k] \in A[k]
    <2>1. k - 1 \in 0 .. Len(kept) /\ k \in 0 .. Len(kept) /\ f \o kept[k] \in Seq(Int)
      OBVIOUS
    <2> QED
      BY <1>1, <1>3, <1>5, <2>1
  <1>6. FlattenSeq(kept) \in Seq(Int) /\ FlattenSeq(kept) \in A[Len(kept)]
    BY <1>4, <1>5, FlattenInduction
  <1>7. Len(kept) \in 0 .. Len(kept)
    OBVIOUS
  <1>8. P(Len(kept), FlattenSeq(kept))
    BY <1>1, <1>6, <1>7
  <1> QED
    BY <1>6, <1>8 DEF P, Through

=============================================================================
