---------------------------- MODULE SequenceLemmas ----------------------------
(* Facts about the sequences of the queues, for every set of elements: what   *)
(* appending, taking one out and filtering do to range, order and length.     *)
EXTENDS Sublists, SequencesExt, FiniteSetTheorems, SequenceTheorems,
        WellFoundedInduction, TLAPS

\* Induction over the naturals in a form the provers can instantiate.
LEMMA SetInduction ==
  ASSUME NEW T \in SUBSET Nat, 0 \in T, \A n \in T : n + 1 \in T
  PROVE  T = Nat
<1> SUFFICES ASSUME Nat \ T # {} PROVE FALSE
  OBVIOUS
<1>1. PICK x \in Nat \ T : \A y \in Nat \ T : ~ (<<y, x>> \in OpToRel(<, Nat))
  BY WFMin, NatLessThanWellFounded, Zenon
<1>2. x \in Nat /\ x # 0
  OBVIOUS
<1>3. x - 1 \in Nat /\ x - 1 < x /\ (x - 1) + 1 = x
  BY <1>2
<1>4. <<x - 1, x>> \in OpToRel(<, Nat)
  BY <1>2, <1>3, Zenon DEF OpToRel
<1>5. x - 1 \in T
  BY <1>1, <1>3, <1>4
<1> QED  BY <1>3, <1>5

-----------------------------------------------------------------------------
(* Appending, taking the first, taking one out *)

LEMMA AppendKeepsRange ==
  ASSUME NEW S, NEW s \in Seq(S), NEW e \in S
  PROVE  /\ Append(s, e) \in Seq(S)
         /\ Range(Append(s, e)) = Range(s) \cup {e}
<1> DEFINE t == Append(s, e)
<1>1. /\ t \in Seq(S) /\ Len(t) = Len(s) + 1 /\ t[Len(s) + 1] = e
      /\ \A j \in 1 .. Len(s) : t[j] = s[j]
  BY AppendProperties
<1>2. DOMAIN s = 1 .. Len(s) /\ DOMAIN t = 1 .. (Len(s) + 1) /\ Len(s) \in Nat
  BY <1>1
<1> HIDE DEF t
<1>3. Range(t) = Range(s) \cup {e}
  BY <1>1, <1>2 DEF Range
<1> QED  BY <1>1, <1>3 DEF t

LEMMA AppendRange ==
  ASSUME NEW S, NEW s \in Seq(S), NEW e \in S, IsInjective(s), e \notin Range(s)
  PROVE  /\ Append(s, e) \in Seq(S)
         /\ IsInjective(Append(s, e))
         /\ Range(Append(s, e)) = Range(s) \cup {e}
<1> DEFINE t == Append(s, e)
<1>1. /\ t \in Seq(S) /\ Len(t) = Len(s) + 1 /\ t[Len(s) + 1] = e
      /\ \A j \in 1 .. Len(s) : t[j] = s[j]
  BY AppendProperties
<1>2. DOMAIN s = 1 .. Len(s) /\ DOMAIN t = 1 .. (Len(s) + 1) /\ Len(s) \in Nat
  BY <1>1
<1> HIDE DEF t
<1>3. IsInjective(t)
  BY <1>1, <1>2 DEF IsInjective, Range
<1> QED  BY <1>3, AppendKeepsRange DEF t

LEMMA TailKeepsRange ==
  ASSUME NEW S, NEW s \in Seq(S), s # <<>>
  PROVE  /\ Head(s) \in Range(s) /\ Tail(s) \in Seq(S)
         /\ Range(s) = Range(Tail(s)) \cup {Head(s)}
<1>1. /\ Tail(s) \in Seq(S) /\ Len(Tail(s)) = Len(s) - 1
      /\ \A i \in 1 .. Len(Tail(s)) : Tail(s)[i] = s[i + 1]
  BY HeadTailProperties
<1>2. /\ Len(s) \in Nat /\ Len(s) # 0 /\ DOMAIN s = 1 .. Len(s)
      /\ DOMAIN Tail(s) = 1 .. (Len(s) - 1)
  BY <1>1, EmptySeq
<1>3. Head(s) = s[1] /\ 1 \in DOMAIN s
  BY <1>2
<1>4. ASSUME NEW i \in DOMAIN s PROVE s[i] \in Range(Tail(s)) \cup {Head(s)}
  <2>1. CASE i = 1
    BY <2>1, <1>3
  <2>2. CASE i # 1
    <3>1. i - 1 \in DOMAIN Tail(s) /\ Tail(s)[i - 1] = s[i]
      BY <2>2, <1>1, <1>2
    <3> QED  BY <3>1 DEF Range
  <2> QED  BY <2>1, <2>2
<1>5. ASSUME NEW i \in DOMAIN Tail(s) PROVE Tail(s)[i] \in Range(s)
  <2>1. i + 1 \in DOMAIN s /\ Tail(s)[i] = s[i + 1]
    BY <1>1, <1>2
  <2> QED  BY <2>1 DEF Range
<1> QED  BY <1>1, <1>3, <1>4, <1>5 DEF Range

LEMMA TailRange ==
  ASSUME NEW S, NEW s \in Seq(S), s # <<>>, IsInjective(s)
  PROVE  /\ Head(s) \in Range(s) /\ Tail(s) \in Seq(S)
         /\ IsInjective(Tail(s))
         /\ Range(Tail(s)) = Range(s) \ {Head(s)}
<1>1. /\ Tail(s) \in Seq(S) /\ Len(Tail(s)) = Len(s) - 1
      /\ \A i \in 1 .. Len(Tail(s)) : Tail(s)[i] = s[i + 1]
  BY HeadTailProperties
<1>2. /\ Len(s) \in Nat /\ Len(s) # 0 /\ DOMAIN s = 1 .. Len(s)
      /\ DOMAIN Tail(s) = 1 .. (Len(s) - 1)
  BY <1>1, EmptySeq
<1>3. Head(s) = s[1] /\ 1 \in DOMAIN s
  BY <1>2
<1>4. \A i \in DOMAIN Tail(s) : i + 1 \in DOMAIN s /\ i + 1 # 1 /\ Tail(s)[i] = s[i + 1]
  BY <1>1, <1>2
<1>5. IsInjective(Tail(s))
  <2> SUFFICES ASSUME NEW i \in DOMAIN Tail(s), NEW j \in DOMAIN Tail(s),
                      Tail(s)[i] = Tail(s)[j]
               PROVE  i = j
    BY DEF IsInjective
  <2>1. i + 1 = j + 1
    BY <1>4 DEF IsInjective
  <2> QED  BY <2>1, <1>2
<1>6. Head(s) \notin Range(Tail(s))
  BY <1>3, <1>4 DEF IsInjective, Range
<1> QED  BY <1>5, <1>6, TailKeepsRange

LEMMA RemoveAtProperties ==
  ASSUME NEW S, NEW s \in Seq(S), NEW i \in DOMAIN s
  PROVE  /\ RemoveAt(s, i) \in Seq(S)
         /\ Len(RemoveAt(s, i)) = Len(s) - 1
         /\ \A j \in 1 .. (Len(s) - 1) :
              RemoveAt(s, i)[j] = IF j < i THEN s[j] ELSE s[j + 1]
<1> DEFINE l == SubSeq(s, 1, i - 1)
           r == SubSeq(s, i + 1, Len(s))
<1>1. i \in 1 .. Len(s) /\ Len(s) \in Nat
  OBVIOUS
<1>2. /\ l \in Seq(S) /\ Len(l) = i - 1
      /\ \A j \in 1 .. (i - 1) : l[j] = s[j]
  BY <1>1
<1>3. /\ r \in Seq(S) /\ Len(r) = Len(s) - i
      /\ \A j \in 1 .. (Len(s) - i) : r[j] = s[j + i]
  BY <1>1
<1>4. /\ l \o r \in Seq(S) /\ Len(l \o r) = Len(l) + Len(r)
      /\ \A j \in 1 .. (Len(l) + Len(r)) :
           (l \o r)[j] = IF j <= Len(l) THEN l[j] ELSE r[j - Len(l)]
  <2> HIDE DEF l, r
  <2> QED  BY <1>2, <1>3, ConcatProperties
<1>5. RemoveAt(s, i) = l \o r
  BY DEF RemoveAt
<1> HIDE DEF l, r
<1>6. Len(l) + Len(r) = Len(s) - 1
  BY <1>1, <1>2, <1>3
<1>7. \A j \in 1 .. (Len(s) - 1) :
        (l \o r)[j] = IF j <= i - 1 THEN l[j] ELSE r[j - (i - 1)]
  BY <1>2, <1>4, <1>6
<1>8. ASSUME NEW j \in 1 .. (Len(s) - 1)
      PROVE  (l \o r)[j] = IF j < i THEN s[j] ELSE s[j + 1]
  <2>1. CASE j <= i - 1
    BY <2>1, <1>1, <1>2, <1>7
  <2>2. CASE ~(j <= i - 1)
    <3> DEFINE k == j - (i - 1)
    <3>1. k \in 1 .. (Len(s) - i) /\ k + i = j + 1
      BY <2>2, <1>1
    <3>2. (l \o r)[j] = r[k]
      BY <2>2, <1>7
    <3> HIDE DEF k
    <3> QED  BY <2>2, <3>1, <3>2, <1>1, <1>3
  <2> QED  BY <2>1, <2>2
<1>9. l \o r \in Seq(S) /\ Len(l \o r) = Len(s) - 1
  BY <1>4, <1>6
<1> QED  BY <1>5, <1>8, <1>9

\* splice() takes one entry out and keeps the others.
LEMMA RemoveAtRange ==
  ASSUME NEW S, NEW s \in Seq(S), NEW i \in DOMAIN s, IsInjective(s)
  PROVE  /\ IsInjective(RemoveAt(s, i))
         /\ Range(RemoveAt(s, i)) = Range(s) \ {s[i]}
<1> DEFINE t == RemoveAt(s, i)
<1>1. /\ t \in Seq(S) /\ Len(t) = Len(s) - 1
      /\ \A j \in 1 .. (Len(s) - 1) : t[j] = IF j < i THEN s[j] ELSE s[j + 1]
  BY RemoveAtProperties
<1>2. /\ i \in 1 .. Len(s) /\ Len(s) \in Nat /\ DOMAIN s = 1 .. Len(s)
      /\ \A a, b \in 1 .. Len(s) : s[a] = s[b] => a = b
  BY DEF IsInjective
<1> HIDE DEF t
<1>3. DOMAIN t = 1 .. (Len(s) - 1)
  BY <1>1, <1>2
<1>4. IsInjective(t)
  BY <1>1, <1>2, <1>3 DEF IsInjective
<1>5. \A j \in DOMAIN t : t[j] \in Range(s) \ {s[i]}
  BY <1>1, <1>2, <1>3 DEF Range
<1>6. \A k \in DOMAIN s : k # i => \E j \in DOMAIN t : t[j] = s[k]
  <2> SUFFICES ASSUME NEW k \in DOMAIN s, k # i PROVE \E j \in DOMAIN t : t[j] = s[k]
    OBVIOUS
  <2>1. CASE k < i
    BY <2>1, <1>1, <1>2, <1>3
  <2>2. CASE k > i
    <3>1. k - 1 \in DOMAIN t /\ t[k - 1] = s[k]
      BY <2>2, <1>1, <1>2, <1>3
    <3> QED  BY <3>1
  <2> QED  BY <2>1, <2>2, <1>2
<1>7. Range(t) = Range(s) \ {s[i]}
  BY <1>5, <1>6 DEF Range
<1> QED  BY <1>4, <1>7 DEF t

\* A queue without repetitions is as long as the set of what waits in it.
LEMMA LengthIsCount ==
  ASSUME NEW S, NEW s \in Seq(S), IsInjective(s)
  PROVE  IsFiniteSet(Range(s)) /\ Cardinality(Range(s)) = Len(s)
<1>1. Len(s) \in Nat /\ s \in [1 .. Len(s) -> Range(s)]
  BY DEF Range
<1>2. s \in Bijection(1 .. Len(s), Range(s))
  BY <1>1 DEF Bijection, Injection, Surjection, IsInjective, Range
<1>3. ExistsBijection(1 .. Len(s), Range(s))
  BY <1>2 DEF ExistsBijection
<1> QED  BY <1>1, <1>3, FS_CountingElements, FS_NatBijection

-----------------------------------------------------------------------------
(* Filtering *)

\* g is what Filtered defines, for the first m elements.
Filters(g, s, D, m) ==
  g = [n \in 0 .. m |->
         IF n = 0 THEN <<>>
         ELSE IF s[n] \in D THEN g[n - 1] ELSE Append(g[n - 1], s[n])]

\* The recursive definition of Filtered has a solution.
LEMMA FilteredExists ==
  ASSUME NEW s, NEW D, Len(s) \in Nat
  PROVE  \E g : Filters(g, s, D, Len(s))
<1> DEFINE T == {m \in Nat : \E g : Filters(g, s, D, m)}
<1>1. 0 \in T
  <2> DEFINE g == [n \in 0 .. 0 |-> <<>>]
  <2>1. Filters(g, s, D, 0)
    BY DEF Filters
  <2> QED  BY <2>1
<1>2. ASSUME NEW m \in T PROVE m + 1 \in T
  <2>1. PICK g : Filters(g, s, D, m)
    OBVIOUS
  <2> DEFINE h == [n \in 0 .. (m + 1) |->
                     IF n <= m THEN g[n]
                     ELSE IF s[n] \in D THEN g[n - 1] ELSE Append(g[n - 1], s[n])]
  <2>2. ASSUME NEW n \in 0 .. (m + 1)
        PROVE  h[n] = IF n = 0 THEN <<>>
                      ELSE IF s[n] \in D THEN h[n - 1] ELSE Append(h[n - 1], s[n])
    <3>1. CASE n = 0
      BY <3>1, <2>1 DEF Filters
    <3>2. CASE n # 0
      <4>1. n - 1 \in 0 .. m /\ h[n - 1] = g[n - 1]
        BY <3>2
      <4>2. CASE n <= m
        <5>1. n \in 0 .. m /\ h[n] = g[n]
          BY <4>2
        <5>2. g[n] = IF s[n] \in D THEN g[n - 1] ELSE Append(g[n - 1], s[n])
          BY <5>1, <3>2, <2>1 DEF Filters
        <5> HIDE DEF h
        <5> QED  BY <5>1, <5>2, <4>1, <3>2
      <4>3. CASE ~(n <= m)
        BY <4>1, <4>3, <3>2
      <4> QED  BY <4>2, <4>3
    <3> QED  BY <3>1, <3>2
  <2>3. Filters(h, s, D, m + 1)
    BY <2>2 DEF Filters
  <2>4. m + 1 \in Nat
    OBVIOUS
  <2> QED  BY <2>3, <2>4
<1>3. T = Nat
  <2> HIDE DEF T
  <2>1. T \in SUBSET Nat
    BY DEF T
  <2> QED  BY <1>1, <1>2, <2>1, SetInduction
<1> QED  BY <1>3

LEMMA FilteredRecurrence ==
  ASSUME NEW s, NEW D, Len(s) \in Nat
  PROVE  /\ Filtered(s, D)[0] = <<>>
         /\ \A n \in 0 .. Len(s) :
              n # 0 => Filtered(s, D)[n] =
                         IF s[n] \in D THEN Filtered(s, D)[n - 1]
                         ELSE Append(Filtered(s, D)[n - 1], s[n])
<1> DEFINE f == Filtered(s, D)
<1>1. \E g : Filters(g, s, D, Len(s))
  BY FilteredExists
<1>2. f = CHOOSE g : Filters(g, s, D, Len(s))
  BY DEF Filtered, Filters
<1>3. Filters(f, s, D, Len(s))
  <2> HIDE DEF f
  <2> QED  BY <1>1, <1>2, Zenon
<1> HIDE DEF f
<1>4. 0 \in 0 .. Len(s) /\ f[0] = <<>>
  BY <1>3 DEF Filters
<1>5. ASSUME NEW n \in 0 .. Len(s), n # 0
      PROVE  f[n] = IF s[n] \in D THEN f[n - 1] ELSE Append(f[n - 1], s[n])
  BY <1>3, <1>5 DEF Filters
<1> QED  BY <1>4, <1>5 DEF f

\* After n elements: what is left of them, each once if each was there once.
LEMMA FilteredKeeps ==
  ASSUME NEW S, NEW s \in Seq(S), NEW D
  PROVE  \A n \in 0 .. Len(s) :
           /\ Filtered(s, D)[n] \in Seq(S)
           /\ Range(Filtered(s, D)[n]) = {s[j] : j \in 1 .. n} \ D
           /\ IsInjective(s) => IsInjective(Filtered(s, D)[n])
<1> DEFINE f == Filtered(s, D)
           Seen(n) == {s[j] : j \in 1 .. n}
           Good(n) == /\ f[n] \in Seq(S) /\ Range(f[n]) = Seen(n) \ D
                      /\ IsInjective(s) => IsInjective(f[n])
           T == {n \in Nat : n \in 0 .. Len(s) => Good(n)}
<1>1. /\ Len(s) \in Nat /\ DOMAIN s = 1 .. Len(s) /\ f[0] = <<>>
      /\ \A n \in 1 .. Len(s) :
           f[n] = IF s[n] \in D THEN f[n - 1] ELSE Append(f[n - 1], s[n])
  BY FilteredRecurrence
<1> HIDE DEF f
<1>2. Good(0)
  <2>1. Seen(0) = {} /\ Range(<<>>) = {} /\ IsInjective(<<>>) /\ <<>> \in Seq(S)
    BY DEF Range, IsInjective
  <2> QED  BY <2>1, <1>1
<1>3. ASSUME NEW n \in Nat, n + 1 \in 1 .. Len(s), Good(n)
      PROVE  Good(n + 1)
  <2>1. Seen(n + 1) = Seen(n) \cup {s[n + 1]} /\ s[n + 1] \in S
    <3>1. 1 .. (n + 1) = (1 .. n) \cup {n + 1}
      OBVIOUS
    <3> QED  BY <3>1, <1>3, <1>1
  <2>2. f[n + 1] = IF s[n + 1] \in D THEN f[n] ELSE Append(f[n], s[n + 1])
    BY <1>1, <1>3
  <2>3. IsInjective(s) => s[n + 1] \notin Seen(n)
    <3> SUFFICES ASSUME IsInjective(s), NEW j \in 1 .. n, s[j] = s[n + 1] PROVE FALSE
      OBVIOUS
    <3>1. j \in DOMAIN s /\ n + 1 \in DOMAIN s /\ j # n + 1
      BY <1>1, <1>3
    <3> QED  BY <3>1 DEF IsInjective
  <2> HIDE DEF Seen
  <2>4. CASE s[n + 1] \in D
    BY <1>3, <2>1, <2>2, <2>4
  <2>5. CASE s[n + 1] \notin D
    <3> DEFINE e == s[n + 1]
    <3>1. /\ f[n + 1] = Append(f[n], e) /\ f[n] \in Seq(S) /\ e \in S
          /\ Range(f[n]) = Seen(n) \ D /\ Seen(n + 1) = Seen(n) \cup {e} /\ e \notin D
      BY <1>3, <2>1, <2>2, <2>5
    <3>2. IsInjective(s) => IsInjective(f[n]) /\ e \notin Range(f[n])
      BY <1>3, <2>3, <3>1
    <3> HIDE DEF e
    <3>3. f[n + 1] \in Seq(S) /\ Range(f[n + 1]) = Seen(n + 1) \ D
      BY <3>1, AppendKeepsRange
    <3>4. IsInjective(s) => IsInjective(f[n + 1])
      BY <3>1, <3>2, AppendRange
    <3> QED  BY <3>3, <3>4
  <2> QED  BY <2>4, <2>5
<1>4. T = Nat
  <2>1. 0 \in T
    BY <1>2
  <2>2. ASSUME NEW n \in T PROVE n + 1 \in T
    <3> SUFFICES ASSUME n + 1 \in 0 .. Len(s) PROVE Good(n + 1)
      OBVIOUS
    <3>1. n \in Nat /\ n + 1 \in 1 .. Len(s) /\ n \in 0 .. Len(s)
      BY <1>1
    <3>2. Good(n)
      BY <3>1
    <3> HIDE DEF Good, T
    <3> QED  BY <3>1, <3>2, <1>3
  <2>3. T \in SUBSET Nat
    OBVIOUS
  <2> HIDE DEF T
  <2> QED  BY <2>1, <2>2, <2>3, SetInduction
<1>5. ASSUME NEW n \in 0 .. Len(s) PROVE Good(n)
  <2>1. n \in Nat
    BY <1>1
  <2> HIDE DEF Good
  <2>2. n \in {k \in Nat : k \in 0 .. Len(s) => Good(k)}
    BY <2>1, <1>4
  <2> QED  BY <2>2
<1> QED  BY <1>5 DEF f

\* Filtering takes out what it is told to, and repeats nothing.
LEMMA WithoutRange ==
  ASSUME NEW S, NEW s \in Seq(S), NEW D
  PROVE  /\ Without(s, D) \in Seq(S)
         /\ Range(Without(s, D)) = Range(s) \ D
         /\ IsInjective(s) => IsInjective(Without(s, D))
<1>1. Len(s) \in 0 .. Len(s) /\ Range(s) = {s[j] : j \in 1 .. Len(s)}
  BY DEF Range
<1> DEFINE n == Len(s)
<1>2. /\ Filtered(s, D)[n] \in Seq(S)
      /\ Range(Filtered(s, D)[n]) = {s[j] : j \in 1 .. n} \ D
      /\ IsInjective(s) => IsInjective(Filtered(s, D)[n])
  <2>1. n \in 0 .. Len(s)
    BY <1>1
  <2> HIDE DEF n
  <2> QED  BY <2>1, FilteredKeeps
<1> QED  BY <1>1, <1>2 DEF Without

\* Only the elements that the sequence has count.
LEMMA WithoutSame ==
  ASSUME NEW S, NEW s \in Seq(S), NEW D, NEW E, D \cap Range(s) = E \cap Range(s)
  PROVE  Without(s, D) = Without(s, E)
<1> DEFINE f == Filtered(s, D)
           g == Filtered(s, E)
           T == {n \in Nat : n \in 0 .. Len(s) => f[n] = g[n]}
<1>1. /\ Len(s) \in Nat /\ f[0] = <<>> /\ g[0] = <<>>
      /\ \A n \in 1 .. Len(s) :
           /\ f[n] = IF s[n] \in D THEN f[n - 1] ELSE Append(f[n - 1], s[n])
           /\ g[n] = IF s[n] \in E THEN g[n - 1] ELSE Append(g[n - 1], s[n])
  BY FilteredRecurrence
<1>2. \A n \in 1 .. Len(s) : s[n] \in D <=> s[n] \in E
  BY DEF Range
<1> HIDE DEF f, g
<1>3. 0 \in T
  BY <1>1
<1>4. ASSUME NEW n \in T PROVE n + 1 \in T
  <2> SUFFICES ASSUME n + 1 \in 0 .. Len(s) PROVE f[n + 1] = g[n + 1]
    OBVIOUS
  <2>1. n \in 0 .. Len(s) /\ n + 1 \in 1 .. Len(s) /\ (n + 1) - 1 = n
    BY <1>1
  <2>2. f[n] = g[n]
    BY <2>1
  <2> QED  BY <2>1, <2>2, <1>1, <1>2
<1>5. T = Nat
  <2>1. T \in SUBSET Nat
    OBVIOUS
  <2> HIDE DEF T
  <2> QED  BY <1>3, <1>4, <2>1, SetInduction
<1>6. f[Len(s)] = g[Len(s)]
  <2>1. Len(s) \in T /\ Len(s) \in 0 .. Len(s)
    BY <1>1, <1>5
  <2> QED  BY <2>1
<1> QED  BY <1>6 DEF f, g, Without

\* Filtering with nothing to take out changes nothing.
LEMMA WithoutNone ==
  ASSUME NEW S, NEW s \in Seq(S), NEW D, D \cap Range(s) = {}
  PROVE  Without(s, D) = s
<1> DEFINE f == Filtered(s, D)
           Good(n) == /\ f[n] \in Seq(S) /\ Len(f[n]) = n
                      /\ \A j \in 1 .. n : f[n][j] = s[j]
           T == {n \in Nat : n \in 0 .. Len(s) => Good(n)}
<1>1. /\ Len(s) \in Nat /\ f[0] = <<>>
      /\ \A n \in 1 .. Len(s) :
           f[n] = IF s[n] \in D THEN f[n - 1] ELSE Append(f[n - 1], s[n])
  BY FilteredRecurrence
<1>2. \A n \in 1 .. Len(s) : s[n] \in S /\ s[n] \notin D
  BY DEF Range
<1> HIDE DEF f
<1>3. 0 \in T
  <2>1. <<>> \in Seq(S) /\ Len(<<>>) = 0
    OBVIOUS
  <2>2. Good(0)
    BY <1>1, <2>1
  <2> HIDE DEF Good
  <2> QED  BY <2>2
<1>4. ASSUME NEW n \in T PROVE n + 1 \in T
  <2> SUFFICES ASSUME n + 1 \in 0 .. Len(s) PROVE Good(n + 1)
    OBVIOUS
  <2>1. n \in 0 .. Len(s) /\ n + 1 \in 1 .. Len(s) /\ (n + 1) - 1 = n
    BY <1>1
  <2>2. Good(n)
    BY <2>1
  <2>3. f[n + 1] = Append(f[n], s[n + 1]) /\ s[n + 1] \in S
    BY <2>1, <1>1, <1>2
  <2>4. /\ f[n + 1] \in Seq(S) /\ Len(f[n + 1]) = n + 1
        /\ \A j \in 1 .. n : f[n + 1][j] = f[n][j]
        /\ f[n + 1][n + 1] = s[n + 1]
    BY <2>2, <2>3, AppendProperties
  <2>5. ASSUME NEW j \in 1 .. (n + 1) PROVE f[n + 1][j] = s[j]
    <3>1. CASE j = n + 1
      BY <3>1, <2>4
    <3>2. CASE j # n + 1
      <4>1. j \in 1 .. n
        BY <3>2, <2>1
      <4> QED  BY <4>1, <2>2, <2>4
    <3> QED  BY <3>1, <3>2
  <2> QED  BY <2>4, <2>5
<1>5. T = Nat
  <2>1. T \in SUBSET Nat
    OBVIOUS
  <2> HIDE DEF T
  <2> QED  BY <1>3, <1>4, <2>1, SetInduction
<1>6. Good(Len(s))
  <2>1. Len(s) \in T /\ Len(s) \in 0 .. Len(s)
    BY <1>1, <1>5
  <2> QED  BY <2>1
<1>7. f[Len(s)] = s
  BY <1>6, SeqEqual
<1> QED  BY <1>7 DEF f, Without

\* Filtering with everything to take out leaves nothing.
LEMMA WithoutAll ==
  ASSUME NEW S, NEW s \in Seq(S)
  PROVE  Without(s, Range(s)) = <<>>
<1>1. Without(s, Range(s)) \in Seq(S) /\ Range(Without(s, Range(s))) = {}
  BY WithoutRange
<1>2. DOMAIN Without(s, Range(s)) = {}
  BY <1>1 DEF Range
<1> QED  BY <1>1, <1>2, EmptySeq

LEMMA WithoutEmpty ==
  ASSUME NEW D
  PROVE  Without(<<>>, D) = <<>>
<1>1. <<>> \in Seq({}) /\ Range(<<>>) = {}
  BY DEF Range
<1> QED  BY <1>1, WithoutNone
=============================================================================
