---------------------------- MODULE SequenceFacts ----------------------------
(***************************************************************************)
(* What the proofs need to know of FIFO queues: what joins and what leaves *)
(* them when one is appended to or loses its head, and how many of a kind  *)
(* they hold; and of totals: how many there are of something when each     *)
(* member of a set has a number of them.                                   *)
(***************************************************************************)
EXTENDS Integers, Sequences, FiniteSetTheorems, FunctionTheorems, TLAPS

Elements(s) == {s[i] : i \in 1 .. Len(s)}
Injective(s) == \A i, j \in 1 .. Len(s) : s[i] = s[j] => i = j

\* The places of s with a member of T.
Places(s, T) == {i \in 1 .. Len(s) : s[i] \in T}

\* Appending an element.
LEMMA AppendFacts ==
    ASSUME NEW S, NEW s \in Seq(S), NEW e \in S
    PROVE  /\ Append(s, e) \in Seq(S)
           /\ Append(s, e) # << >>
           /\ Len(Append(s, e)) = Len(s) + 1
           /\ Elements(Append(s, e)) = Elements(s) \cup {e}
           /\ Injective(s) /\ e \notin Elements(s) => Injective(Append(s, e))
<1>1. /\ Append(s, e) \in Seq(S)
      /\ Append(s, e) # << >>
      /\ Len(Append(s, e)) = Len(s) + 1
      /\ Len(s) \in Nat
      /\ \A i \in 1 .. Len(s) : Append(s, e)[i] = s[i]
      /\ Append(s, e)[Len(s) + 1] = e
  OBVIOUS
<1>2. Elements(Append(s, e)) = Elements(s) \cup {e}
  <2>1. 1 .. Len(Append(s, e)) = (1 .. Len(s)) \cup {Len(s) + 1}
    BY <1>1
  <2>. QED BY <1>1, <2>1 DEF Elements
<1>3. ASSUME Injective(s), e \notin Elements(s)
      PROVE  Injective(Append(s, e))
  BY <1>1, <1>3 DEF Elements, Injective
<1>. QED BY <1>1, <1>2, <1>3

\* Removing the first element.
LEMMA TailFacts ==
    ASSUME NEW S, NEW s \in Seq(S), s # << >>
    PROVE  /\ Head(s) \in S
           /\ Head(s) \in Elements(s)
           /\ Tail(s) \in Seq(S)
           /\ Len(Tail(s)) = Len(s) - 1
           /\ Injective(s) => /\ Elements(Tail(s)) = Elements(s) \ {Head(s)}
                              /\ Injective(Tail(s))
<1>1. /\ Head(s) \in S
      /\ Tail(s) \in Seq(S)
      /\ Len(Tail(s)) = Len(s) - 1
      /\ Len(s) \in Nat \ {0}
      /\ Head(s) = s[1]
      /\ \A i \in 1 .. Len(s) - 1 : Tail(s)[i] = s[i + 1]
  OBVIOUS
<1>2. Head(s) \in Elements(s)
  BY <1>1 DEF Elements
<1>3. ASSUME Injective(s)
      PROVE  Elements(Tail(s)) = Elements(s) \ {Head(s)}
  <2>1. ASSUME NEW x \in Elements(Tail(s))
        PROVE  x \in Elements(s) \ {Head(s)}
    <3>1. PICK i \in 1 .. Len(s) - 1 : x = s[i + 1]
      BY <1>1, <2>1 DEF Elements
    <3>2. i + 1 \in 1 .. Len(s) /\ 1 \in 1 .. Len(s) /\ i + 1 # 1
      BY <1>1
    <3>. QED BY <1>1, <1>3, <3>1, <3>2 DEF Elements, Injective
  <2>2. ASSUME NEW x \in Elements(s), x # Head(s)
        PROVE  x \in Elements(Tail(s))
    <3>1. PICK i \in 1 .. Len(s) : x = s[i]
      BY <2>2 DEF Elements
    <3>2. i - 1 \in 1 .. Len(s) - 1 /\ (i - 1) + 1 = i
      BY <1>1, <2>2, <3>1
    <3>3. Tail(s)[i - 1] = x
      BY <1>1, <3>1, <3>2
    <3>. QED BY <1>1, <3>2, <3>3 DEF Elements
  <2>. QED BY <2>1, <2>2
<1>4. ASSUME Injective(s)
      PROVE  Injective(Tail(s))
  BY <1>1, <1>4 DEF Injective
<1>. QED BY <1>1, <1>2, <1>3, <1>4

\* A queue with nothing or one element in it.
LEMMA OneElement ==
    ASSUME NEW S
    PROVE  /\ Elements(<< >>) = {}
           /\ \A e \in S : <<e>> \in Seq(S) /\ Len(<<e>>) = 1 /\ <<e>> # << >>
                           /\ Head(<<e>>) = e /\ Tail(<<e>>) = << >> /\ Elements(<<e>>) = {e}
           /\ \A e \in S : Append(<< >>, e) = <<e>>
           /\ \A s \in Seq(S) : Len(s) <= 1 => s = << >> \/ \E e \in S : s = <<e>>
<1>1. Elements(<< >>) = {}
  BY DEF Elements
<1>2. ASSUME NEW e \in S
      PROVE  /\ <<e>> \in Seq(S) /\ Len(<<e>>) = 1 /\ <<e>> # << >>
             /\ Head(<<e>>) = e /\ Tail(<<e>>) = << >> /\ Elements(<<e>>) = {e}
             /\ Append(<< >>, e) = <<e>>
  <2>1. /\ <<e>> \in Seq(S) /\ Len(<<e>>) = 1 /\ <<e>> # << >>
        /\ Head(<<e>>) = e /\ Tail(<<e>>) = << >> /\ Append(<< >>, e) = <<e>>
    OBVIOUS
  <2>2. Elements(<<e>>) = {e}
    BY DEF Elements
  <2>. QED BY <2>1, <2>2
<1>3. ASSUME NEW s \in Seq(S), Len(s) <= 1
      PROVE  s = << >> \/ \E e \in S : s = <<e>>
  <2>1. CASE s = << >>
    BY <2>1
  <2>2. CASE s # << >>
    <3>1. Len(s) = 1 /\ s[1] \in S
      BY <1>3, <2>2
    <3>2. s = <<s[1]>>
      BY <3>1
    <3>. QED BY <3>1, <3>2
  <2>. QED BY <2>1, <2>2
<1>. QED BY <1>1, <1>2, <1>3

\* Two sequences of one element each, put together.
LEMMA PairFacts == ASSUME NEW x, NEW y PROVE <<x>> \o <<y>> = <<x, y>>
<1> DEFINE s == <<x>> \o <<y>>
<1>1. <<x>> \in Seq({x, y}) /\ <<y>> \in Seq({x, y}) /\ <<x, y>> \in Seq({x, y})
  OBVIOUS
<1>2. s \in Seq({x, y}) /\ Len(s) = 2 /\ s[1] = x /\ s[2] = y
  BY <1>1
<1> HIDE DEF s
<1>3. \A i \in 1 .. 2 : s[i] = <<x, y>>[i]
  BY <1>2
<1>4. s = <<x, y>>
  BY <1>1, <1>2, <1>3
<1>. QED BY <1>4 DEF s

-----------------------------------------------------------------------------
\* A queue has finitely many places; an empty queue, none.
LEMMA PlacesFinite ==
    ASSUME NEW S, NEW s \in Seq(S), NEW T
    PROVE  /\ IsFiniteSet(Places(s, T))
           /\ Cardinality(Places(s, T)) \in 0 .. Len(s)
           /\ s = << >> => Cardinality(Places(s, T)) = 0
           /\ Cardinality(Places(s, T)) = 0 => Places(s, T) = {}
           /\ Cardinality(Places(s, T)) = 1 => \E i : Places(s, T) = {i}
<1> DEFINE n == Len(s)
<1>0. n \in Nat
  OBVIOUS
<1>1. IsFiniteSet(1 .. n) /\ Cardinality(1 .. n) = n
  <2> HIDE DEF n
  <2>1. IsFiniteSet(1 .. n) /\ Cardinality(1 .. n) = IF 1 > n THEN 0 ELSE n - 1 + 1
    BY <1>0, FS_Interval
  <2> QED BY <1>0, <2>1
<1>2. Places(s, T) \in SUBSET (1 .. n)
  BY DEF Places
<1>3. IsFiniteSet(Places(s, T)) /\ Cardinality(Places(s, T)) <= n
  BY <1>1, <1>2, FS_Subset
<1>4. Cardinality(Places(s, T)) \in Nat
  BY <1>3, FS_CardinalityType
<1>5. s = << >> => Places(s, T) = {}
  BY DEF Places
<1>6. s = << >> => Cardinality(Places(s, T)) = 0
  BY <1>5, FS_EmptySet
<1>7. Cardinality(Places(s, T)) = 0 => Places(s, T) = {}
  BY <1>3, FS_EmptySet
<1>8. Cardinality(Places(s, T)) = 1 => \E i : Places(s, T) = {i}
  BY <1>3, FS_Singleton
<1>9. Cardinality(Places(s, T)) \in 0 .. Len(s)
  BY <1>0, <1>3, <1>4
<1>. QED BY <1>3, <1>6, <1>7, <1>8, <1>9, Zenon

\* An element that is appended is one more of its kind.
LEMMA AppendCounts ==
    ASSUME NEW S, NEW s \in Seq(S), NEW e \in S, NEW T
    PROVE  Cardinality(Places(Append(s, e), T))
               = Cardinality(Places(s, T)) + (IF e \in T THEN 1 ELSE 0)
<1>1. /\ Len(Append(s, e)) = Len(s) + 1
      /\ Len(s) \in Nat
      /\ \A i \in 1 .. Len(s) : Append(s, e)[i] = s[i]
      /\ Append(s, e)[Len(s) + 1] = e
  OBVIOUS
<1>2. 1 .. Len(Append(s, e)) = (1 .. Len(s)) \cup {Len(s) + 1}
  BY <1>1
<1>3. Places(Append(s, e), T) = Places(s, T) \cup (IF e \in T THEN {Len(s) + 1} ELSE {})
  BY <1>1, <1>2 DEF Places
<1>4. Len(s) + 1 \notin Places(s, T)
  BY <1>1 DEF Places
<1>5. IsFiniteSet(Places(s, T)) /\ Cardinality(Places(s, T)) \in Nat
  BY PlacesFinite
<1>6. CASE e \in T
  BY <1>3, <1>4, <1>5, <1>6, FS_AddElement
<1>7. CASE e \notin T
  BY <1>3, <1>5, <1>7
<1>. QED BY <1>6, <1>7

\* A head that is removed is one less of its kind.
LEMMA TailCounts ==
    ASSUME NEW S, NEW s \in Seq(S), s # << >>, NEW T
    PROVE  Cardinality(Places(Tail(s), T))
               = Cardinality(Places(s, T)) - (IF Head(s) \in T THEN 1 ELSE 0)
<1>1. /\ Tail(s) \in Seq(S)
      /\ Len(Tail(s)) = Len(s) - 1
      /\ Len(s) \in Nat \ {0}
      /\ Head(s) = s[1]
      /\ \A i \in 1 .. Len(s) - 1 : Tail(s)[i] = s[i + 1]
  OBVIOUS
<1> DEFINE A == Places(Tail(s), T)
           B == Places(s, T) \ {1}
           f == [i \in A |-> i + 1]
<1>2. IsFiniteSet(A) /\ IsFiniteSet(Places(s, T)) /\ Cardinality(Places(s, T)) \in Nat
  <2>1. IsFiniteSet(Places(s, T)) /\ Cardinality(Places(s, T)) \in Nat
    BY PlacesFinite
  <2>2. IsFiniteSet(Places(Tail(s), T))
    BY <1>1, PlacesFinite
  <2> QED BY <2>1, <2>2
<1>3. \A i \in A : i \in Int /\ i + 1 \in B
  BY <1>1 DEF Places
<1>4. \A j \in B : j - 1 \in A /\ (j - 1) + 1 = j
  <2> TAKE j \in B
  <2>1. j \in 2 .. Len(s) /\ s[j] \in T
    BY <1>1 DEF Places
  <2>2. j - 1 \in 1 .. Len(s) - 1 /\ (j - 1) + 1 = j
    BY <1>1, <2>1
  <2> QED BY <1>1, <2>1, <2>2 DEF Places
<1>5. f \in Bijection(A, B)
  <2>1. f \in [A -> B]
    BY <1>3
  <2>2. \A i, j \in A : f[i] = f[j] => i = j
    BY <1>3
  <2>3. \A j \in B : \E i \in A : f[i] = j
    BY <1>4
  <2> QED BY <2>1, <2>2, <2>3, Fun_IsBij
<1>6. ExistsBijection(A, B)
  BY <1>5 DEF ExistsBijection
<1>7. Cardinality(B) = Cardinality(A)
  BY <1>2, <1>6, FS_Bijection
<1>8. Cardinality(B) = IF 1 \in Places(s, T) THEN Cardinality(Places(s, T)) - 1
                                              ELSE Cardinality(Places(s, T))
  BY <1>2, FS_RemoveElement
<1>9. 1 \in Places(s, T) <=> Head(s) \in T
  BY <1>1 DEF Places
<1>. QED BY <1>2, <1>7, <1>8, <1>9
-----------------------------------------------------------------------------
\* f[x] cells for each x.
Cells(S, f) == UNION {{x} \X (1 .. f[x]) : x \in S}

\* Whoever has something is in the total, with all of it.
LEMMA CellsBound ==
    ASSUME NEW S, NEW f \in [S -> Nat], IsFiniteSet(Cells(S, f))
    PROVE  /\ Cardinality(Cells(S, f)) \in Nat
           /\ \A x \in S : f[x] <= Cardinality(Cells(S, f))
<1>1. Cardinality(Cells(S, f)) \in Nat
  BY FS_CardinalityType
<1>2. ASSUME NEW x \in S
      PROVE  f[x] <= Cardinality(Cells(S, f))
  <2> DEFINE n == f[x]
             row == {x} \X (1 .. n)
             g == [k \in 1 .. n |-> <<x, k>>]
  <2>0. n \in Nat
    OBVIOUS
  <2>1. row \subseteq Cells(S, f)
    BY DEF Cells
  <2>2. IsFiniteSet(row) /\ Cardinality(row) <= Cardinality(Cells(S, f))
    BY <2>1, FS_Subset
  <2> HIDE DEF n
  <2>3. g \in Bijection(1 .. n, row)
    <3>1. g \in [1 .. n -> row]
      OBVIOUS
    <3>2. \A j, k \in 1 .. n : g[j] = g[k] => j = k
      OBVIOUS
    <3>3. \A y \in row : \E k \in 1 .. n : g[k] = y
      OBVIOUS
    <3> HIDE DEF g, row
    <3> QED BY <3>1, <3>2, <3>3, Fun_IsBij
  <2> HIDE DEF g, row
  <2>4. IsFiniteSet(1 .. n) /\ Cardinality(1 .. n) = n
    <3>1. IsFiniteSet(1 .. n) /\ Cardinality(1 .. n) = IF 1 > n THEN 0 ELSE n - 1 + 1
      BY <2>0, FS_Interval
    <3> QED BY <2>0, <3>1
  <2>5. Cardinality(row) = Cardinality(1 .. n)
    <3>1. ExistsBijection(1 .. n, row)
      BY <2>3 DEF ExistsBijection
    <3> QED BY <2>2, <2>4, <3>1, FS_Bijection
  <2> QED BY <2>2, <2>4, <2>5 DEF n
<1>. QED BY <1>1, <1>2

\* Nobody has anything.
LEMMA CellsNone ==
    ASSUME NEW S, NEW f \in [S -> Nat]
    PROVE  /\ (\A x \in S : f[x] = 0) => Cells(S, f) = {}
           /\ Cells(S, f) = {} => IsFiniteSet(Cells(S, f)) /\ Cardinality(Cells(S, f)) = 0
           /\ IsFiniteSet(Cells(S, f)) /\ Cardinality(Cells(S, f)) = 0 => \A x \in S : f[x] = 0
<1>1. (\A x \in S : f[x] = 0) => Cells(S, f) = {}
  BY DEF Cells
<1>2. Cells(S, f) = {} => IsFiniteSet(Cells(S, f)) /\ Cardinality(Cells(S, f)) = 0
  BY FS_EmptySet
<1>3. ASSUME IsFiniteSet(Cells(S, f)), Cardinality(Cells(S, f)) = 0, NEW x \in S
      PROVE  f[x] = 0
  <2>1. f[x] <= Cardinality(Cells(S, f)) /\ f[x] \in Nat
    BY <1>3, CellsBound
  <2> QED BY <1>3, <2>1
<1>. QED BY <1>1, <1>2, <1>3

\* Somebody gets one more.
LEMMA CellsUp ==
    ASSUME NEW S, NEW f \in [S -> Nat], NEW g, NEW w \in S,
           \A x \in S : g[x] = IF x = w THEN f[x] + 1 ELSE f[x],
           IsFiniteSet(Cells(S, f))
    PROVE  /\ IsFiniteSet(Cells(S, g))
           /\ Cardinality(Cells(S, g)) = Cardinality(Cells(S, f)) + 1
<1>1. f[w] \in Nat /\ 1 .. (f[w] + 1) = (1 .. f[w]) \cup {f[w] + 1}
  OBVIOUS
<1>2. Cells(S, g) = Cells(S, f) \cup {<<w, f[w] + 1>>}
  <2>1. \A x \in S \ {w} : {x} \X (1 .. g[x]) = {x} \X (1 .. f[x])
    OBVIOUS
  <2>2. {w} \X (1 .. g[w]) = ({w} \X (1 .. f[w])) \cup {<<w, f[w] + 1>>}
    BY <1>1
  <2>3. ASSUME NEW z \in Cells(S, g)
        PROVE  z \in Cells(S, f) \cup {<<w, f[w] + 1>>}
    <3>1. PICK x \in S : z \in {x} \X (1 .. g[x])
      BY <2>3 DEF Cells
    <3>2. CASE x = w
      BY <2>2, <3>1, <3>2 DEF Cells
    <3>3. CASE x # w
      BY <2>1, <3>1, <3>3 DEF Cells
    <3> QED BY <3>2, <3>3
  <2>4. ASSUME NEW z \in Cells(S, f)
        PROVE  z \in Cells(S, g)
    <3>1. PICK x \in S : z \in {x} \X (1 .. f[x])
      BY <2>4 DEF Cells
    <3>2. CASE x = w
      BY <2>2, <3>1, <3>2 DEF Cells
    <3>3. CASE x # w
      BY <2>1, <3>1, <3>3 DEF Cells
    <3> QED BY <3>2, <3>3
  <2>5. <<w, f[w] + 1>> \in Cells(S, g)
    BY <2>2 DEF Cells
  <2> QED BY <2>3, <2>4, <2>5
<1>3. <<w, f[w] + 1>> \notin Cells(S, f)
  BY <1>1 DEF Cells
<1>4. ASSUME NEW T, IsFiniteSet(T), NEW z, z \notin T
      PROVE  /\ IsFiniteSet(T \cup {z})
             /\ Cardinality(T \cup {z}) = Cardinality(T) + 1
  BY <1>4, FS_AddElement
<1>5. /\ IsFiniteSet(Cells(S, f) \cup {<<w, f[w] + 1>>})
      /\ Cardinality(Cells(S, f) \cup {<<w, f[w] + 1>>}) = Cardinality(Cells(S, f)) + 1
  BY <1>3, <1>4
<1>. QED BY <1>2, <1>5

\* Somebody loses one.
LEMMA CellsDown ==
    ASSUME NEW S, NEW f \in [S -> Nat], NEW g \in [S -> Nat], NEW w \in S,
           \A x \in S : g[x] = IF x = w THEN f[x] - 1 ELSE f[x],
           IsFiniteSet(Cells(S, f))
    PROVE  /\ IsFiniteSet(Cells(S, g))
           /\ Cardinality(Cells(S, g)) = Cardinality(Cells(S, f)) - 1
<1>1. \A x \in S : f[x] = IF x = w THEN g[x] + 1 ELSE g[x]
  OBVIOUS
<1>2. IsFiniteSet(Cells(S, g))
  <2>1. Cells(S, g) \subseteq Cells(S, f)
    <3>1. \A x \in S : f[x] \in Nat /\ g[x] \in Nat /\ g[x] <= f[x]
      OBVIOUS
    <3>2. \A x \in S : 1 .. g[x] \subseteq 1 .. f[x]
      BY <3>1
    <3> QED BY <3>2 DEF Cells
  <2> QED BY <2>1, FS_Subset
<1>3. Cardinality(Cells(S, f)) = Cardinality(Cells(S, g)) + 1
  BY <1>1, <1>2, CellsUp
<1>4. Cardinality(Cells(S, g)) \in Nat
  BY <1>2, FS_CardinalityType
<1>. QED BY <1>2, <1>3, <1>4

\* Everybody keeps what they had.
LEMMA CellsSame ==
    ASSUME NEW S, NEW f, NEW g, \A x \in S : g[x] = f[x]
    PROVE  Cells(S, g) = Cells(S, f)
BY DEF Cells
=============================================================================
