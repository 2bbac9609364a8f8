--------------------------- MODULE DnsCacheProofs ---------------------------
(***************************************************************************)
(* Proofs about DnsCache, for every set of queries, every limit and every  *)
(* size of answers and replies: memory_usage is the sum of what the        *)
(* entries are charged, the limits hold, replies are honest, and the cache *)
(* implements AnswerStore.                                                 *)
(***************************************************************************)
EXTENDS DnsCache, FiniteSetTheorems, TLAPS

USE SMTT(30), ZenonT(30)

Contents == [Query -> Entry \cup {Null}]

-----------------------------------------------------------------------------
(* Sums of charges.                                                        *)

\* The bytes of finitely many entries are finitely many.
LEMMA BytesFinite ==
    ASSUME NEW c \in Contents, NEW S \in SUBSET Held(c)
    PROVE  IsFiniteSet(Bytes(c, S)) /\ Memory(c, S) \in Nat
<1> DEFINE T == {{q} \X (1..c[q].mem) : q \in S}
           f == [q \in S |-> {q} \X (1..c[q].mem)]
<1>1. IsFiniteSet(S)
  BY QueryAssumption, FS_Subset DEF Held
<1>2. f \in Surjection(S, T)
  BY ZenonT(30) DEF Surjection
<1>3. IsFiniteSet(T)
  BY <1>1, <1>2, FS_Surjection
<1>4. ASSUME NEW q \in S PROVE IsFiniteSet({q} \X (1..c[q].mem))
  <2>1. c[q].mem \in Int
    BY DEF Contents, Held, Entry
  <2>2. IsFiniteSet(1..c[q].mem)
    BY <2>1, FS_Interval
  <2> QED BY <2>2, FS_Singleton, FS_Product, ZenonT(30)
<1>5. IsFiniteSet(UNION T)
  BY <1>3, <1>4, FS_UNION, ZenonT(30)
<1> QED BY <1>5, FS_CardinalityType DEF Bytes, Memory

\* The charge of two disjoint sets of entries is the sum of their charges.
LEMMA MemoryOfUnion ==
    ASSUME NEW c \in Contents, NEW S \in SUBSET Held(c), NEW T \in SUBSET Held(c),
           S \cap T = {}
    PROVE  Memory(c, S \cup T) = Memory(c, S) + Memory(c, T)
<1>1. Bytes(c, S \cup T) = Bytes(c, S) \cup Bytes(c, T)
  BY DEF Bytes
<1>2. Bytes(c, S) \cap Bytes(c, T) = {}
  BY DEF Bytes
<1>3. IsFiniteSet(Bytes(c, S)) /\ IsFiniteSet(Bytes(c, T))
      /\ Memory(c, S) \in Nat /\ Memory(c, T) \in Nat
  BY BytesFinite
<1>4. Cardinality(Bytes(c, S) \cup Bytes(c, T)) =
        Cardinality(Bytes(c, S)) + Cardinality(Bytes(c, T))
          - Cardinality(Bytes(c, S) \cap Bytes(c, T))
  BY <1>3, FS_Union
<1>5. Cardinality(Bytes(c, S) \cap Bytes(c, T)) = 0
  BY <1>2, FS_EmptySet
<1>6. Cardinality(Bytes(c, S)) \in Nat /\ Cardinality(Bytes(c, T)) \in Nat
  BY <1>3 DEF Memory
<1>7. Cardinality(Bytes(c, S) \cup Bytes(c, T)) =
        Cardinality(Bytes(c, S)) + Cardinality(Bytes(c, T))
  BY <1>4, <1>5, <1>6
<1> QED BY <1>1, <1>7 DEF Memory

\* The charge of one entry is its memory_usage.
LEMMA MemoryOfOne ==
    ASSUME NEW c \in Contents, NEW q \in Held(c)
    PROVE  Memory(c, {q}) = c[q].mem
<1> DEFINE m == c[q].mem
<1>1. Bytes(c, {q}) = {q} \X (1..m)
  BY DEF Bytes
<1>2. m \in Nat
  BY DEF Contents, Held, Entry
<1> HIDE DEF m
<1>3. IsFiniteSet(1..m) /\ Cardinality(1..m) = IF 1 > m THEN 0 ELSE m - 1 + 1
  BY <1>2, FS_Interval
<1>4. Cardinality(1..m) = m
  BY <1>2, <1>3
<1>5. IsFiniteSet({q}) /\ Cardinality({q}) = 1
  BY FS_Singleton, ZenonT(30)
<1>6. Cardinality({q} \X (1..m)) = Cardinality({q}) * Cardinality(1..m)
  BY <1>3, <1>5, FS_Product, ZenonT(30)
<1>7. Cardinality({q} \X (1..m)) = m
  BY <1>2, <1>4, <1>5, <1>6
<1> QED BY <1>1, <1>7 DEF Memory, m

\* No entries, no charge.
LEMMA MemoryOfNone ==
    ASSUME NEW c
    PROVE  Memory(c, {}) = 0
<1>1. Bytes(c, {}) = {}
  BY DEF Bytes
<1> QED BY <1>1, FS_EmptySet DEF Memory

\* The charge only depends on the entries counted.
LEMMA MemoryOfSame ==
    ASSUME NEW c, NEW d, NEW S, \A q \in S : c[q].mem = d[q].mem
    PROVE  Memory(c, S) = Memory(d, S)
<1>1. Bytes(c, S) = Bytes(d, S)
  BY DEF Bytes
<1> QED BY <1>1 DEF Memory

\* Taking one entry out takes its charge out.
LEMMA MemoryWithout ==
    ASSUME NEW c \in Contents, NEW S \in SUBSET Held(c), NEW q \in S
    PROVE  /\ Memory(c, S) = Memory(c, S \ {q}) + c[q].mem
           /\ Memory(c, S \ {q}) \in Nat
           /\ c[q].mem \in Nat
<1>1. S = (S \ {q}) \cup {q} /\ (S \ {q}) \cap {q} = {}
  OBVIOUS
<1>2. Memory(c, (S \ {q}) \cup {q}) = Memory(c, S \ {q}) + Memory(c, {q})
  BY <1>1, MemoryOfUnion
<1>3. c[q].mem \in Nat
  BY DEF Contents, Held, Entry
<1> QED BY <1>1, <1>2, <1>3, MemoryOfOne, BytesFinite, ZenonT(30)

-----------------------------------------------------------------------------
(* The recency list.                                                       *)

\* Dropping the entries after the n-th.
LEMMA PrefixList ==
    ASSUME NEW s \in Seq(Query), Distinct(s), NEW n \in 0..Len(s)
    PROVE  /\ SubSeq(s, 1, n) \in Seq(Query)
           /\ Len(SubSeq(s, 1, n)) = n
           /\ Distinct(SubSeq(s, 1, n))
           /\ Elems(SubSeq(s, 1, n)) = {s[i] : i \in 1..n}
           /\ Elems(SubSeq(s, 1, n)) \subseteq Elems(s)
<1>1. \A i \in 1..n : s[i] \in Query
  OBVIOUS
<1>2. /\ SubSeq(s, 1, n) \in Seq(Query)
      /\ Len(SubSeq(s, 1, n)) = IF 1 <= n THEN n - 1 + 1 ELSE 0
      /\ \A i \in 1..(n - 1 + 1) : SubSeq(s, 1, n)[i] = s[1 + i - 1]
  BY <1>1
<1>3. Len(SubSeq(s, 1, n)) = n /\ \A i \in 1..n : SubSeq(s, 1, n)[i] = s[i]
  BY <1>2
<1>4. Distinct(SubSeq(s, 1, n))
  BY <1>3 DEF Distinct
<1>5. Elems(SubSeq(s, 1, n)) = {s[i] : i \in 1..n}
  BY <1>3 DEF Elems
<1>6. {s[i] : i \in 1..n} \subseteq Elems(s)
  BY DEF Elems
<1> QED BY <1>2, <1>3, <1>4, <1>5, <1>6, ZenonT(30)

\* Dropping the i-th entry.
LEMMA WithoutList ==
    ASSUME NEW s \in Seq(Query), Distinct(s), NEW i \in 1..Len(s)
    PROVE  /\ Without(s, i) \in Seq(Query)
           /\ Len(Without(s, i)) = Len(s) - 1
           /\ Distinct(Without(s, i))
           /\ Elems(Without(s, i)) = Elems(s) \ {s[i]}
<1> DEFINE a == SubSeq(s, 1, i - 1)
           b == SubSeq(s, i + 1, Len(s))
           w == Without(s, i)
<1>0. Len(s) \in Nat /\ \A j \in 1..Len(s) : s[j] \in Query
  OBVIOUS
<1>1. a \in Seq(Query) /\ Len(a) = i - 1 /\ \A j \in 1..(i - 1) : a[j] = s[j]
  <2>1. \A j \in 1..(i - 1) : s[j] \in Query
    BY <1>0
  <2>2. /\ a \in Seq(Query)
        /\ Len(a) = IF 1 <= i - 1 THEN i - 1 - 1 + 1 ELSE 0
        /\ \A j \in 1..(i - 1 - 1 + 1) : a[j] = s[1 + j - 1]
    BY <2>1
  <2> QED BY <2>2
<1>2. /\ b \in Seq(Query)
      /\ Len(b) = Len(s) - i
      /\ \A j \in 1..(Len(s) - i) : b[j] = s[i + j]
  <2>1. \A j \in (i + 1)..Len(s) : s[j] \in Query
    BY <1>0
  <2>2. /\ b \in Seq(Query)
        /\ Len(b) = IF i + 1 <= Len(s) THEN Len(s) - (i + 1) + 1 ELSE 0
        /\ \A j \in 1..(Len(s) - (i + 1) + 1) : b[j] = s[i + 1 + j - 1]
    BY <1>0, <2>1
  <2> QED BY <1>0, <2>2
<1>3. /\ w \in Seq(Query)
      /\ Len(w) = Len(a) + Len(b)
      /\ \A j \in 1..(Len(a) + Len(b)) :
            w[j] = IF j <= Len(a) THEN a[j] ELSE b[j - Len(a)]
  <2>1. \A x, y \in Seq(Query) :
          /\ x \o y \in Seq(Query) /\ Len(x \o y) = Len(x) + Len(y)
          /\ \A j \in 1..(Len(x) + Len(y)) :
                (x \o y)[j] = IF j <= Len(x) THEN x[j] ELSE y[j - Len(x)]
    OBVIOUS
  <2> QED
    BY <1>1, <1>2, <2>1, ZenonT(30) DEF Without
<1> HIDE DEF a, b, w
<1>4. /\ Len(w) = Len(s) - 1
      /\ \A j \in 1..(Len(s) - 1) : w[j] = IF j < i THEN s[j] ELSE s[j + 1]
  <2>0. Len(a) = i - 1 /\ Len(a) + Len(b) = Len(s) - 1
    BY <1>0, <1>1, <1>2
  <2>1. /\ Len(w) = Len(s) - 1
        /\ \A j \in 1..(Len(s) - 1) : w[j] = IF j <= i - 1 THEN a[j] ELSE b[j - (i - 1)]
    BY <1>3, <2>0
  <2>2. ASSUME NEW j \in 1..(Len(s) - 1), j < i PROVE w[j] = s[j]
    <3>1. j <= i - 1 /\ j \in 1..(i - 1)
      BY <1>0, <2>2
    <3> QED BY <1>1, <2>1, <3>1
  <2>3. ASSUME NEW j \in 1..(Len(s) - 1), j >= i PROVE w[j] = s[j + 1]
    <3>1. w[j] = b[j - (i - 1)]
      BY <1>0, <2>1, <2>3
    <3>2. j - (i - 1) \in 1..(Len(s) - i)
      BY <1>0, <2>3
    <3>3. b[j - (i - 1)] = s[i + (j - (i - 1))] /\ i + (j - (i - 1)) = j + 1
      BY <1>0, <1>2, <3>2
    <3> QED BY <3>1, <3>3
  <2> QED BY <1>0, <2>1, <2>2, <2>3
<1>5. Distinct(w)
  BY <1>0, <1>4 DEF Distinct
<1>6. Elems(w) = Elems(s) \ {s[i]}
  <2>1. ASSUME NEW j \in 1..Len(w) PROVE w[j] \in Elems(s) \ {s[i]}
    <3>1. CASE j < i
      <4>1. j \in 1..Len(s) /\ w[j] = s[j] /\ j # i
        BY <1>0, <1>4, <3>1
      <4> QED BY <4>1 DEF Elems, Distinct
    <3>2. CASE j >= i
      <4>1. j + 1 \in 1..Len(s) /\ w[j] = s[j + 1] /\ j + 1 # i
        BY <1>0, <1>4, <3>2
      <4> QED BY <4>1 DEF Elems, Distinct
    <3> QED BY <1>0, <1>4, <3>1, <3>2
  <2>2. ASSUME NEW k \in 1..Len(s), s[k] # s[i] PROVE s[k] \in Elems(w)
    <3>1. CASE k < i
      <4>1. k \in 1..Len(w) /\ w[k] = s[k]
        BY <1>0, <1>4, <3>1
      <4> QED BY <4>1 DEF Elems
    <3>2. CASE k > i
      <4>1. k - 1 \in 1..Len(w) /\ w[k - 1] = s[k]
        BY <1>0, <1>4, <3>2
      <4> QED BY <4>1 DEF Elems
    <3> QED BY <1>0, <2>2, <3>1, <3>2
  <2> QED BY <2>1, <2>2 DEF Elems
<1> QED BY <1>3, <1>4, <1>5, <1>6 DEF w

\* Putting a new entry first.
LEMMA ConsList ==
    ASSUME NEW s \in Seq(Query), Distinct(s), NEW q \in Query, q \notin Elems(s)
    PROVE  /\ <<q>> \o s \in Seq(Query)
           /\ Len(<<q>> \o s) = Len(s) + 1
           /\ Distinct(<<q>> \o s)
           /\ Elems(<<q>> \o s) = Elems(s) \cup {q}
<1> DEFINE w == <<q>> \o s
<1>0. Len(s) \in Nat /\ <<q>> \in Seq(Query) /\ Len(<<q>>) = 1
  OBVIOUS
<1>1. /\ w \in Seq(Query)
      /\ Len(w) = 1 + Len(s)
      /\ \A j \in 1..(1 + Len(s)) : w[j] = IF j <= 1 THEN <<q>>[j] ELSE s[j - 1]
  BY <1>0
<1> HIDE DEF w
<1>2. w[1] = q /\ \A j \in 2..(1 + Len(s)) : j - 1 \in 1..Len(s) /\ w[j] = s[j - 1]
  BY <1>0, <1>1
<1>3. Distinct(w)
  <2>1. \A j \in 2..(1 + Len(s)) : w[j] # q
    BY <1>2 DEF Elems
  <2>2. ASSUME NEW j \in 2..(1 + Len(s)), NEW k \in 2..(1 + Len(s)), w[j] = w[k]
        PROVE  j = k
    <3>1. j - 1 = k - 1
      BY <1>2, <2>2 DEF Distinct
    <3> QED BY <1>0, <3>1
  <2>3. \A j \in 1..Len(w) : j = 1 \/ j \in 2..(1 + Len(s))
    BY <1>0, <1>1
  <2> QED BY <1>2, <2>1, <2>2, <2>3 DEF Distinct
<1>4. Elems(w) = Elems(s) \cup {q}
  <2>1. \A j \in 1..Len(s) : j + 1 \in 1..Len(w) /\ w[j + 1] = s[j]
    BY <1>0, <1>1, <1>2
  <2>2. 1 \in 1..Len(w)
    BY <1>0, <1>1
  <2>3. Elems(s) \cup {q} \subseteq Elems(w)
    BY <1>2, <2>1, <2>2 DEF Elems
  <2>4. ASSUME NEW j \in 1..Len(w) PROVE w[j] \in Elems(s) \cup {q}
    <3>1. CASE j = 1
      BY <1>2, <3>1
    <3>2. CASE j # 1
      <4>1. j - 1 \in 1..Len(s) /\ w[j] = s[j - 1]
        BY <1>0, <1>1, <1>2, <3>2
      <4> QED BY <4>1 DEF Elems
    <3> QED BY <3>1, <3>2
  <2>5. Elems(w) \subseteq Elems(s) \cup {q}
    BY <2>4 DEF Elems
  <2> QED BY <2>3, <2>5
<1> QED BY <1>0, <1>1, <1>3, <1>4 DEF w

\* get_mut brings an entry to the front and touches no other.
LEMMA PromoteList ==
    ASSUME NEW s \in Seq(Query), Distinct(s), NEW q \in Query
    PROVE  /\ Promote(s, q) \in Seq(Query)
           /\ Distinct(Promote(s, q))
           /\ Elems(Promote(s, q)) = Elems(s) \cup {q}
           /\ Len(Promote(s, q)) = IF q \in Elems(s) THEN Len(s) ELSE Len(s) + 1
<1>0. Len(s) \in Nat
  OBVIOUS
<1>1. CASE q \notin Elems(s)
  BY <1>1, ConsList DEF Promote
<1>2. CASE q \in Elems(s)
  <2> DEFINE i == Position(s, q)
             w == Without(s, i)
  <2>1. i \in 1..Len(s) /\ s[i] = q
    BY <1>2 DEF Elems, Position
  <2> HIDE DEF i
  <2>2. /\ w \in Seq(Query) /\ Len(w) = Len(s) - 1 /\ Distinct(w)
        /\ Elems(w) = Elems(s) \ {q}
    BY <2>1, WithoutList
  <2> HIDE DEF w
  <2>3. /\ <<q>> \o w \in Seq(Query) /\ Len(<<q>> \o w) = Len(w) + 1
        /\ Distinct(<<q>> \o w) /\ Elems(<<q>> \o w) = Elems(w) \cup {q}
    BY <2>2, ConsList
  <2>4. Promote(s, q) = <<q>> \o w
    BY <1>2 DEF Promote, w, i
  <2> QED BY <1>0, <1>2, <2>2, <2>3, <2>4
<1> QED BY <1>1, <1>2

-----------------------------------------------------------------------------
(* Replacing, adding and removing one entry.                               *)

\* Null marks a free slot and is no entry.
LEMMA EntryNotNull == \A e \in Entry : e # Null
BY NullAssumption

\* Replacing an entry exchanges its charge for the new one.
LEMMA MemoryReplace ==
    ASSUME NEW c \in Contents, NEW q \in Held(c), NEW d \in Contents,
           NEW e \in Entry, d[q] = e, \A p \in Query \ {q} : d[p] = c[p]
    PROVE  /\ Held(d) = Held(c)
           /\ Memory(c, Held(c)) \in Nat /\ c[q].mem \in Nat /\ e.mem \in Nat
           /\ Memory(c, Held(c)) >= c[q].mem
           /\ Memory(d, Held(d)) = Memory(c, Held(c)) - c[q].mem + e.mem
<1>2. Held(d) = Held(c)
  BY EntryNotNull DEF Held
<1>3. /\ Memory(c, Held(c)) = Memory(c, Held(c) \ {q}) + c[q].mem
      /\ Memory(c, Held(c) \ {q}) \in Nat /\ c[q].mem \in Nat
  BY MemoryWithout, ZenonT(30)
<1>4. /\ Memory(d, Held(d)) = Memory(d, Held(d) \ {q}) + d[q].mem
      /\ d[q].mem \in Nat
  BY <1>2, MemoryWithout, ZenonT(30)
<1>5. Memory(d, Held(c) \ {q}) = Memory(c, Held(c) \ {q})
  <2>1. \A p \in Held(c) \ {q} : d[p].mem = c[p].mem
    BY DEF Held
  <2> QED BY <2>1, MemoryOfSame
<1> QED BY <1>2, <1>3, <1>4, <1>5

\* A new entry adds its charge.
LEMMA MemoryAdd ==
    ASSUME NEW c \in Contents, NEW q \in Query \ Held(c), NEW d \in Contents,
           NEW e \in Entry, d[q] = e, \A p \in Query \ {q} : d[p] = c[p]
    PROVE  /\ Held(d) = Held(c) \cup {q}
           /\ Memory(c, Held(c)) \in Nat /\ e.mem \in Nat
           /\ Memory(d, Held(d)) = Memory(c, Held(c)) + e.mem
<1>2. Held(d) = Held(c) \cup {q} /\ Held(d) \ {q} = Held(c)
  BY EntryNotNull DEF Held
<1>3. Memory(d, Held(d)) = Memory(d, Held(d) \ {q}) + d[q].mem /\ d[q].mem \in Nat
  BY <1>2, MemoryWithout
<1>4. Memory(d, Held(c)) = Memory(c, Held(c))
  <2>1. \A p \in Held(c) : d[p].mem = c[p].mem
    BY DEF Held
  <2> QED BY <2>1, MemoryOfSame
<1>5. Memory(c, Held(c)) \in Nat
  BY BytesFinite
<1> QED BY <1>2, <1>3, <1>4, <1>5, ZenonT(30)

\* Removing an entry takes its charge out.
LEMMA MemoryRemove ==
    ASSUME NEW c \in Contents, NEW q \in Held(c), NEW d \in Contents,
           d[q] = Null, \A p \in Query \ {q} : d[p] = c[p]
    PROVE  /\ Held(d) = Held(c) \ {q}
           /\ Memory(c, Held(c)) \in Nat /\ c[q].mem \in Nat
           /\ Memory(c, Held(c)) >= c[q].mem
           /\ Memory(d, Held(d)) = Memory(c, Held(c)) - c[q].mem
<1>2. Held(d) = Held(c) \ {q}
  BY DEF Held
<1>3. /\ Memory(c, Held(c)) = Memory(c, Held(c) \ {q}) + c[q].mem
      /\ Memory(c, Held(c) \ {q}) \in Nat /\ c[q].mem \in Nat
  BY MemoryWithout, ZenonT(30)
<1>4. Memory(d, Held(c) \ {q}) = Memory(c, Held(c) \ {q})
  <2>1. \A p \in Held(c) \ {q} : d[p].mem = c[p].mem
    BY DEF Held
  <2> QED BY <2>1, MemoryOfSame
<1> QED BY <1>2, <1>3, <1>4

-----------------------------------------------------------------------------
(* The eviction loop.                                                      *)

\* c, l and u are the entries, the recency list and the byte counter of a
\* cache that may still be over its byte limit.
Balanced(c, l, u) ==
    /\ c \in Contents
    /\ l \in Seq(Query)
    /\ Distinct(l)
    /\ Elems(l) = Held(c)
    /\ u = Memory(c, Held(c))
    /\ Len(l) <= Capacity

\* What the loop leaves is balanced and within the limit, and the entries it
\* leaves are as they were.
LEMMA PopLeavesBalanced ==
    ASSUME NEW c, NEW l, NEW u, Balanced(c, l, u), PopLruUntilItFits(c, l, u)
    PROVE  /\ Balanced(cache', lru', usage')
           /\ MemoryLimit > 0 => usage' <= MemoryLimit
           /\ \A q \in Held(cache') : q \in Held(c) /\ cache'[q] = c[q]
<1> DEFINE k(n) == Elems(SubSeq(l, 1, n))
<1>1. PICK n \in 0..Len(l) :
        /\ n = 0 \/ ~(MemoryLimit > 0 /\ LeftAfterPops(c, l, u, n) > MemoryLimit)
        /\ lru' = SubSeq(l, 1, n)
        /\ cache' = KeepOnly(c, k(n))
        /\ usage' = LeftAfterPops(c, l, u, n)
  BY DEF PopLruUntilItFits
<1>2. /\ lru' \in Seq(Query) /\ Len(lru') = n /\ Distinct(lru')
      /\ k(n) = Elems(lru') /\ k(n) \subseteq Elems(l)
      /\ k(n) = {l[i] : i \in 1..n}
  BY <1>1, PrefixList DEF Balanced
<1>3. Len(lru') <= Capacity
  <2>1. Len(l) \in Nat
    BY DEF Balanced
  <2> QED BY <1>2, <2>1, NumberAssumption DEF Balanced
<1> HIDE DEF k
<1>4. k(n) \subseteq Held(c) /\ Held(c) \subseteq Query /\ c \in Contents
  BY <1>2 DEF Balanced, Held
<1>5. /\ cache' \in Contents
      /\ \A q \in k(n) : cache'[q] = c[q]
      /\ Held(cache') = k(n)
  BY <1>1, <1>4 DEF KeepOnly, Contents, Held
<1>6. Memory(cache', k(n)) = Memory(c, k(n))
  <2>1. \A q \in k(n) : cache'[q].mem = c[q].mem
    BY <1>5
  <2> QED BY <2>1, MemoryOfSame
<1>7. usage' = Memory(c, k(n)) /\ Memory(c, k(n)) \in Nat
  <2> DEFINE gone == Elems(l) \ k(n)
  <2>1. k(n) \cup gone = Held(c) /\ k(n) \cap gone = {} /\ gone \subseteq Held(c)
    BY <1>2 DEF Balanced
  <2>2. Memory(c, k(n) \cup gone) = Memory(c, k(n)) + Memory(c, gone)
    BY <1>4, <2>1, MemoryOfUnion
  <2>3. Memory(c, k(n)) \in Nat /\ Memory(c, gone) \in Nat
    BY <1>4, <2>1, BytesFinite
  <2>4. usage' = SatSub(u, Memory(c, gone))
    BY <1>1 DEF LeftAfterPops, k
  <2>5. u = Memory(c, k(n)) + Memory(c, gone)
    BY <2>1, <2>2, ZenonT(30) DEF Balanced
  <2> HIDE DEF gone
  <2> QED BY <2>3, <2>4, <2>5 DEF SatSub
<1>8. MemoryLimit > 0 => usage' <= MemoryLimit
  <2>1. CASE n = 0
    <3>1. k(n) = {}
      BY <1>2, <2>1
    <3>2. usage' = 0
      BY <1>7, <3>1, MemoryOfNone
    <3> QED BY <3>2, NumberAssumption
  <2>2. CASE n # 0
    BY <1>1, <1>7, <2>2, NumberAssumption
  <2> QED BY <2>1, <2>2
<1> QED BY <1>2, <1>3, <1>4, <1>5, <1>6, <1>7, <1>8 DEF Balanced

-----------------------------------------------------------------------------
(* The inductive invariant.  UsageIsSum is what makes the byte limit hold: *)
(* the eviction loop trusts the counter.  PreparedCoherent is what makes   *)
(* replies honest: a prepared reply is sent without looking at the clock.  *)

Inv ==
    /\ TypeOK
    /\ LruCoherent
    /\ UsageIsSum
    /\ WithinLimits
    /\ PreparedCoherent
    /\ RepliesHonest

\* The part of Inv that is about one entry.
EntryCoherent(e) ==
    /\ e.preparedMem < e.mem
    /\ e.preparedMem > 0 => e.preparedTtl = e.replyTtl

\* Inv in the form the lemmas use.
LEMMA InvParts ==
    Inv <=> /\ Balanced(cache, lru, usage)
            /\ MemoryLimit > 0 => usage <= MemoryLimit
            /\ \A q \in Held(cache) : EntryCoherent(cache[q])
            /\ now \in Nat
            /\ loaded \in BOOLEAN
            /\ reply \in Reply \cup {Null}
            /\ RepliesHonest
<1>1. Balanced(cache, lru, usage) => usage \in Nat
  BY BytesFinite DEF Balanced
<1> QED BY <1>1 DEF Inv, TypeOK, LruCoherent, UsageIsSum, WithinLimits, PreparedCoherent, Balanced, Live,
           EntryCoherent, Contents

\* The same for the next state.
LEMMA InvPartsNext ==
    ASSUME Balanced(cache', lru', usage'),
           MemoryLimit > 0 => usage' <= MemoryLimit,
           \A q \in Held(cache') : EntryCoherent(cache'[q]),
           now' \in Nat,
           loaded' \in BOOLEAN,
           reply' \in Reply \cup {Null},
           RepliesHonest'
    PROVE  Inv'
<1>1. usage' \in Nat
  BY BytesFinite DEF Balanced
<1> QED BY <1>1 DEF Inv, TypeOK, LruCoherent, UsageIsSum, WithinLimits, PreparedCoherent, Balanced, Live,
           EntryCoherent, Contents

\* A fresh entry is well formed.
LEMMA NewEntryOK ==
    ASSUME NEW a \in Answer, NEW due \in Nat
    PROVE  /\ NewEntry(a, due) \in Entry
           /\ EntryCoherent(NewEntry(a, due))
BY NumberAssumption DEF NewEntry, Entry, EntryCoherent

\* insert_response keeps the invariant, whether it replaces an entry, adds
\* one, or adds one to a full cache.
LEMMA InsertKeepsInv ==
    ASSUME Inv, NEW q \in Query, NEW a \in Answer, NEW ttl \in Ttl,
           NEW t \in Readings, InsertResponse(q, a, ttl, t)
    PROVE  Inv'
<1> DEFINE e == NewEntry(a, t + ttl)
<1>1. /\ Balanced(cache, lru, usage)
      /\ \A p \in Held(cache) : EntryCoherent(cache[p])
      /\ now \in Nat /\ loaded \in BOOLEAN
  BY InvParts
<1>2. e \in Entry /\ EntryCoherent(e)
  <2>1. t + ttl \in Nat
    BY <1>1, NumberAssumption DEF Readings
  <2> QED BY <2>1, NewEntryOK
<1>3. /\ Replace(q, e) \/ PushFree(q, e) \/ PushFull(q, e)
      /\ reply' = Null /\ now' = now /\ loaded' = loaded
  BY DEF InsertResponse
<1> HIDE DEF e
<1>4. /\ cache \in Contents /\ lru \in Seq(Query) /\ Distinct(lru)
      /\ Elems(lru) = Held(cache) /\ usage = Memory(cache, Held(cache))
      /\ Len(lru) <= Capacity /\ Len(lru) \in Nat
  BY <1>1 DEF Balanced
<1>5. SUFFICES ASSUME NEW c, NEW l, NEW u, Balanced(c, l, u),
                      PopLruUntilItFits(c, l, u),
                      \A p \in Held(c) : c[p] = e \/ (p \in Held(cache) /\ c[p] = cache[p])
               PROVE  Inv'
  <2> DEFINE c1 == [cache EXCEPT ![q] = e]
  <2>1. c1 \in Contents /\ c1[q] = e /\ \A p \in Query \ {q} : c1[p] = cache[p]
    BY <1>2, <1>4 DEF Contents
  <2>2. \A p \in Held(c1) : c1[p] = e \/ (p \in Held(cache) /\ c1[p] = cache[p])
    BY <2>1 DEF Held
  <2>3. /\ Promote(lru, q) \in Seq(Query)
        /\ Distinct(Promote(lru, q))
        /\ Elems(Promote(lru, q)) = Elems(lru) \cup {q}
        /\ Len(Promote(lru, q)) = IF q \in Elems(lru) THEN Len(lru) ELSE Len(lru) + 1
    BY <1>4, PromoteList
  <2>4. CASE Replace(q, e)
    <3> DEFINE u == SatSub(usage, cache[q].mem) + e.mem
    <3>1. q \in Held(cache)
      BY <2>4 DEF Replace, Live
    <3> HIDE DEF c1
    <3>2. /\ Held(c1) = Held(cache)
          /\ usage \in Nat /\ cache[q].mem \in Nat /\ e.mem \in Nat
          /\ usage >= cache[q].mem
          /\ Memory(c1, Held(c1)) = usage - cache[q].mem + e.mem
      BY <1>2, <1>4, <2>1, <3>1, MemoryReplace
    <3>3. u = Memory(c1, Held(c1))
      BY <3>2 DEF SatSub
    <3>4. Len(Promote(lru, q)) <= Capacity /\ Elems(Promote(lru, q)) = Held(c1)
      BY <1>4, <2>3, <3>1, <3>2
    <3>5. Balanced(c1, Promote(lru, q), u)
      BY <2>1, <2>3, <3>3, <3>4 DEF Balanced
    <3>6. PopLruUntilItFits(c1, Promote(lru, q), u)
      BY <2>4 DEF Replace, c1
    <3> QED BY <1>5, <2>2, <3>5, <3>6
  <2>5. CASE PushFree(q, e)
    <3> DEFINE u == usage + e.mem
    <3>1. q \notin Held(cache) /\ Len(lru) < Capacity
      BY <2>5 DEF PushFree, Live
    <3> HIDE DEF c1
    <3>2. /\ Held(c1) = Held(cache) \cup {q}
          /\ Memory(c1, Held(c1)) = usage + e.mem
      BY <1>2, <1>4, <2>1, <3>1, MemoryAdd
    <3>3. Len(Promote(lru, q)) <= Capacity /\ Elems(Promote(lru, q)) = Held(c1)
      BY <1>4, <2>3, <3>1, <3>2, NumberAssumption
    <3>4. Balanced(c1, Promote(lru, q), u)
      BY <2>1, <2>3, <3>2, <3>3 DEF Balanced
    <3>5. PopLruUntilItFits(c1, Promote(lru, q), u)
      BY <2>5 DEF PushFree, c1
    <3> QED BY <1>5, <2>2, <3>4, <3>5
  <2>6. CASE PushFull(q, e)
    <3> DEFINE n == Len(lru)
               last == lru[n]
               d == [cache EXCEPT ![last] = Null]
               c2 == [cache EXCEPT ![q] = e, ![last] = Null]
               l == <<q>> \o SubSeq(lru, 1, n - 1)
               u == SatSub(usage + e.mem, cache[last].mem)
    <3>1. q \notin Held(cache) /\ n >= Capacity /\ PopLruUntilItFits(c2, l, u)
      BY <2>6 DEF PushFull, Live
    <3>2. n \in 1..Len(lru) /\ n - 1 \in 0..Len(lru)
      BY <1>4, <3>1, NumberAssumption
    <3>3. last \in Held(cache) /\ last \in Query /\ last # q
      BY <1>4, <3>1, <3>2 DEF Elems, Held
    <3>4. /\ SubSeq(lru, 1, n - 1) \in Seq(Query)
          /\ Len(SubSeq(lru, 1, n - 1)) = n - 1
          /\ Distinct(SubSeq(lru, 1, n - 1))
          /\ Elems(SubSeq(lru, 1, n - 1)) = {lru[i] : i \in 1..(n - 1)}
      BY <1>4, <3>2, PrefixList, ZenonT(30)
    <3>5. Elems(SubSeq(lru, 1, n - 1)) = Held(cache) \ {last}
      <4>1. \A i \in 1..(n - 1) : i \in 1..Len(lru) /\ i # n
        BY <1>4
      <4>2. \A i \in 1..Len(lru) : i = n \/ i \in 1..(n - 1)
        BY <1>4
      <4>3. {lru[i] : i \in 1..(n - 1)} = Elems(lru) \ {last}
        BY <1>4, <3>2, <4>1, <4>2, ZenonT(30) DEF Elems, Distinct
      <4> QED BY <1>4, <3>4, <4>3
    <3>6. /\ l \in Seq(Query) /\ Len(l) = n - 1 + 1 /\ Distinct(l)
          /\ Elems(l) = (Held(cache) \ {last}) \cup {q}
      BY <3>1, <3>4, <3>5, ConsList, ZenonT(30)
    <3>7. d \in Contents /\ d[last] = Null /\ \A p \in Query \ {last} : d[p] = cache[p]
      BY <1>4, <3>3 DEF Contents
    <3>8. /\ c2 \in Contents /\ c2[q] = e /\ c2[last] = Null
          /\ \A p \in Query \ {q} : c2[p] = d[p]
          /\ \A p \in Query \ {q, last} : c2[p] = cache[p]
      BY <1>2, <1>4, <3>3 DEF Contents
    <3> HIDE DEF last, d, c2, l, n
    <3>9. /\ Held(d) = Held(cache) \ {last}
          /\ usage \in Nat /\ cache[last].mem \in Nat /\ usage >= cache[last].mem
          /\ Memory(d, Held(d)) = usage - cache[last].mem
      BY <1>4, <3>3, <3>7, MemoryRemove
    <3>10. q \in Query \ Held(d)
      BY <3>1, <3>9
    <3>11. /\ Held(c2) = Held(d) \cup {q}
           /\ e.mem \in Nat
           /\ Memory(c2, Held(c2)) = Memory(d, Held(d)) + e.mem
      BY <1>2, <3>7, <3>8, <3>10, MemoryAdd
    <3>12. u = Memory(c2, Held(c2))
      BY <3>9, <3>11 DEF SatSub
    <3>13. Len(l) <= Capacity
      BY <1>4, <3>6 DEF n
    <3>14. Balanced(c2, l, u)
      BY <3>6, <3>8, <3>9, <3>11, <3>12, <3>13 DEF Balanced
    <3>15. \A p \in Held(c2) : c2[p] = e \/ (p \in Held(cache) /\ c2[p] = cache[p])
      BY <3>8 DEF Held
    <3> QED BY <1>5, <3>1, <3>14, <3>15
  <2> QED BY <1>3, <2>4, <2>5, <2>6
<1>6. /\ Balanced(cache', lru', usage')
      /\ MemoryLimit > 0 => usage' <= MemoryLimit
      /\ \A p \in Held(cache') : p \in Held(c) /\ cache'[p] = c[p]
  BY <1>5, PopLeavesBalanced
<1>7. \A p \in Held(cache') : EntryCoherent(cache'[p])
  <2> SUFFICES ASSUME NEW p \in Held(cache') PROVE EntryCoherent(cache'[p])
    OBVIOUS
  <2>1. cache'[p] = e \/ (p \in Held(cache) /\ cache'[p] = cache[p])
    BY <1>5, <1>6
  <2> QED BY <1>1, <1>2, <2>1
<1>8. RepliesHonest'
  BY <1>3 DEF RepliesHonest
<1> QED BY <1>1, <1>3, <1>6, <1>7, <1>8, InvPartsNext

\* An operation that only changes refresh marks and retry times keeps the
\* invariant.
LEMMA MarksKeepInv ==
    ASSUME Inv,
           cache' \in Contents,
           Held(cache') = Held(cache),
           \A q \in Held(cache) :
               /\ cache'[q].mem = cache[q].mem
               /\ cache'[q].replyTtl = cache[q].replyTtl
               /\ cache'[q].preparedTtl = cache[q].preparedTtl
               /\ cache'[q].preparedMem = cache[q].preparedMem,
           reply' = Null,
           UNCHANGED <<now, lru, usage, loaded>>
    PROVE  Inv'
<1>1. /\ Balanced(cache, lru, usage)
      /\ MemoryLimit > 0 => usage <= MemoryLimit
      /\ \A q \in Held(cache) : EntryCoherent(cache[q])
      /\ now \in Nat /\ loaded \in BOOLEAN
  BY InvParts
<1>2. Memory(cache', Held(cache')) = Memory(cache, Held(cache))
  BY MemoryOfSame
<1>3. Balanced(cache', lru', usage')
  BY <1>1, <1>2 DEF Balanced
<1>4. \A q \in Held(cache') : EntryCoherent(cache'[q])
  BY <1>1 DEF EntryCoherent
<1>5. RepliesHonest'
  BY DEF RepliesHonest
<1> QED BY <1>1, <1>3, <1>4, <1>5, InvPartsNext

\* A hit keeps the invariant, and its reply is honest: lru' has q first, the
\* entry of q exchanges its prepared reply.
LEMMA HitKeepsInv ==
    ASSUME Inv, NEW q \in Query, NEW t \in Readings,
           GetPrepared(q, t) \/ GetBuilt(q, t)
    PROVE  Inv'
<1> DEFINE e == cache[q]
           ttl == ReplyTtl(e, t)
<1>1. /\ Balanced(cache, lru, usage)
      /\ MemoryLimit > 0 => usage <= MemoryLimit
      /\ \A p \in Held(cache) : EntryCoherent(cache[p])
      /\ now \in Nat /\ loaded \in BOOLEAN
  BY InvParts
<1>2. q \in Held(cache) /\ ~MustDrop(e, t) /\ lru' = Promote(lru, q) /\ now' = now /\ loaded' = loaded
  BY DEF GetPrepared, GetBuilt, Live
<1>3. /\ cache \in Contents /\ lru \in Seq(Query) /\ Distinct(lru)
      /\ Elems(lru) = Held(cache) /\ usage = Memory(cache, Held(cache))
      /\ Len(lru) <= Capacity
  BY <1>1 DEF Balanced
<1>4. e \in Entry /\ EntryCoherent(e)
  BY <1>1, <1>2, <1>3 DEF Contents, Held
<1>5. /\ lru' \in Seq(Query) /\ Distinct(lru') /\ Elems(lru') = Held(cache)
      /\ Len(lru') <= Capacity
  <2>1. /\ Promote(lru, q) \in Seq(Query) /\ Distinct(Promote(lru, q))
        /\ Elems(Promote(lru, q)) = Elems(lru) \cup {q}
        /\ Len(Promote(lru, q)) = IF q \in Elems(lru) THEN Len(lru) ELSE Len(lru) + 1
    BY <1>3, PromoteList
  <2>2. q \in Elems(lru) /\ Elems(lru) \cup {q} = Held(cache)
    BY <1>2, <1>3
  <2> QED BY <1>2, <1>3, <2>1, <2>2
<1>6. t \in Nat /\ ttl \in Nat
  BY <1>1, <1>4, NumberAssumption DEF Readings, ReplyTtl, TtlAt, SatSub, Entry
<1>7. SUFFICES ASSUME NEW f \in Entry, EntryCoherent(f),
                      cache' = [cache EXCEPT ![q] = f],
                      usage' = usage - e.mem + f.mem,
                      MemoryLimit > 0 => usage' <= MemoryLimit,
                      reply' = ReplyTo(q, ttl, t)
               PROVE  Inv'
  <2>1. CASE GetPrepared(q, t)
    <3> DEFINE f == [e EXCEPT !.replyTtl = ttl]
    <3>1. e.replyTtl = ttl /\ e.preparedMem > 0
      BY <2>1 DEF GetPrepared, Reusable
    <3>2. f = e
      BY <1>4, <3>1 DEF Entry
    <3>3. e.preparedTtl = ttl
      BY <1>4, <3>1 DEF EntryCoherent
    <3>4. usage \in Nat /\ e.mem \in Nat
      BY <1>3, <1>4, BytesFinite DEF Entry
    <3>5. usage' = usage - e.mem + f.mem
      BY <2>1, <3>2, <3>4 DEF GetPrepared
    <3>6. reply' = ReplyTo(q, ttl, t) /\ cache' = [cache EXCEPT ![q] = f]
      BY <2>1, <3>3 DEF GetPrepared
    <3>7. MemoryLimit > 0 => usage' <= MemoryLimit
      BY <1>1, <2>1 DEF GetPrepared
    <3> QED BY <1>4, <1>7, <3>2, <3>5, <3>6, <3>7, ZenonT(30)
  <2>2. CASE GetBuilt(q, t)
    <3> DEFINE total == usage - e.preparedMem
               kept == IF e.replyTtl = ttl /\ Fits(total) THEN ReplySize ELSE 0
               f == Rebuilt(e, ttl, kept)
    <3>1. /\ cache' = [cache EXCEPT ![q] = f] /\ usage' = total + kept
          /\ reply' = ReplyTo(q, ttl, t)
      BY <2>2 DEF GetBuilt
    <3>2. kept \in Nat /\ (kept > 0 => Fits(total))
      BY NumberAssumption
    <3>3. /\ usage \in Nat /\ e.mem \in Nat /\ e.preparedMem \in Nat
          /\ e.preparedMem < e.mem /\ usage >= e.mem
      <4>1. Memory(cache, Held(cache)) = Memory(cache, Held(cache) \ {q}) + e.mem
            /\ Memory(cache, Held(cache) \ {q}) \in Nat
        BY <1>2, <1>3, MemoryWithout
      <4>2. usage \in Nat
        BY <1>3, BytesFinite
      <4> QED BY <1>3, <1>4, <4>1, <4>2 DEF Entry, EntryCoherent
    <3> HIDE DEF kept, ttl, e
    <3>4. /\ f \in Entry
          /\ f.mem = e.mem - e.preparedMem + kept
          /\ f.preparedMem = kept /\ f.replyTtl = ttl
          /\ kept > 0 => f.preparedTtl = ttl
      <4>1. e.mem - e.preparedMem + kept \in Nat
        BY <3>2, <3>3
      <4>2. (IF kept > 0 THEN ttl ELSE 0) \in Nat
        BY <1>6
      <4> QED BY <1>4, <1>6, <3>2, <4>1, <4>2, ZenonT(30) DEF Rebuilt, Entry
    <3>5. EntryCoherent(f)
      BY <3>2, <3>3, <3>4 DEF EntryCoherent
    <3>6. usage' = usage - e.mem + f.mem
      BY <3>1, <3>2, <3>3, <3>4
    <3>7. MemoryLimit > 0 => usage' <= MemoryLimit
      <4>1. CASE kept > 0
        <5>1. kept = ReplySize
          BY <4>1 DEF kept
        <5> QED BY <3>1, <3>2, <3>3, <4>1, <5>1, NumberAssumption DEF Fits
      <4>2. CASE kept = 0
        BY <1>1, <3>1, <3>3, <4>2, NumberAssumption
      <4> QED BY <3>2, <4>1, <4>2
    <3> QED BY <1>7, <3>1, <3>4, <3>5, <3>6, <3>7, ZenonT(30) DEF e, ttl
  <2> QED BY <2>1, <2>2
<1>8. /\ cache' \in Contents /\ cache'[q] = f
      /\ \A p \in Query \ {q} : cache'[p] = cache[p]
  BY <1>3, <1>7 DEF Contents
<1>9. /\ Held(cache') = Held(cache)
      /\ Memory(cache', Held(cache')) = Memory(cache, Held(cache)) - e.mem + f.mem
  <2>1. q \in Held(cache) /\ cache \in Contents /\ f \in Entry
    BY <1>2, <1>3, <1>7
  <2> QED BY <1>8, <2>1, MemoryReplace
<1>10. Balanced(cache', lru', usage')
  BY <1>3, <1>5, <1>7, <1>8, <1>9 DEF Balanced
<1>11. \A p \in Held(cache') : EntryCoherent(cache'[p])
  BY <1>1, <1>7, <1>8, <1>9 DEF Held
<1>12. reply' \in Reply /\ RepliesHonest'
  <2>1. /\ e.until \in Nat /\ e.negative \in BOOLEAN
    BY <1>4 DEF Entry
  <2>2. reply' \in Reply
    BY <1>6, <1>7, <2>1 DEF ReplyTo, Reply, Status
  <2>3. /\ reply'.status = Status(e, t) /\ reply'.ttl = ttl
        /\ reply'.negative = e.negative /\ reply'.until = e.until /\ reply'.at = t
    BY <1>7 DEF ReplyTo
  <2>4. CASE t <= e.until
    <3>1. reply'.status = "Valid" /\ ttl = e.until - t
      BY <1>6, <2>1, <2>3, <2>4 DEF Status, IsCurrent, ReplyTtl, TtlAt, SatSub
    <3> QED BY <2>2, <2>3, <2>4, <3>1 DEF RepliesHonest
  <2>5. CASE ~(t <= e.until)
    <3>1. reply'.status = "Expired" /\ ttl = ExpiredReplyTtl
      BY <2>3, <2>5 DEF Status, IsCurrent, ReplyTtl
    <3>2. ~e.negative /\ ServeExpired /\ (ExpiredTtl > 0 => t - e.until <= ExpiredTtl)
      BY <1>2, <1>6, <2>1, <2>5, NumberAssumption DEF MustDrop, IsCurrent
    <3>3. e.until < t
      BY <1>6, <2>1, <2>5
    <3>4. reply'.status # "Valid"
      BY <3>1
    <3>5. ~reply'.negative
      BY <2>3, <3>2, Zenon
    <3>6. /\ reply'.until < reply'.at /\ reply'.ttl = ExpiredReplyTtl
          /\ ExpiredTtl > 0 => reply'.at - reply'.until <= ExpiredTtl
      BY <2>3, <3>1, <3>2, <3>3
    <3> QED BY <2>2, <3>2, <3>4, <3>5, <3>6 DEF RepliesHonest
  <2> QED BY <2>2, <2>4, <2>5
<1> QED BY <1>1, <1>2, <1>7, <1>10, <1>11, <1>12, InvPartsNext, ZenonT(30)

\* Dropping an expired entry keeps the invariant.
LEMMA DropKeepsInv ==
    ASSUME Inv, NEW q \in Query, NEW t \in Readings, GetDrop(q, t)
    PROVE  Inv'
<1> DEFINE i == Position(lru, q)
<1>1. /\ Balanced(cache, lru, usage)
      /\ MemoryLimit > 0 => usage <= MemoryLimit
      /\ \A p \in Held(cache) : EntryCoherent(cache[p])
      /\ now \in Nat /\ loaded \in BOOLEAN
  BY InvParts
<1>2. /\ q \in Held(cache) /\ cache' = [cache EXCEPT ![q] = Null]
      /\ lru' = Without(lru, i) /\ usage' = usage - cache[q].mem
      /\ reply' = Null /\ now' = now /\ loaded' = loaded
  BY DEF GetDrop, Live
<1>3. /\ cache \in Contents /\ lru \in Seq(Query) /\ Distinct(lru)
      /\ Elems(lru) = Held(cache) /\ usage = Memory(cache, Held(cache))
      /\ Len(lru) <= Capacity /\ Len(lru) \in Nat
  BY <1>1 DEF Balanced
<1>4. i \in 1..Len(lru) /\ lru[i] = q
  BY <1>2, <1>3 DEF Elems, Position
<1> HIDE DEF i
<1>5. /\ lru' \in Seq(Query) /\ Len(lru') = Len(lru) - 1 /\ Distinct(lru')
      /\ Elems(lru') = Held(cache) \ {q}
  BY <1>2, <1>3, <1>4, WithoutList
<1>6. /\ cache' \in Contents /\ cache'[q] = Null
      /\ \A p \in Query \ {q} : cache'[p] = cache[p]
  BY <1>2, <1>3 DEF Contents
<1>7. /\ Held(cache') = Held(cache) \ {q}
      /\ usage \in Nat /\ cache[q].mem \in Nat
      /\ Memory(cache', Held(cache')) = Memory(cache, Held(cache)) - cache[q].mem
  <2>1. q \in Held(cache) /\ cache \in Contents /\ usage = Memory(cache, Held(cache))
    BY <1>2, <1>3
  <2> QED BY <1>6, <2>1, MemoryRemove
<1>8. Balanced(cache', lru', usage')
  <2>1. Len(lru') <= Capacity
    BY <1>3, <1>5, NumberAssumption
  <2> QED BY <1>2, <1>3, <1>5, <1>6, <1>7, <2>1, ZenonT(30) DEF Balanced
<1>9. MemoryLimit > 0 => usage' <= MemoryLimit
  BY <1>1, <1>2, <1>7, NumberAssumption
<1>10. \A p \in Held(cache') : EntryCoherent(cache'[p])
  BY <1>1, <1>6, <1>7 DEF Held
<1>11. RepliesHonest'
  BY <1>2 DEF RepliesHonest
<1> QED BY <1>1, <1>2, <1>8, <1>9, <1>10, <1>11, InvPartsNext, ZenonT(30)

\* The persist task's load keeps the invariant, whatever the cache held.
LEMMA LoadKeepsInv ==
    ASSUME Inv, NEW S \in SUBSET Query, NEW saved \in [S -> Answer \X SavedUntil], Load(saved)
    PROVE  Inv'
<1> DEFINE w == WithSaved(saved)
<1>1. /\ Balanced(cache, lru, usage)
      /\ \A q \in Held(cache) : EntryCoherent(cache[q])
      /\ now \in Nat
  BY InvParts
<1>2. PICK l \in AfterPuts(S) :
        PopLruUntilItFits(KeepOnly(w, Elems(Cut(l))), Cut(l),
                          Memory(KeepOnly(w, Elems(Cut(l))), Elems(Cut(l))))
  BY DEF Load
<1>3. /\ reply' = Null /\ now' = now /\ loaded' \in BOOLEAN
  BY DEF Load
<1> DEFINE K == Elems(Cut(l))
           c == KeepOnly(w, K)
<1>4. /\ l \in Seq(Query) /\ Len(l) \in Nat /\ Distinct(l)
      /\ Elems(l) = Held(cache) \cup S
  <2>1. IsFiniteSet(Held(cache) \cup S) /\ Held(cache) \cup S \subseteq Query
    BY QueryAssumption, FS_Subset DEF Held
  <2>2. Cardinality(Held(cache) \cup S) \in Nat
    BY <2>1, FS_CardinalityType
  <2>3. /\ l \in [1..Cardinality(Held(cache) \cup S) -> Held(cache) \cup S]
        /\ Distinct(l) /\ Elems(l) = Held(cache) \cup S
    BY DEF AfterPuts, Live
  <2>4. l \in Seq(Query)
    <3>1. Seq(Query) = UNION {[1..n -> Query] : n \in Nat}
      OBVIOUS
    <3>2. l \in [1..Cardinality(Held(cache) \cup S) -> Query]
      BY <2>1, <2>3
    <3> QED BY <2>2, <3>1, <3>2, ZenonT(30)
  <2> QED BY <2>3, <2>4
<1>5. /\ Cut(l) \in Seq(Query) /\ Distinct(Cut(l)) /\ K \subseteq Held(cache) \cup S
      /\ Len(Cut(l)) <= Capacity
  <2> DEFINE n == IF Len(l) < Capacity THEN Len(l) ELSE Capacity
  <2>1. n \in 0..Len(l) /\ n <= Capacity
    BY <1>4, NumberAssumption
  <2>2. Cut(l) = SubSeq(l, 1, n)
    BY DEF Cut
  <2> HIDE DEF n
  <2> QED BY <1>4, <2>1, <2>2, PrefixList
<1> HIDE DEF K
<1>6. ASSUME NEW q \in Held(cache) \cup S
      PROVE  w[q] \in Entry /\ EntryCoherent(w[q])
  <2>1. q \in Query /\ DOMAIN saved = S
    BY DEF Held
  <2>2. CASE q \in S
    <3>1. saved[q] \in Answer \X SavedUntil
      BY <2>2
    <3>2. saved[q][1] \in Answer /\ saved[q][2] \in Nat
      BY <3>1, NumberAssumption
    <3>3. w[q] = NewEntry(saved[q][1], saved[q][2])
      BY <2>1, <2>2 DEF WithSaved
    <3> QED BY <3>2, <3>3, NewEntryOK
  <2>3. CASE q \notin S
    <3>1. w[q] = cache[q] /\ q \in Held(cache)
      BY <2>1, <2>3 DEF WithSaved
    <3>2. cache[q] \in Entry
      BY <1>1, <3>1 DEF Balanced, Contents, Held
    <3> QED BY <1>1, <3>1, <3>2
  <2> QED BY <2>2, <2>3
<1> HIDE DEF w
<1>7. /\ c \in Contents /\ Held(c) = K
      /\ \A q \in K : c[q] = w[q]
  <2>1. K \subseteq Query /\ \A q \in K : w[q] \in Entry /\ w[q] # Null
    BY <1>5, <1>6, EntryNotNull DEF Held
  <2>2. c = [q \in Query |-> IF q \in K THEN w[q] ELSE Null]
    BY DEF KeepOnly
  <2> HIDE DEF c
  <2> QED BY <2>1, <2>2 DEF Contents, Held
<1>8. Balanced(c, Cut(l), Memory(c, K))
  BY <1>5, <1>7, ZenonT(30) DEF Balanced, K
<1>9. /\ Balanced(cache', lru', usage')
      /\ MemoryLimit > 0 => usage' <= MemoryLimit
      /\ \A q \in Held(cache') : q \in Held(c) /\ cache'[q] = c[q]
  <2>1. PopLruUntilItFits(c, Cut(l), Memory(c, K))
    BY <1>2 DEF K
  <2> HIDE DEF c
  <2> QED BY <1>8, <2>1, PopLeavesBalanced
<1> HIDE DEF c
<1>10. \A q \in Held(cache') : EntryCoherent(cache'[q])
  BY <1>5, <1>6, <1>7, <1>9
<1>11. RepliesHonest'
  BY <1>3 DEF RepliesHonest
<1> QED BY <1>1, <1>3, <1>9, <1>10, <1>11, InvPartsNext, ZenonT(30)

\* The invariant holds initially.
LEMMA InitInv == Init => Inv
<1> SUFFICES ASSUME Init PROVE Inv
  OBVIOUS
<1>1. cache \in Contents /\ Held(cache) = {}
  BY DEF Init, Contents, Held
<1>2. /\ lru \in Seq(Query) /\ Len(lru) = 0 /\ Distinct(lru) /\ Elems(lru) = {}
  BY DEF Init, Distinct, Elems
<1>3. Balanced(cache, lru, usage)
  <2>1. usage = Memory(cache, Held(cache))
    BY <1>1, MemoryOfNone, ZenonT(30) DEF Init
  <2> QED BY <1>1, <1>2, <2>1, NumberAssumption DEF Balanced
<1>4. loaded \in BOOLEAN
  BY Zenon DEF Init
<1>5. MemoryLimit > 0 => usage <= MemoryLimit
  BY NumberAssumption DEF Init
<1>6. now \in Nat /\ reply \in Reply \cup {Null} /\ RepliesHonest
  BY DEF Init, RepliesHonest
<1> QED BY <1>1, <1>3, <1>4, <1>5, <1>6, InvParts, ZenonT(30)

\* Every operation keeps the invariant.
LEMMA NextKeepsInv == Inv /\ [Next]_vars => Inv'
<1> SUFFICES ASSUME Inv, [Next]_vars PROVE Inv'
  OBVIOUS
<1>0. /\ Balanced(cache, lru, usage)
      /\ MemoryLimit > 0 => usage <= MemoryLimit
      /\ \A q \in Held(cache) : EntryCoherent(cache[q])
      /\ now \in Nat /\ loaded \in BOOLEAN /\ cache \in Contents
  BY InvParts DEF Balanced
<1>1. CASE Tick
  BY <1>0, <1>1, MarksKeepInv, InvPartsNext DEF Tick, cacheVars, RepliesHonest
<1>2. ASSUME NEW q \in Query, NEW a \in Answer, NEW ttl \in Ttl, NEW t \in Readings,
             InsertResponse(q, a, ttl, t)
      PROVE  Inv'
  BY <1>2, InsertKeepsInv
<1>3. ASSUME NEW q \in Query, NEW t \in Readings, Get(q, t) PROVE Inv'
  <2>1. CASE GetMiss(q)
    BY <1>0, <2>1, InvPartsNext DEF GetMiss, cacheVars, RepliesHonest
  <2>2. CASE GetDrop(q, t)
    BY <2>2, DropKeepsInv
  <2>3. CASE GetPrepared(q, t) \/ GetBuilt(q, t)
    BY <2>3, HitKeepsInv
  <2> QED BY <1>3, <2>1, <2>2, <2>3 DEF Get
<1>4. CASE Flush
  <2>1. cache' \in Contents /\ Held(cache') = {}
    BY <1>4 DEF Flush, Contents, Held
  <2>2. lru' \in Seq(Query) /\ Len(lru') = 0 /\ Distinct(lru') /\ Elems(lru') = {}
    BY <1>4 DEF Flush, Distinct, Elems
  <2>3. Balanced(cache', lru', usage')
    <3>1. usage' = Memory(cache', Held(cache'))
      BY <1>4, <2>1, MemoryOfNone, ZenonT(30) DEF Flush
    <3> QED BY <2>1, <2>2, <3>1, NumberAssumption DEF Balanced
  <2> QED BY <1>0, <1>4, <2>1, <2>3, InvPartsNext, NumberAssumption DEF Flush, RepliesHonest
<1>5. ASSUME NEW t \in Readings, GetExpired(t) PROVE Inv'
  <2>1. /\ \A q \in Query : cache'[q] = IF q \in Due(t) THEN [cache[q] EXCEPT !.busy = TRUE]
                                                     ELSE cache[q]
        /\ reply' = Null /\ UNCHANGED <<now, lru, usage, loaded>>
    BY <1>5 DEF GetExpired
  <2>2. Due(t) \subseteq Held(cache)
    BY DEF Due, Live
  <2>3. ASSUME NEW q \in Query
        PROVE  \/ cache'[q] = cache[q]
               \/ q \in Held(cache) /\ cache'[q] = [cache[q] EXCEPT !.busy = TRUE]
    <3>1. CASE q \in Due(t)
      BY <2>1, <2>2, <3>1
    <3>2. CASE q \notin Due(t)
      BY <2>1, <3>2
    <3> QED BY <3>1, <3>2
  <2>4. ASSUME NEW q \in Held(cache)
        PROVE  /\ cache'[q] \in Entry
               /\ cache'[q].mem = cache[q].mem
               /\ cache'[q].replyTtl = cache[q].replyTtl
               /\ cache'[q].preparedTtl = cache[q].preparedTtl
               /\ cache'[q].preparedMem = cache[q].preparedMem
    <3>1. cache[q] \in Entry /\ q \in Query
      BY <1>0 DEF Contents, Held
    <3>2. CASE cache'[q] = cache[q]
      BY <3>1, <3>2
    <3>3. CASE cache'[q] = [cache[q] EXCEPT !.busy = TRUE]
      BY <3>1, <3>3, ZenonT(30) DEF Entry
    <3> QED BY <2>3, <3>1, <3>2, <3>3
  <2>5. \A q \in Query \ Held(cache) : cache'[q] = Null
    BY <2>3, ZenonT(30) DEF Held
  <2>6. cache' \in Contents /\ Held(cache') = Held(cache)
    <3>1. cache' = [q \in Query |-> cache'[q]]
      BY <1>5 DEF GetExpired
    <3> QED BY <2>4, <2>5, <3>1, EntryNotNull DEF Contents, Held
  <2> QED BY <2>1, <2>4, <2>6, MarksKeepInv
<1>6. ASSUME NEW q \in Query, NEW f \in Entry \cup {Null},
             cache' = [cache EXCEPT ![q] = f],
             IF q \in Held(cache)
             THEN /\ f \in Entry
                  /\ f.mem = cache[q].mem
                  /\ f.replyTtl = cache[q].replyTtl
                  /\ f.preparedTtl = cache[q].preparedTtl
                  /\ f.preparedMem = cache[q].preparedMem
             ELSE f = Null,
             reply' = Null, UNCHANGED <<now, lru, usage, loaded>>
      PROVE  Inv'
  <2>1. /\ cache' \in Contents /\ cache'[q] = f
        /\ \A p \in Query \ {q} : cache'[p] = cache[p]
    BY <1>0, <1>6 DEF Contents
  <2>2. Held(cache') = Held(cache)
    BY <1>6, <2>1, EntryNotNull DEF Held
  <2>3. \A p \in Held(cache) :
           /\ cache'[p].mem = cache[p].mem
           /\ cache'[p].replyTtl = cache[p].replyTtl
           /\ cache'[p].preparedTtl = cache[p].preparedTtl
           /\ cache'[p].preparedMem = cache[p].preparedMem
    BY <1>6, <2>1 DEF Held
  <2> QED BY <1>6, <2>1, <2>2, <2>3, MarksKeepInv
<1>7. \A q \in Query :
         /\ cache = [cache EXCEPT ![q] = cache[q]]
         /\ cache[q] \in Entry \cup {Null}
         /\ q \notin Held(cache) => cache[q] = Null
         /\ q \in Held(cache) => cache[q] \in Entry
  BY <1>0 DEF Contents, Held
<1>8. ASSUME NEW q \in Query, NEW t \in Readings, FinishPrefetch(q, t) PROVE Inv'
  <2> DEFINE e == cache[q]
             f == IF q \in Live /\ e.busy
                  THEN [e EXCEPT !.busy = FALSE, !.retry = t + Larger(PrefetchTime, 1)]
                  ELSE e
  <2>1. t + Larger(PrefetchTime, 1) \in Nat
    BY <1>0, NumberAssumption DEF Readings, Larger
  <2>2. cache' = [cache EXCEPT ![q] = f]
    BY <1>7, <1>8, ZenonT(30) DEF FinishPrefetch
  <2>3. q \in Held(cache) =>
           /\ f \in Entry
           /\ f.mem = e.mem
           /\ f.replyTtl = e.replyTtl
           /\ f.preparedTtl = e.preparedTtl
           /\ f.preparedMem = e.preparedMem
    BY <1>7, <2>1, ZenonT(30) DEF Entry
  <2>4. q \notin Held(cache) => f = Null
    BY <1>7 DEF Live
  <2>5. f \in Entry \cup {Null}
    BY <2>3, <2>4
  <2>6. reply' = Null /\ UNCHANGED <<now, lru, usage, loaded>>
    BY <1>8 DEF FinishPrefetch
  <2> HIDE DEF f
  <2> QED BY <1>6, <2>2, <2>3, <2>4, <2>5, <2>6, ZenonT(30)
<1>9. ASSUME NEW q \in Query, BeginRefresh(q) \/ EndRefresh(q) PROVE Inv'
  <2>1. PICK mark \in BOOLEAN :
          cache' = IF q \in Live THEN [cache EXCEPT ![q] = [cache[q] EXCEPT !.busy = mark]]
                                ELSE cache
    BY <1>9, ZenonT(30) DEF BeginRefresh, EndRefresh, MayBegin
  <2> DEFINE e == cache[q]
             f == IF q \in Live THEN [e EXCEPT !.busy = mark] ELSE e
  <2>2. cache' = [cache EXCEPT ![q] = f]
    BY <1>7, <2>1, ZenonT(30)
  <2>3. q \in Held(cache) =>
           /\ f \in Entry
           /\ f.mem = e.mem
           /\ f.replyTtl = e.replyTtl
           /\ f.preparedTtl = e.preparedTtl
           /\ f.preparedMem = e.preparedMem
    BY <1>7 DEF Entry
  <2>4. q \notin Held(cache) => f = Null
    BY <1>7 DEF Live
  <2>5. f \in Entry \cup {Null}
    BY <2>3, <2>4
  <2>6. reply' = Null /\ UNCHANGED <<now, lru, usage, loaded>>
    BY <1>9 DEF BeginRefresh, EndRefresh
  <2> HIDE DEF f
  <2> QED BY <1>6, <2>2, <2>3, <2>4, <2>5, <2>6, ZenonT(30)
<1>11. ASSUME NEW S \in SUBSET Query, NEW saved \in [S -> Answer \X SavedUntil], Load(saved)
       PROVE  Inv'
  BY <1>11, LoadKeepsInv
<1>10. CASE UNCHANGED vars
  BY <1>10 DEF vars, Inv, TypeOK, LruCoherent, UsageIsSum, WithinLimits, PreparedCoherent, RepliesHonest, Live
<1> QED BY <1>1, <1>2, <1>3, <1>4, <1>5, <1>8, <1>9, <1>10, <1>11 DEF Next

\* The invariant holds in every behaviour of the cache.
THEOREM CacheInvariant == Spec => []Inv
BY InitInv, NextKeepsInv, PTL DEF Spec

\* No operation takes the byte counter below zero (get subtracts without a
\* check), and every variable keeps its type.
THEOREM TypeCorrect == Spec => []TypeOK
<1>1. Inv => TypeOK
  BY DEF Inv
<1> QED BY <1>1, CacheInvariant, PTL

\* memory_usage is always the sum of what the entries are charged.
THEOREM UsageCorrect == Spec => []UsageIsSum
<1>1. Inv => UsageIsSum
  BY DEF Inv
<1> QED BY <1>1, CacheInvariant, PTL

\* cache-size and cache-mem-size are never exceeded.
THEOREM LimitsHold == Spec => []WithinLimits
<1>1. Inv => WithinLimits
  BY DEF Inv
<1> QED BY <1>1, CacheInvariant, PTL

\* A reply always carries the lifetime its answer has left, or is a stale
\* reply within the configured bounds.
THEOREM RepliesAreHonest == Spec => []RepliesHonest
<1>1. Inv => RepliesHonest
  BY DEF Inv
<1> QED BY <1>1, CacheInvariant, PTL

-----------------------------------------------------------------------------
(* Refinement of AnswerStore.                                              *)

\* What is known of one query.
LEMMA KnownAt ==
    ASSUME NEW q \in Query
    PROVE  /\ Known[q] = IF cache[q] = Null THEN Null
                         ELSE [group |-> cache[q].group, negative |-> cache[q].negative,
                               until |-> cache[q].until]
           /\ Known'[q] = IF cache'[q] = Null THEN Null
                          ELSE [group |-> cache'[q].group, negative |-> cache'[q].negative,
                                until |-> cache'[q].until]
BY DEF Known

\* A step that leaves every entry's answer alone, or drops the entry, and
\* returns no reply, is a step in which the store forgets.
LEMMA ForgetStep ==
    ASSUME \A q \in Query : Known'[q] \in {Known[q], Null},
           reply' = Null, now' = now /\ loaded' = loaded
    PROVE  Store!Next
<1>1. Known' = [q \in Query |-> Known'[q]]
  BY DEF Known
<1>2. Known' \in [Query -> {Known[p] : p \in Query} \cup {Null}]
  BY <1>1
<1>3. Store!Forget
  BY <1>2 DEF Store!Forget, Store!MayForget
<1> QED BY <1>3 DEF Store!Next

\* insert_response teaches the store at most the answer it was given.
LEMMA LearnStep ==
    ASSUME Inv, NEW q \in Query, NEW a \in Answer, NEW ttl \in Ttl,
           NEW t \in Readings, InsertResponse(q, a, ttl, t)
    PROVE  Store!Next
<1> DEFINE e == NewEntry(a, t + ttl)
           r == [group |-> a.group, negative |-> a.negative, until |-> t + ttl]
<1>0. now \in Nat /\ cache \in Contents
  BY InvParts DEF Balanced
<1>1. e \in Entry /\ e.group = a.group /\ e.negative = a.negative /\ e.until = t + ttl
  <2>1. t + ttl \in Nat
    BY <1>0, NumberAssumption DEF Readings
  <2>2. e \in Entry
    BY <2>1, NewEntryOK
  <2> QED BY <2>2 DEF NewEntry
<1>2. /\ Replace(q, e) \/ PushFree(q, e) \/ PushFull(q, e)
      /\ reply' = Null /\ now' = now /\ loaded' = loaded
  BY DEF InsertResponse
<1> HIDE DEF e
<1>3. \A p \in Query :
         \/ cache'[p] = Null
         \/ p # q /\ cache'[p] = cache[p]
         \/ p = q /\ cache'[p] = e
  <2>1. CASE Replace(q, e) \/ PushFree(q, e)
    <3> DEFINE c == [cache EXCEPT ![q] = e]
    <3>1. \E l, u : PopLruUntilItFits(c, l, u)
      BY <2>1 DEF Replace, PushFree
    <3>2. c[q] = e /\ \A p \in Query \ {q} : c[p] = cache[p]
      BY <1>0 DEF Contents
    <3> HIDE DEF c
    <3>3. \A p \in Query : cache'[p] = Null \/ cache'[p] = c[p]
      BY <3>1 DEF PopLruUntilItFits, KeepOnly
    <3>4. \A p \in Query : p = q \/ p \in Query \ {q}
      OBVIOUS
    <3> QED BY <3>2, <3>3, <3>4
  <2>2. CASE PushFull(q, e)
    <3> DEFINE last == lru[Len(lru)]
               c == [cache EXCEPT ![q] = e, ![last] = Null]
    <3>1. \E l, u : PopLruUntilItFits(c, l, u)
      BY <2>2 DEF PushFull
    <3> HIDE DEF last
    <3>2. c[q] \in {e, Null} /\ \A p \in Query \ {q} : c[p] \in {cache[p], Null}
      BY <1>0 DEF Contents
    <3> HIDE DEF c
    <3>3. \A p \in Query : cache'[p] = Null \/ cache'[p] = c[p]
      BY <3>1 DEF PopLruUntilItFits, KeepOnly
    <3>4. \A p \in Query : p = q \/ p \in Query \ {q}
      OBVIOUS
    <3> QED BY <3>2, <3>3, <3>4
  <2> QED BY <1>2, <2>1, <2>2
<1>4. \A p \in Query \ {q} : Known'[p] \in {Known[p], Null}
  BY <1>3, KnownAt, ZenonT(30)
<1>5. Known'[q] \in {Null, r}
  BY <1>1, <1>3, KnownAt, ZenonT(30)
<1>6. Known' = [p \in Query |-> Known'[p]]
  BY DEF Known
<1>7. Known' \in [Query -> {Known[p] : p \in Query} \cup {Null} \cup {r}]
  BY <1>4, <1>5, <1>6
<1>8. Store!Learn(q, a, ttl, t)
  BY <1>2, <1>4, <1>5, <1>7 DEF Store!Learn, Store!MayForget
<1>9. t \in Store!Readings
  BY DEF Readings, Store!Readings
<1> QED BY <1>8, <1>9 DEF Store!Next

\* A hit is a lookup of what the store knows.
LEMMA LookupStep ==
    ASSUME Inv, NEW q \in Query, NEW t \in Readings,
           GetPrepared(q, t) \/ GetBuilt(q, t)
    PROVE  Store!Next
<1> DEFINE e == cache[q]
           ttl == ReplyTtl(e, t)
<1>1. q \in Held(cache) /\ ~MustDrop(e, t) /\ now' = now /\ loaded' = loaded
  BY DEF GetPrepared, GetBuilt, Live
<1>2. /\ cache \in Contents /\ e \in Entry /\ EntryCoherent(e) /\ e # Null
      /\ now \in Nat
  BY <1>1, InvParts DEF Balanced, Contents, Held
<1>3. t \in Nat /\ t \in Store!Readings
  BY <1>2 DEF Readings, Store!Readings
<1>4. reply' = ReplyTo(q, ttl, t)
  BY <1>2 DEF GetPrepared, GetBuilt, Reusable, EntryCoherent
<1>5. cache' = [cache EXCEPT ![q] = cache'[q]] /\ cache'[q] # Null
      /\ cache'[q].group = e.group /\ cache'[q].negative = e.negative
      /\ cache'[q].until = e.until
  <2>1. PICK f : /\ cache' = [cache EXCEPT ![q] = f]
                 /\ \/ f = [e EXCEPT !.replyTtl = ttl]
                    \/ \E kept \in Nat : f = Rebuilt(e, ttl, kept)
    <3>1. CASE GetPrepared(q, t)
      BY <3>1, ZenonT(30) DEF GetPrepared
    <3>2. CASE GetBuilt(q, t)
      <4> DEFINE kept == IF e.replyTtl = ttl /\ Fits(usage - e.preparedMem)
                         THEN ReplySize ELSE 0
      <4>1. kept \in Nat
        BY NumberAssumption
      <4>2. cache' = [cache EXCEPT ![q] = Rebuilt(e, ttl, kept)]
        BY <3>2 DEF GetBuilt
      <4> QED BY <4>1, <4>2, ZenonT(30)
    <3> QED BY <3>1, <3>2
  <2>2. f.group = e.group /\ f.negative = e.negative /\ f.until = e.until
    BY <1>2, <2>1, ZenonT(30) DEF Rebuilt, Entry
  <2>3. f # Null
    <3>1. ttl \in Nat
      <4>1. e.until \in Int /\ t \in Int /\ ExpiredReplyTtl \in Nat
        BY <1>2, <1>3, NumberAssumption DEF Entry
      <4>2. TtlAt(e, t) \in Nat
        <5> HIDE DEF e
        <5> QED BY <4>1 DEF TtlAt, SatSub
      <4> HIDE DEF e
      <4> QED BY <4>1, <4>2 DEF ReplyTtl
    <3>2. CASE f = [e EXCEPT !.replyTtl = ttl]
      <4>1. f \in Entry
        BY <1>2, <3>1, <3>2 DEF Entry
      <4> QED BY <4>1, EntryNotNull
    <3>3. ASSUME NEW kept \in Nat, f = Rebuilt(e, ttl, kept) PROVE f # Null
      <4>1. e.mem - e.preparedMem + kept \in Nat
        BY <1>2 DEF Entry, EntryCoherent
      <4>2. (IF kept > 0 THEN ttl ELSE 0) \in Nat
        BY <3>1
      <4> HIDE DEF e, ttl
      <4>3. f \in Entry
        BY <1>2, <3>1, <3>3, <4>1, <4>2, ZenonT(30) DEF Entry, Rebuilt
      <4> QED BY <4>3, EntryNotNull
    <3> QED BY <2>1, <3>2, <3>3
  <2>4. cache'[q] = f
    BY <1>2, <2>1 DEF Contents
  <2> QED BY <2>1, <2>2, <2>3, <2>4, ZenonT(30)
<1>6. Known' = Known
  <2>1. \A p \in Query \ {q} : cache'[p] = cache[p]
    BY <1>2, <1>5 DEF Contents
  <2>2. \A p \in Query \ {q} : Known'[p] = Known[p]
    BY <2>1, KnownAt, ZenonT(30)
  <2>3. Known'[q] = Known[q]
    BY <1>2, <1>5, KnownAt, ZenonT(30)
  <2>4. Known' = [p \in Query |-> Known'[p]] /\ Known = [p \in Query |-> Known[p]]
    BY DEF Known
  <2> QED BY <2>2, <2>3, <2>4
<1>7. /\ Known[q] # Null /\ Known[q].until = e.until
      /\ Known[q].negative = e.negative
  <2>1. Known[q] = [group |-> e.group, negative |-> e.negative, until |-> e.until]
    BY <1>2, KnownAt, ZenonT(30)
  <2>2. Known[q] \in Fact
    BY <1>2, <2>1 DEF Fact, Entry
  <2> QED BY <2>1, <2>2, NullAssumption
<1>8. e.until \in Nat /\ e.negative \in BOOLEAN
  BY <1>2 DEF Entry
<1> HIDE DEF e
<1>9. CASE t <= e.until
  <2>1. Status(e, t) = "Valid" /\ ttl = e.until - t
    BY <1>3, <1>8, <1>9 DEF Status, IsCurrent, ReplyTtl, TtlAt, SatSub
  <2> HIDE DEF ttl
  <2>2. reply' = Store!ValidReply(q, t)
    BY <1>4, <1>7, <2>1 DEF ReplyTo, Store!ValidReply, e
  <2>3. Store!LookupValid(q, t)
    BY <1>1, <1>6, <1>7, <1>9, <2>2 DEF Store!LookupValid
  <2> QED BY <1>3, <2>3 DEF Store!Next
<1>10. CASE ~(t <= e.until)
  <2>1. Status(e, t) = "Expired" /\ ttl = ExpiredReplyTtl
    BY <1>10 DEF Status, IsCurrent, ReplyTtl
  <2> HIDE DEF ttl
  <2>2. /\ e.negative = FALSE /\ ServeExpired
        /\ ExpiredTtl > 0 => t - e.until <= ExpiredTtl
    BY <1>1, <1>3, <1>8, <1>10, NumberAssumption DEF MustDrop, IsCurrent
  <2>3. reply' = Store!StaleReply(q, t)
    BY <1>4, <1>7, <2>1, <2>2, ZenonT(30) DEF ReplyTo, Store!StaleReply, e
  <2>4. e.until < t
    BY <1>3, <1>8, <1>10
  <2>5. Store!LookupStale(q, t)
    BY <1>1, <1>6, <1>7, <2>2, <2>3, <2>4 DEF Store!LookupStale
  <2> QED BY <1>3, <2>5 DEF Store!Next
<1> QED BY <1>9, <1>10

\* Marks are invisible to the store.
LEMMA MarkStep ==
    ASSUME cache \in Contents, now \in Nat, NEW q \in Query, NEW t \in Readings,
           FinishPrefetch(q, t) \/ BeginRefresh(q) \/ EndRefresh(q) \/ GetExpired(t)
    PROVE  Store!Next
<1>1. reply' = Null /\ now' = now /\ loaded' = loaded
  BY DEF FinishPrefetch, BeginRefresh, EndRefresh, GetExpired
<1>2. ASSUME NEW p \in Query
      PROVE  \/ cache'[p] = cache[p]
             \/ /\ cache[p] \in Entry
                /\ \/ cache'[p] = [cache[p] EXCEPT !.busy = TRUE]
                   \/ cache'[p] = [cache[p] EXCEPT !.busy = FALSE]
                   \/ cache'[p] = [cache[p] EXCEPT !.busy = FALSE,
                                               !.retry = t + Larger(PrefetchTime, 1)]
  <2>1. p \in Held(cache) => cache[p] \in Entry
    BY DEF Contents, Held
  <2>2. CASE GetExpired(t)
    <3>1. CASE p \in Due(t)
      BY <2>1, <2>2, <3>1 DEF GetExpired, Due, Live
    <3>2. CASE p \notin Due(t)
      BY <2>2, <3>2 DEF GetExpired
    <3> QED BY <3>1, <3>2
  <2>3. CASE FinishPrefetch(q, t)
    <3>1. CASE q \in Live /\ cache[q].busy /\ p = q
      BY <2>1, <2>3, <3>1 DEF FinishPrefetch, Live, Contents
    <3>2. CASE ~(q \in Live /\ cache[q].busy /\ p = q)
      BY <2>3, <3>2 DEF FinishPrefetch, Contents
    <3> QED BY <3>1, <3>2
  <2>4. CASE BeginRefresh(q)
    BY <2>1, <2>4, ZenonT(30) DEF BeginRefresh, MayBegin, Live, Contents
  <2>5. CASE EndRefresh(q)
    BY <2>1, <2>5, ZenonT(30) DEF EndRefresh, Live, Contents
  <2> QED BY <2>2, <2>3, <2>4, <2>5
<1>3. t + Larger(PrefetchTime, 1) \in Nat
  BY NumberAssumption DEF Readings, Larger
<1>4. ASSUME NEW p \in Query PROVE Known'[p] = Known[p]
  <2>1. CASE cache'[p] = cache[p]
    BY <2>1, KnownAt, ZenonT(30)
  <2>2. CASE cache'[p] # cache[p]
    <3> DEFINE e == cache[p]
               f == cache'[p]
    <3>1. /\ e \in Entry
          /\ \/ f = [e EXCEPT !.busy = TRUE]
             \/ f = [e EXCEPT !.busy = FALSE]
             \/ f = [e EXCEPT !.busy = FALSE, !.retry = t + Larger(PrefetchTime, 1)]
      BY <1>2, <2>2, ZenonT(30)
    <3> HIDE DEF e, f
    <3>2. f \in Entry /\ f.group = e.group /\ f.negative = e.negative /\ f.until = e.until
      BY <1>3, <3>1, ZenonT(30) DEF Entry
    <3>3. e # Null /\ f # Null
      BY <3>1, <3>2, EntryNotNull
    <3> QED BY <3>2, <3>3, KnownAt, ZenonT(30) DEF e, f
  <2> QED BY <2>1, <2>2
<1> QED BY <1>1, <1>4, ForgetStep

\* The load recalls saved answers, and may forget others.
LEMMA RecallStep ==
    ASSUME Inv, NEW S \in SUBSET Query, NEW saved \in [S -> Answer \X SavedUntil], Load(saved)
    PROVE  Store!Next
<1>0. cache \in Contents
  BY InvParts DEF Balanced
<1>1. ~loaded /\ loaded' = TRUE /\ reply' = Null /\ now' = now
  BY DEF Load
<1>2. PICK K : \E l, u : PopLruUntilItFits(KeepOnly(WithSaved(saved), K), l, u)
  BY DEF Load
<1>3. \A p \in Query : cache'[p] \in {Null, WithSaved(saved)[p]}
  BY <1>2 DEF PopLruUntilItFits, KeepOnly
<1>4. ASSUME NEW p \in Query
      PROVE  Known'[p] \in {Known[p], Null} \cup Store!SavedFact
  <2>1. CASE p \notin S \/ cache'[p] = Null
    <3>1. cache'[p] \in {cache[p], Null}
      BY <1>3, <2>1 DEF WithSaved
    <3> QED BY <3>1, KnownAt, ZenonT(30)
  <2>2. CASE p \in S /\ cache'[p] # Null
    <3>1. PICK a \in Answer, u \in SavedUntil : saved[p][1] = a /\ saved[p][2] = u
      BY <2>2
    <3>2. cache'[p] = NewEntry(a, u)
      BY <1>3, <2>2, <3>1 DEF WithSaved
    <3>3. /\ cache'[p].group = a.group /\ cache'[p].negative = a.negative
          /\ cache'[p].until = u
      <4>1. /\ NewEntry(a, u).group = a.group /\ NewEntry(a, u).negative = a.negative
            /\ NewEntry(a, u).until = u
        BY DEF NewEntry
      <4> QED BY <3>2, <4>1
    <3>4. Known'[p] = [group |-> a.group, negative |-> a.negative, until |-> u]
      BY <2>2, <3>3, KnownAt, ZenonT(30)
    <3> QED BY <3>4 DEF Store!SavedFact
  <2> QED BY <2>1, <2>2
<1>5. Known' = [p \in Query |-> Known'[p]]
  BY DEF Known
<1>6. Known' \in [Query -> {Known[p] : p \in Query} \cup {Null} \cup Store!SavedFact]
  BY <1>4, <1>5
<1>7. Store!Recall
  BY <1>1, <1>4, <1>6 DEF Store!Recall
<1> QED BY <1>7 DEF Store!Next

\* The cache implements AnswerStore: its initial state maps to the empty
\* store and each of its operations to a step of the store, or to none.
THEOREM CacheImplementsStore == Spec => ImplementsAnswerStore
<1>1. Init => Store!Init
  <2> SUFFICES ASSUME Init PROVE Store!Init
    OBVIOUS
  <2>1. Known = [q \in Query |-> Null]
    BY DEF Init, Known
  <2> QED BY <2>1 DEF Init, Store!Init
<1>2. Inv /\ [Next]_vars => [Store!Next]_(Store!vars)
  <2> SUFFICES ASSUME Inv, [Next]_vars PROVE [Store!Next]_(Store!vars)
    OBVIOUS
  <2>0. cache \in Contents /\ now \in Nat
    BY InvParts DEF Balanced
  <2>1. CASE Tick
    <3>1. Known' = Known
      BY <2>1 DEF Tick, cacheVars, Known
    <3>2. Store!Elapse
      BY <2>1, <3>1 DEF Tick, Store!Elapse, cacheVars
    <3> QED BY <3>2 DEF Store!Next
  <2>2. ASSUME NEW q \in Query, NEW a \in Answer, NEW ttl \in Ttl, NEW t \in Readings,
               InsertResponse(q, a, ttl, t)
        PROVE  Store!Next
    BY <2>2, LearnStep
  <2>3. ASSUME NEW q \in Query, NEW t \in Readings, Get(q, t) PROVE Store!Next
    <3>1. CASE GetMiss(q)
      <4>1. \A p \in Query : Known'[p] \in {Known[p], Null}
        BY <3>1, KnownAt, ZenonT(30) DEF GetMiss, cacheVars
      <4> QED BY <3>1, <4>1, ForgetStep DEF GetMiss, cacheVars
    <3>2. CASE GetDrop(q, t)
      <4>1. \A p \in Query : cache'[p] \in {cache[p], Null}
        BY <2>0, <3>2 DEF GetDrop, Contents
      <4>2. \A p \in Query : Known'[p] \in {Known[p], Null}
        BY <4>1, KnownAt, ZenonT(30)
      <4> QED BY <3>2, <4>2, ForgetStep DEF GetDrop
    <3>3. CASE GetPrepared(q, t) \/ GetBuilt(q, t)
      BY <3>3, LookupStep
    <3> QED BY <2>3, <3>1, <3>2, <3>3 DEF Get
  <2>4. CASE Flush
    <3>1. \A p \in Query : Known'[p] \in {Known[p], Null}
      BY <2>4, KnownAt, ZenonT(30) DEF Flush
    <3> QED BY <2>4, <3>1, ForgetStep DEF Flush
  <2>5. ASSUME NEW t \in Readings, GetExpired(t) PROVE [Store!Next]_(Store!vars)
    <3>1. CASE Query = {}
      <4>1. Known' = Known
        BY <3>1 DEF Known
      <4>2. \A p \in Query : Known'[p] \in {Known[p], Null}
        BY <3>1
      <4> QED BY <2>5, <4>2, ForgetStep DEF GetExpired
    <3>2. CASE Query # {}
      BY <2>0, <2>5, <3>2, MarkStep
    <3> QED BY <3>1, <3>2
  <2>6. ASSUME NEW q \in Query, NEW t \in Readings, FinishPrefetch(q, t) PROVE Store!Next
    BY <2>0, <2>6, MarkStep
  <2>7. ASSUME NEW q \in Query, BeginRefresh(q) \/ EndRefresh(q) PROVE Store!Next
    <3>1. now \in Readings
      BY NumberAssumption, InvParts DEF Readings
    <3> QED BY <2>0, <2>7, <3>1, MarkStep
  <2>9. ASSUME NEW S \in SUBSET Query, NEW saved \in [S -> Answer \X SavedUntil], Load(saved)
        PROVE  Store!Next
    BY <2>9, RecallStep
  <2>8. CASE UNCHANGED vars
    <3>1. Known' = Known
      BY <2>8 DEF vars, Known
    <3> QED BY <2>8, <3>1 DEF vars, Store!vars
  <2> QED BY <2>1, <2>2, <2>3, <2>4, <2>5, <2>6, <2>7, <2>8, <2>9 DEF Next
<1> QED BY <1>1, <1>2, CacheInvariant, PTL DEF Spec, ImplementsAnswerStore, Store!Spec
=============================================================================
