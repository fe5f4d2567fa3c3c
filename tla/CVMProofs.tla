----------------------------- MODULE CVMProofs -----------------------------
(***************************************************************************)
(* Proofs about the page store, for every set of agents and contents, all  *)
(* page sizes and all bounds.                                              *)
(***************************************************************************)
EXTENDS CVM, FiniteSetTheorems, SequenceTheorems, TLAPS

(***************************************************************************)
(* Filtering a table.                                                      *)
(***************************************************************************)

\* The rank of a kept index counts the kept indices up to it: ranks number
\* the kept indices 1, 2, ... in order, without gaps.
LEMMA RankNumbersKept ==
    ASSUME NEW n \in Nat, NEW K \in SUBSET (1..n)
    PROVE  /\ IsFiniteSet(K)
           /\ Cardinality(K) \in Nat
           /\ \A i \in K : Rank(K, i) \in 1..Cardinality(K)
           /\ \A i, k \in K : i < k => Rank(K, i) < Rank(K, k)
           /\ \A j \in 1..Cardinality(K) : \E i \in K : Rank(K, i) = j
<1>1. IsFiniteSet(K) /\ Cardinality(K) \in Nat
  <2>1. IsFiniteSet(1..n)
    BY FS_Interval
  <2> QED
    BY <2>1, FS_Subset, FS_CardinalityType
<1>2. ASSUME NEW i \in K
      PROVE  Rank(K, i) \in 1..Cardinality(K)
  <2> DEFINE B == {k \in K : k <= i}
  <2>1. B \in SUBSET K
    OBVIOUS
  <2>2. IsFiniteSet(B) /\ Cardinality(B) <= Cardinality(K)
    BY <1>1, <2>1, FS_Subset
  <2>3. Cardinality(B) \in Nat
    BY <2>2, FS_CardinalityType
  <2>4. i \in B
    OBVIOUS
  <2>5. Cardinality(B) # 0
    BY <2>2, <2>4, FS_EmptySet
  <2> QED
    BY <1>1, <2>2, <2>3, <2>5 DEF Rank
<1>3. ASSUME NEW i \in K, NEW k \in K, i < k
      PROVE  Rank(K, i) < Rank(K, k)
  <2> DEFINE B == {m \in K : m <= i}
             C == {m \in K : m <= k}
  <2>a. \A m \in K : m \in Int
    OBVIOUS
  <2>b. \A m \in K : m <= i => m <= k
    BY <1>3, <2>a
  <2>1. C \in SUBSET K /\ B \in SUBSET C
    BY <2>b
  <2>2. IsFiniteSet(C)
    BY <1>1, <2>1, FS_Subset
  <2>3. IsFiniteSet(B) /\ Cardinality(B) <= Cardinality(C)
        /\ (Cardinality(C) = Cardinality(B) => C = B)
    BY <2>1, <2>2, FS_Subset
  <2>4. Cardinality(B) \in Nat /\ Cardinality(C) \in Nat
    BY <2>2, <2>3, FS_CardinalityType
  <2>5. k \in C /\ k \notin B
    BY <1>3
  <2> QED
    BY <2>3, <2>4, <2>5 DEF Rank
<1>4. ASSUME NEW j \in 1..Cardinality(K)
      PROVE  \E i \in K : Rank(K, i) = j
  <2> DEFINE T == 1..Cardinality(K)
             f == [i \in K |-> Rank(K, i)]
  <2>1. f \in [K -> T]
    BY <1>2
  <2>2. \A i, k \in K : f[i] = f[k] => i = k
    <3> SUFFICES ASSUME NEW i \in K, NEW k \in K, i # k
                 PROVE  f[i] # f[k]
      OBVIOUS
    <3>1. i < k \/ k < i
      OBVIOUS
    <3>2. Rank(K, i) \in Nat /\ Rank(K, k) \in Nat
      BY <1>1, <1>2
    <3> QED
      BY <1>3, <3>1, <3>2
  <2>3. f \in Injection(K, T)
    BY <2>1, <2>2 DEF Injection, IsInjective
  <2>4. IsFiniteSet(T) /\ Cardinality(T) = Cardinality(K)
    BY <1>1, FS_Interval
  <2>5. f \in Surjection(K, T)
    BY <2>3, <2>4, FS_Injection
  <2> QED
    BY <2>5 DEF Surjection
<1> QED
  BY <1>1, <1>2, <1>3, <1>4

\* removeString keeps exactly the entries that are not removed, keeps their
\* order, and keeps a table without duplicates free of them.
LEMMA WithoutFilters ==
    ASSUME NEW S, NEW t \in Seq(S), NEW V
    PROVE  /\ Without(t, V) \in Seq(S)
           /\ EntriesOf(Without(t, V)) = EntriesOf(t) \ V
           /\ \A m, n \in DOMAIN Without(t, V) : m < n =>
                 \E i, k \in DOMAIN t : /\ i < k
                                        /\ Without(t, V)[m] = t[i]
                                        /\ Without(t, V)[n] = t[k]
<1> DEFINE K == KeptIndices(t, V)
           N == Cardinality(K)
           at(j) == CHOOSE i \in K : Rank(K, i) = j
           w == Without(t, V)
<1>1. Len(t) \in Nat /\ DOMAIN t = 1..Len(t) /\ \A i \in 1..Len(t) : t[i] \in S
  BY LenProperties, ElementOfSeq
<1>2. K \in SUBSET (1..Len(t))
  BY <1>1 DEF KeptIndices
<1>3. /\ N \in Nat
      /\ \A i \in K : Rank(K, i) \in 1..N
      /\ \A i, k \in K : i < k => Rank(K, i) < Rank(K, k)
      /\ \A j \in 1..N : \E i \in K : Rank(K, i) = j
  BY <1>1, <1>2, RankNumbersKept
<1>4. w = [j \in 1..N |-> t[at(j)]]
  BY DEF Without
<1> HIDE DEF w
<1>5. \A j \in 1..N : at(j) \in K /\ Rank(K, at(j)) = j
  BY <1>3
<1>6. \A i \in K : at(Rank(K, i)) = i
  <2> SUFFICES ASSUME NEW i \in K, at(Rank(K, i)) # i
               PROVE  FALSE
    OBVIOUS
  <2> DEFINE k == at(Rank(K, i))
  <2>1. k \in K /\ Rank(K, k) = Rank(K, i) /\ Rank(K, i) \in Nat
    BY <1>3, <1>5
  <2> HIDE DEF k
  <2>2. k < i \/ i < k
    BY <1>2, <2>1 DEF k
  <2> QED
    BY <1>3, <2>1, <2>2
<1> HIDE DEF at
<1>7. w \in Seq(S)
  <2>1. \A j \in 1..N : t[at(j)] \in S
    BY <1>1, <1>2, <1>5
  <2> QED
    BY <1>3, <1>4, <2>1, IsASeq
<1>8. EntriesOf(w) = EntriesOf(t) \ V
  <2>1. DOMAIN w = 1..N /\ \A j \in 1..N : w[j] = t[at(j)]
    BY <1>4
  <2>2. EntriesOf(t) \ V = {t[i] : i \in K}
    BY DEF EntriesOf, KeptIndices
  <2>3. ASSUME NEW x \in EntriesOf(w) PROVE x \in {t[i] : i \in K}
    BY <1>5, <2>1, <2>3 DEF EntriesOf
  <2>4. ASSUME NEW i \in K PROVE t[i] \in EntriesOf(w)
    BY <1>3, <1>6, <2>1 DEF EntriesOf
  <2> QED
    BY <2>2, <2>3, <2>4
<1>9. ASSUME NEW m \in DOMAIN w, NEW n \in DOMAIN w, m < n
      PROVE  \E i, k \in DOMAIN t : i < k /\ w[m] = t[i] /\ w[n] = t[k]
  <2>1. m \in 1..N /\ n \in 1..N /\ w[m] = t[at(m)] /\ w[n] = t[at(n)]
    BY <1>4
  <2>2. /\ at(m) \in K /\ at(n) \in K
        /\ Rank(K, at(m)) = m /\ Rank(K, at(n)) = n
    BY <1>5, <2>1
  <2>3. at(m) \in 1..Len(t) /\ at(n) \in 1..Len(t)
    BY <1>2, <2>2
  <2>4. at(m) < at(n)
    <3> SUFFICES ASSUME ~(at(m) < at(n)) PROVE FALSE
      OBVIOUS
    <3>1. at(n) < at(m) \/ at(n) = at(m)
      BY <2>3
    <3>2. CASE at(n) < at(m)
      BY <1>3, <1>9, <2>1, <2>2, <3>2
    <3>3. CASE at(n) = at(m)
      BY <1>3, <1>9, <2>1, <2>2, <3>3
    <3> QED
      BY <3>1, <3>2, <3>3
  <2> QED
    BY <1>1, <2>1, <2>3, <2>4
<1> QED
  BY <1>7, <1>8, <1>9 DEF w

-----------------------------------------------------------------------------
(***************************************************************************)
(* The inductive invariant.                                                *)
(***************************************************************************)
IInv == /\ TypeOK
        /\ TablesResident
        /\ OwnersMatchTables
        /\ TableEntriesUnique
        /\ ContentIntact

\* The empty store satisfies the invariant.
LEMMA InitIInv == Init => IInv
<1> SUFFICES ASSUME Init PROVE IInv
  OBVIOUS
<1>1. DOMAIN pages = {} /\ pages \in [DOMAIN pages -> Page]
  BY DEF Init
<1>2. pageTables \in [Tables -> Seq(Contents)] /\ \A a \in Tables : pageTables[a] = <<>>
  BY DEF Init
<1>3. \A a \in Tables : DOMAIN pageTables[a] = {}
  BY <1>2
<1> QED
  BY <1>1, <1>2, <1>3 DEF Init, IInv, TypeOK, TablesResident, OwnersMatchTables,
     TableEntriesUnique, ContentIntact, EntriesOf

\* A step that keeps the tables and the set of pages, and changes of a page
\* only its counters, pin and time, preserves the invariant (TouchPage,
\* PinPage, Materialize and CreatePage of a known page).
LEMMA SameContentsStep ==
    ASSUME IInv, UNCHANGED <<pageTables, now>>,
           pages' \in [DOMAIN pages -> Page],
           \A id \in DOMAIN pages :
              /\ pages'[id].content = pages[id].content
              /\ pages'[id].compressed = pages[id].compressed
              /\ pages'[id].data = pages[id].data
              /\ pages'[id].owners = pages[id].owners
    PROVE  IInv'
<1>1. DOMAIN pages' = DOMAIN pages
  OBVIOUS
<1>2. TypeOK' /\ TablesResident' /\ TableEntriesUnique'
  BY <1>1 DEF IInv, TypeOK, TablesResident, TableEntriesUnique
<1>3. OwnersMatchTables'
  BY <1>1 DEF IInv, OwnersMatchTables, Mounted
<1>4. ContentIntact'
  BY <1>1 DEF IInv, ContentIntact, materializedContent
<1> QED
  BY <1>2, <1>3, <1>4 DEF IInv

\* CreatePage preserves the invariant.
LEMMA CreatePageIInv ==
    ASSUME IInv, NEW c \in Contents, CreatePage(c)
    PROVE  IInv'
<1>1. CASE c \in DOMAIN pages
  <2>1. pages' = [pages EXCEPT ![c].refCount = @ + 1] /\ UNCHANGED <<pageTables, now>>
    BY <1>1 DEF CreatePage
  <2>2. pages[c] \in Page /\ pages \in [DOMAIN pages -> Page]
    BY <1>1 DEF IInv, TypeOK
  <2> DEFINE q == [pages[c] EXCEPT !.refCount = pages[c].refCount + 1]
  <2>3. /\ q \in Page
        /\ q.content = pages[c].content /\ q.compressed = pages[c].compressed
        /\ q.data = pages[c].data /\ q.owners = pages[c].owners
    BY <2>2 DEF Page
  <2>4. pages' = [pages EXCEPT ![c] = q]
    BY <2>1
  <2> HIDE DEF q
  <2>5. pages' \in [DOMAIN pages -> Page]
    BY <2>2, <2>3, <2>4
  <2> QED
    BY <1>1, <2>1, <2>2, <2>3, <2>4, <2>5, SameContentsStep
<1>2. CASE c \notin DOMAIN pages
  <2>1. pages' = Put(pages, c, NewPage(c)) /\ UNCHANGED <<pageTables, now>>
    BY <1>2 DEF CreatePage
  <2>2. NewPage(c) \in Page
    BY DEF IInv, TypeOK, NewPage, Page
  <2>3. /\ DOMAIN pages' = DOMAIN pages \cup {c}
        /\ pages'[c] = NewPage(c)
        /\ \A id \in DOMAIN pages : pages'[id] = pages[id]
    BY <1>2, <2>1 DEF Put
  <2>4. TypeOK'
    BY <2>1, <2>2, <2>3 DEF IInv, TypeOK, Put
  <2>5. TablesResident' /\ TableEntriesUnique'
    BY <2>1, <2>3 DEF IInv, TablesResident, TableEntriesUnique
  <2>6. OwnersMatchTables'
    <3>1. pages'[c].owners = {} /\ \A a \in Agents : ~Mounted(a, c)
      BY <1>2, <2>3 DEF NewPage, IInv, TablesResident, Mounted, Tables
    <3> QED
      BY <2>1, <2>3, <3>1 DEF IInv, OwnersMatchTables, Mounted
  <2>7. ContentIntact'
    BY <2>3 DEF IInv, ContentIntact, materializedContent, NewPage
  <2> QED
    BY <2>4, <2>5, <2>6, <2>7 DEF IInv
<1> QED
  BY <1>1, <1>2

\* The record updates of the store's methods stay within Page.
LEMMA PageUpdates ==
    ASSUME NEW p \in Page, NEW r \in Nat, NEW o \in SUBSET Agents,
           NEW n \in Nat, NEW l \in Nat
    PROVE  /\ [p EXCEPT !.accessCount = n, !.lastAccess = l] \in Page
           /\ [p EXCEPT !.refCount = r, !.owners = o] \in Page
           /\ [p EXCEPT !.refCount = r, !.owners = o,
                        !.accessCount = n, !.lastAccess = l] \in Page
  BY DEF Page

\* MountPage preserves the invariant.
LEMMA MountPageIInv ==
    ASSUME IInv, NEW a \in Tables, NEW id \in Contents, MountPage(a, id)
    PROVE  IInv'
<1>0. id \in DOMAIN pages /\ now' = now
  BY DEF MountPage
<1>1. CASE Mounted(a, id)
  <2>1. UNCHANGED <<pages, pageTables, now>>
    BY <1>1 DEF MountPage
  <2> QED
    BY <2>1 DEF IInv, TypeOK, TablesResident, OwnersMatchTables, TableEntriesUnique,
       ContentIntact, Mounted, materializedContent
<1>2. CASE ~Mounted(a, id)
  <2> DEFINE t == pageTables[a]
             p == pages[id]
  <2>1. /\ pageTables' = [pageTables EXCEPT ![a] = Append(t, id)]
        /\ pages' = [pages EXCEPT ![id] =
                        [p EXCEPT !.refCount = p.refCount + 1,
                                  !.owners = appendUniqueString(p.owners, a),
                                  !.accessCount = p.accessCount + 1,
                                  !.lastAccess = now]]
    BY <1>2 DEF MountPage
  <2>2. t \in Seq(Contents) /\ p \in Page /\ pages \in [DOMAIN pages -> Page]
    BY <1>0 DEF IInv, TypeOK
  <2>3. appendUniqueString(p.owners, a) \in SUBSET Agents
    BY <2>2 DEF appendUniqueString, Tables, Page
  <2>4. DOMAIN pages' = DOMAIN pages /\ pages' \in [DOMAIN pages -> Page]
    <3> DEFINE q == [p EXCEPT !.refCount = p.refCount + 1,
                              !.owners = appendUniqueString(p.owners, a),
                              !.accessCount = p.accessCount + 1,
                              !.lastAccess = now]
    <3>1. now \in Nat
      BY DEF IInv, TypeOK
    <3>2. q \in Page
      <4>1. p.refCount + 1 \in Nat /\ p.accessCount + 1 \in Nat
        BY <2>2 DEF Page
      <4> QED
        BY <2>2, <2>3, <3>1, <4>1, PageUpdates
    <3>3. pages' = [pages EXCEPT ![id] = q]
      BY <2>1
    <3> HIDE DEF q
    <3> QED
      BY <2>2, <3>2, <3>3
  <2>5. /\ Append(t, id) \in Seq(Contents)
        /\ DOMAIN Append(t, id) = 1..(Len(t) + 1)
        /\ Append(t, id)[Len(t) + 1] = id
        /\ \A i \in 1..Len(t) : Append(t, id)[i] = t[i]
        /\ Len(t) \in Nat /\ DOMAIN t = 1..Len(t)
    BY <2>2, AppendProperties, LenProperties
  <2>6. EntriesOf(Append(t, id)) = EntriesOf(t) \cup {id}
    <3>1. \A x \in EntriesOf(Append(t, id)) : x \in EntriesOf(t) \cup {id}
      BY <2>5 DEF EntriesOf
    <3>2. \A x \in EntriesOf(t) \cup {id} : x \in EntriesOf(Append(t, id))
      BY <2>5 DEF EntriesOf
    <3> QED
      BY <3>1, <3>2
  <2>7. /\ pageTables' \in [Tables -> Seq(Contents)]
        /\ pageTables'[a] = Append(t, id)
        /\ \A b \in Tables \ {a} : pageTables'[b] = pageTables[b]
    BY <2>1, <2>5 DEF IInv, TypeOK
  <2>8. TypeOK'
    BY <1>0, <2>4, <2>7 DEF IInv, TypeOK
  <2>9. TablesResident'
    BY <1>0, <2>4, <2>6, <2>7 DEF IInv, TablesResident
  <2>10. OwnersMatchTables'
    <3> SUFFICES ASSUME NEW x \in DOMAIN pages, NEW b \in Agents
                 PROVE  b \in pages'[x].owners <=> x \in EntriesOf(pageTables'[b])
      BY <2>4 DEF OwnersMatchTables, Mounted
    <3>1. b \in Tables /\ b # NoAgent
      BY CVMAssumption DEF Tables
    <3>2. b \in pages[x].owners <=> x \in EntriesOf(pageTables[b])
      BY DEF IInv, OwnersMatchTables, Mounted
    <3>3. CASE x # id
      BY <2>1, <2>6, <2>7, <3>1, <3>2, <3>3
    <3>4. CASE x = id
      <4>1. pages'[x].owners = p.owners \cup ({a} \ {NoAgent})
        BY <1>0, <2>1, <2>2, <3>4 DEF appendUniqueString, Page
      <4> QED
        BY <2>6, <2>7, <3>1, <3>2, <3>4, <4>1
    <3> QED
      BY <3>3, <3>4
  <2>11. TableEntriesUnique'
    <3> SUFFICES ASSUME NEW b \in Tables,
                        NEW i \in DOMAIN pageTables'[b], NEW j \in DOMAIN pageTables'[b],
                        pageTables'[b][i] = pageTables'[b][j]
                 PROVE  i = j
      BY DEF TableEntriesUnique
    <3>1. CASE b # a
      BY <2>7, <3>1 DEF IInv, TableEntriesUnique
    <3>2. CASE b = a
      <4>1. \A k \in 1..Len(t) : t[k] # id
        BY <1>2, <2>5 DEF Mounted, EntriesOf
      <4>2. \A k, l \in 1..Len(t) : t[k] = t[l] => k = l
        BY <2>5 DEF IInv, TableEntriesUnique
      <4>3. i \in 1..(Len(t) + 1) /\ j \in 1..(Len(t) + 1)
            /\ Append(t, id)[i] = Append(t, id)[j]
        BY <2>5, <2>7, <3>2
      <4>4. \A k \in 1..(Len(t) + 1) : k \in 1..Len(t) \/ k = Len(t) + 1
        BY <2>5
      <4> QED
        BY <2>5, <4>1, <4>2, <4>3, <4>4
    <3> QED
      BY <3>1, <3>2
  <2>12. ContentIntact'
    <3>1. \A x \in DOMAIN pages : /\ pages'[x].content = pages[x].content
                                  /\ pages'[x].compressed = pages[x].compressed
                                  /\ pages'[x].data = pages[x].data
      BY <2>1, <2>2 DEF Page
    <3> QED
      BY <2>4, <3>1 DEF IInv, ContentIntact, materializedContent
  <2> QED
    BY <2>8, <2>9, <2>10, <2>11, <2>12 DEF IInv
<1> QED
  BY <1>1, <1>2

\* Materialize, TouchPage and PinPage preserve the invariant.
LEMMA AccessIInv ==
    ASSUME IInv, \/ \E a \in Tables : Materialize(a)
                 \/ \E id \in Contents : TouchPage(id) \/ PinPage(id)
    PROVE  IInv'
<1>1. now \in Nat /\ pages \in [DOMAIN pages -> Page]
  BY DEF IInv, TypeOK
<1>2. \A id \in DOMAIN pages : pages[id] \in Page /\ pages[id].accessCount + 1 \in Nat
  BY <1>1 DEF Page
<1> DEFINE q(id) == [pages[id] EXCEPT !.accessCount = pages[id].accessCount + 1,
                                      !.lastAccess = now]
           r(id) == [pages[id] EXCEPT !.pinned = TRUE]
<1>3. \A id \in DOMAIN pages :
         /\ q(id) \in Page
         /\ q(id).content = pages[id].content /\ q(id).compressed = pages[id].compressed
         /\ q(id).data = pages[id].data /\ q(id).owners = pages[id].owners
  <2> SUFFICES ASSUME NEW id \in DOMAIN pages
               PROVE  /\ q(id) \in Page
                      /\ q(id).content = pages[id].content
                      /\ q(id).compressed = pages[id].compressed
                      /\ q(id).data = pages[id].data
                      /\ q(id).owners = pages[id].owners
    OBVIOUS
  <2>1. q(id) \in Page
    BY <1>1, <1>2, PageUpdates
  <2>2. /\ q(id).content = pages[id].content /\ q(id).compressed = pages[id].compressed
        /\ q(id).data = pages[id].data /\ q(id).owners = pages[id].owners
    BY <1>2 DEF Page
  <2> QED
    BY <2>1, <2>2
<1>4. \A id \in DOMAIN pages :
         /\ r(id) \in Page
         /\ r(id).content = pages[id].content /\ r(id).compressed = pages[id].compressed
         /\ r(id).data = pages[id].data /\ r(id).owners = pages[id].owners
  BY <1>2 DEF Page
<1>5. CASE \E a \in Tables : Materialize(a)
  <2> PICK a \in Tables : Materialize(a)
    BY <1>5
  <2>1. /\ pages' = [id \in DOMAIN pages |-> IF Mounted(a, id) THEN q(id) ELSE pages[id]]
        /\ UNCHANGED <<pageTables, now>>
    BY DEF Materialize
  <2> HIDE DEF q
  <2> QED
    BY <1>2, <1>3, <2>1, SameContentsStep
<1>6. CASE \E id \in Contents : TouchPage(id)
  <2> PICK id \in Contents : TouchPage(id)
    BY <1>6
  <2>1. /\ id \in DOMAIN pages /\ pages' = [pages EXCEPT ![id] = q(id)]
        /\ UNCHANGED <<pageTables, now>>
    BY DEF TouchPage
  <2> HIDE DEF q
  <2> QED
    BY <1>1, <1>3, <2>1, SameContentsStep
<1>7. CASE \E id \in Contents : PinPage(id)
  <2> PICK id \in Contents : PinPage(id)
    BY <1>7
  <2>1. /\ id \in DOMAIN pages /\ pages' = [pages EXCEPT ![id] = r(id)]
        /\ UNCHANGED <<pageTables, now>>
    BY DEF PinPage
  <2> HIDE DEF r
  <2> QED
    BY <1>1, <1>4, <2>1, SameContentsStep
<1> QED
  BY <1>5, <1>6, <1>7

\* Tables from which the same pages were filtered keep their entries unique.
LEMMA WithoutUnique ==
    ASSUME NEW t \in Seq(Contents), NEW V,
           \A i, j \in DOMAIN t : t[i] = t[j] => i = j
    PROVE  \A m, n \in DOMAIN Without(t, V) :
              Without(t, V)[m] = Without(t, V)[n] => m = n
<1> DEFINE w == Without(t, V)
<1>1. /\ w \in Seq(Contents)
      /\ \A m, n \in DOMAIN w : m < n =>
            \E i, k \in DOMAIN t : i < k /\ w[m] = t[i] /\ w[n] = t[k]
  BY WithoutFilters
<1> HIDE DEF w
<1>2. DOMAIN w = 1..Len(w) /\ Len(w) \in Nat /\ DOMAIN t = 1..Len(t) /\ Len(t) \in Nat
  BY <1>1, LenProperties
<1>3. \A m, n \in DOMAIN w : m < n => w[m] # w[n]
  BY <1>1, <1>2
<1>4. \A m, n \in DOMAIN w : w[m] = w[n] => m = n
  BY <1>2, <1>3
<1> QED
  BY <1>4 DEF w

\* ReleasePage preserves the invariant.
LEMMA ReleasePageIInv ==
    ASSUME IInv, NEW a \in Tables, NEW id \in Contents, ReleasePage(a, id)
    PROVE  IInv'
<1> DEFINE p == pages[id]
           q == [p EXCEPT !.refCount = Dropped(p.refCount), !.owners = p.owners \ {a}]
           t == pageTables[a]
<1>1. id \in DOMAIN pages /\ now' = now /\ pages' = [pages EXCEPT ![id] = q]
  BY DEF ReleasePage
<1>2. p \in Page /\ pages \in [DOMAIN pages -> Page] /\ t \in Seq(Contents)
  BY <1>1 DEF IInv, TypeOK
<1>3. Dropped(p.refCount) \in Nat /\ p.owners \ {a} \in SUBSET Agents
  BY <1>2 DEF Dropped, Page
<1>4. /\ q \in Page
      /\ q.content = p.content /\ q.compressed = p.compressed
      /\ q.data = p.data /\ q.owners = p.owners \ {a}
  BY <1>2, <1>3, PageUpdates DEF Page
<1> HIDE DEF q
<1>5. DOMAIN pages' = DOMAIN pages /\ pages' \in [DOMAIN pages -> Page]
  BY <1>1, <1>2, <1>4
<1>6. ContentIntact'
  <2>1. \A x \in DOMAIN pages : /\ pages'[x].content = pages[x].content
                                /\ pages'[x].compressed = pages[x].compressed
                                /\ pages'[x].data = pages[x].data
    BY <1>1, <1>4
  <2> QED
    BY <1>5, <2>1 DEF IInv, ContentIntact, materializedContent
<1>7. CASE a = NoAgent
  <2>1. pageTables' = pageTables
    BY <1>7 DEF ReleasePage
  <2>2. q.owners = p.owners
    BY <1>2, <1>4, <1>7, CVMAssumption DEF Page
  <2>3. \A x \in DOMAIN pages : pages'[x].owners = pages[x].owners
    BY <1>1, <2>2
  <2> QED
    BY <1>1, <1>5, <1>6, <2>1, <2>3
    DEF IInv, TypeOK, TablesResident, TableEntriesUnique, OwnersMatchTables, Mounted
<1>8. CASE a # NoAgent
  <2>1. pageTables' = [pageTables EXCEPT ![a] = Without(t, {id})]
    BY <1>8 DEF ReleasePage
  <2>2. Without(t, {id}) \in Seq(Contents) /\ EntriesOf(Without(t, {id})) = EntriesOf(t) \ {id}
    BY <1>2, WithoutFilters
  <2>3. /\ pageTables' \in [Tables -> Seq(Contents)]
        /\ pageTables'[a] = Without(t, {id})
        /\ \A b \in Tables \ {a} : pageTables'[b] = pageTables[b]
    BY <2>1, <2>2 DEF IInv, TypeOK
  <2>4. TypeOK'
    BY <1>1, <1>5, <2>3 DEF IInv, TypeOK
  <2>5. TablesResident'
    BY <1>5, <2>2, <2>3 DEF IInv, TablesResident
  <2>6. OwnersMatchTables'
    <3> SUFFICES ASSUME NEW x \in DOMAIN pages, NEW b \in Agents
                 PROVE  b \in pages'[x].owners <=> x \in EntriesOf(pageTables'[b])
      BY <1>5 DEF OwnersMatchTables, Mounted
    <3>1. b \in Tables /\ (b \in pages[x].owners <=> x \in EntriesOf(pageTables[b]))
      BY DEF IInv, OwnersMatchTables, Mounted, Tables
    <3>2. pages'[x].owners = IF x = id THEN p.owners \ {a} ELSE pages[x].owners
      BY <1>1, <1>4
    <3> QED
      BY <2>2, <2>3, <3>1, <3>2
  <2>7. TableEntriesUnique'
    <3>1. \A m, n \in DOMAIN Without(t, {id}) :
             Without(t, {id})[m] = Without(t, {id})[n] => m = n
      BY <1>2, WithoutUnique DEF IInv, TableEntriesUnique
    <3> QED
      BY <2>3, <3>1 DEF IInv, TableEntriesUnique
  <2> QED
    BY <1>6, <2>4, <2>5, <2>6, <2>7 DEF IInv
<1> QED
  BY <1>7, <1>8

\* CompressColdPages preserves the invariant: the codec is chosen so that
\* the length of the stored bytes tells which one was used.
LEMMA CompressIInv ==
    ASSUME IInv, NEW n, CompressColdPages(n)
    PROVE  IInv'
<1> DEFINE q(id) == [pages[id] EXCEPT !.data = gzipBytes(pages[id].content),
                                      !.compressed = TRUE, !.content = Empty]
<1>1. /\ pages' = [id \in DOMAIN pages |-> IF Cold(id, n) THEN q(id) ELSE pages[id]]
      /\ UNCHANGED <<pageTables, now>>
  BY DEF CompressColdPages
<1>2. \A id \in DOMAIN pages : pages[id] \in Page /\ id \in Contents
  BY DEF IInv, TypeOK
<1>3. ASSUME NEW id \in DOMAIN pages, Cold(id, n)
      PROVE  /\ q(id) \in Page
             /\ q(id).owners = pages[id].owners
             /\ materializedContent(id, q(id)) = id
  <2>1. pages[id].content = id /\ id \in Contents
    BY <1>2, <1>3 DEF IInv, ContentIntact, materializedContent, Cold
  <2>2. gzipBytes(id) \in Data
    BY <2>1 DEF gzipBytes, Data
  <2>3. q(id) = [pages[id] EXCEPT !.data = gzipBytes(id), !.compressed = TRUE, !.content = Empty]
    BY <2>1
  <2>4. /\ q(id) \in Page /\ q(id).owners = pages[id].owners
        /\ q(id).data = gzipBytes(id) /\ q(id).compressed = TRUE
    BY <1>2, <2>2, <2>3 DEF Page
  <2>5. /\ gzipBytes(id).of = id
        /\ gzipBytes(id).enc = IF GzipBytes[id] >= Bytes[id] THEN "raw" ELSE "gzip"
    BY DEF gzipBytes
  <2>6. GzipBytes[id] \in Nat /\ Bytes[id] \in Nat
    BY <2>1, CVMAssumption
  <2>7. materializedContent(id, q(id)) = id
    <3> HIDE DEF q
    <3>1. CASE GzipBytes[id] >= Bytes[id]
      BY <2>4, <2>5, <3>1 DEF materializedContent, DataLen
    <3>2. CASE GzipBytes[id] < Bytes[id]
      BY <2>4, <2>5, <2>6, <3>2 DEF materializedContent, DataLen
    <3> QED
      BY <2>6, <3>1, <3>2
  <2> QED
    BY <2>4, <2>7
<1> HIDE DEF q
<1>4. DOMAIN pages' = DOMAIN pages /\ pages' \in [DOMAIN pages -> Page]
  BY <1>1, <1>2, <1>3
<1>5. ContentIntact'
  BY <1>1, <1>3, <1>4 DEF IInv, ContentIntact, materializedContent
<1>6. OwnersMatchTables'
  <2>1. \A id \in DOMAIN pages : pages'[id].owners = pages[id].owners
    BY <1>1, <1>3
  <2> QED
    BY <1>1, <1>4, <2>1 DEF IInv, OwnersMatchTables, Mounted
<1>7. TypeOK' /\ TablesResident' /\ TableEntriesUnique'
  BY <1>1, <1>4 DEF IInv, TypeOK, TablesResident, TableEntriesUnique
<1> QED
  BY <1>5, <1>6, <1>7 DEF IInv

\* EvictColdPages preserves the invariant: what it deletes from the store
\* it deletes from every table.
LEMMA EvictIInv ==
    ASSUME IInv, NEW n, EvictColdPages(n)
    PROVE  IInv'
<1> PICK V \in SUBSET DOMAIN pages :
           /\ pages' = [id \in DOMAIN pages \ V |-> pages[id]]
           /\ pageTables' = [a \in Tables |-> Without(pageTables[a], V)]
  BY DEF EvictColdPages, TablesAfterEvict
<1>1. now' = now
  BY DEF EvictColdPages
<1>2. /\ DOMAIN pages' = DOMAIN pages \ V
      /\ \A id \in DOMAIN pages' : pages'[id] = pages[id]
  OBVIOUS
<1>3. \A a \in Tables : /\ pageTables[a] \in Seq(Contents)
                        /\ pageTables'[a] = Without(pageTables[a], V)
  BY DEF IInv, TypeOK
<1>4. \A a \in Tables : /\ pageTables'[a] \in Seq(Contents)
                        /\ EntriesOf(pageTables'[a]) = EntriesOf(pageTables[a]) \ V
  BY <1>3, WithoutFilters
<1>5. TypeOK'
  BY <1>1, <1>2, <1>4 DEF IInv, TypeOK
<1>6. TablesResident'
  BY <1>2, <1>4 DEF IInv, TablesResident
<1>7. OwnersMatchTables'
  <2> SUFFICES ASSUME NEW x \in DOMAIN pages', NEW b \in Agents
               PROVE  b \in pages'[x].owners <=> x \in EntriesOf(pageTables'[b])
    BY DEF OwnersMatchTables, Mounted
  <2>1. x \in DOMAIN pages /\ x \notin V /\ b \in Tables /\ pages'[x] = pages[x]
    BY <1>2 DEF Tables
  <2>2. b \in pages[x].owners <=> x \in EntriesOf(pageTables[b])
    BY <2>1 DEF IInv, OwnersMatchTables, Mounted
  <2> QED
    BY <1>4, <2>1, <2>2
<1>8. TableEntriesUnique'
  BY <1>3, WithoutUnique DEF IInv, TableEntriesUnique
<1>9. ContentIntact'
  BY <1>2 DEF IInv, ContentIntact, materializedContent
<1> QED
  BY <1>5, <1>6, <1>7, <1>8, <1>9 DEF IInv

\* The clock and stuttering steps preserve the invariant.
LEMMA IdleIInv ==
    ASSUME IInv, Tick \/ UNCHANGED vars
    PROVE  IInv'
<1>1. pages' = pages /\ pageTables' = pageTables /\ now' \in Nat
  BY DEF Tick, vars, IInv, TypeOK
<1> QED
  BY <1>1 DEF IInv, TypeOK, TablesResident, OwnersMatchTables, TableEntriesUnique,
     ContentIntact, Mounted, materializedContent

\* Every step of the store preserves the invariant.
LEMMA NextIInv == IInv /\ [Next]_vars => IInv'
<1> SUFFICES ASSUME IInv, [Next]_vars PROVE IInv'
  OBVIOUS
<1>1. CASE \E c \in Contents : CreatePage(c)
  BY <1>1, CreatePageIInv
<1>2. CASE \E a \in Tables, id \in Contents : MountPage(a, id)
  BY <1>2, MountPageIInv
<1>3. CASE \/ \E a \in Tables : Materialize(a)
           \/ \E id \in Contents : TouchPage(id) \/ PinPage(id)
  BY <1>3, AccessIInv
<1>4. CASE \E a \in Tables, id \in Contents : ReleasePage(a, id)
  BY <1>4, ReleasePageIInv
<1>5. CASE \E n \in ColdLimits : CompressColdPages(n)
  BY <1>5, CompressIInv
<1>6. CASE \E n \in EvictLimits : EvictColdPages(n)
  BY <1>6, EvictIInv
<1>7. CASE Tick \/ UNCHANGED vars
  BY <1>7, IdleIInv
<1> QED
  BY <1>1, <1>2, <1>3, <1>4, <1>5, <1>6, <1>7 DEF Next

\* The store always satisfies its inductive invariant.
THEOREM StoreInvariant == Spec => []IInv
  BY InitIInv, NextIInv, PTL DEF Spec

\* The store is always well typed.
THEOREM StoreTypeOK == Spec => []TypeOK
<1>1. IInv => TypeOK
  BY DEF IInv
<1> QED
  BY <1>1, StoreInvariant, PTL

\* No page table ever names a page missing from the store, whatever callers
\* release and evict.
THEOREM StoreTablesResident == Spec => []TablesResident
<1>1. IInv => TablesResident
  BY DEF IInv
<1> QED
  BY <1>1, StoreInvariant, PTL

\* OwnerAgents and the page tables always agree.
THEOREM StoreOwnersMatchTables == Spec => []OwnersMatchTables
<1>1. IInv => OwnersMatchTables
  BY DEF IInv
<1> QED
  BY <1>1, StoreInvariant, PTL

\* A page always reads back as the content it was created with.
THEOREM StoreContentIntact == Spec => []ContentIntact
<1>1. IInv => ContentIntact
  BY DEF IInv
<1> QED
  BY <1>1, StoreInvariant, PTL

(***************************************************************************)
(* What a step may never do.                                               *)
(***************************************************************************)

\* A pinned page is never evicted, compressed or unpinned.
THEOREM StorePinnedPageStays == Spec => PinnedPageStays
<1> DEFINE Stays == \A id \in DOMAIN pages : pages[id].pinned =>
                       /\ id \in DOMAIN pages'
                       /\ pages'[id].pinned
                       /\ pages'[id].compressed = pages[id].compressed
<1>1. IInv /\ [Next]_vars => [Stays]_vars
  <2> SUFFICES ASSUME IInv, Next, NEW x \in DOMAIN pages, pages[x].pinned
               PROVE  /\ x \in DOMAIN pages' /\ pages'[x].pinned
                      /\ pages'[x].compressed = pages[x].compressed
    OBVIOUS
  <2>0. pages \in [DOMAIN pages -> Page] /\ pages[x] \in Page
    BY DEF IInv, TypeOK
  <2>1. CASE \E c \in Contents : CreatePage(c)
    BY <2>0, <2>1 DEF CreatePage, Put, Page
  <2>2. CASE \E a \in Tables, id \in Contents : MountPage(a, id)
    <3> PICK a \in Tables, id \in Contents : MountPage(a, id)
      BY <2>2
    <3>1. CASE Mounted(a, id)
      BY <3>1 DEF MountPage
    <3>2. CASE ~Mounted(a, id)
      <4> DEFINE o == appendUniqueString(pages[id].owners, a)
      <4>1. pages' = [pages EXCEPT ![id] =
                        [pages[id] EXCEPT !.refCount = pages[id].refCount + 1,
                                          !.owners = o,
                                          !.accessCount = pages[id].accessCount + 1,
                                          !.lastAccess = now]]
        BY <3>2 DEF MountPage
      <4> HIDE DEF o
      <4> QED
        BY <2>0, <4>1 DEF Page
    <3> QED
      BY <3>1, <3>2
  <2>3. CASE \E a \in Tables : Materialize(a)
    BY <2>0, <2>3, ZenonT(60) DEF Materialize, Page
  <2>4. CASE \E id \in Contents : TouchPage(id) \/ PinPage(id)
    BY <2>0, <2>4 DEF TouchPage, PinPage, Page
  <2>5. CASE \E a \in Tables, id \in Contents : ReleasePage(a, id)
    BY <2>0, <2>5 DEF ReleasePage, Page
  <2>6. CASE \E n \in ColdLimits : CompressColdPages(n)
    BY <2>0, <2>6 DEF CompressColdPages, Cold
  <2>7. CASE \E n \in EvictLimits : EvictColdPages(n)
    <3> PICK n \in EvictLimits, V \in SUBSET DOMAIN pages :
               Victims(V, n) /\ pages' = [id \in DOMAIN pages \ V |-> pages[id]]
      BY <2>7 DEF EvictColdPages
    <3>1. x \notin V
      BY DEF Victims, Evictable
    <3> QED
      BY <3>1
  <2>8. CASE Tick
    BY <2>8 DEF Tick
  <2> QED
    BY <2>1, <2>2, <2>3, <2>4, <2>5, <2>6, <2>7, <2>8 DEF Next
<1> QED
  BY <1>1, StoreInvariant, PTL DEF Spec, PinnedPageStays

\* Neither filtering a table nor appending a new page to it puts two of its
\* entries in the opposite order.
LEMMA OrderKept ==
    ASSUME NEW t \in Seq(Contents), \A m, n \in DOMAIN t : t[m] = t[n] => m = n,
           NEW i \in DOMAIN t, NEW j \in DOMAIN t, i < j
    PROVE  /\ ~Swapped(t, t[i], t[j])
           /\ \A V : ~Swapped(Without(t, V), t[i], t[j])
           /\ \A id \in Contents :
                 id \notin EntriesOf(t) => ~Swapped(Append(t, id), t[i], t[j])
<1>0. DOMAIN t = 1..Len(t) /\ Len(t) \in Nat
  BY LenProperties
<1>1. ASSUME NEW V, NEW m \in DOMAIN Without(t, V), NEW n \in DOMAIN Without(t, V),
             m < n, Without(t, V)[m] = t[j], Without(t, V)[n] = t[i]
      PROVE  FALSE
  <2>1. \E k, l \in DOMAIN t :
           k < l /\ Without(t, V)[m] = t[k] /\ Without(t, V)[n] = t[l]
    BY <1>1, WithoutFilters
  <2>2. PICK k \in DOMAIN t, l \in DOMAIN t : k < l /\ t[j] = t[k] /\ t[i] = t[l]
    BY <1>1, <2>1
  <2> QED
    BY <1>0, <2>2
<1>2. ASSUME NEW id \in Contents, id \notin EntriesOf(t),
             NEW m \in DOMAIN Append(t, id), NEW n \in DOMAIN Append(t, id),
             m < n, Append(t, id)[m] = t[j], Append(t, id)[n] = t[i]
      PROVE  FALSE
  <2>1. /\ DOMAIN Append(t, id) = 1..(Len(t) + 1)
        /\ Append(t, id)[Len(t) + 1] = id
        /\ \A k \in 1..Len(t) : Append(t, id)[k] = t[k]
    BY <1>0, AppendProperties, LenProperties
  <2>2. \A k \in DOMAIN t : t[k] # id
    BY <1>2 DEF EntriesOf
  <2>3. m # Len(t) + 1 /\ n # Len(t) + 1
    BY <1>2, <2>1, <2>2
  <2>4. m \in 1..(Len(t) + 1) /\ n \in 1..(Len(t) + 1)
    BY <2>1
  <2>5. m \in 1..Len(t) /\ n \in 1..Len(t)
    BY <1>0, <2>3, <2>4
  <2>6. m = j /\ n = i
    BY <1>0, <1>2, <2>1, <2>5
  <2> QED
    BY <1>0, <1>2, <2>6
<1>3. ~Swapped(t, t[i], t[j])
  BY <1>0 DEF Swapped
<1> QED
  BY <1>1, <1>2, <1>3 DEF Swapped

\* The pages an agent keeps mounted are always emitted in the same order.
THEOREM StoreMountOrderStable == Spec => MountOrderStable
<1> DEFINE Stable == \A a \in Tables : \A i, j \in DOMAIN pageTables[a] :
                        i < j => ~Swapped(pageTables'[a], pageTables[a][i], pageTables[a][j])
<1>1. IInv /\ [Next]_vars => [Stable]_vars
  <2> SUFFICES ASSUME IInv, Next, NEW a \in Tables,
                      NEW i \in DOMAIN pageTables[a], NEW j \in DOMAIN pageTables[a],
                      i < j,
                      Swapped(pageTables'[a], pageTables[a][i], pageTables[a][j])
               PROVE  FALSE
    OBVIOUS
  <2> DEFINE t == pageTables[a]
  <2>0. /\ t \in Seq(Contents) /\ DOMAIN t = 1..Len(t) /\ Len(t) \in Nat
        /\ pageTables \in [Tables -> Seq(Contents)]
        /\ \A m, n \in DOMAIN t : t[m] = t[n] => m = n
    BY LenProperties DEF IInv, TypeOK, TableEntriesUnique
  <2>k. /\ ~Swapped(t, t[i], t[j])
        /\ \A V : ~Swapped(Without(t, V), t[i], t[j])
        /\ \A id \in Contents :
              id \notin EntriesOf(t) => ~Swapped(Append(t, id), t[i], t[j])
    <3> HIDE DEF t
    <3>1. i \in DOMAIN t /\ j \in DOMAIN t
      BY DEF t
    <3> QED
      BY <2>0, <3>1, OrderKept
  <2>1. CASE pageTables'[a] = t
    BY <2>k, <2>1
  <2>2. ASSUME NEW V, pageTables'[a] = Without(t, V) PROVE FALSE
    BY <2>k, <2>2
  <2>3. ASSUME NEW id \in Contents, ~Mounted(a, id), pageTables'[a] = Append(t, id)
        PROVE  FALSE
    BY <2>k, <2>3 DEF Mounted
  <2>4. CASE \E b \in Tables, id \in Contents : MountPage(b, id)
    <3> PICK b \in Tables, id \in Contents : MountPage(b, id)
      BY <2>4
    <3>1. CASE a = b /\ ~Mounted(b, id)
      BY <2>0, <2>3, <3>1 DEF MountPage
    <3>2. CASE ~(a = b /\ ~Mounted(b, id))
      BY <2>0, <2>1, <3>2 DEF MountPage
    <3> QED
      BY <3>1, <3>2
  <2>5. CASE \E b \in Tables, id \in Contents : ReleasePage(b, id)
    <3> PICK b \in Tables, id \in Contents : ReleasePage(b, id)
      BY <2>5
    <3>1. pageTables'[a] = t \/ pageTables'[a] = Without(t, {id})
      BY <2>0 DEF ReleasePage
    <3> QED
      BY <2>1, <2>2, <3>1
  <2>6. CASE \E n \in EvictLimits : EvictColdPages(n)
    <3> PICK V : pageTables' = [b \in Tables |-> Without(pageTables[b], V)]
      BY <2>6 DEF EvictColdPages, TablesAfterEvict
    <3> QED
      BY <2>2
  <2>7. CASE pageTables' = pageTables
    BY <2>1, <2>7
  <2> QED
    BY <2>4, <2>5, <2>6, <2>7
    DEF Next, CreatePage, Materialize, TouchPage, PinPage, CompressColdPages, Tick
<1> QED
  BY <1>1, StoreInvariant, PTL DEF Spec, MountOrderStable
============================================================================
