-------------------------- MODULE CVMClientsProofs --------------------------
(***************************************************************************)
(* Proofs about the page store and its callers, for any number of callers, *)
(* agents and pages.                                                       *)
(***************************************************************************)
EXTENDS CVMClients, CVMProofs

(***************************************************************************)
(* The inductive invariant.  The store alone does not know who holds a     *)
(* reference: exactness of RefCount needs the callers' own counts, also    *)
(* for pages that are gone (an evicted page had no references, so nobody   *)
(* may believe to hold one), and that a caller in the middle of WriteDelta *)
(* still holds the reference it took in its first half.                    *)
(***************************************************************************)
Counted(c) ==
    /\ IsFiniteSet(References(c)) /\ IsFiniteSet(Mounters(c))
    /\ c \in DOMAIN pages =>
          pages[c].refCount = Cardinality(References(c)) + Cardinality(Mounters(c))
    /\ c \notin DOMAIN pages => References(c) = {}

CTypeOK ==
    /\ held \in [Callers -> [Contents -> Nat]]
    /\ writing \in [Callers -> (Tables \X Contents) \cup {Idle}]

WritersHold ==
    \A k \in Callers : writing[k] # Idle => held[k][writing[k][2]] > 0

CInv ==
    /\ IInv
    /\ CTypeOK
    /\ WritersHold
    /\ balanced => \A c \in Contents : Counted(c)
    /\ ~balanced => \A k \in Callers : writing[k] = Idle

\* The callers start with nothing, and so does the store.
LEMMA InitCInv == CInit => CInv
<1> SUFFICES ASSUME CInit PROVE CInv
  OBVIOUS
<1>1. IInv
  BY InitIInv DEF CInit
<1>2. CTypeOK /\ \A k \in Callers : writing[k] = Idle
  BY DEF CInit, CTypeOK
<1>3. ASSUME NEW c \in Contents PROVE Counted(c)
  <2>1. References(c) = {}
    <3>1. \A k \in Callers : {k} \X (1..held[k][c]) = {}
      BY DEF CInit
    <3> QED
      BY <3>1 DEF References
  <2>2. Mounters(c) = {}
    BY DEF Mounters, Mounted, EntriesOf, CInit, Init
  <2>3. c \notin DOMAIN pages
    BY DEF CInit, Init
  <2> QED
    BY <2>1, <2>2, <2>3, FS_EmptySet DEF Counted
<1> QED
  BY <1>1, <1>2, <1>3 DEF CInv, WritersHold

\* A caller holds a reference of page c exactly when it is one of the first
\* held[k][c] of its own.
LEMMA ReferencePairs ==
    ASSUME CTypeOK, NEW c \in Contents
    PROVE  /\ \A k \in Callers, n \in Nat :
                 <<k, n>> \in References(c) <=> n \in 1..held[k][c]
           /\ \A r \in References(c) :
                 \E k \in Callers, n \in Nat : r = <<k, n>> /\ n \in 1..held[k][c]
<1>1. \A k \in Callers : held[k][c] \in Nat
  BY DEF CTypeOK
<1> QED
  BY <1>1 DEF References

\* Taking a reference adds one element to the references of that page and
\* leaves those of every other page alone.
LEMMA TakeReference ==
    ASSUME CTypeOK, NEW k \in Callers, NEW c \in Contents,
           held' = [held EXCEPT ![k][c] = @ + 1]
    PROVE  /\ held' \in [Callers -> [Contents -> Nat]]
           /\ \A j \in Callers, d \in Contents :
                 held'[j][d] = IF j = k /\ d = c THEN held[j][d] + 1 ELSE held[j][d]
           /\ <<k, held[k][c] + 1>> \notin References(c)
           /\ References(c)' = References(c) \cup {<<k, held[k][c] + 1>>}
           /\ \A d \in Contents \ {c} : References(d)' = References(d)
<1>1. held \in [Callers -> [Contents -> Nat]] /\ held[k][c] \in Nat
  BY DEF CTypeOK
<1>2. held' \in [Callers -> [Contents -> Nat]]
  BY <1>1
<1>3. \A j \in Callers, d \in Contents :
         held'[j][d] = IF j = k /\ d = c THEN held[j][d] + 1 ELSE held[j][d]
  BY <1>1
<1>4. <<k, held[k][c] + 1>> \notin References(c)
  BY <1>1, ReferencePairs
<1>5. \A d \in Contents \ {c} : References(d)' = References(d)
  <2>1. \A d \in Contents \ {c}, j \in Callers : held'[j][d] = held[j][d]
    BY <1>3
  <2> QED
    BY <2>1 DEF References
<1>6. \A j \in Callers \ {k} : {j} \X (1..held'[j][c]) = {j} \X (1..held[j][c])
  BY <1>3
<1>7. {k} \X (1..held'[k][c]) = ({k} \X (1..held[k][c])) \cup {<<k, held[k][c] + 1>>}
  <2>1. held'[k][c] = held[k][c] + 1
    BY <1>3
  <2>2. 1..(held[k][c] + 1) = (1..held[k][c]) \cup {held[k][c] + 1}
    BY <1>1
  <2> QED
    BY <2>1, <2>2
<1>8. References(c)' = References(c) \cup {<<k, held[k][c] + 1>>}
  BY <1>6, <1>7 DEF References
<1> QED
  BY <1>2, <1>3, <1>4, <1>5, <1>8

\* Giving a reference back removes one element.
LEMMA GiveReferenceBack ==
    ASSUME CTypeOK, NEW k \in Callers, NEW c \in Contents, held[k][c] > 0,
           held' = [held EXCEPT ![k][c] = @ - 1]
    PROVE  /\ held' \in [Callers -> [Contents -> Nat]]
           /\ \A j \in Callers, d \in Contents :
                 held'[j][d] = IF j = k /\ d = c THEN held[j][d] - 1 ELSE held[j][d]
           /\ <<k, held[k][c]>> \in References(c)
           /\ References(c)' = References(c) \ {<<k, held[k][c]>>}
           /\ \A d \in Contents \ {c} : References(d)' = References(d)
<1>1. held \in [Callers -> [Contents -> Nat]] /\ held[k][c] \in Nat
  BY DEF CTypeOK
<1>2. held' \in [Callers -> [Contents -> Nat]]
  BY <1>1
<1>3. \A j \in Callers, d \in Contents :
         held'[j][d] = IF j = k /\ d = c THEN held[j][d] - 1 ELSE held[j][d]
  BY <1>1
<1>4. <<k, held[k][c]>> \in References(c)
  BY <1>1, ReferencePairs
<1>5. \A d \in Contents \ {c} : References(d)' = References(d)
  <2>1. \A d \in Contents \ {c}, j \in Callers : held'[j][d] = held[j][d]
    BY <1>3
  <2> QED
    BY <2>1 DEF References
<1>6. \A j \in Callers \ {k} :
         {j} \X (1..held'[j][c]) = ({j} \X (1..held[j][c])) \ {<<k, held[k][c]>>}
  BY <1>3
<1>7. {k} \X (1..held'[k][c]) = ({k} \X (1..held[k][c])) \ {<<k, held[k][c]>>}
  <2>1. held'[k][c] = held[k][c] - 1
    BY <1>3
  <2>2. 1..(held[k][c] - 1) = (1..held[k][c]) \ {held[k][c]}
    BY <1>1
  <2> QED
    BY <2>1, <2>2
<1>8. References(c)' = References(c) \ {<<k, held[k][c]>>}
  BY <1>6, <1>7 DEF References
<1> QED
  BY <1>2, <1>3, <1>4, <1>5, <1>8

\* Every call of the balanced callers is a call of the store or none at all.
LEMMA BalancedStoreStep ==
    ASSUME CInv, BalancedCall
    PROVE  [Next]_vars
<1>1. CASE \E k \in Callers, c \in Contents : Create(k, c) \/ ReleaseHeld(k, c)
  BY <1>1 DEF Create, ReleaseHeld, Next, Tables
<1>2. CASE \E k \in Callers, a \in Tables, c \in Contents : WriteDeltaCreate(k, a, c)
  BY <1>2 DEF WriteDeltaCreate, Next
<1>3. CASE \E k \in Callers : WriteDeltaMount(k)
  <2> PICK k \in Callers : WriteDeltaMount(k)
    BY <1>3
  <2>1. writing[k][1] \in Tables /\ writing[k][2] \in Contents
    BY DEF CInv, CTypeOK, WriteDeltaMount
  <2> QED
    BY <2>1 DEF WriteDeltaMount, Next
<1>4. CASE \E a \in Agents, c \in Contents : ReleaseMounted(a, c)
  BY <1>4 DEF ReleaseMounted, Next, Tables
<1>5. CASE OtherCall
  BY <1>5 DEF OtherCall, Next
<1> QED
  BY <1>1, <1>2, <1>3, <1>4, <1>5 DEF BalancedCall

\* CreatePage counts the creator: a page it finds gains one reference, a new
\* one starts with one.
LEMMA CreateCounts ==
    ASSUME IInv, CTypeOK, \A c \in Contents : Counted(c),
           NEW k \in Callers, NEW c \in Contents, CreatePage(c),
           held' = [held EXCEPT ![k][c] = @ + 1]
    PROVE  \A d \in Contents : Counted(d)'
<1>1. pageTables' = pageTables /\ \A d \in Contents : Mounters(d)' = Mounters(d)
  BY DEF CreatePage, Mounters, Mounted
<1>2. ASSUME NEW d \in Contents \ {c} PROVE Counted(d)'
  <2>1. References(d)' = References(d) /\ Mounters(d)' = Mounters(d)
    BY <1>1, TakeReference
  <2>2. /\ d \in DOMAIN pages' <=> d \in DOMAIN pages
        /\ d \in DOMAIN pages => pages'[d].refCount = pages[d].refCount
    BY DEF CreatePage, Put
  <2>3. Counted(d)
    OBVIOUS
  <2> QED
    BY <2>1, <2>2, <2>3 DEF Counted
<1>3. Counted(c)'
  <2> DEFINE R == References(c)
             r == <<k, held[k][c] + 1>>
  <2>1. r \notin R /\ References(c)' = R \cup {r}
    BY TakeReference
  <2>2. IsFiniteSet(R) /\ IsFiniteSet(Mounters(c)) /\ Counted(c)
    BY DEF Counted
  <2>3. IsFiniteSet(R \cup {r}) /\ Cardinality(R \cup {r}) = Cardinality(R) + 1
    BY <2>1, <2>2, FS_AddElement
  <2>4. Cardinality(R) \in Nat /\ Cardinality(Mounters(c)) \in Nat
    BY <2>2, FS_CardinalityType
  <2>5. c \in DOMAIN pages' /\ pages'[c].refCount = Cardinality(R) + 1 + Cardinality(Mounters(c))
    <3>1. CASE c \in DOMAIN pages
      <4>1. pages[c] \in Page /\ pages' = [pages EXCEPT ![c].refCount = @ + 1]
        BY <3>1 DEF CreatePage, IInv, TypeOK
      <4>2. c \in DOMAIN pages' /\ pages'[c].refCount = pages[c].refCount + 1
        BY <3>1, <4>1 DEF Page
      <4>3. pages[c].refCount = Cardinality(R) + Cardinality(Mounters(c))
        BY <2>2, <3>1 DEF Counted
      <4> QED
        BY <2>4, <4>2, <4>3
    <3>2. CASE c \notin DOMAIN pages
      <4>1. c \in DOMAIN pages' /\ pages'[c].refCount = 1
        BY <3>2 DEF CreatePage, Put, NewPage
      <4>2. R = {} /\ Mounters(c) = {}
        BY <2>2, <3>2 DEF Counted, Mounters, Mounted, IInv, TablesResident
      <4> QED
        BY <4>1, <4>2, FS_EmptySet
    <3> QED
      BY <3>1, <3>2
  <2> HIDE DEF r, R
  <2> QED
    BY <1>1, <2>1, <2>2, <2>3, <2>4, <2>5 DEF Counted
<1> QED
  BY <1>2, <1>3

\* MountPage counts the table it mounts the page in, once.
LEMMA MountCounts ==
    ASSUME IInv, \A c \in Contents : Counted(c), UNCHANGED held,
           NEW a \in Tables, NEW c \in Contents, MountPage(a, c)
    PROVE  \A d \in Contents : Counted(d)'
<1>0. \A d \in Contents : References(d)' = References(d)
  BY DEF References
<1>1. CASE Mounted(a, c)
  <2>1. UNCHANGED <<pages, pageTables>>
    BY <1>1 DEF MountPage
  <2> QED
    BY <1>0, <2>1 DEF Counted, Mounters, Mounted
<1>2. CASE ~Mounted(a, c)
  <2>1. /\ c \in DOMAIN pages
        /\ pageTables' = [pageTables EXCEPT ![a] = Append(@, c)]
        /\ pages' = [pages EXCEPT ![c] =
                       [pages[c] EXCEPT !.refCount = pages[c].refCount + 1,
                                        !.owners = appendUniqueString(pages[c].owners, a),
                                        !.accessCount = pages[c].accessCount + 1,
                                        !.lastAccess = now]]
    BY <1>2 DEF MountPage
  <2>2. pageTables \in [Tables -> Seq(Contents)] /\ pages[c] \in Page
    BY <2>1 DEF IInv, TypeOK
  <2>3. /\ DOMAIN pages' = DOMAIN pages
        /\ pages'[c].refCount = pages[c].refCount + 1
        /\ \A d \in DOMAIN pages \ {c} : pages'[d] = pages[d]
    BY <2>1, <2>2 DEF Page
  <2>4. EntriesOf(pageTables'[a]) = EntriesOf(pageTables[a]) \cup {c}
    <3> DEFINE t == pageTables[a]
    <3>1. t \in Seq(Contents) /\ pageTables'[a] = Append(t, c)
      BY <2>1, <2>2
    <3> HIDE DEF t
    <3>2. EntriesOf(Append(t, c)) = EntriesOf(t) \cup {c}
      BY <3>1, AppendProperties, LenProperties DEF EntriesOf
    <3> QED
      BY <3>1, <3>2 DEF t
  <2>5. \A b \in Tables \ {a} : pageTables'[b] = pageTables[b]
    BY <2>1, <2>2
  <2>6. a \notin Mounters(c) /\ Mounters(c)' = Mounters(c) \cup {a}
    BY <1>2, <2>4, <2>5 DEF Mounters, Mounted
  <2>7. \A d \in Contents \ {c} : Mounters(d)' = Mounters(d)
    BY <2>4, <2>5 DEF Mounters, Mounted
  <2>8. Counted(c)'
    <3> DEFINE M == Mounters(c)
    <3>1. /\ IsFiniteSet(M) /\ IsFiniteSet(References(c))
          /\ pages[c].refCount = Cardinality(References(c)) + Cardinality(M)
      BY <2>1 DEF Counted
    <3>2. IsFiniteSet(M \cup {a}) /\ Cardinality(M \cup {a}) = Cardinality(M) + 1
      BY <2>6, <3>1, FS_AddElement
    <3>3. Cardinality(M) \in Nat /\ Cardinality(References(c)) \in Nat
      BY <3>1, FS_CardinalityType
    <3> HIDE DEF M
    <3>4. Mounters(c)' = M \cup {a}
      BY <2>6 DEF M
    <3> QED
      BY <1>0, <2>1, <2>3, <3>1, <3>2, <3>3, <3>4 DEF Counted
  <2>9. \A d \in Contents \ {c} : Counted(d)'
    BY <1>0, <2>3, <2>7 DEF Counted
  <2> QED
    BY <2>8, <2>9
<1> QED
  BY <1>1, <1>2

\* A reference given back is taken off the count, which was not zero.
LEMMA ReleaseHeldCounts ==
    ASSUME IInv, CTypeOK, \A c \in Contents : Counted(c),
           NEW k \in Callers, NEW c \in Contents, ReleaseHeld(k, c)
    PROVE  \A d \in Contents : Counted(d)'
<1> DEFINE r == <<k, held[k][c]>>
<1>1. /\ c \in DOMAIN pages /\ pageTables' = pageTables
      /\ pages' = [pages EXCEPT ![c] = [pages[c] EXCEPT !.refCount = Dropped(pages[c].refCount),
                                                        !.owners = pages[c].owners \ {NoAgent}]]
      /\ held[k][c] > 0 /\ held' = [held EXCEPT ![k][c] = @ - 1]
  BY DEF ReleaseHeld, ReleasePage
<1>2. /\ r \in References(c) /\ References(c)' = References(c) \ {r}
      /\ \A d \in Contents \ {c} : References(d)' = References(d)
  BY <1>1, GiveReferenceBack
<1>3. pages[c] \in Page
  BY <1>1 DEF IInv, TypeOK
<1>4. /\ DOMAIN pages' = DOMAIN pages
      /\ pages'[c].refCount = Dropped(pages[c].refCount)
      /\ \A d \in DOMAIN pages \ {c} : pages'[d] = pages[d]
  BY <1>1, <1>3 DEF Page
<1>5. \A d \in Contents : Mounters(d)' = Mounters(d)
  BY <1>1 DEF Mounters, Mounted
<1>6. Counted(c)'
  <2> HIDE DEF r
  <2> DEFINE R == References(c)
  <2>1. /\ IsFiniteSet(Mounters(c)) /\ IsFiniteSet(R)
        /\ pages[c].refCount = Cardinality(R) + Cardinality(Mounters(c))
    BY <1>1 DEF Counted
  <2>2. IsFiniteSet(R \ {r}) /\ Cardinality(R \ {r}) = Cardinality(R) - 1
    BY <1>2, <2>1, FS_RemoveElement
  <2>3. /\ Cardinality(R) \in Nat /\ Cardinality(Mounters(c)) \in Nat
        /\ Cardinality(R \ {r}) \in Nat
    BY <2>1, <2>2, FS_CardinalityType
  <2> HIDE DEF R
  <2>4. References(c)' = R \ {r}
    BY <1>2 DEF R
  <2> QED
    BY <1>1, <1>4, <1>5, <2>1, <2>2, <2>3, <2>4 DEF Counted, Dropped
<1>7. \A d \in Contents \ {c} : Counted(d)'
  BY <1>2, <1>4, <1>5 DEF Counted
<1> QED
  BY <1>6, <1>7

\* Unmounting takes the agent's reference off the count with its table entry.
LEMMA ReleaseMountedCounts ==
    ASSUME IInv, \A c \in Contents : Counted(c),
           NEW a \in Agents, NEW c \in Contents, ReleaseMounted(a, c)
    PROVE  \A d \in Contents : Counted(d)'
<1>1. /\ c \in DOMAIN pages /\ Mounted(a, c) /\ UNCHANGED held
      /\ pageTables' = [pageTables EXCEPT ![a] = Without(@, {c})]
      /\ pages' = [pages EXCEPT ![c] = [pages[c] EXCEPT !.refCount = Dropped(pages[c].refCount),
                                                        !.owners = pages[c].owners \ {a}]]
  BY CVMAssumption DEF ReleaseMounted, ReleasePage
<1>2. a \in Tables /\ pageTables \in [Tables -> Seq(Contents)] /\ pages[c] \in Page
  BY <1>1 DEF IInv, TypeOK, Tables
<1>3. /\ DOMAIN pages' = DOMAIN pages
      /\ pages'[c].refCount = Dropped(pages[c].refCount)
      /\ \A d \in DOMAIN pages \ {c} : pages'[d] = pages[d]
  BY <1>1, <1>2 DEF Page
<1>4. \A d \in Contents : References(d)' = References(d)
  BY <1>1 DEF References
<1>5. EntriesOf(pageTables'[a]) = EntriesOf(pageTables[a]) \ {c}
  BY <1>1, <1>2, WithoutFilters
<1>6. \A b \in Tables \ {a} : pageTables'[b] = pageTables[b]
  BY <1>1, <1>2
<1>7. a \in Mounters(c) /\ Mounters(c)' = Mounters(c) \ {a}
  BY <1>1, <1>2, <1>5, <1>6 DEF Mounters, Mounted
<1>8. \A d \in Contents \ {c} : Mounters(d)' = Mounters(d)
  BY <1>5, <1>6 DEF Mounters, Mounted
<1>9. Counted(c)'
  <2> DEFINE M == Mounters(c)
  <2>1. /\ IsFiniteSet(M) /\ IsFiniteSet(References(c))
        /\ pages[c].refCount = Cardinality(References(c)) + Cardinality(M)
    BY <1>1 DEF Counted
  <2>2. IsFiniteSet(M \ {a}) /\ Cardinality(M \ {a}) = Cardinality(M) - 1
    BY <1>7, <2>1, FS_RemoveElement
  <2>3. /\ Cardinality(M) \in Nat /\ Cardinality(References(c)) \in Nat
        /\ Cardinality(M \ {a}) \in Nat
    BY <2>1, <2>2, FS_CardinalityType
  <2> HIDE DEF M
  <2>4. Mounters(c)' = M \ {a}
    BY <1>7 DEF M
  <2> QED
    BY <1>1, <1>3, <1>4, <2>1, <2>2, <2>3, <2>4 DEF Counted, Dropped
<1>10. \A d \in Contents \ {c} : Counted(d)'
  BY <1>3, <1>4, <1>8 DEF Counted
<1> QED
  BY <1>9, <1>10

\* A page is evicted only when nobody holds a reference to it, and nothing
\* else in a table is disturbed.
LEMMA EvictCounts ==
    ASSUME IInv, \A c \in Contents : Counted(c), UNCHANGED held,
           NEW n \in EvictLimits, EvictColdPages(n)
    PROVE  \A d \in Contents : Counted(d)'
<1> PICK V \in SUBSET DOMAIN pages :
           /\ Victims(V, n)
           /\ pages' = [id \in DOMAIN pages \ V |-> pages[id]]
           /\ pageTables' = [a \in Tables |-> Without(pageTables[a], V)]
  BY DEF EvictColdPages, TablesAfterEvict
<1>0. \A d \in Contents : References(d)' = References(d)
  BY DEF References
<1>1. \A a \in Tables : EntriesOf(pageTables'[a]) = EntriesOf(pageTables[a]) \ V
  BY WithoutFilters DEF IInv, TypeOK
<1>2. ASSUME NEW d \in Contents \ V PROVE Counted(d)'
  <2>1. Mounters(d)' = Mounters(d)
    BY <1>1 DEF Mounters, Mounted
  <2>2. /\ d \in DOMAIN pages' <=> d \in DOMAIN pages
        /\ d \in DOMAIN pages => pages'[d] = pages[d]
    OBVIOUS
  <2>3. Counted(d)
    OBVIOUS
  <2> QED
    BY <1>0, <2>1, <2>2, <2>3 DEF Counted
<1>3. ASSUME NEW d \in Contents, d \in V PROVE Counted(d)'
  <2>1. /\ IsFiniteSet(Mounters(d)) /\ IsFiniteSet(References(d))
        /\ Cardinality(References(d)) + Cardinality(Mounters(d)) = 0
    BY <1>3 DEF Victims, Evictable, Counted
  <2>2. References(d) = {}
    BY <2>1, FS_CardinalityType, FS_EmptySet
  <2>3. Mounters(d)' = {}
    BY <1>1, <1>3 DEF Mounters, Mounted
  <2> QED
    BY <1>0, <1>3, <2>2, <2>3, FS_EmptySet DEF Counted
<1> QED
  BY <1>2, <1>3

\* The other calls change no count.
LEMMA OtherCounts ==
    ASSUME IInv, \A c \in Contents : Counted(c), UNCHANGED held,
           \/ \E a \in Tables : Materialize(a)
           \/ \E c \in Contents : TouchPage(c) \/ PinPage(c)
           \/ \E n \in ColdLimits : CompressColdPages(n)
    PROVE  \A d \in Contents : Counted(d)'
<1>0. pages \in [DOMAIN pages -> Page]
  BY DEF IInv, TypeOK
<1>1. pageTables' = pageTables
  BY DEF Materialize, TouchPage, PinPage, CompressColdPages
<1>2. /\ DOMAIN pages' = DOMAIN pages
      /\ \A d \in DOMAIN pages : pages'[d].refCount = pages[d].refCount
  <2>1. CASE \E a \in Tables : Materialize(a)
    BY <1>0, <2>1, ZenonT(60) DEF Materialize, Page
  <2>2. CASE \E c \in Contents : TouchPage(c) \/ PinPage(c)
    BY <1>0, <2>2 DEF TouchPage, PinPage, Page
  <2>3. CASE \E n \in ColdLimits : CompressColdPages(n)
    BY <1>0, <2>3, ZenonT(60) DEF CompressColdPages, Page
  <2> QED
    BY <2>1, <2>2, <2>3
<1>3. \A d \in Contents : References(d)' = References(d) /\ Mounters(d)' = Mounters(d)
  BY <1>1 DEF References, Mounters, Mounted
<1> QED
  BY <1>2, <1>3 DEF Counted

\* Every step of the callers keeps the counts exact and their own records
\* consistent.
LEMMA NextCInv == CInv /\ [CNext]_cvars => CInv'
<1> SUFFICES ASSUME CInv, [CNext]_cvars PROVE CInv'
  OBVIOUS
<1>1. CASE UNCHANGED cvars
  <2>1. IInv'
    BY <1>1, NextIInv DEF CInv, cvars, vars
  <2>2. \A d \in Contents : References(d)' = References(d) /\ Mounters(d)' = Mounters(d)
    BY <1>1 DEF cvars, References, Mounters, Mounted
  <2>3. \A d \in Contents : Counted(d) => Counted(d)'
    BY <1>1, <2>2 DEF cvars, Counted
  <2> QED
    BY <1>1, <2>1, <2>3 DEF cvars, CInv, CTypeOK, WritersHold
<1>2. CASE ~balanced /\ Next /\ UNCHANGED <<held, writing, balanced>>
  <2>1. IInv'
    BY <1>2, NextIInv DEF CInv
  <2> QED
    BY <1>2, <2>1 DEF CInv, CTypeOK, WritersHold
<1>3. CASE balanced /\ BalancedCall /\ UNCHANGED balanced
  <2>0. IInv' /\ IInv /\ CTypeOK /\ WritersHold /\ \A c \in Contents : Counted(c)
    BY <1>3, BalancedStoreStep, NextIInv DEF CInv
  <2>1. CASE \E k \in Callers, c \in Contents : Create(k, c)
    <3> PICK k \in Callers, c \in Contents : Create(k, c)
      BY <2>1
    <3>1. \A d \in Contents : Counted(d)'
      BY <2>0, CreateCounts DEF Create
    <3>2. CTypeOK' /\ WritersHold'
      BY <2>0, TakeReference DEF Create, CTypeOK, WritersHold
    <3> QED
      BY <1>3, <2>0, <3>1, <3>2 DEF CInv
  <2>2. CASE \E k \in Callers, a \in Tables, c \in Contents : WriteDeltaCreate(k, a, c)
    <3> PICK k \in Callers, a \in Tables, c \in Contents : WriteDeltaCreate(k, a, c)
      BY <2>2
    <3>1. \A d \in Contents : Counted(d)'
      BY <2>0, CreateCounts DEF WriteDeltaCreate
    <3>2. CTypeOK' /\ WritersHold'
      BY <2>0, TakeReference DEF WriteDeltaCreate, CTypeOK, WritersHold
    <3> QED
      BY <1>3, <2>0, <3>1, <3>2 DEF CInv
  <2>3. CASE \E k \in Callers : WriteDeltaMount(k)
    <3> PICK k \in Callers : WriteDeltaMount(k)
      BY <2>3
    <3>1. writing[k][1] \in Tables /\ writing[k][2] \in Contents
      BY <2>0 DEF WriteDeltaMount, CTypeOK
    <3>2. \A d \in Contents : Counted(d)'
      <4>1. CASE writing[k][2] \in DOMAIN pages
        BY <2>0, <3>1, <4>1, MountCounts DEF WriteDeltaMount
      <4>2. CASE writing[k][2] \notin DOMAIN pages
        BY <2>0, <4>2, SMTT(30) DEF WriteDeltaMount, vars, Counted, References, Mounters, Mounted
      <4> QED
        BY <4>1, <4>2
    <3>3. CTypeOK' /\ WritersHold'
      BY <2>0 DEF WriteDeltaMount, CTypeOK, WritersHold
    <3> QED
      BY <1>3, <2>0, <3>2, <3>3 DEF CInv
  <2>4. CASE \E k \in Callers, c \in Contents : ReleaseHeld(k, c)
    <3> PICK k \in Callers, c \in Contents : ReleaseHeld(k, c)
      BY <2>4
    <3>1. \A d \in Contents : Counted(d)'
      BY <2>0, ReleaseHeldCounts
    <3>2. CTypeOK' /\ WritersHold'
      BY <2>0, GiveReferenceBack DEF ReleaseHeld, CTypeOK, WritersHold
    <3> QED
      BY <1>3, <2>0, <3>1, <3>2 DEF CInv
  <2>5. CASE \E a \in Agents, c \in Contents : ReleaseMounted(a, c)
    <3> PICK a \in Agents, c \in Contents : ReleaseMounted(a, c)
      BY <2>5
    <3>1. \A d \in Contents : Counted(d)'
      BY <2>0, ReleaseMountedCounts
    <3>2. CTypeOK' /\ WritersHold'
      BY <2>0 DEF ReleaseMounted, CTypeOK, WritersHold
    <3> QED
      BY <1>3, <2>0, <3>1, <3>2 DEF CInv
  <2>6. CASE OtherCall
    <3>1. \A d \in Contents : Counted(d)'
      BY <2>0, <2>6, MountCounts, EvictCounts, OtherCounts DEF OtherCall
    <3>2. CTypeOK' /\ WritersHold'
      BY <2>0, <2>6 DEF OtherCall, CTypeOK, WritersHold
    <3> QED
      BY <1>3, <2>0, <3>1, <3>2 DEF CInv
  <2> QED
    BY <1>3, <2>1, <2>2, <2>3, <2>4, <2>5, <2>6 DEF BalancedCall
<1> QED
  BY <1>1, <1>2, <1>3 DEF CNext

\* The callers and the store together always satisfy the invariant.
THEOREM ClientsInvariant == CSpec => []CInv
  BY InitCInv, NextCInv, PTL DEF CSpec

\* RefCount is always exactly the references somebody holds: any number of
\* concurrent callers that give back only what they took cannot make
\* CreatePage, MountPage, ReleasePage and EvictColdPages miscount.
THEOREM ClientsRefCountExact == CSpec => []RefCountExact
<1>1. CInv => RefCountExact
  BY DEF CInv, IInv, TypeOK, RefCountExact, Counted
<1> QED
  BY <1>1, ClientsInvariant, PTL

\* The page a WriteDelta has created is still resident when it comes back to
\* mount it, although the store's mutex was free in between.
THEOREM ClientsWriteDeltaFindsItsPage == CSpec => []WriteDeltaFindsItsPage
<1>1. CInv => WriteDeltaFindsItsPage
  <2> SUFFICES ASSUME CInv, NEW k \in Callers, writing[k] # Idle
               PROVE  writing[k][2] \in DOMAIN pages
    BY DEF WriteDeltaFindsItsPage
  <2> DEFINE c == writing[k][2]
  <2>1. c \in Contents /\ held[k][c] \in Nat /\ held[k][c] > 0 /\ Counted(c)
    BY DEF CInv, CTypeOK, WritersHold
  <2>2. <<k, 1>> \in References(c)
    BY <2>1, ReferencePairs DEF CInv
  <2> QED
    BY <2>1, <2>2 DEF Counted
<1> QED
  BY <1>1, ClientsInvariant, PTL
=============================================================================
