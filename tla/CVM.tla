-------------------------------- MODULE CVM --------------------------------
(***************************************************************************)
(* Context Virtual Memory: the page store of internal/cvm/store.go.        *)
(*                                                                         *)
(* A page is identified by the SHA-256 of its content, so a page id and    *)
(* its content determine each other and the model uses the content itself  *)
(* as the id.  Every exported method takes the store's mutex for its whole *)
(* body, so each one is a single action.  WriteDelta is the exception: it  *)
(* calls CreatePage and MountPage, releasing the mutex between them, and   *)
(* is modelled by the modules that own callers (CVMClients, Gateway).      *)
(*                                                                         *)
(* The dedup and compression counters of Stats are write-only statistics   *)
(* and are left out, as is the page kind, which is only ever copied.       *)
(***************************************************************************)
EXTENDS Integers, Sequences, FiniteSets, FiniteSetsExt

CONSTANTS
    Agents,      \* the non-empty agent ids
    NoAgent,     \* the empty agent id ""
    Contents,    \* the contents pages may have
    Empty,       \* the empty content "", possibly one of Contents
    Bytes,       \* Bytes[c]: length of content c
    GzipBytes,   \* GzipBytes[c]: length of c after gzip
    Garbage,     \* what decoding with the wrong codec gives
    EvictLimits, \* values of maxBytes that EvictColdPages is called with
    ColdLimits,  \* values of maxAccessCount for CompressColdPages
    MaxRef,      \* bound on a page's RefCount
    MaxAccess,   \* bound on a page's AccessCount
    MaxTime      \* bound on the millisecond clock

ASSUME CVMAssumption ==
    /\ NoAgent \notin Agents
    /\ IsFiniteSet(Contents)
    /\ Bytes \in [Contents -> Nat]
    /\ GzipBytes \in [Contents -> Nat]
    /\ \A c \in Contents : Bytes[c] = 0 <=> c = Empty
    /\ Garbage \notin Contents
    /\ EvictLimits \subseteq Int /\ ColdLimits \subseteq Int
    /\ MaxRef \in Nat \ {0} /\ MaxAccess \in Nat \ {0} /\ MaxTime \in Nat

VARIABLES
    pages,       \* Store.pages: a function from the resident page ids
    pageTables,  \* Store.pageTables: the page ids each agent has mounted, in order
    now          \* the clock read by time.Now().UnixMilli()

vars == <<pages, pageTables, now>>

Tables == Agents \cup {NoAgent}

(***************************************************************************)
(* Page encoding.  A compressed page keeps its bytes in compressedData and *)
(* an empty Content; nothing records which codec produced those bytes,     *)
(* readers infer it from their length.                                     *)
(***************************************************************************)
Data == [enc : {"raw", "gzip"}, of : Contents]
NoData == [enc |-> "none", of |-> Empty]

Page == [content     : Contents \cup {Empty},
         compressed  : BOOLEAN,
         data        : Data \cup {NoData},
         pinned      : BOOLEAN,
         refCount    : Nat,
         accessCount : Nat,
         lastAccess  : Nat,
         owners      : SUBSET Agents]

DataLen(d) == IF d.enc = "gzip" THEN GzipBytes[d.of] ELSE Bytes[d.of]

\* Fault: keeps the gzip form of a page that gzip leaves at its size.
gzipBytesAtEqualSize(c) ==
    IF GzipBytes[c] > Bytes[c] THEN [enc |-> "raw", of |-> c]
                               ELSE [enc |-> "gzip", of |-> c]

\* The codec chosen for a cold page: gzip unless it does not shrink the page.
gzipBytes(c) ==
    IF GzipBytes[c] >= Bytes[c] THEN [enc |-> "raw", of |-> c]
                                ELSE [enc |-> "gzip", of |-> c]

\* What Materialize reads back from page p stored under id.
materializedContent(id, p) ==
    IF ~p.compressed THEN p.content
    ELSE IF DataLen(p.data) = Bytes[id]
         THEN IF p.data.enc = "raw" THEN p.data.of ELSE Garbage
         ELSE IF p.data.enc = "gzip" THEN p.data.of ELSE Garbage

residentBytes(id) ==
    IF pages[id].compressed THEN DataLen(pages[id].data) ELSE Bytes[id]

bytesOf(S) == MapThenSumSet(residentBytes, S)

(***************************************************************************)
(* Page tables.  Without(t, V) is the table t with the pages of V filtered *)
(* out and the order of the others kept: the j-th entry left is the one at *)
(* the kept index that has j kept indices up to it.                        *)
(***************************************************************************)
EntriesOf(t) == {t[i] : i \in DOMAIN t}

Mounted(a, id) == id \in EntriesOf(pageTables[a])

KeptIndices(t, V) == {i \in DOMAIN t : t[i] \notin V}
Rank(K, i) == Cardinality({k \in K : k <= i})

\* Fault: keeps the right entries, back to front.
WithoutReversed(t, V) ==
    LET K == KeptIndices(t, V)
    IN  [j \in 1..Cardinality(K) |->
            t[CHOOSE i \in K : Rank(K, i) = Cardinality(K) + 1 - j]]

\* removeString over a table.
Without(t, V) ==
    LET K == KeptIndices(t, V)
    IN  [j \in 1..Cardinality(K) |-> t[CHOOSE i \in K : Rank(K, i) = j]]

Put(f, k, v) == [x \in DOMAIN f \cup {k} |-> IF x = k THEN v ELSE f[x]]

-----------------------------------------------------------------------------
Init ==
    /\ pages = [id \in {} |-> {}]
    /\ pageTables = [a \in Tables |-> <<>>]
    /\ now = 0

\* Fault: nobody holds a reference to a new page.
NewPageUnreferenced(c) ==
    [content |-> c, compressed |-> FALSE, data |-> NoData, pinned |-> FALSE,
     refCount |-> 0, accessCount |-> 1, lastAccess |-> now, owners |-> {}]

NewPage(c) ==
    [content |-> c, compressed |-> FALSE, data |-> NoData, pinned |-> FALSE,
     refCount |-> 1, accessCount |-> 1, lastAccess |-> now, owners |-> {}]

\* Fault: creating a page that exists takes no reference.
CreatePageUncounted(c) ==
    /\ \/ c \in DOMAIN pages /\ UNCHANGED pages
       \/ c \notin DOMAIN pages /\ pages' = Put(pages, c, NewPage(c))
    /\ UNCHANGED <<pageTables, now>>

\* An existing page gains a reference; a new one starts with the creator's.
CreatePage(c) ==
    /\ \/ /\ c \in DOMAIN pages
          /\ pages[c].refCount < MaxRef
          /\ pages' = [pages EXCEPT ![c].refCount = @ + 1]
       \/ /\ c \notin DOMAIN pages
          /\ pages' = Put(pages, c, NewPage(c))
    /\ UNCHANGED <<pageTables, now>>

\* Fault: a page remembers only its first owner.
appendFirstString(owners, a) ==
    IF owners = {} THEN {a} \ {NoAgent} ELSE owners

appendUniqueString(owners, a) == owners \cup ({a} \ {NoAgent})

\* Mounting twice is a no-op; mounting an unknown page is an error (no step).
MountPage(a, id) ==
    /\ id \in DOMAIN pages
    /\ \/ Mounted(a, id) /\ UNCHANGED <<pages, pageTables>>
       \/ /\ ~Mounted(a, id)
          /\ pages[id].refCount < MaxRef
          /\ pages[id].accessCount < MaxAccess
          /\ pageTables' = [pageTables EXCEPT ![a] = Append(@, id)]
          /\ pages' = [pages EXCEPT ![id].refCount = @ + 1,
                                    ![id].owners = appendUniqueString(@, a),
                                    ![id].accessCount = @ + 1,
                                    ![id].lastAccess = now]
    /\ UNCHANGED now

\* Reading an agent's context touches every page of its table.
Materialize(a) ==
    /\ EntriesOf(pageTables[a]) \subseteq DOMAIN pages
    /\ \A id \in EntriesOf(pageTables[a]) : pages[id].accessCount < MaxAccess
    /\ pages' = [id \in DOMAIN pages |->
                    IF Mounted(a, id)
                    THEN [pages[id] EXCEPT !.accessCount = @ + 1, !.lastAccess = now]
                    ELSE pages[id]]
    /\ UNCHANGED <<pageTables, now>>

TouchPage(id) ==
    /\ id \in DOMAIN pages
    /\ pages[id].accessCount < MaxAccess
    /\ pages' = [pages EXCEPT ![id].accessCount = @ + 1, ![id].lastAccess = now]
    /\ UNCHANGED <<pageTables, now>>

PinPage(id) ==
    /\ id \in DOMAIN pages
    /\ pages' = [pages EXCEPT ![id].pinned = TRUE]
    /\ UNCHANGED <<pageTables, now>>

\* Fault: the counter is decremented without looking.
DroppedUnchecked(n) == n - 1

Dropped(n) == IF n > 0 THEN n - 1 ELSE 0

\* Drops one reference whether or not agent a holds one; with an agent id it
\* also unmounts the page from that agent.
ReleasePage(a, id) ==
    /\ id \in DOMAIN pages
    /\ pages' = [pages EXCEPT ![id].refCount = Dropped(@),
                              ![id].owners = @ \ {a}]
    /\ pageTables' = IF a = NoAgent THEN pageTables
                     ELSE [pageTables EXCEPT ![a] = Without(@, {id})]
    /\ UNCHANGED now

\* A limit of zero or less means one.
Cold(id, maxAccessCount) ==
    /\ ~pages[id].pinned
    /\ ~pages[id].compressed
    /\ pages[id].accessCount <= (IF maxAccessCount <= 0 THEN 1 ELSE maxAccessCount)
    /\ pages[id].content # Empty

CompressColdPages(maxAccessCount) ==
    /\ pages' = [id \in DOMAIN pages |->
                    IF Cold(id, maxAccessCount)
                    THEN [pages[id] EXCEPT !.data = gzipBytes(pages[id].content),
                                           !.compressed = TRUE,
                                           !.content = Empty]
                    ELSE pages[id]]
    /\ UNCHANGED <<pageTables, now>>

\* Fault: pins are not looked at.
EvictableIgnoringPins == {id \in DOMAIN pages : pages[id].refCount = 0}

\* Fault: references are not looked at.
EvictableIgnoringRefs == {id \in DOMAIN pages : ~pages[id].pinned}

Evictable == {id \in DOMAIN pages : pages[id].refCount = 0 /\ ~pages[id].pinned}

\* The eviction order: fewest accesses first, then least recently accessed.
ColderThan(i, j) ==
    \/ pages[i].accessCount < pages[j].accessCount
    \/ /\ pages[i].accessCount = pages[j].accessCount
       /\ pages[i].lastAccess < pages[j].lastAccess

\* V is what the eviction loop deletes: a prefix of the candidates in some
\* order that sorts them, stopping at the first point within the budget.
Victims(V, maxBytes) ==
    /\ V \subseteq Evictable
    /\ \A v \in V, w \in Evictable \ V : ~ColderThan(w, v)
    /\ \/ V = Evictable
       \/ bytesOf(DOMAIN pages) - bytesOf(V) <= maxBytes
    /\ V # {} => \E last \in V :
                    /\ \A v \in V : ~ColderThan(last, v)
                    /\ bytesOf(DOMAIN pages) - bytesOf(V \ {last}) > maxBytes

\* Fault: deletes the pages and leaves the tables alone.
TablesUnpruned(V) == pageTables

TablesAfterEvict(V) == [a \in Tables |-> Without(pageTables[a], V)]

EvictColdPages(maxBytes) ==
    /\ maxBytes >= 0
    /\ bytesOf(DOMAIN pages) > maxBytes
    /\ \E V \in SUBSET DOMAIN pages :
          /\ Victims(V, maxBytes)
          /\ pages' = [id \in DOMAIN pages \ V |-> pages[id]]
          /\ pageTables' = TablesAfterEvict(V)
    /\ UNCHANGED now

Tick ==
    /\ now < MaxTime
    /\ now' = now + 1
    /\ UNCHANGED <<pages, pageTables>>

Next ==
    \/ \E c \in Contents : CreatePage(c)
    \/ \E a \in Tables, id \in Contents : MountPage(a, id)
    \/ \E a \in Tables : Materialize(a)
    \/ \E id \in Contents : TouchPage(id)
    \/ \E id \in Contents : PinPage(id)
    \/ \E a \in Tables, id \in Contents : ReleasePage(a, id)
    \/ \E n \in ColdLimits : CompressColdPages(n)
    \/ \E n \in EvictLimits : EvictColdPages(n)
    \/ Tick

Spec == Init /\ [][Next]_vars

-----------------------------------------------------------------------------
\* Type invariant of the store.
TypeOK ==
    /\ DOMAIN pages \subseteq Contents
    /\ pages \in [DOMAIN pages -> Page]
    /\ pageTables \in [Tables -> Seq(Contents)]
    /\ now \in Nat

\* No agent's page table names a page that is not in the store: whatever is
\* released and evicted, Materialize never meets "page missing from store".
TablesResident ==
    \A a \in Tables : EntriesOf(pageTables[a]) \subseteq DOMAIN pages

\* The two records of who uses a page agree: an agent is listed in a page's
\* OwnerAgents exactly when the page is in that agent's table.
OwnersMatchTables ==
    \A id \in DOMAIN pages : \A a \in Agents :
        a \in pages[id].owners <=> Mounted(a, id)

\* Materialize emits a page at most once per agent.
TableEntriesUnique ==
    \A a \in Tables : \A i, j \in DOMAIN pageTables[a] :
        pageTables[a][i] = pageTables[a][j] => i = j

\* Whatever compression did to a page, reading it gives the content that
\* was written, at every relation between its gzip and plain sizes.
ContentIntact ==
    \A id \in DOMAIN pages : materializedContent(id, pages[id]) = id

\* A pinned page is never evicted, compressed or unpinned.
PinnedPageStays ==
    [][\A id \in DOMAIN pages : pages[id].pinned =>
          /\ id \in DOMAIN pages'
          /\ pages'[id].pinned
          /\ pages'[id].compressed = pages[id].compressed]_vars

\* Table t has y before x.
Swapped(t, x, y) == \E m, n \in DOMAIN t : m < n /\ t[m] = y /\ t[n] = x

\* The order in which an agent's pages are emitted never changes while they
\* stay mounted, so the prefix of its context is stable under release and
\* eviction of other pages.
MountOrderStable ==
    [][\A a \in Tables : \A i, j \in DOMAIN pageTables[a] :
          i < j => ~Swapped(pageTables'[a], pageTables[a][i], pageTables[a][j])]_vars
============================================================================
