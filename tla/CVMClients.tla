----------------------------- MODULE CVMClients -----------------------------
(***************************************************************************)
(* Callers of the page store.  Balanced callers run concurrently and       *)
(* release only references they hold: ReleasePage("", id) gives back a     *)
(* reference the caller took with CreatePage, ReleasePage(agent, id)       *)
(* unmounts a page the agent has mounted.  This is how the tests and       *)
(* experiments use the store (one ReleasePage("", page.ID) per             *)
(* CreatePage).  Nothing in the store enforces it, so the other case is    *)
(* callers that make any call at any time.                                 *)
(*                                                                         *)
(* WriteDelta runs as two steps, because the store's mutex is free between *)
(* its CreatePage and its MountPage.                                       *)
(***************************************************************************)
EXTENDS CVM

CONSTANTS Callers, Idle

VARIABLES
    held,     \* held[k][c]: references from CreatePage that caller k holds
    writing,  \* writing[k]: the <<agent, page>> of k's unfinished WriteDelta
    balanced  \* the callers are balanced

cvars == <<pages, pageTables, now, held, writing, balanced>>

CInit ==
    /\ Init
    /\ held = [k \in Callers |-> [c \in Contents |-> 0]]
    /\ writing = [k \in Callers |-> Idle]
    /\ balanced \in BOOLEAN

Create(k, c) ==
    /\ writing[k] = Idle
    /\ CreatePage(c)
    /\ held' = [held EXCEPT ![k][c] = @ + 1]
    /\ UNCHANGED writing

\* First critical section of WriteDelta.
WriteDeltaCreate(k, a, c) ==
    /\ writing[k] = Idle
    /\ CreatePage(c)
    /\ held' = [held EXCEPT ![k][c] = @ + 1]
    /\ writing' = [writing EXCEPT ![k] = <<a, c>>]

\* Second critical section of WriteDelta: mounts, or fails if the page is gone.
WriteDeltaMount(k) ==
    /\ writing[k] # Idle
    /\ LET a == writing[k][1]
           c == writing[k][2]
       IN  IF c \in DOMAIN pages THEN MountPage(a, c) ELSE UNCHANGED vars
    /\ writing' = [writing EXCEPT ![k] = Idle]
    /\ UNCHANGED held

ReleaseHeld(k, c) ==
    /\ writing[k] = Idle
    /\ held[k][c] > 0
    /\ ReleasePage(NoAgent, c)
    /\ held' = [held EXCEPT ![k][c] = @ - 1]
    /\ UNCHANGED writing

ReleaseMounted(a, c) ==
    /\ Mounted(a, c)
    /\ ReleasePage(a, c)
    /\ UNCHANGED <<held, writing>>

\* Calls that take no reference away from anybody.  The clock stands still:
\* equal access times leave the eviction order open, so every order occurs.
OtherCall ==
    /\ \/ \E a \in Tables, c \in Contents : MountPage(a, c)
       \/ \E a \in Tables : Materialize(a)
       \/ \E c \in Contents : TouchPage(c) \/ PinPage(c)
       \/ \E n \in ColdLimits : CompressColdPages(n)
       \/ \E n \in EvictLimits : EvictColdPages(n)
    /\ UNCHANGED <<held, writing>>

BalancedCall ==
    \/ \E k \in Callers, c \in Contents : Create(k, c) \/ ReleaseHeld(k, c)
    \/ \E k \in Callers, a \in Tables, c \in Contents : WriteDeltaCreate(k, a, c)
    \/ \E k \in Callers : WriteDeltaMount(k)
    \/ \E a \in Agents, c \in Contents : ReleaseMounted(a, c)
    \/ OtherCall

CNext ==
    /\ \/ balanced /\ BalancedCall
       \/ ~balanced /\ Next /\ UNCHANGED <<held, writing>>
    /\ UNCHANGED balanced

CSpec == CInit /\ [][CNext]_cvars

-----------------------------------------------------------------------------
\* The references from CreatePage to page c that callers hold, told apart by
\* their holder and a number, and the tables that have c mounted.
References(c) == UNION {{k} \X (1..held[k][c]) : k \in Callers}
Mounters(c) == {a \in Tables : Mounted(a, c)}

\* RefCount is exactly the references somebody holds: one per CreatePage not
\* given back and one per table that has the page mounted, among balanced
\* callers.
RefCountExact ==
    balanced => \A c \in DOMAIN pages :
        pages[c].refCount = Cardinality(References(c)) + Cardinality(Mounters(c))

\* A WriteDelta that has created its page finds it when it comes back to
\* mount it, whatever other callers released and evicted in between.
WriteDeltaFindsItsPage ==
    \A k \in Callers : writing[k] # Idle => writing[k][2] \in DOMAIN pages
=============================================================================
