---------------------------- MODULE GatewayProofs ----------------------------
(***************************************************************************)
(* Proofs about the daemon's calls, for any number of concurrent calls,    *)
(* agents, topics and pages.                                               *)
(***************************************************************************)
EXTENDS Gateway, CVMProofs

\* What a call may have on its list.
Ops ==
    {Create(c) : c \in Contents}
    \cup {Mount(a, c, s) : a \in Agents, c \in Contents, s \in BOOLEAN}
    \cup {Pin(c) : c \in Contents}
    \cup {Compress(n) : n \in Nat}
    \cup {Evict(n) : n \in Nat}
    \cup {Read(a) : a \in Agents}
    \cup {Lookup(c) : c \in Contents}
    \cup {Send(t, c) : t \in Topics, c \in Contents}
    \cup {Take(a, t) : a \in Agents, t \in Topics}
    \cup {CopyTable(a, b) : a \in Agents, b \in Agents}

(***************************************************************************)
(* The inductive invariant.  Residence of the pages calls carry around     *)
(* rests on nothing ever being evicted, and that on every resident page    *)
(* having a reference: CreatePage takes one that the daemon never gives    *)
(* back.  Between two steps of a call, the list of what is left to do has  *)
(* to back each page id it will use: the page is in the store already, or  *)
(* the call itself creates it (looks it up, before a send) first.  And a   *)
(* mount whose failure would end the call comes after creations and mounts *)
(* only, so no other failure drops it.                                     *)
(***************************************************************************)
Backed(q, D) ==
    \A i \in DOMAIN q :
        /\ q[i].do = "mount" =>
              \/ q[i].page \in D
              \/ \E j \in DOMAIN q : j < i /\ q[j] = Create(q[i].page)
        /\ q[i].do = "send" =>
              \/ q[i].page \in D
              \/ \E j \in DOMAIN q : j < i /\ q[j] = Lookup(q[i].page)
        /\ q[i].do = "mount" /\ q[i].strict =>
              \A j \in DOMAIN q : j < i => q[j].do \in {"create", "mount"}

Referenced == \A c \in DOMAIN pages : pages[c].refCount > 0

BoardOK ==
    /\ topics \in [Topics -> Seq(Contents)]
    /\ offsets \in [Topics -> [Agents -> Nat]]
    /\ inbox \in [Topics -> [Agents -> Seq(Contents)]]
    /\ PublishedStaysResident

CallsOK ==
    /\ todo \in [Callers -> Seq(Ops)]
    /\ \A k \in Callers : Backed(todo[k], DOMAIN pages)

GInv == IInv /\ Referenced /\ BoardOK /\ CallsOK /\ PolledGetsMounted

\* What every step does to the store: it only grows.
Grows ==
    /\ IInv' /\ Referenced'
    /\ DOMAIN pages \subseteq DOMAIN pages'
    /\ \A a \in Tables : EntriesOf(pageTables[a]) \subseteq EntriesOf(pageTables'[a])

(***************************************************************************)
(* Lists of operations.                                                    *)
(***************************************************************************)

\* The name of an operation determines its form.
LEMMA OpForms ==
    ASSUME NEW op \in Ops
    PROVE  /\ op.do = "create" => \E c \in Contents : op = Create(c)
           /\ op.do = "mount" => \E a \in Agents, c \in Contents, s \in BOOLEAN :
                                    op = Mount(a, c, s)
           /\ op.do = "pin" => \E c \in Contents : op = Pin(c)
           /\ op.do = "compress" => \E n \in Nat : op = Compress(n)
           /\ op.do = "evict" => \E n \in Nat : op = Evict(n)
           /\ op.do = "read" => \E a \in Agents : op = Read(a)
           /\ op.do = "lookup" => \E c \in Contents : op = Lookup(c)
           /\ op.do = "send" => \E t \in Topics, c \in Contents : op = Send(t, c)
           /\ op.do = "take" => \E a \in Agents, t \in Topics : op = Take(a, t)
           /\ op.do = "copy" => \E a \in Agents, b \in Agents : op = CopyTable(a, b)
  BY DEF Ops, Create, Mount, Pin, Compress, Evict, Read, Lookup, Send, Take, CopyTable

\* A list that is not empty is its head and its tail.
LEMMA HeadAndTail ==
    ASSUME NEW S, NEW q \in Seq(S), q # <<>>
    PROVE  /\ Head(q) = q[1] /\ q[1] \in S /\ 1 \in DOMAIN q
           /\ Tail(q) \in Seq(S)
           /\ Len(q) \in Nat /\ DOMAIN q = 1..Len(q)
           /\ DOMAIN Tail(q) = 1..(Len(q) - 1)
           /\ \A i \in DOMAIN Tail(q) : Tail(q)[i] = q[i + 1]
           /\ EntriesOf(q) = {Head(q)} \cup EntriesOf(Tail(q))
<1>1. /\ Head(q) = q[1] /\ q[1] \in S /\ 1 \in DOMAIN q
      /\ Tail(q) \in Seq(S)
      /\ Len(q) \in Nat /\ DOMAIN q = 1..Len(q)
      /\ DOMAIN Tail(q) = 1..(Len(q) - 1)
      /\ \A i \in DOMAIN Tail(q) : Tail(q)[i] = q[i + 1]
  BY HeadTailProperties, LenProperties, EmptySeq, ElementOfSeq
<1>2. \A x \in EntriesOf(q) : x \in {Head(q)} \cup EntriesOf(Tail(q))
  <2> SUFFICES ASSUME NEW i \in DOMAIN q, i # 1
               PROVE  q[i] \in EntriesOf(Tail(q))
    BY <1>1 DEF EntriesOf
  <2>1. i - 1 \in DOMAIN Tail(q) /\ Tail(q)[i - 1] = q[i]
    BY <1>1
  <2> QED
    BY <2>1 DEF EntriesOf
<1>3. \A x \in EntriesOf(Tail(q)) : x \in EntriesOf(q)
  <2> SUFFICES ASSUME NEW i \in DOMAIN Tail(q)
               PROVE  Tail(q)[i] \in EntriesOf(q)
    BY DEF EntriesOf
  <2>1. i + 1 \in DOMAIN q /\ Tail(q)[i] = q[i + 1]
    BY <1>1
  <2> QED
    BY <2>1 DEF EntriesOf
<1>4. Head(q) \in EntriesOf(q)
  BY <1>1 DEF EntriesOf
<1> QED
  BY <1>1, <1>2, <1>3, <1>4

\* What is left of a list is backed once its first operation has been done,
\* if the store has kept what it had and holds the page that operation
\* created or looked up.
LEMMA BackedTail ==
    ASSUME NEW q \in Seq(Ops), q # <<>>, NEW D, NEW E, D \subseteq E, Backed(q, D),
           \A c \in Contents : Head(q) \in {Create(c), Lookup(c)} => c \in E
    PROVE  Backed(Tail(q), E)
<1> DEFINE w == Tail(q)
<1>1. /\ Head(q) = q[1] /\ 1 \in DOMAIN q /\ w \in Seq(Ops)
      /\ Len(q) \in Nat /\ DOMAIN q = 1..Len(q)
      /\ DOMAIN w = 1..(Len(q) - 1)
      /\ \A i \in DOMAIN w : w[i] = q[i + 1]
  BY HeadAndTail
<1> HIDE DEF w
<1> SUFFICES ASSUME NEW i \in DOMAIN w
             PROVE  /\ w[i].do = "mount" =>
                          \/ w[i].page \in E
                          \/ \E j \in DOMAIN w : j < i /\ w[j] = Create(w[i].page)
                    /\ w[i].do = "send" =>
                          \/ w[i].page \in E
                          \/ \E j \in DOMAIN w : j < i /\ w[j] = Lookup(w[i].page)
                    /\ w[i].do = "mount" /\ w[i].strict =>
                          \A j \in DOMAIN w : j < i => w[j].do \in {"create", "mount"}
  BY DEF Backed, w
<1>2. i + 1 \in DOMAIN q /\ w[i] = q[i + 1] /\ i \in Nat /\ w[i] \in Ops
  BY <1>1, ElementOfSeq
<1>3. \A j \in DOMAIN q : j < i + 1 /\ j # 1 => j - 1 \in DOMAIN w /\ j - 1 < i /\ w[j - 1] = q[j]
  BY <1>1, <1>2
<1>4. w[i].do = "mount" =>
         \/ w[i].page \in E
         \/ \E j \in DOMAIN w : j < i /\ w[j] = Create(w[i].page)
  <2> SUFFICES ASSUME w[i].do = "mount", w[i].page \notin E
               PROVE  \E j \in DOMAIN w : j < i /\ w[j] = Create(w[i].page)
    OBVIOUS
  <2>1. w[i].page \in Contents
    BY <1>2, OpForms DEF Mount
  <2>2. PICK j \in DOMAIN q : j < i + 1 /\ q[j] = Create(w[i].page)
    BY <1>2 DEF Backed
  <2>3. j # 1
    BY <1>1, <2>1, <2>2
  <2> QED
    BY <1>3, <2>2, <2>3
<1>5. w[i].do = "send" =>
         \/ w[i].page \in E
         \/ \E j \in DOMAIN w : j < i /\ w[j] = Lookup(w[i].page)
  <2> SUFFICES ASSUME w[i].do = "send", w[i].page \notin E
               PROVE  \E j \in DOMAIN w : j < i /\ w[j] = Lookup(w[i].page)
    OBVIOUS
  <2>1. w[i].page \in Contents
    BY <1>2, OpForms DEF Send
  <2>2. PICK j \in DOMAIN q : j < i + 1 /\ q[j] = Lookup(w[i].page)
    BY <1>2 DEF Backed
  <2>3. j # 1
    BY <1>1, <2>1, <2>2
  <2> QED
    BY <1>3, <2>2, <2>3
<1>6. w[i].do = "mount" /\ w[i].strict =>
         \A j \in DOMAIN w : j < i => w[j].do \in {"create", "mount"}
  <2> SUFFICES ASSUME w[i].do = "mount", w[i].strict, NEW j \in DOMAIN w, j < i
               PROVE  w[j].do \in {"create", "mount"}
    OBVIOUS
  <2>1. j + 1 \in DOMAIN q /\ j + 1 < i + 1 /\ w[j] = q[j + 1]
    BY <1>1, <1>2
  <2> QED
    BY <1>2, <2>1 DEF Backed
<1> QED
  BY <1>4, <1>5, <1>6

\* The store growing takes no backing away.
LEMMA BackedGrows ==
    ASSUME NEW q, NEW D, NEW E, D \subseteq E, Backed(q, D)
    PROVE  Backed(q, E)
  BY DEF Backed

\* A mount whose failure ends the call is never dropped by another failure:
\* nothing that can fail or replace the list comes before it.
LEMMA StrictAtHead ==
    ASSUME NEW q \in Seq(Ops), q # <<>>, NEW D, Backed(q, D),
           NEW a, NEW c, Mount(a, c, TRUE) \in EntriesOf(q)
    PROVE  Head(q).do \in {"create", "mount"}
<1>1. Head(q) = q[1] /\ 1 \in DOMAIN q /\ DOMAIN q = 1..Len(q) /\ Len(q) \in Nat
  BY HeadAndTail
<1>2. PICK i \in DOMAIN q : q[i] = Mount(a, c, TRUE)
  BY DEF EntriesOf
<1>3. q[i].do = "mount" /\ q[i].strict
  BY <1>2 DEF Mount
<1>4. \A j \in DOMAIN q : j < i => q[j].do \in {"create", "mount"}
  BY <1>3 DEF Backed
<1> QED
  BY <1>1, <1>3, <1>4

\* A list of mounts is backed when all its pages are in the store.
LEMMA MountsBacked ==
    ASSUME NEW a \in Agents, NEW p \in Seq(Contents), NEW s \in BOOLEAN,
           NEW D, EntriesOf(p) \subseteq D
    PROVE  /\ Mounts(a, p, s) \in Seq(Ops)
           /\ Backed(Mounts(a, p, s), D)
           /\ \A c \in EntriesOf(p) : Mount(a, c, s) \in EntriesOf(Mounts(a, p, s))
<1> DEFINE q == Mounts(a, p, s)
<1>1. Len(p) \in Nat /\ DOMAIN p = 1..Len(p) /\ \A i \in 1..Len(p) : p[i] \in Contents
  BY LenProperties, ElementOfSeq
<1>2. q = [i \in 1..Len(p) |-> Mount(a, p[i], s)]
  BY <1>1 DEF Mounts
<1>3. \A i \in 1..Len(p) : Mount(a, p[i], s) \in Ops
  BY <1>1 DEF Ops
<1>4. q \in Seq(Ops)
  BY <1>1, <1>2, <1>3, IsASeq
<1>5. Backed(q, D)
  <2>1. \A i \in DOMAIN q : /\ q[i].do = "mount"
                            /\ q[i].page \in D
                            /\ \A j \in DOMAIN q : q[j].do = "mount"
    BY <1>1, <1>2 DEF Mount, EntriesOf
  <2> HIDE DEF q
  <2> QED
    BY <2>1 DEF Backed
<1>6. \A c \in EntriesOf(p) : Mount(a, c, s) \in EntriesOf(q)
  BY <1>1, <1>2 DEF EntriesOf
<1> QED
  BY <1>4, <1>5, <1>6

\* WriteDelta backs its own mount: it creates the page first.
LEMMA WriteDeltaBacked ==
    ASSUME NEW a \in Agents, NEW c \in Contents, NEW D
    PROVE  WriteDelta(a, c, TRUE) \in Seq(Ops) /\ Backed(WriteDelta(a, c, TRUE), D)
<1> DEFINE m == Mount(a, c, TRUE)
           q == <<Create(c), m>>
<1>1. Create(c) \in Ops /\ m \in Ops
  <2>1. Create(c) \in {Create(x) : x \in Contents}
    OBVIOUS
  <2>2. \A s \in BOOLEAN : Mount(a, c, s) \in Ops
    BY DEF Ops
  <2>3. m \in Ops
    BY <2>2, Zenon
  <2> HIDE DEF m
  <2> QED
    BY <2>1, <2>3 DEF Ops
<1>2. Create(c).do = "create" /\ m.do = "mount" /\ m.page = c
  BY DEF Create, Mount
<1>3. WriteDelta(a, c, TRUE) = q
  BY Zenon DEF WriteDelta
<1> HIDE DEF m
<1>4. q \in Seq(Ops) /\ DOMAIN q = {1, 2} /\ q[1] = Create(c) /\ q[2] = m
  BY <1>1
<1> HIDE DEF q
<1>5. Backed(q, D)
  BY <1>2, <1>4 DEF Backed
<1> QED
  BY <1>3, <1>4, <1>5, Zenon

\* ipc.publish backs its own send: it looks the page up first.
LEMMA IpcPublishBacked ==
    ASSUME NEW t \in Topics, NEW c \in Contents, NEW D
    PROVE  IpcPublish(t, c) \in Seq(Ops) /\ Backed(IpcPublish(t, c), D)
<1> DEFINE q == IpcPublish(t, c)
<1>1. Lookup(c) \in Ops /\ Send(t, c) \in Ops
  BY DEF Ops
<1>2. q = <<Lookup(c), Send(t, c)>>
  BY DEF IpcPublish
<1>3. q \in Seq(Ops) /\ DOMAIN q = {1, 2} /\ q[1] = Lookup(c) /\ q[2] = Send(t, c)
  BY <1>1, <1>2
<1> HIDE DEF q
<1>4. Lookup(c).do = "lookup" /\ Send(t, c).do = "send" /\ Send(t, c).page = c
  BY DEF Lookup, Send
<1> QED
  BY <1>3, <1>4 DEF Backed, q

\* The operations that use no page id a call carries.
LEMMA PlainBacked ==
    ASSUME NEW q \in Seq({op \in Ops : op.do \notin {"mount", "send"}}), NEW D
    PROVE  q \in Seq(Ops) /\ Backed(q, D)
<1>1. Len(q) \in Nat /\ DOMAIN q = 1..Len(q)
      /\ \A i \in 1..Len(q) : q[i] \in Ops /\ q[i].do \notin {"mount", "send"}
  BY LenProperties, ElementOfSeq
<1>2. q \in Seq(Ops)
  BY <1>1
<1> QED
  BY <1>1, <1>2 DEF Backed

\* A materialization carries page ids only to pin them.
LEMMA MaterializeBacked ==
    ASSUME NEW a \in Agents, NEW ctl \in Controls, NEW D
    PROVE  ContextMaterialize(a, ctl) \in Seq(Ops) /\ Backed(ContextMaterialize(a, ctl), D)
<1> DEFINE S == {op \in Ops : op.do \notin {"mount", "send"}}
           q1 == [i \in DOMAIN ctl.pins |-> Pin(ctl.pins[i])]
           q2 == IF ctl.cold = 0 THEN <<>> ELSE <<Compress(ctl.cold)>>
           q3 == IF ctl.evict = 0 THEN <<>> ELSE <<Evict(ctl.evict)>>
<1>1. ctl.pins \in Seq(Contents) /\ ctl.cold \in Nat /\ ctl.evict \in Nat
  BY GatewayAssumption
<1>2. /\ \A c \in Contents : Pin(c) \in S
      /\ \A n \in Nat : Compress(n) \in S /\ Evict(n) \in S
      /\ Read(a) \in S
  <2>1. /\ \A c \in Contents : Pin(c) \in Ops
        /\ \A n \in Nat : Compress(n) \in Ops /\ Evict(n) \in Ops
        /\ Read(a) \in Ops
    BY DEF Ops
  <2>2. /\ \A c \in Contents : Pin(c).do = "pin"
        /\ \A n \in Nat : Compress(n).do = "compress" /\ Evict(n).do = "evict"
        /\ Read(a).do = "read"
    BY DEF Pin, Compress, Evict, Read
  <2> QED
    BY <2>1, <2>2
<1> HIDE DEF S
<1>3. q1 \in Seq(S)
  <2>1. Len(ctl.pins) \in Nat /\ DOMAIN ctl.pins = 1..Len(ctl.pins)
        /\ \A i \in 1..Len(ctl.pins) : ctl.pins[i] \in Contents
    BY <1>1, LenProperties, ElementOfSeq
  <2> QED
    BY <1>2, <2>1, IsASeq
<1>4. q2 \in Seq(S) /\ q3 \in Seq(S) /\ <<Read(a)>> \in Seq(S)
  BY <1>1, <1>2
<1> HIDE DEF q1, q2, q3
<1>5. q1 \o q2 \o q3 \o <<Read(a)>> \in Seq(S)
  BY <1>3, <1>4, ConcatProperties
<1>6. ContextMaterialize(a, ctl) = q1 \o q2 \o q3 \o <<Read(a)>>
  BY DEF ContextMaterialize, q1, q2, q3
<1> QED
  BY <1>5, <1>6, PlainBacked DEF S

\* The single operations of llm.call, agent.spawn and ipc.poll.
LEMMA SingleBacked ==
    ASSUME NEW a \in Agents, NEW D
    PROVE  /\ LlmCall(a) \in Seq(Ops) /\ Backed(LlmCall(a), D)
           /\ \A b \in Agents : AgentSpawn(a, b) \in Seq(Ops) /\ Backed(AgentSpawn(a, b), D)
           /\ \A t \in Topics : IpcPoll(a, t) \in Seq(Ops) /\ Backed(IpcPoll(a, t), D)
<1> DEFINE S == {op \in Ops : op.do \notin {"mount", "send"}}
<1>1. /\ Read(a) \in S
      /\ \A b \in Agents : CopyTable(a, b) \in S
      /\ \A t \in Topics : Take(a, t) \in S
  <2>1. /\ Read(a) \in Ops
        /\ \A b \in Agents : CopyTable(a, b) \in Ops
        /\ \A t \in Topics : Take(a, t) \in Ops
    BY DEF Ops
  <2>2. /\ Read(a).do = "read"
        /\ \A b \in Agents : CopyTable(a, b).do = "copy"
        /\ \A t \in Topics : Take(a, t).do = "take"
    BY DEF Read, CopyTable, Take
  <2> QED
    BY <2>1, <2>2
<1> HIDE DEF S
<1>2. /\ LlmCall(a) \in Seq(S)
      /\ \A b \in Agents : AgentSpawn(a, b) \in Seq(S)
      /\ \A t \in Topics : IpcPoll(a, t) \in Seq(S)
  BY <1>1 DEF LlmCall, IpcPoll, AgentSpawn
<1> QED
  BY <1>2, PlainBacked DEF S

\* The elements of one operation followed by two.
LEMMA OneAndTwo ==
    ASSUME NEW x \in Ops, NEW y \in Ops, NEW z \in Ops, NEW w, w = <<x>> \o <<y, z>>
    PROVE  w[1] = x /\ w[2] = y /\ w[3] = z
<1> DEFINE u == <<x>>
           v == <<y, z>>
<1>1. u \in Seq(Ops) /\ Len(u) = 1 /\ u[1] = x
  OBVIOUS
<1>2. v \in Seq(Ops) /\ Len(v) = 2 /\ v[1] = y /\ v[2] = z
  OBVIOUS
<1>3. w = u \o v
  BY Zenon
<1> HIDE DEF u, v
<1>4. \A i \in 1..(Len(u) + Len(v)) :
         (u \o v)[i] = IF i <= Len(u) THEN u[i] ELSE v[i - Len(u)]
  BY <1>1, <1>2, ConcatProperties, Zenon
<1>5. \A i \in 1..3 : w[i] = IF i <= 1 THEN u[i] ELSE v[i - 1]
  BY <1>1, <1>2, <1>3, <1>4
<1> QED
  BY <1>1, <1>2, <1>5

\* Seeding creates the shared page before it is mounted for anybody, and each
\* scratch page right before its own mount.
LEMMA SeedBacked ==
    ASSUME NEW l \in AgentLists, NEW c \in Contents, NEW d \in Contents, NEW D
    PROVE  SeedContext(l, c, d) \in Seq(Ops) /\ Backed(SeedContext(l, c, d), D)
<1> DEFINE M(a, x) == Mount(a, x, FALSE)
           block(a) == <<Mount(a, c, FALSE)>> \o WriteDelta(a, d, FALSE)
           n == 3 * Len(l)
           r == [i \in 1..n |-> block(l[(i + 2) \div 3])[((i - 1) % 3) + 1]]
           q == <<Create(c)>> \o r
<1>1. l \in Seq(Agents) /\ Len(l) \in Nat /\ DOMAIN l = 1..Len(l)
  <2>1. PICK m \in 1..Cardinality(Agents) : l \in [1..m -> Agents]
    BY DEF AgentLists
  <2>2. m \in Nat
    BY <2>1
  <2> QED
    BY <2>1, <2>2, LenProperties
<1>0. \A a \in Agents, x \in Contents :
         M(a, x) \in Ops /\ M(a, x).do = "mount" /\ M(a, x).page = x /\ ~M(a, x).strict
  <2> SUFFICES ASSUME NEW a \in Agents, NEW x \in Contents
               PROVE  M(a, x) \in Ops /\ M(a, x).do = "mount" /\ M(a, x).page = x
                      /\ ~M(a, x).strict
    OBVIOUS
  <2>1. \A s \in BOOLEAN : Mount(a, x, s) \in Ops
    BY DEF Ops
  <2>2. M(a, x) \in Ops
    BY <2>1, Zenon
  <2>3. M(a, x).do = "mount" /\ M(a, x).page = x /\ ~M(a, x).strict
    BY DEF Mount
  <2> QED
    BY <2>2, <2>3
<1>a. \A a \in Agents : block(a) = <<M(a, c)>> \o <<Create(d), M(a, d)>>
  BY Zenon DEF WriteDelta
<1> HIDE DEF M, block
<1>2. \A a \in Agents : /\ block(a)[1] = M(a, c)
                        /\ block(a)[2] = Create(d)
                        /\ block(a)[3] = M(a, d)
  <2> SUFFICES ASSUME NEW a \in Agents
               PROVE  block(a)[1] = M(a, c) /\ block(a)[2] = Create(d) /\ block(a)[3] = M(a, d)
    OBVIOUS
  <2>1. Create(d) \in Ops /\ M(a, c) \in Ops /\ M(a, d) \in Ops
    BY <1>0 DEF Ops
  <2>2. block(a) = <<M(a, c)>> \o <<Create(d), M(a, d)>>
    BY <1>a, Zenon
  <2> QED
    BY <2>1, <2>2, OneAndTwo
<1>3. \A i \in 1..n : /\ (i + 2) \div 3 \in 1..Len(l)
                      /\ l[(i + 2) \div 3] \in Agents
                      /\ (i - 1) % 3 \in {0, 1, 2}
                      /\ (i - 1) % 3 = 2 => i - 1 \in 1..n /\ (i - 2) % 3 = 1
  <2>1. \A i \in 1..n : (i + 2) \div 3 \in 1..Len(l)
    BY <1>1
  <2>2. \A i \in 1..n : (i - 1) % 3 \in {0, 1, 2}
    BY <1>1
  <2>3. \A i \in 1..n : (i - 1) % 3 = 2 => i - 1 \in 1..n /\ (i - 2) % 3 = 1
    BY <1>1
  <2> QED
    BY <1>1, <2>1, <2>2, <2>3, ElementOfSeq
<1> HIDE DEF n
<1>4. n \in Nat
  BY <1>1 DEF n
<1>5. \A i \in 1..n : /\ (i - 1) % 3 = 0 => r[i] = M(l[(i + 2) \div 3], c)
                      /\ (i - 1) % 3 = 1 => r[i] = Create(d)
                      /\ (i - 1) % 3 = 2 => r[i] = M(l[(i + 2) \div 3], d)
  <2> SUFFICES ASSUME NEW i \in 1..n
               PROVE  /\ (i - 1) % 3 = 0 => r[i] = M(l[(i + 2) \div 3], c)
                      /\ (i - 1) % 3 = 1 => r[i] = Create(d)
                      /\ (i - 1) % 3 = 2 => r[i] = M(l[(i + 2) \div 3], d)
    OBVIOUS
  <2> DEFINE a == l[(i + 2) \div 3]
             e == (i - 1) % 3
  <2>1. a \in Agents /\ r[i] = block(a)[e + 1]
    BY <1>3
  <2> HIDE DEF a, e
  <2>2. /\ e = 0 => r[i] = M(a, c)
        /\ e = 1 => r[i] = Create(d)
        /\ e = 2 => r[i] = M(a, d)
    BY <1>2, <2>1
  <2> QED
    BY <2>2 DEF a, e
<1>6. Create(c) \in Ops /\ Create(d) \in Ops
  BY DEF Ops
<1>7. r \in Seq(Ops) /\ Len(r) = n
  <2>1. \A i \in 1..n : r[i] \in Ops
    BY <1>0, <1>3, <1>5, <1>6
  <2> QED
    BY <1>4, <2>1, IsASeq, LenProperties
<1> HIDE DEF r
<1>8. /\ q \in Seq(Ops) /\ Len(q) = n + 1 /\ DOMAIN q = 1..(n + 1) /\ q[1] = Create(c)
      /\ \A i \in 1..n : q[i + 1] = r[i]
  <2>1. <<Create(c)>> \in Seq(Ops) /\ Len(<<Create(c)>>) = 1 /\ <<Create(c)>>[1] = Create(c)
    BY <1>6
  <2> QED
    BY <1>4, <1>7, <2>1, ConcatProperties, LenProperties
<1> HIDE DEF q
<1>9. Backed(q, D)
  <2> SUFFICES ASSUME NEW i \in 1..(n + 1)
               PROVE  /\ q[i].do = "mount" => \E j \in DOMAIN q : j < i /\ q[j] = Create(q[i].page)
                      /\ q[i].do # "send"
                      /\ ~(q[i].do = "mount" /\ q[i].strict)
    BY <1>8 DEF Backed
  <2>1. CASE i = 1
    BY <1>8, <2>1 DEF Create
  <2>2. CASE i # 1
    <3> DEFINE m == i - 1
    <3>1. m \in 1..n /\ q[i] = r[m] /\ m < i
      BY <1>4, <1>8, <2>2
    <3> HIDE DEF m
    <3>2. CASE (m - 1) % 3 = 0
      <4>1. PICK a \in Agents : q[i] = M(a, c)
        BY <1>3, <1>5, <3>1, <3>2
      <4> QED
        BY <1>0, <1>4, <1>8, <2>2, <4>1
    <3>3. CASE (m - 1) % 3 = 1
      BY <1>5, <3>1, <3>3 DEF Create
    <3>4. CASE (m - 1) % 3 = 2
      <4>1. PICK a \in Agents : q[i] = M(a, d)
        BY <1>3, <1>5, <3>1, <3>4
      <4>2. m - 1 \in 1..n /\ (m - 2) % 3 = 1
        BY <1>3, <3>1, <3>4
      <4>3. r[m - 1] = Create(d)
        <5>1. (m - 1) - 1 = m - 2
          BY <3>1, <1>4
        <5> QED
          BY <1>5, <4>2, <5>1
      <4>4. q[m] = Create(d) /\ m \in DOMAIN q
        BY <1>4, <1>8, <3>1, <4>2, <4>3
      <4> QED
        BY <1>0, <3>1, <4>1, <4>4
    <3> QED
      BY <1>3, <3>1, <3>2, <3>3, <3>4
  <2> QED
    BY <2>1, <2>2
<1>10. SeedContext(l, c, d) = q
  BY Zenon DEF SeedContext, q, r, n, block
<1> QED
  BY <1>8, <1>9, <1>10

(***************************************************************************)
(* The store only grows.                                                   *)
(***************************************************************************)

\* Creating a page adds it and gives it a reference.
LEMMA CreateGrows ==
    ASSUME IInv, Referenced, NEW c \in Contents, CreatePage(c)
    PROVE  Grows /\ c \in DOMAIN pages'
<1>1. pages \in [DOMAIN pages -> Page] /\ pageTables' = pageTables
  BY DEF IInv, TypeOK, CreatePage
<1>2. \A d \in DOMAIN pages : pages[d] \in Page /\ pages[d].refCount \in Nat
                              /\ pages[d].refCount > 0
  BY <1>1 DEF Page, Referenced
<1>3. IInv'
  BY CreatePageIInv
<1>4. CASE c \in DOMAIN pages
  BY <1>1, <1>2, <1>3, <1>4 DEF CreatePage, Grows, Referenced, Page
<1>5. CASE c \notin DOMAIN pages
  BY <1>1, <1>2, <1>3, <1>5 DEF CreatePage, Put, NewPage, Grows, Referenced
<1> QED
  BY <1>4, <1>5

\* Mounting a page adds it to the agent's table.
LEMMA MountGrows ==
    ASSUME IInv, Referenced, NEW a \in Tables, NEW c \in Contents, MountPage(a, c)
    PROVE  Grows /\ c \in EntriesOf(pageTables'[a])
<1>1. IInv'
  BY MountPageIInv
<1>2. CASE Mounted(a, c)
  BY <1>1, <1>2 DEF MountPage, Grows, Referenced, Mounted
<1>3. CASE ~Mounted(a, c)
  <2>1. /\ c \in DOMAIN pages
        /\ pageTables' = [pageTables EXCEPT ![a] = Append(@, c)]
        /\ pages' = [pages EXCEPT ![c] =
                       [pages[c] EXCEPT !.refCount = pages[c].refCount + 1,
                                        !.owners = appendUniqueString(pages[c].owners, a),
                                        !.accessCount = pages[c].accessCount + 1,
                                        !.lastAccess = now]]
    BY <1>3 DEF MountPage
  <2>2. pageTables \in [Tables -> Seq(Contents)] /\ pages[c] \in Page
    BY <2>1 DEF IInv, TypeOK
  <2>3. /\ DOMAIN pages' = DOMAIN pages
        /\ pages'[c].refCount = pages[c].refCount + 1
        /\ \A d \in DOMAIN pages \ {c} : pages'[d] = pages[d]
    BY <2>1, <2>2 DEF Page
  <2>4. EntriesOf(pageTables'[a]) = EntriesOf(pageTables[a]) \cup {c}
    <3> DEFINE t == pageTables[a]
    <3>1. t \in Seq(Contents) /\ pageTables'[a] = Append(t, c)
      BY <2>1, <2>2
    <3> HIDE DEF t
    <3>2. EntriesOf(Append(t, c)) = EntriesOf(t) \cup {c}
      BY <3>1, AppendProperties, LenProperties DEF EntriesOf
    <3> QED
      BY <3>1, <3>2 DEF t
  <2>5. \A b \in Tables \ {a} : pageTables'[b] = pageTables[b]
    BY <2>1, <2>2
  <2>6. Referenced'
    BY <2>1, <2>2, <2>3 DEF Referenced, Page
  <2> QED
    BY <1>1, <2>3, <2>4, <2>5, <2>6 DEF Grows
<1> QED
  BY <1>2, <1>3

\* Pinning, reading and compressing keep the pages and their references.
LEMMA AccessGrows ==
    ASSUME IInv, Referenced,
           \/ \E c \in Contents : PinPage(c)
           \/ \E a \in Tables : Materialize(a)
           \/ \E n \in Nat : CompressColdPages(n)
    PROVE  Grows
<1>0. pages \in [DOMAIN pages -> Page]
  BY DEF IInv, TypeOK
<1>1. IInv' /\ pageTables' = pageTables
  BY AccessIInv, CompressIInv DEF Materialize, PinPage, CompressColdPages
<1>2. /\ DOMAIN pages' = DOMAIN pages
      /\ \A d \in DOMAIN pages : pages'[d].refCount = pages[d].refCount
  <2>1. CASE \E a \in Tables : Materialize(a)
    BY <1>0, <2>1, ZenonT(60) DEF Materialize, Page
  <2>2. CASE \E c \in Contents : PinPage(c)
    BY <1>0, <2>2 DEF PinPage, Page
  <2>3. CASE \E n \in Nat : CompressColdPages(n)
    BY <1>0, <2>3, ZenonT(60) DEF CompressColdPages, Page
  <2> QED
    BY <2>1, <2>2, <2>3
<1> QED
  BY <1>1, <1>2 DEF Grows, Referenced

\* Eviction finds no candidate, and a store it takes nothing from keeps its
\* tables.
LEMMA EvictGrows ==
    ASSUME IInv, Referenced, NEW n, EvictColdPages(n)
    PROVE  Grows
<1>1. IInv'
  BY EvictIInv
<1>2. PICK V \in SUBSET DOMAIN pages :
           /\ Victims(V, n)
           /\ pages' = [id \in DOMAIN pages \ V |-> pages[id]]
           /\ pageTables' = [a \in Tables |-> Without(pageTables[a], V)]
  BY DEF EvictColdPages, TablesAfterEvict
<1>3. V = {}
  <2>1. Evictable = {}
    BY DEF Evictable, Referenced
  <2> QED
    BY <1>2, <2>1 DEF Victims
<1>4. \A a \in Tables : EntriesOf(pageTables'[a]) = EntriesOf(pageTables[a]) \ V
  BY <1>2, WithoutFilters DEF IInv, TypeOK
<1> QED
  BY <1>1, <1>2, <1>3, <1>4 DEF Grows, Referenced

\* A step that leaves the store alone.
LEMMA IdleGrows ==
    ASSUME IInv, Referenced, UNCHANGED vars
    PROVE  Grows
<1>1. IInv'
  BY NextIInv
<1> QED
  BY <1>1 DEF Grows, Referenced, vars

(***************************************************************************)
(* One step of a call.                                                     *)
(***************************************************************************)

\* A step of call k that leaves it with list q preserves the invariant, if
\* the store grows, the board stays in order, q is backed, and neither a
\* pending mount nor a message just handed out is forgotten.
LEMMA Carry ==
    ASSUME GInv, Grows, BoardOK',
           NEW k \in Callers, NEW q \in Seq(Ops), Backed(q, DOMAIN pages'),
           todo' = [todo EXCEPT ![k] = q],
           \A a \in Agents, c \in Contents :
              Mount(a, c, TRUE) \in EntriesOf(todo[k]) =>
                 Mount(a, c, TRUE) \in EntriesOf(q) \/ c \in EntriesOf(pageTables'[a]),
           \A t \in Topics, a \in Agents : \A c \in EntriesOf(inbox'[t][a]) :
              c \in EntriesOf(inbox[t][a]) \/ Mount(a, c, TRUE) \in EntriesOf(q)
    PROVE  GInv'
<1> DEFINE M(a, c) == Mount(a, c, TRUE)
<1>0. /\ \A a \in Agents, c \in Contents :
            M(a, c) \in EntriesOf(todo[k]) =>
               M(a, c) \in EntriesOf(q) \/ c \in EntriesOf(pageTables'[a])
      /\ \A t \in Topics, a \in Agents : \A c \in EntriesOf(inbox'[t][a]) :
            c \in EntriesOf(inbox[t][a]) \/ M(a, c) \in EntriesOf(q)
      /\ \A t \in Topics, a \in Agents : \A c \in EntriesOf(inbox[t][a]) :
            \/ Mounted(a, c)
            \/ \E j \in Callers : M(a, c) \in EntriesOf(todo[j])
  BY Zenon DEF GInv, PolledGetsMounted
<1>1. /\ todo' \in [Callers -> Seq(Ops)] /\ todo'[k] = q
      /\ \A j \in Callers \ {k} : todo'[j] = todo[j]
  BY DEF GInv, CallsOK
<1>2. \A j \in Callers : Backed(todo'[j], DOMAIN pages')
  <2> SUFFICES ASSUME NEW j \in Callers, j # k
               PROVE  Backed(todo[j], DOMAIN pages')
    BY <1>1
  <2> QED
    BY BackedGrows DEF GInv, CallsOK, Grows
<1>3. CallsOK'
  BY <1>1, <1>2 DEF CallsOK
<1> HIDE DEF M
<1>4. \A t \in Topics, a \in Agents : \A c \in EntriesOf(inbox'[t][a]) :
         \/ c \in EntriesOf(pageTables'[a])
         \/ \E j \in Callers : M(a, c) \in EntriesOf(todo'[j])
  <2> SUFFICES ASSUME NEW t \in Topics, NEW a \in Agents, NEW c \in EntriesOf(inbox'[t][a]),
                      c \notin EntriesOf(pageTables'[a])
               PROVE  \E j \in Callers : M(a, c) \in EntriesOf(todo'[j])
    OBVIOUS
  <2>1. CASE M(a, c) \in EntriesOf(q)
    BY <1>1, <2>1
  <2>2. CASE M(a, c) \notin EntriesOf(q)
    <3>1. c \in EntriesOf(inbox[t][a])
      BY <1>0, <2>2
    <3>2. c \in Contents
      <4>1. inbox'[t][a] \in Seq(Contents)
        BY DEF BoardOK
      <4> QED
        BY <4>1, LenProperties, ElementOfSeq DEF EntriesOf
    <3>3. ~Mounted(a, c)
      BY DEF Grows, Mounted, Tables
    <3>4. PICK j \in Callers : M(a, c) \in EntriesOf(todo[j])
      BY <1>0, <3>1, <3>3
    <3>5. j # k
      BY <1>0, <2>2, <3>2, <3>4
    <3> QED
      BY <1>1, <3>4, <3>5
  <2> QED
    BY <2>1, <2>2
<1>5. PolledGetsMounted'
  BY <1>4, Zenon DEF PolledGetsMounted, Mounted, M
<1> QED
  BY <1>3, <1>5 DEF GInv, Grows

\* As before, for a step that leaves the board alone.
LEMMA CarryQuietly ==
    ASSUME GInv, Grows, UNCHANGED board,
           NEW k \in Callers, NEW q \in Seq(Ops), Backed(q, DOMAIN pages'),
           todo' = [todo EXCEPT ![k] = q],
           \A a \in Agents, c \in Contents :
              Mount(a, c, TRUE) \in EntriesOf(todo[k]) =>
                 Mount(a, c, TRUE) \in EntriesOf(q) \/ c \in EntriesOf(pageTables'[a])
    PROVE  GInv'
<1>1. topics' = topics /\ offsets' = offsets /\ inbox' = inbox
  BY DEF board
<1>2. BoardOK'
  BY <1>1 DEF GInv, BoardOK, PublishedStaysResident, Grows
<1> QED
  BY <1>1, <1>2, Carry, Zenon

\* Starting a call preserves the invariant.
LEMMA StartGInv ==
    ASSUME GInv, NEW k \in Callers, NEW q \in Seq(Ops), Backed(q, DOMAIN pages),
           Start(k, q)
    PROVE  Grows /\ GInv'
<1>1. todo[k] = <<>> /\ todo' = [todo EXCEPT ![k] = q] /\ UNCHANGED vars /\ UNCHANGED board
  BY DEF Start, board, vars
<1>2. Grows /\ DOMAIN pages' = DOMAIN pages
  BY <1>1, IdleGrows DEF GInv, vars
<1>3. \A x : x \notin EntriesOf(todo[k])
  BY <1>1 DEF EntriesOf
<1>4. Backed(q, DOMAIN pages')
  BY <1>2
<1> QED
  BY <1>1, <1>2, <1>3, <1>4, CarryQuietly, Zenon

\* Every call starts with a list that is backed.
LEMMA CallGInv ==
    ASSUME GInv, NEW k \in Callers, Call(k)
    PROVE  Grows /\ GInv'
<1>1. ASSUME NEW a \in Agents, NEW c \in Contents, Start(k, WriteDelta(a, c, TRUE))
      PROVE  Grows /\ GInv'
  BY <1>1, WriteDeltaBacked, StartGInv, Zenon
<1>2. ASSUME NEW a \in Agents, NEW ctl \in Controls, Start(k, ContextMaterialize(a, ctl))
      PROVE  Grows /\ GInv'
  BY <1>2, MaterializeBacked, StartGInv
<1>3. ASSUME NEW a \in Agents, Start(k, LlmCall(a))
      PROVE  Grows /\ GInv'
  BY <1>3, SingleBacked, StartGInv
<1>4. ASSUME NEW t \in Topics, NEW c \in Contents, Start(k, IpcPublish(t, c))
      PROVE  Grows /\ GInv'
  BY <1>4, IpcPublishBacked, StartGInv
<1>5. ASSUME NEW a \in Agents, NEW t \in Topics, Start(k, IpcPoll(a, t))
      PROVE  Grows /\ GInv'
  BY <1>5, SingleBacked, StartGInv
<1>6. ASSUME NEW a \in Agents, NEW b \in Agents, Start(k, AgentSpawn(a, b))
      PROVE  Grows /\ GInv'
  BY <1>6, SingleBacked, StartGInv
<1>7. ASSUME NEW l \in AgentLists, NEW c \in Contents, NEW d \in Contents,
             Start(k, SeedContext(l, c, d))
      PROVE  Grows /\ GInv'
  BY <1>7, SeedBacked, StartGInv
<1> QED
  BY <1>1, <1>2, <1>3, <1>4, <1>5, <1>6, <1>7 DEF Call

\* The first operation of a call under way, and what follows it.
LEMMA Under ==
    ASSUME GInv, NEW k \in Callers, todo[k] # <<>>
    PROVE  /\ todo[k] \in Seq(Ops) /\ Head(todo[k]) \in Ops /\ Tail(todo[k]) \in Seq(Ops)
           /\ Backed(todo[k], DOMAIN pages)
           /\ EntriesOf(todo[k]) = {Head(todo[k])} \cup EntriesOf(Tail(todo[k]))
           /\ Head(todo[k]).do = "mount" => Head(todo[k]).page \in DOMAIN pages
           /\ Head(todo[k]).do = "send" => Head(todo[k]).page \in DOMAIN pages
<1>1. todo[k] \in Seq(Ops) /\ Backed(todo[k], DOMAIN pages)
  BY DEF GInv, CallsOK
<1> DEFINE q == todo[k]
<1> HIDE DEF q
<1>2. /\ Head(q) = q[1] /\ q[1] \in Ops /\ 1 \in DOMAIN q /\ Tail(q) \in Seq(Ops)
      /\ Len(q) \in Nat /\ DOMAIN q = 1..Len(q)
      /\ EntriesOf(q) = {Head(q)} \cup EntriesOf(Tail(q))
  BY <1>1, HeadAndTail DEF q
<1>3. /\ Head(q).do = "mount" => Head(q).page \in DOMAIN pages
      /\ Head(q).do = "send" => Head(q).page \in DOMAIN pages
  <2>1. Backed(q, DOMAIN pages) /\ \A j \in DOMAIN q : ~(j < 1)
    BY <1>1, <1>2 DEF q
  <2> QED
    BY <1>2, <2>1 DEF Backed
<1> QED
  BY <1>1, <1>2, <1>3 DEF q

\* A call that goes on after an operation on the store.
LEMMA ProceedGInv ==
    ASSUME GInv, Grows, UNCHANGED board, NEW k \in Callers, todo[k] # <<>>,
           Proceed(k, Tail(todo[k])),
           \A c \in Contents : Head(todo[k]) \in {Create(c), Lookup(c)} => c \in DOMAIN pages',
           \A a \in Agents, c \in Contents :
              Head(todo[k]) = Mount(a, c, TRUE) => c \in EntriesOf(pageTables'[a])
    PROVE  GInv'
<1> DEFINE q == todo[k]
<1>1. /\ q \in Seq(Ops) /\ Tail(q) \in Seq(Ops) /\ Backed(q, DOMAIN pages)
      /\ EntriesOf(q) = {Head(q)} \cup EntriesOf(Tail(q))
  BY Under
<1>2. Backed(Tail(q), DOMAIN pages')
  BY <1>1, BackedTail DEF Grows
<1>3. todo' = [todo EXCEPT ![k] = Tail(q)]
  BY DEF Proceed
<1>4. \A x : x \in EntriesOf(q) => x = Head(q) \/ x \in EntriesOf(Tail(q))
  BY <1>1
<1>5. \A a \in Agents, c \in Contents :
         Mount(a, c, TRUE) \in EntriesOf(q) =>
            Mount(a, c, TRUE) \in EntriesOf(Tail(q)) \/ c \in EntriesOf(pageTables'[a])
  BY <1>4, Zenon
<1> QED
  BY <1>1, <1>2, <1>3, <1>5, CarryQuietly, Zenon

\* A call whose first operation is neither a creation nor a mount has no
\* pending mount that could be dropped, so it may end or take a new list.
LEMMA ReplaceGInv ==
    ASSUME GInv, Grows, UNCHANGED board, NEW k \in Callers, todo[k] # <<>>,
           Head(todo[k]).do \notin {"create", "mount"},
           NEW q \in Seq(Ops), Backed(q, DOMAIN pages'),
           todo' = [todo EXCEPT ![k] = q]
    PROVE  GInv'
<1>1. todo[k] \in Seq(Ops) /\ Backed(todo[k], DOMAIN pages)
  BY Under
<1>2. \A a \in Agents, c \in Contents : Mount(a, c, TRUE) \notin EntriesOf(todo[k])
  BY <1>1, StrictAtHead, Zenon
<1> QED
  BY <1>2, CarryQuietly, Zenon

\* A call that fails before it has got as far as a strict mount.
LEMMA FailGInv ==
    ASSUME GInv, UNCHANGED vars, UNCHANGED board, NEW k \in Callers, todo[k] # <<>>,
           Head(todo[k]).do \notin {"create", "mount"}, Fail(k)
    PROVE  Grows /\ GInv'
<1>1. Grows
  BY IdleGrows DEF GInv
<1>2. <<>> \in Seq(Ops) /\ Backed(<<>>, DOMAIN pages') /\ todo' = [todo EXCEPT ![k] = <<>>]
  BY DEF Backed, Fail
<1> QED
  BY <1>1, <1>2, ReplaceGInv

\* Operations on the store.
LEMMA StoreOpsGInv ==
    ASSUME GInv, NEW k \in Callers,
           \/ StepCreate(k) \/ StepMount(k) \/ StepPin(k)
           \/ StepCompress(k) \/ StepEvict(k) \/ StepRead(k)
    PROVE  Grows /\ GInv'
<1> DEFINE op == Head(todo[k])
<1>0. IInv /\ Referenced /\ todo[k] # <<>> /\ op \in Ops /\ UNCHANGED board
  <2>1. todo[k] # <<>> /\ UNCHANGED board
    BY DEF StepCreate, StepMount, StepPin, StepCompress, StepEvict, StepRead, Doing
  <2> QED
    BY <2>1, Under DEF GInv
<1>p. ASSUME Grows, Proceed(k, Tail(todo[k])), op.do \notin {"create", "mount", "lookup"}
      PROVE  GInv'
  <2>1. \A c \in Contents : op \notin {Create(c), Lookup(c)}
    BY <1>p DEF Create, Lookup
  <2>2. \A a \in Agents, c \in Contents : op # Mount(a, c, TRUE)
    BY <1>p DEF Mount
  <2> QED
    BY <1>0, <1>p, <2>1, <2>2, ProceedGInv, Zenon
<1>1. CASE StepCreate(k)
  <2>1. PICK c \in Contents : op = Create(c)
    BY <1>0, <1>1, OpForms DEF StepCreate, Doing
  <2>2. op.page = c /\ op.do = "create"
    BY <2>1 DEF Create
  <2>3. Grows /\ c \in DOMAIN pages'
    BY <1>0, <1>1, <2>2, CreateGrows DEF StepCreate
  <2>4. \A d \in Contents : op \in {Create(d), Lookup(d)} => d = c
    BY <2>1 DEF Create, Lookup
  <2>5. \A a \in Agents, d \in Contents : op # Mount(a, d, TRUE)
    BY <2>2 DEF Mount
  <2>6. \A d \in Contents : op \in {Create(d), Lookup(d)} => d \in DOMAIN pages'
    BY <2>3, <2>4
  <2>7. Proceed(k, Tail(todo[k]))
    BY <1>1 DEF StepCreate
  <2> QED
    BY <1>0, <2>3, <2>5, <2>6, <2>7, ProceedGInv, Zenon
<1>2. CASE StepMount(k)
  <2>1. PICK a \in Agents, c \in Contents, s \in BOOLEAN : op = Mount(a, c, s)
    BY <1>0, <1>2, OpForms DEF StepMount, Doing
  <2>2. op.page = c /\ op.agent = a /\ op.do = "mount"
    BY <2>1 DEF Mount
  <2>3. c \in DOMAIN pages
    BY <1>0, <2>2, Under
  <2>4. MountPage(a, c) /\ Proceed(k, Tail(todo[k])) /\ a \in Tables
    BY <1>2, <2>2, <2>3 DEF StepMount, Tables
  <2>5. Grows /\ c \in EntriesOf(pageTables'[a])
    BY <1>0, <2>4, MountGrows
  <2>6. \A d \in Contents : op \notin {Create(d), Lookup(d)}
    BY <2>2 DEF Create, Lookup
  <2>7. \A b \in Agents, d \in Contents : op = Mount(b, d, TRUE) => b = a /\ d = c
    BY <2>1 DEF Mount
  <2>8. \A b \in Agents, d \in Contents :
           op = Mount(b, d, TRUE) => d \in EntriesOf(pageTables'[b])
    BY <2>5, <2>7, Zenon
  <2> QED
    BY <1>0, <2>4, <2>5, <2>6, <2>8, ProceedGInv, Zenon
<1>3. CASE StepPin(k)
  <2>1. PICK c \in Contents : op = Pin(c)
    BY <1>0, <1>3, OpForms DEF StepPin, Doing
  <2>2. op.page = c /\ op.do = "pin"
    BY <2>1 DEF Pin
  <2>3. CASE c \in DOMAIN pages
    <3>1. PinPage(c) /\ Proceed(k, Tail(todo[k]))
      BY <1>3, <2>2, <2>3 DEF StepPin
    <3> QED
      BY <1>0, <1>p, <2>2, <3>1, AccessGrows
  <2>4. CASE c \notin DOMAIN pages
    BY <1>0, <1>3, <2>2, <2>4, FailGInv DEF StepPin
  <2> QED
    BY <2>3, <2>4
<1>4. CASE StepCompress(k)
  <2>1. PICK n \in Nat : op = Compress(n)
    BY <1>0, <1>4, OpForms DEF StepCompress, Doing
  <2>2. op.limit = n /\ op.do = "compress"
    BY <2>1 DEF Compress
  <2>3. CompressColdPages(n) /\ Proceed(k, Tail(todo[k]))
    BY <1>4, <2>2 DEF StepCompress
  <2> QED
    BY <1>0, <1>p, <2>2, <2>3, AccessGrows
<1>5. CASE StepEvict(k)
  <2>1. op.do = "evict" /\ Proceed(k, Tail(todo[k]))
    BY <1>5 DEF StepEvict, Doing
  <2>2. EvictColdPages(op.limit) \/ UNCHANGED vars
    BY <1>5 DEF StepEvict
  <2>3. Grows
    BY <1>0, <2>2, EvictGrows, IdleGrows
  <2> QED
    BY <1>p, <2>1, <2>3
<1>6. CASE StepRead(k)
  <2>1. PICK a \in Agents : op = Read(a)
    BY <1>0, <1>6, OpForms DEF StepRead, Doing
  <2>2. op.agent = a /\ op.do = "read" /\ a \in Tables
    BY <2>1 DEF Read, Tables
  <2>3. CASE EntriesOf(pageTables[a]) \subseteq DOMAIN pages
    <3>1. Materialize(a) /\ Proceed(k, Tail(todo[k]))
      BY <1>6, <2>2, <2>3 DEF StepRead
    <3> QED
      BY <1>0, <1>p, <2>2, <3>1, AccessGrows
  <2>4. CASE ~(EntriesOf(pageTables[a]) \subseteq DOMAIN pages)
    BY <1>0, <1>6, <2>2, <2>4, FailGInv DEF StepRead
  <2> QED
    BY <2>3, <2>4
<1> QED
  BY <1>1, <1>2, <1>3, <1>4, <1>5, <1>6

\* The lookup of ipc.publish: a page that is there now is there at the send.
LEMMA LookupGInv ==
    ASSUME GInv, NEW k \in Callers, StepLookup(k)
    PROVE  Grows /\ GInv'
<1> DEFINE op == Head(todo[k])
<1>0. todo[k] # <<>> /\ op \in Ops /\ op.do = "lookup" /\ UNCHANGED vars /\ UNCHANGED board
  <2>1. todo[k] # <<>> /\ op.do = "lookup" /\ UNCHANGED vars /\ UNCHANGED board
    BY DEF StepLookup, Doing, vars, board
  <2> QED
    BY <2>1, Under
<1>1. Grows /\ DOMAIN pages' = DOMAIN pages
  BY <1>0, IdleGrows DEF GInv, vars
<1>2. PICK c \in Contents : op = Lookup(c)
  BY <1>0, OpForms
<1>3. op.page = c
  BY <1>2 DEF Lookup
<1>4. CASE c \in DOMAIN pages
  <2>1. Proceed(k, Tail(todo[k]))
    BY <1>3, <1>4 DEF StepLookup
  <2>2. \A d \in Contents : op \in {Create(d), Lookup(d)} => d = c
    BY <1>2 DEF Create, Lookup
  <2>3. \A d \in Contents : op \in {Create(d), Lookup(d)} => d \in DOMAIN pages'
    BY <1>1, <1>4, <2>2
  <2>4. \A a \in Agents, d \in Contents : op # Mount(a, d, TRUE)
    BY <1>0 DEF Mount
  <2> QED
    BY <1>0, <1>1, <2>1, <2>3, <2>4, ProceedGInv, Zenon
<1>5. CASE c \notin DOMAIN pages
  BY <1>0, <1>3, <1>5, FailGInv DEF StepLookup
<1> QED
  BY <1>4, <1>5

\* The copy of agent.spawn: everything in the parent's table is resident.
LEMMA CopyGInv ==
    ASSUME GInv, NEW k \in Callers, StepCopy(k)
    PROVE  Grows /\ GInv'
<1> DEFINE op == Head(todo[k])
<1>0. todo[k] # <<>> /\ op \in Ops /\ op.do = "copy" /\ UNCHANGED vars /\ UNCHANGED board
  <2>1. todo[k] # <<>> /\ op.do = "copy" /\ UNCHANGED vars /\ UNCHANGED board
    BY DEF StepCopy, Doing, vars, board
  <2> QED
    BY <2>1, Under
<1>1. Grows /\ DOMAIN pages' = DOMAIN pages
  BY <1>0, IdleGrows DEF GInv, vars
<1>2. PICK a \in Agents, b \in Agents : op = CopyTable(a, b)
  BY <1>0, OpForms
<1>3. op.agent = a /\ op.child = b
  BY <1>2 DEF CopyTable
<1> DEFINE q == Mounts(b, pageTables[a], FALSE)
<1>4. todo' = [todo EXCEPT ![k] = q]
  BY <1>3, Zenon DEF StepCopy, Proceed
<1>5. pageTables[a] \in Seq(Contents) /\ EntriesOf(pageTables[a]) \subseteq DOMAIN pages
  BY DEF GInv, IInv, TypeOK, TablesResident, Tables
<1>6. q \in Seq(Ops) /\ Backed(q, DOMAIN pages)
  BY <1>5, MountsBacked, Zenon
<1> HIDE DEF q
<1>7. Backed(q, DOMAIN pages')
  BY <1>1, <1>6
<1> QED
  BY <1>0, <1>1, <1>4, <1>6, <1>7, ReplaceGInv

\* The send of ipc.publish: what is sent is resident.
LEMMA SendGInv ==
    ASSUME GInv, NEW k \in Callers, StepSend(k)
    PROVE  Grows /\ GInv'
<1> DEFINE op == Head(todo[k])
<1>0. todo[k] # <<>> /\ op \in Ops /\ op.do = "send" /\ UNCHANGED vars
  <2>1. todo[k] # <<>> /\ op.do = "send" /\ UNCHANGED vars
    BY DEF StepSend, Doing
  <2> QED
    BY <2>1, Under
<1>1. Grows /\ DOMAIN pages' = DOMAIN pages
  BY <1>0, IdleGrows DEF GInv, vars
<1>2. PICK t \in Topics, c \in Contents : op = Send(t, c)
  BY <1>0, OpForms
<1>3. op.topic = t /\ op.page = c /\ c \in DOMAIN pages
  BY <1>0, <1>2, Under DEF Send
<1>4. /\ topics' = [topics EXCEPT ![t] = Append(@, c)]
      /\ offsets' = offsets /\ inbox' = inbox
  BY <1>3 DEF StepSend, Board!Publish
<1>5. BoardOK'
  <2>1. /\ topics' \in [Topics -> Seq(Contents)]
        /\ topics'[t] = Append(topics[t], c)
        /\ \A u \in Topics \ {t} : topics'[u] = topics[u]
    BY <1>4 DEF GInv, BoardOK
  <2>2. EntriesOf(Append(topics[t], c)) = EntriesOf(topics[t]) \cup {c}
    <3> DEFINE p == topics[t]
    <3>1. p \in Seq(Contents)
      BY DEF GInv, BoardOK
    <3> HIDE DEF p
    <3>2. EntriesOf(Append(p, c)) = EntriesOf(p) \cup {c}
      BY <3>1, AppendProperties, LenProperties DEF EntriesOf
    <3> QED
      BY <3>2 DEF p
  <2>3. PublishedStaysResident'
    BY <1>1, <1>3, <2>1, <2>2 DEF GInv, BoardOK, PublishedStaysResident
  <2> QED
    BY <1>4, <2>1, <2>3 DEF GInv, BoardOK
<1>6. /\ Tail(todo[k]) \in Seq(Ops) /\ Backed(Tail(todo[k]), DOMAIN pages')
      /\ todo' = [todo EXCEPT ![k] = Tail(todo[k])]
  <2>1. \A d \in Contents : op \notin {Create(d), Lookup(d)}
    BY <1>0 DEF Create, Lookup
  <2> QED
    BY <1>0, <1>1, <2>1, Under, BackedTail DEF StepSend, Proceed
<1>7. \A a \in Agents, d \in Contents : Mount(a, d, TRUE) \notin EntriesOf(todo[k])
  BY <1>0, Under, StrictAtHead, Zenon
<1>8. \A u \in Topics, a \in Agents : \A d \in EntriesOf(inbox'[u][a]) : d \in EntriesOf(inbox[u][a])
  BY <1>4
<1> QED
  BY <1>1, <1>5, <1>6, <1>7, <1>8, Carry, Zenon

\* ipc.poll: every page handed out is resident and a strict mount of it is
\* put on the call's list.
LEMMA TakeGInv ==
    ASSUME GInv, NEW k \in Callers, StepTake(k)
    PROVE  Grows /\ GInv'
<1> DEFINE op == Head(todo[k])
<1>0. todo[k] # <<>> /\ op \in Ops /\ op.do = "take" /\ UNCHANGED vars
  <2>1. todo[k] # <<>> /\ op.do = "take" /\ UNCHANGED vars
    BY DEF StepTake, Doing
  <2> QED
    BY <2>1, Under
<1>1. Grows /\ DOMAIN pages' = DOMAIN pages
  BY <1>0, IdleGrows DEF GInv, vars
<1>2. PICK a \in Agents, t \in Topics : op = Take(a, t)
  BY <1>0, OpForms
<1>3. op.topic = t /\ op.agent = a
  BY <1>2 DEF Take
<1> DEFINE d == Board!Delivered(t, a)
           q == Mounts(a, d, TRUE)
<1>4. /\ inbox' = [inbox EXCEPT ![t][a] = @ \o d]
      /\ offsets' = [offsets EXCEPT ![t][a] = Len(topics[t])]
      /\ topics' = topics
  BY <1>3 DEF StepTake, Board!Poll
<1>5. todo' = [todo EXCEPT ![k] = q]
  BY <1>3, Zenon DEF StepTake, Proceed
<1>6. d \in Seq(Contents) /\ EntriesOf(d) \subseteq DOMAIN pages
  <2> DEFINE p == topics[t]
             n == Board!Start(t, a)
  <2>1. p \in Seq(Contents) /\ Len(p) \in Nat /\ offsets[t][a] \in Nat
        /\ EntriesOf(p) \subseteq DOMAIN pages
    BY DEF GInv, BoardOK, PublishedStaysResident
  <2>2. n \in Nat /\ d = SubSeq(p, n + 1, Len(p))
    BY <2>1 DEF Board!Start, Board!Delivered
  <2> HIDE DEF p, n, d
  <2>3. \A i \in (n + 1)..Len(p) : p[i] \in Contents /\ p[i] \in EntriesOf(p)
    BY <2>1, <2>2, LenProperties, ElementOfSeq DEF EntriesOf
  <2>4. /\ SubSeq(p, n + 1, Len(p)) \in Seq(Contents)
        /\ \A i \in DOMAIN SubSeq(p, n + 1, Len(p)) :
              SubSeq(p, n + 1, Len(p))[i] = p[n + i] /\ n + i \in (n + 1)..Len(p)
    BY <2>1, <2>2, <2>3
  <2> QED
    BY <2>1, <2>2, <2>3, <2>4 DEF EntriesOf
<1>7. /\ q \in Seq(Ops) /\ Backed(q, DOMAIN pages)
      /\ \A c \in EntriesOf(d) : Mount(a, c, TRUE) \in EntriesOf(q)
  BY <1>6, MountsBacked, Zenon
<1> HIDE DEF d, q
<1>8. Backed(q, DOMAIN pages')
  BY <1>1, <1>7
<1>9. /\ inbox' \in [Topics -> [Agents -> Seq(Contents)]]
      /\ offsets' \in [Topics -> [Agents -> Nat]]
      /\ inbox'[t][a] = inbox[t][a] \o d
      /\ \A u \in Topics, b \in Agents : ~(u = t /\ b = a) => inbox'[u][b] = inbox[u][b]
  <2>1. /\ inbox \in [Topics -> [Agents -> Seq(Contents)]]
        /\ offsets \in [Topics -> [Agents -> Nat]] /\ topics[t] \in Seq(Contents)
    BY DEF GInv, BoardOK
  <2>2. inbox[t][a] \o d \in Seq(Contents) /\ Len(topics[t]) \in Nat
    BY <1>6, <2>1, ConcatProperties
  <2> QED
    BY <1>4, <2>1, <2>2
<1>10. BoardOK'
  BY <1>1, <1>4, <1>9 DEF GInv, BoardOK, PublishedStaysResident
<1>11. EntriesOf(inbox[t][a] \o d) \subseteq EntriesOf(inbox[t][a]) \cup EntriesOf(d)
  <2> DEFINE p == inbox[t][a]
  <2>1. p \in Seq(Contents)
    BY DEF GInv, BoardOK
  <2> HIDE DEF p
  <2>2. /\ DOMAIN (p \o d) = 1..(Len(p) + Len(d)) /\ Len(p) \in Nat /\ Len(d) \in Nat
        /\ \A i \in 1..(Len(p) + Len(d)) :
              (p \o d)[i] = IF i <= Len(p) THEN p[i] ELSE d[i - Len(p)]
        /\ DOMAIN p = 1..Len(p) /\ DOMAIN d = 1..Len(d)
    BY <1>6, <2>1, ConcatProperties, LenProperties
  <2>3. ASSUME NEW i \in 1..(Len(p) + Len(d))
        PROVE  (p \o d)[i] \in EntriesOf(p) \cup EntriesOf(d)
    <3>1. CASE i <= Len(p)
      BY <2>2, <3>1 DEF EntriesOf
    <3>2. CASE ~(i <= Len(p))
      <4>1. i - Len(p) \in DOMAIN d /\ (p \o d)[i] = d[i - Len(p)]
        BY <2>2, <3>2
      <4> QED
        BY <4>1 DEF EntriesOf
    <3> QED
      BY <3>1, <3>2
  <2>4. EntriesOf(p \o d) \subseteq EntriesOf(p) \cup EntriesOf(d)
    <3>1. EntriesOf(p \o d) = {(p \o d)[i] : i \in 1..(Len(p) + Len(d))}
      BY <2>2 DEF EntriesOf
    <3> QED
      BY <2>3, <3>1
  <2> QED
    BY <2>4 DEF p
<1>12. \A u \in Topics, b \in Agents : \A c \in EntriesOf(inbox'[u][b]) :
          c \in EntriesOf(inbox[u][b]) \/ (b = a /\ c \in EntriesOf(d))
  BY <1>9, <1>11
<1>13. \A u \in Topics, b \in Agents : \A c \in EntriesOf(inbox'[u][b]) :
          c \in EntriesOf(inbox[u][b]) \/ Mount(b, c, TRUE) \in EntriesOf(q)
  BY <1>7, <1>12, Zenon
<1>14. \A b \in Agents, c \in Contents : Mount(b, c, TRUE) \notin EntriesOf(todo[k])
  BY <1>0, Under, StrictAtHead, Zenon
<1> QED
  BY <1>1, <1>5, <1>7, <1>8, <1>10, <1>13, <1>14, Carry, Zenon

-----------------------------------------------------------------------------
\* The daemon starts in order.
LEMMA InitGInv == GInit => GInv
<1> SUFFICES ASSUME GInit PROVE GInv
  OBVIOUS
<1>1. IInv
  BY InitIInv DEF GInit
<1>2. Referenced
  BY DEF GInit, Init, Referenced
<1>3. BoardOK
  BY DEF GInit, Board!Init, BoardOK, PublishedStaysResident, EntriesOf
<1>4. CallsOK
  BY DEF GInit, CallsOK, Backed
<1>5. PolledGetsMounted
  BY DEF GInit, Board!Init, PolledGetsMounted, EntriesOf
<1> QED
  BY <1>1, <1>2, <1>3, <1>4, <1>5 DEF GInv

\* Every step of every call keeps the invariant, and the store grows.
LEMMA NextGInv == GInv /\ [GNext]_gvars => GInv' /\ Grows
<1> SUFFICES ASSUME GInv, [GNext]_gvars PROVE GInv' /\ Grows
  OBVIOUS
<1>1. CASE \E k \in Callers : Call(k)
  BY <1>1, CallGInv
<1>2. CASE \E k \in Callers : Step(k)
  BY <1>2, StoreOpsGInv, LookupGInv, CopyGInv, SendGInv, TakeGInv DEF Step
<1>3. CASE UNCHANGED gvars
  <2>1. UNCHANGED vars /\ UNCHANGED board /\ todo' = todo
    BY <1>3 DEF gvars, vars, board
  <2>2. Grows
    BY <2>1, IdleGrows DEF GInv
  <2>3. BoardOK'
    BY <2>1, <2>2 DEF board, GInv, BoardOK, PublishedStaysResident, Grows
  <2>4. CallsOK'
    BY <2>1, BackedGrows DEF vars, GInv, CallsOK
  <2>5. PolledGetsMounted'
    BY <2>1, Zenon DEF vars, board, GInv, PolledGetsMounted, Mounted
  <2> QED
    BY <2>2, <2>3, <2>4, <2>5 DEF GInv, Grows
<1> QED
  BY <1>1, <1>2, <1>3 DEF GNext, Finished

\* The daemon's calls always satisfy the invariant.
THEOREM GatewayInvariant == GSpec => []GInv
<1>1. GInv /\ [GNext]_gvars => GInv'
  BY NextGInv
<1> QED
  BY <1>1, InitGInv, PTL DEF GSpec

\* Every page a message on the blackboard refers to is in the store, whatever
\* is evicted between ipc.publish's lookup and its send, or before a poll.
THEOREM GatewayPublishedStaysResident == GSpec => []PublishedStaysResident
<1>1. GInv => PublishedStaysResident
  BY DEF GInv, BoardOK
<1> QED
  BY <1>1, GatewayInvariant, PTL

\* No message ipc.poll took from the blackboard is lost between the offset
\* moving and the mount of its page.
THEOREM GatewayPolledGetsMounted == GSpec => []PolledGetsMounted
<1>1. GInv => PolledGetsMounted
  BY DEF GInv
<1> QED
  BY <1>1, GatewayInvariant, PTL

\* The page ids a call carries from one critical section to the next are
\* never stale when it uses them.
THEOREM GatewayNoStalePageId == GSpec => []NoStalePageId
<1>1. GInv => NoStalePageId
  <2> SUFFICES ASSUME GInv, NEW k \in Callers, todo[k] # <<>>
               PROVE  /\ Head(todo[k]).do = "mount" => Head(todo[k]).page \in DOMAIN pages
                      /\ Head(todo[k]).do = "read" =>
                            EntriesOf(pageTables[Head(todo[k]).agent]) \subseteq DOMAIN pages
    BY DEF NoStalePageId, Doing
  <2>1. Head(todo[k]) \in Ops
        /\ (Head(todo[k]).do = "mount" => Head(todo[k]).page \in DOMAIN pages)
    BY Under
  <2>2. Head(todo[k]).do = "read" => Head(todo[k]).agent \in Tables
    BY <2>1, OpForms DEF Read, Tables
  <2> QED
    BY <2>1, <2>2 DEF GInv, IInv, TablesResident
<1> QED
  BY <1>1, GatewayInvariant, PTL

\* EvictColdPages never removes a page in the daemon: it gives back no
\* reference it took with CreatePage.
THEOREM GatewayNothingEvicted == GSpec => NothingEvicted
<1>1. GInv /\ [GNext]_gvars => [DOMAIN pages \subseteq DOMAIN pages']_gvars
  BY NextGInv DEF Grows
<1> QED
  BY <1>1, GatewayInvariant, PTL DEF GSpec, NothingEvicted
=============================================================================
