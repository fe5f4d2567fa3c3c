---------------------------- MODULE EventsProofs ----------------------------
(***************************************************************************)
(* Proofs about the event hub, its streams and the trace file, for any     *)
(* number of publishers and streams, any history and any buffer.           *)
(***************************************************************************)
EXTENDS Events, SequenceTheorems, TLAPS

Happenings == [kind : {"started", "finished", "recorded"}, call : Nat]

(***************************************************************************)
(* What a publisher has left to do, and how far its events are: Fresh ones *)
(* are nowhere yet, Published ones have reached the hub and not the trace. *)
(***************************************************************************)
Sent(e) == [do |-> "hub", event |-> e]
Traced(e) == [do |-> "trace", event |-> e]
Kept(n) == [do |-> "record", call |-> n]

Steps == {Sent(e) : e \in Happenings} \cup {Traced(e) : e \in Happenings} \cup {Kept(n) : n \in Nat}

Reached == ToSet(trace) \cup torn
Fresh(e) == e \notin ToSet(log) \cup Reached
Published(e) == e \in ToSet(log) /\ e \notin Reached

\* The call is on record, where a registry is.
OnFile(n) == workers => n \in records

HandlePlan(p, n) ==
    LET S == Event("started", n)
        F == Event("finished", n)
    IN  \/ /\ todo[p] = <<Sent(S), Traced(S), Kept(n), Sent(F), Traced(F)>>
           /\ Fresh(S) /\ Fresh(F)
        \/ todo[p] = <<Traced(S), Kept(n), Sent(F), Traced(F)>> /\ Published(S) /\ Fresh(F)
        \/ todo[p] = <<Kept(n), Sent(F), Traced(F)>> /\ Fresh(F)
        \/ todo[p] = <<Sent(F), Traced(F)>> /\ Fresh(F) /\ OnFile(n)
        \/ todo[p] = <<Traced(F)>> /\ Published(F) /\ OnFile(n)

RecordPlan(p, n) ==
    LET R == Event("recorded", n)
    IN  \/ todo[p] = <<Kept(n), Sent(R), Traced(R)>> /\ Fresh(R)
        \/ todo[p] = <<Sent(R), Traced(R)>> /\ Fresh(R) /\ OnFile(n)
        \/ todo[p] = <<Traced(R)>> /\ Published(R) /\ OnFile(n)

\* The number of the call a publisher is busy with.
Number(p) ==
    IF Head(todo[p]).do = "record" THEN Head(todo[p]).call ELSE Head(todo[p]).event.call

Busy(p) == todo[p] # <<>>

PlansOK ==
    /\ \A p \in Publishers : Busy(p) =>
          Number(p) \in 1..made /\ (HandlePlan(p, Number(p)) \/ RecordPlan(p, Number(p)))
    /\ \A p, q \in Publishers : p # q /\ Busy(p) /\ Busy(q) => Number(p) # Number(q)

(***************************************************************************)
(* The rest of the inductive invariant: the history is the end of the log, *)
(* a stream that kept up has the log from its beginning on, nothing is     *)
(* announced before it is on record, and the trace has what the log has.   *)
(***************************************************************************)
EventsTypeOK ==
    /\ log \in Seq(Happenings) /\ history \in Seq(Happenings) /\ trace \in Seq(Happenings)
    /\ chan = [s \in Subscribers |-> chan[s]]
    /\ \A s \in Open : chan[s] \in Seq(Happenings)
    /\ seen \in [Subscribers -> Seq(Happenings)]
    /\ from \in [Subscribers -> Nat]
    /\ slow \subseteq Subscribers
    /\ torn \subseteq Happenings
    /\ records \subseteq Nat
    /\ todo \in [Publishers -> Seq(Steps)]
    /\ made \in Nat

\* Where the last HistorySize of n events begin.
First(n) == IF n > HistorySize THEN n - HistorySize + 1 ELSE 1

Remembered == history = SubSeq(log, First(Len(log)), Len(log))

StreamsOK ==
    /\ \A s \in Subscribers : from[s] \in 1..(Len(log) + 1)
    /\ NoGap

\* Everything in q but a beginning is on record.
OnRecord(q) == \A i \in DOMAIN q : q[i].kind # "started" => OnFile(q[i].call)

ToldOK ==
    /\ OnRecord(log)
    /\ OnRecord(history)
    /\ \A s \in Subscribers : OnRecord(seen[s])
    /\ \A s \in Open : OnRecord(chan[s])

TraceOK ==
    /\ \A e \in ToSet(log) : e.call \in 1..made
    /\ Reached \subseteq ToSet(log)
    /\ ToSet(trace) \cap torn = {}
    /\ \A e \in ToSet(log) : e \in Reached
                             \/ \E p \in Publishers : Busy(p) /\ Head(todo[p]) = Traced(e)
    /\ \A i, j \in DOMAIN trace : trace[i] = trace[j] => i = j
    /\ \A i, j \in DOMAIN trace :
          /\ trace[i].kind = "started" /\ trace[j].kind = "finished"
          /\ trace[i].call = trace[j].call
          => i < j

EventsInv ==
    /\ EventsTypeOK
    /\ PlansOK
    /\ Remembered
    /\ StreamsOK
    /\ ToldOK
    /\ TraceOK

-----------------------------------------------------------------------------
(* Sequences. *)

\* Appending adds one element, at the next index, and moves no other.
LEMMA AppendToSet ==
    ASSUME NEW S, NEW q \in Seq(S), NEW e \in S
    PROVE  /\ Append(q, e) \in Seq(S)
           /\ ToSet(Append(q, e)) = ToSet(q) \cup {e}
           /\ DOMAIN Append(q, e) = DOMAIN q \cup {Len(q) + 1}
           /\ Len(q) + 1 \notin DOMAIN q
           /\ \A i \in DOMAIN q : Append(q, e)[i] = q[i] /\ i < Len(q) + 1
           /\ Append(q, e)[Len(q) + 1] = e
<1>1. /\ Append(q, e) \in Seq(S)
      /\ DOMAIN Append(q, e) = DOMAIN q \cup {Len(q) + 1}
      /\ Len(q) + 1 \notin DOMAIN q
      /\ \A i \in DOMAIN q : Append(q, e)[i] = q[i] /\ i < Len(q) + 1
      /\ Append(q, e)[Len(q) + 1] = e
  OBVIOUS
<1>2. ToSet(Append(q, e)) = ToSet(q) \cup {e}
  BY <1>1 DEF ToSet
<1> QED BY <1>1, <1>2

\* Appending to a suffix of a sequence.
LEMMA SuffixAppend ==
    ASSUME NEW S, NEW q \in Seq(S), NEW e \in S, NEW m \in 1..(Len(q) + 1)
    PROVE  Append(SubSeq(q, m, Len(q)), e) = SubSeq(Append(q, e), m, Len(q) + 1)
<1> DEFINE a == Append(SubSeq(q, m, Len(q)), e)
           b == SubSeq(Append(q, e), m, Len(q) + 1)
<1>1. Len(q) \in Nat /\ m \in Nat /\ m >= 1 /\ m <= Len(q) + 1
  OBVIOUS
<1>2. a \in Seq(S) /\ b \in Seq(S)
  BY <1>1
<1>3. Len(a) = Len(q) - m + 2 /\ Len(b) = Len(q) - m + 2
  BY <1>1
<1>4. ASSUME NEW i \in 1..Len(a)
      PROVE  a[i] = b[i]
  BY <1>1, <1>3
<1> HIDE DEF a, b
<1>5. a = b
  BY <1>2, <1>3, <1>4, SeqEqual
<1> QED BY <1>5 DEF a, b

\* Appending to the second of two sequences appends to their concatenation.
LEMMA ConcatAppend ==
    ASSUME NEW S, NEW q \in Seq(S), NEW c \in Seq(S), NEW e \in S
    PROVE  q \o Append(c, e) = Append(q \o c, e)
<1> DEFINE a == q \o Append(c, e)
           b == Append(q \o c, e)
<1>1. /\ Append(c, e) \in Seq(S) /\ Len(Append(c, e)) = Len(c) + 1 /\ Len(q) \in Nat
      /\ q \o c \in Seq(S) /\ Len(q \o c) = Len(q) + Len(c) /\ Len(c) \in Nat
  OBVIOUS
<1>2. a \in Seq(S) /\ b \in Seq(S) /\ Len(a) = Len(q) + Len(c) + 1 /\ Len(b) = Len(q) + Len(c) + 1
  BY <1>1
<1>3. ASSUME NEW i \in 1..Len(a)
      PROVE  a[i] = b[i]
  <2>1. CASE i <= Len(q)
    BY <1>1, <1>2, <2>1
  <2>2. CASE i = Len(q) + Len(c) + 1
    BY <1>1, <1>2, <2>2
  <2>3. CASE i > Len(q) /\ i <= Len(q) + Len(c)
    BY <1>1, <1>2, <2>3
  <2> QED BY <1>1, <1>2, <2>1, <2>2, <2>3
<1> HIDE DEF a, b
<1>4. a = b
  BY <1>2, <1>3, SeqEqual
<1> QED BY <1>4 DEF a, b

\* Moving the head of a channel to what was written keeps their concatenation.
LEMMA WrittenOnce ==
    ASSUME NEW S, NEW q \in Seq(S), NEW c \in Seq(S), c # <<>>
    PROVE  Append(q, Head(c)) \o Tail(c) = q \o c
<1> DEFINE a == Append(q, Head(c)) \o Tail(c)
           b == q \o c
<1>1. Head(c) \in S /\ Tail(c) \in Seq(S) /\ Len(Tail(c)) = Len(c) - 1 /\ Len(c) \in Nat \ {0}
  OBVIOUS
<1>2. a \in Seq(S) /\ b \in Seq(S) /\ Len(a) = Len(q) + Len(c) /\ Len(b) = Len(q) + Len(c)
  BY <1>1
<1>3. ASSUME NEW i \in 1..Len(a)
      PROVE  a[i] = b[i]
  <2>1. CASE i <= Len(q)
    BY <1>1, <1>2, <2>1
  <2>2. CASE i = Len(q) + 1
    BY <1>1, <1>2, <2>2
  <2>3. CASE i > Len(q) + 1
    BY <1>1, <1>2, <2>3
  <2> QED BY <1>2, <2>1, <2>2, <2>3
<1> HIDE DEF a, b
<1>4. a = b
  BY <1>2, <1>3, SeqEqual
<1> QED BY <1>4 DEF a, b

\* Trimming an end of the log leaves its last HistorySize events.
LEMMA TrimmedEnd ==
    ASSUME NEW S, NEW q \in Seq(S), NEW e \in S
    PROVE  Trimmed(Append(SubSeq(q, First(Len(q)), Len(q)), e))
             = SubSeq(Append(q, e), First(Len(q) + 1), Len(q) + 1)
<1> DEFINE h == HistorySize
           n == Len(q)
           m == First(n)
           k == First(n + 1)
           w == Append(q, e)
           a == SubSeq(w, m, n + 1)
<1>1. h \in Nat \ {0} /\ n \in Nat /\ m \in 1..(n + 1)
  BY EventsAssumption DEF First
<1>2. (n < h => m = 1 /\ k = 1) /\ (n >= h => k = m + 1 /\ n + 2 - m = h + 1)
  <2>1. m = (IF n > h THEN n - h + 1 ELSE 1) /\ k = (IF n + 1 > h THEN n + 1 - h + 1 ELSE 1)
    <3> HIDE DEF n
    <3> QED BY <1>1 DEF First
  <2> HIDE DEF h, n, m, k
  <2> QED BY <1>1, <2>1
<1>3. Append(SubSeq(q, m, n), e) = a
  BY <1>1, SuffixAppend
<1>4. w \in Seq(S) /\ Len(w) = n + 1
  OBVIOUS
<1> HIDE DEF h, n, m, k, w
<1>5. a \in Seq(S) /\ Len(a) = n + 2 - m /\ \A i \in 1..Len(a) : a[i] = w[m + i - 1]
  BY <1>1, <1>4
<1> HIDE DEF a
<1>6. Trimmed(a) = IF Len(a) > h THEN SubSeq(a, Len(a) - h + 1, Len(a)) ELSE a
  BY DEF Trimmed, h
<1>7. Trimmed(a) = SubSeq(w, k, n + 1)
  <2>1. CASE n < h
    <3>1. Trimmed(a) = a
      BY <1>1, <1>2, <1>5, <1>6, <2>1
    <3> QED BY <1>2, <2>1, <3>1 DEF a
  <2>2. CASE n >= h
    <3> DEFINE b == SubSeq(a, 2, Len(a))
               c == SubSeq(w, k, n + 1)
    <3>1. Len(a) = h + 1 /\ k = m + 1
      BY <1>2, <1>5, <2>2
    <3>2. Trimmed(a) = b
      BY <1>1, <1>6, <3>1
    <3>3. b \in Seq(S) /\ Len(b) = h /\ \A i \in 1..Len(b) : b[i] = a[i + 1]
      BY <1>1, <1>5, <3>1
    <3>4. c \in Seq(S) /\ Len(c) = h /\ \A i \in 1..Len(c) : c[i] = w[k + i - 1]
      BY <1>1, <1>2, <1>4, <2>2
    <3> HIDE DEF b, c
    <3>5. ASSUME NEW i \in 1..Len(b)
          PROVE  b[i] = c[i]
      <4>1. i + 1 \in 1..Len(a) /\ i \in 1..Len(c) /\ m + (i + 1) - 1 = k + i - 1
        BY <1>1, <3>1, <3>3, <3>4
      <4>2. b[i] = a[i + 1] /\ a[i + 1] = w[m + (i + 1) - 1] /\ c[i] = w[k + i - 1]
        BY <1>5, <3>3, <3>4, <4>1
      <4> QED BY <4>1, <4>2
    <3>6. b = c
      BY <3>3, <3>4, <3>5, SeqEqual
    <3> QED BY <3>2, <3>6 DEF c
  <2> QED BY <1>1, <2>1, <2>2
<1> QED BY <1>3, <1>7 DEF n, m, k, w

-----------------------------------------------------------------------------
(* Plans. *)

\* Head and tail of the short tuples a plan is written with.
LEMMA Tuples ==
    ASSUME NEW a, NEW b, NEW c, NEW d, NEW e
    PROVE  /\ <<a>> # <<>> /\ Head(<<a>>) = a /\ Tail(<<a>>) = <<>>
           /\ <<a, b>> # <<>> /\ Head(<<a, b>>) = a /\ Tail(<<a, b>>) = <<b>>
           /\ <<a, b, c>> # <<>> /\ Head(<<a, b, c>>) = a /\ Tail(<<a, b, c>>) = <<b, c>>
           /\ <<a, b, c, d>> # <<>> /\ Head(<<a, b, c, d>>) = a
           /\ Tail(<<a, b, c, d>>) = <<b, c, d>>
           /\ <<a, b, c, d, e>> # <<>> /\ Head(<<a, b, c, d, e>>) = a
           /\ Tail(<<a, b, c, d, e>>) = <<b, c, d, e>>
OBVIOUS

Kinds == {"started", "finished", "recorded"}

\* An event of a call says its kind and its call.
LEMMA EventFields ==
    ASSUME NEW n \in Nat
    PROVE  \A k \in Kinds : /\ Event(k, n) \in Happenings
                            /\ Event(k, n).kind = k /\ Event(k, n).call = n
BY DEF Event, Happenings, Kinds

\* The three steps of a plan say what they do and with what.
LEMMA StepFields ==
    /\ \A e : Sent(e).do = "hub" /\ Sent(e).event = e
    /\ \A e : Traced(e).do = "trace" /\ Traced(e).event = e
    /\ \A n : Kept(n).do = "record" /\ Kept(n).call = n
BY DEF Sent, Traced, Kept

\* The concatenations a plan is built with, as tuples: one and two,
LEMMA Concat12 ==
    ASSUME NEW a, NEW b, NEW c
    PROVE  <<a>> \o <<b, c>> = <<a, b, c>>
<1> DEFINE T == {a, b, c}
           u == <<a>> \o <<b, c>>
           w == <<a, b, c>>
<1>1. <<a>> \in Seq(T) /\ <<b, c>> \in Seq(T) /\ w \in Seq(T)
      /\ Len(<<a>>) = 1 /\ Len(<<b, c>>) = 2 /\ Len(w) = 3
  OBVIOUS
<1>2. u \in Seq(T) /\ Len(u) = 3 /\ \A i \in 1..3 : u[i] = IF i <= 1 THEN <<a>>[i] ELSE <<b, c>>[i - 1]
  BY <1>1, ConcatProperties
<1>3. u[1] = a /\ u[2] = b /\ u[3] = c
  <2> HIDE DEF u
  <2> QED BY <1>2
<1>4. \A i \in 1..3 : u[i] = w[i]
  <2> HIDE DEF u
  <2> QED BY <1>3
<1> HIDE DEF u, w
<1>5. u = w
  BY <1>1, <1>2, <1>4, SeqEqual
<1> QED BY <1>5 DEF u, w

\* two and one,
LEMMA Concat21 ==
    ASSUME NEW a, NEW b, NEW c
    PROVE  <<a, b>> \o <<c>> = <<a, b, c>>
<1> DEFINE T == {a, b, c}
           u == <<a, b>> \o <<c>>
           w == <<a, b, c>>
<1>1. <<a, b>> \in Seq(T) /\ <<c>> \in Seq(T) /\ w \in Seq(T)
      /\ Len(<<a, b>>) = 2 /\ Len(<<c>>) = 1 /\ Len(w) = 3
  OBVIOUS
<1>2. u \in Seq(T) /\ Len(u) = 3 /\ \A i \in 1..3 : u[i] = IF i <= 2 THEN <<a, b>>[i] ELSE <<c>>[i - 2]
  BY <1>1, ConcatProperties
<1>3. u[1] = a /\ u[2] = b /\ u[3] = c
  <2> HIDE DEF u
  <2> QED BY <1>2
<1>4. \A i \in 1..3 : u[i] = w[i]
  <2> HIDE DEF u
  <2> QED BY <1>3
<1> HIDE DEF u, w
<1>5. u = w
  BY <1>1, <1>2, <1>4, SeqEqual
<1> QED BY <1>5 DEF u, w

\* and three and two.
LEMMA Concat32 ==
    ASSUME NEW a, NEW b, NEW c, NEW d, NEW e
    PROVE  <<a, b, c>> \o <<d, e>> = <<a, b, c, d, e>>
<1> DEFINE T == {a, b, c, d, e}
           u == <<a, b, c>> \o <<d, e>>
           w == <<a, b, c, d, e>>
<1>1. <<a, b, c>> \in Seq(T) /\ <<d, e>> \in Seq(T) /\ w \in Seq(T)
      /\ Len(<<a, b, c>>) = 3 /\ Len(<<d, e>>) = 2 /\ Len(w) = 5
  OBVIOUS
<1>2. u \in Seq(T) /\ Len(u) = 5 /\ \A i \in 1..5 : u[i] = IF i <= 3 THEN <<a, b, c>>[i] ELSE <<d, e>>[i - 3]
  BY <1>1, ConcatProperties
<1>3. u[1] = a /\ u[2] = b /\ u[3] = c /\ u[4] = d /\ u[5] = e
  <2> HIDE DEF u
  <2> QED BY <1>2
<1>4. \A i \in 1..5 : u[i] = w[i]
  <2> HIDE DEF u
  <2> QED BY <1>3
<1> HIDE DEF u, w
<1>5. u = w
  BY <1>1, <1>2, <1>4, SeqEqual
<1> QED BY <1>5 DEF u, w

\* The programs of a publisher, step by step.
LEMMA PlanTuples ==
    ASSUME NEW n \in Nat
    PROVE  /\ Handle(n) = <<Sent(Event("started", n)), Traced(Event("started", n)), Kept(n),
                            Sent(Event("finished", n)), Traced(Event("finished", n))>>
           /\ Record(n) = <<Kept(n), Sent(Event("recorded", n)), Traced(Event("recorded", n))>>
           /\ demoEvents(n) = <<Sent(Event("finished", n)), Traced(Event("finished", n))>>
           /\ Handle(n) \in Seq(Steps) /\ Record(n) \in Seq(Steps) /\ demoEvents(n) \in Seq(Steps)
<1> DEFINE S == Event("started", n)
           F == Event("finished", n)
           R == Event("recorded", n)
<1>1. Handle(n) = (<<Sent(S), Traced(S)>> \o <<Kept(n)>>) \o <<Sent(F), Traced(F)>>
  BY DEF Handle, Emit, Keep, Sent, Traced, Kept
<1>2. Record(n) = <<Kept(n)>> \o <<Sent(R), Traced(R)>>
  BY DEF Record, Emit, Keep, Sent, Traced, Kept
<1>0. demoEvents(n) = <<Sent(F), Traced(F)>>
  BY DEF demoEvents, Emit, Sent, Traced
<1>3. S \in Happenings /\ F \in Happenings /\ R \in Happenings
  BY EventFields DEF Kinds
<1>4. {Sent(S), Traced(S), Kept(n), Sent(F), Traced(F), Sent(R), Traced(R)} \subseteq Steps
  BY <1>3 DEF Steps
<1> HIDE DEF S, F, R
<1>5. <<Sent(S), Traced(S)>> \o <<Kept(n)>> = <<Sent(S), Traced(S), Kept(n)>>
  BY Concat21
<1>6. /\ <<Sent(S), Traced(S), Kept(n)>> \o <<Sent(F), Traced(F)>>
           = <<Sent(S), Traced(S), Kept(n), Sent(F), Traced(F)>>
      /\ <<Kept(n)>> \o <<Sent(R), Traced(R)>> = <<Kept(n), Sent(R), Traced(R)>>
  BY Concat12, Concat32
<1>7. \A a, b, c, d, e \in Steps : /\ <<a, b, c, d, e>> \in Seq(Steps)
                                  /\ <<a, b, c>> \in Seq(Steps) /\ <<a, b>> \in Seq(Steps)
  OBVIOUS
<1>8. /\ Handle(n) = <<Sent(S), Traced(S), Kept(n), Sent(F), Traced(F)>>
      /\ Record(n) = <<Kept(n), Sent(R), Traced(R)>>
  BY <1>1, <1>2, <1>5, <1>6
<1>9. Handle(n) \in Seq(Steps) /\ Record(n) \in Seq(Steps) /\ demoEvents(n) \in Seq(Steps)
  BY <1>0, <1>4, <1>7, <1>8
<1> QED BY <1>0, <1>8, <1>9 DEF S, F, R

\* A plan stays as it is while nothing happens to the events of its call.
LEMMA PlanFrame ==
    ASSUME NEW q \in Publishers, NEW m \in Nat, todo'[q] = todo[q],
           records \subseteq records', workers' = workers,
           \A k \in Kinds : /\ Event(k, m) \in ToSet(log)' <=> Event(k, m) \in ToSet(log)
                            /\ Event(k, m) \in Reached' <=> Event(k, m) \in Reached
    PROVE  /\ HandlePlan(q, m) => HandlePlan(q, m)'
           /\ RecordPlan(q, m) => RecordPlan(q, m)'
<1>1. \A k \in Kinds : /\ Fresh(Event(k, m)) => Fresh(Event(k, m))'
                       /\ Published(Event(k, m)) => Published(Event(k, m))'
  BY DEF Fresh, Published
<1>2. HandlePlan(q, m) => HandlePlan(q, m)'
  BY <1>1 DEF HandlePlan, Kinds, Event, OnFile
<1>3. RecordPlan(q, m) => RecordPlan(q, m)'
  BY <1>1 DEF RecordPlan, Kinds, Event, OnFile
<1> QED BY <1>2, <1>3

\* What may be left to do when a publisher is about to keep its record, to
\* publish an event or to append it to the trace.
LEMMA AtRecord ==
    ASSUME PlansOK, NEW p \in Publishers, At(p, "record")
    PROVE  \E n \in 1..made, k \in Kinds :
             LET e == Event(k, n)
             IN  /\ Number(p) = n /\ k # "started"
                 /\ todo[p] = <<Kept(n), Sent(e), Traced(e)>> /\ Fresh(e)
<1> DEFINE n == Number(p)
<1>1. n \in 1..made /\ (HandlePlan(p, n) \/ RecordPlan(p, n)) /\ Head(todo[p]).do = "record"
  BY DEF PlansOK, Busy, At
<1> HIDE DEF n
<1>2. \/ todo[p] = <<Kept(n), Sent(Event("finished", n)), Traced(Event("finished", n))>>
         /\ Fresh(Event("finished", n))
      \/ todo[p] = <<Kept(n), Sent(Event("recorded", n)), Traced(Event("recorded", n))>>
         /\ Fresh(Event("recorded", n))
  BY <1>1, Tuples, StepFields DEF HandlePlan, RecordPlan
<1> QED BY <1>1, <1>2 DEF n, Kinds

\* A publisher about to publish has an event the hub has not taken, and its trace next.
LEMMA AtHub ==
    ASSUME PlansOK, NEW p \in Publishers, At(p, "hub")
    PROVE  \E n \in 1..made, k \in Kinds :
             LET e == Event(k, n)
                 F == Event("finished", n)
             IN  /\ Number(p) = n /\ Head(todo[p]) = Sent(e) /\ Fresh(e)
                 /\ \/ /\ k = "started" /\ Fresh(F)
                       /\ Tail(todo[p]) = <<Traced(e), Kept(n), Sent(F), Traced(F)>>
                    \/ k # "started" /\ OnFile(n) /\ Tail(todo[p]) = <<Traced(e)>>
<1> DEFINE n == Number(p)
           S == Event("started", n)
           F == Event("finished", n)
           R == Event("recorded", n)
<1>1. n \in 1..made /\ (HandlePlan(p, n) \/ RecordPlan(p, n)) /\ Head(todo[p]).do = "hub"
  BY DEF PlansOK, Busy, At
<1> HIDE DEF n
<1>2. \/ /\ todo[p] = <<Sent(S), Traced(S), Kept(n), Sent(F), Traced(F)>>
         /\ Fresh(S) /\ Fresh(F)
      \/ todo[p] = <<Sent(F), Traced(F)>> /\ Fresh(F) /\ OnFile(n)
      \/ todo[p] = <<Sent(R), Traced(R)>> /\ Fresh(R) /\ OnFile(n)
  BY <1>1, Tuples, StepFields DEF HandlePlan, RecordPlan
<1> HIDE DEF S, F, R
<1>3. \/ /\ Head(todo[p]) = Sent(S) /\ Fresh(S) /\ Fresh(F)
         /\ Tail(todo[p]) = <<Traced(S), Kept(n), Sent(F), Traced(F)>>
      \/ Head(todo[p]) = Sent(F) /\ Fresh(F) /\ OnFile(n) /\ Tail(todo[p]) = <<Traced(F)>>
      \/ Head(todo[p]) = Sent(R) /\ Fresh(R) /\ OnFile(n) /\ Tail(todo[p]) = <<Traced(R)>>
  <2>1. CASE /\ todo[p] = <<Sent(S), Traced(S), Kept(n), Sent(F), Traced(F)>>
            /\ Fresh(S) /\ Fresh(F)
    BY <2>1, Tuples
  <2>2. CASE todo[p] = <<Sent(F), Traced(F)>> /\ Fresh(F) /\ OnFile(n)
    BY <2>2, Tuples
  <2>3. CASE todo[p] = <<Sent(R), Traced(R)>> /\ Fresh(R) /\ OnFile(n)
    BY <2>3, Tuples
  <2> QED BY <1>2, <2>1, <2>2, <2>3
<1> QED BY <1>1, <1>3 DEF n, S, F, R, Kinds

\* A publisher about to trace has an event the hub has already taken.
LEMMA AtTrace ==
    ASSUME PlansOK, NEW p \in Publishers, At(p, "trace")
    PROVE  \E n \in 1..made, k \in Kinds :
             LET e == Event(k, n)
                 F == Event("finished", n)
             IN  /\ Number(p) = n /\ Head(todo[p]) = Traced(e) /\ Published(e)
                 /\ \/ /\ k = "started" /\ Fresh(F)
                       /\ Tail(todo[p]) = <<Kept(n), Sent(F), Traced(F)>>
                    \/ k # "started" /\ OnFile(n) /\ Tail(todo[p]) = <<>>
<1> DEFINE n == Number(p)
           S == Event("started", n)
           F == Event("finished", n)
           R == Event("recorded", n)
<1>1. n \in 1..made /\ (HandlePlan(p, n) \/ RecordPlan(p, n)) /\ Head(todo[p]).do = "trace"
  BY DEF PlansOK, Busy, At
<1> HIDE DEF n
<1>2. \/ todo[p] = <<Traced(S), Kept(n), Sent(F), Traced(F)>> /\ Published(S) /\ Fresh(F)
      \/ todo[p] = <<Traced(F)>> /\ Published(F) /\ OnFile(n)
      \/ todo[p] = <<Traced(R)>> /\ Published(R) /\ OnFile(n)
  BY <1>1, Tuples, StepFields DEF HandlePlan, RecordPlan
<1> HIDE DEF S, F, R
<1>3. \/ /\ Head(todo[p]) = Traced(S) /\ Published(S) /\ Fresh(F)
         /\ Tail(todo[p]) = <<Kept(n), Sent(F), Traced(F)>>
      \/ Head(todo[p]) = Traced(F) /\ Published(F) /\ OnFile(n) /\ Tail(todo[p]) = <<>>
      \/ Head(todo[p]) = Traced(R) /\ Published(R) /\ OnFile(n) /\ Tail(todo[p]) = <<>>
  <2>1. CASE todo[p] = <<Traced(S), Kept(n), Sent(F), Traced(F)>> /\ Published(S) /\ Fresh(F)
    BY <2>1, Tuples
  <2>2. CASE todo[p] = <<Traced(F)>> /\ Published(F) /\ OnFile(n)
    BY <2>2, Tuples
  <2>3. CASE todo[p] = <<Traced(R)>> /\ Published(R) /\ OnFile(n)
    BY <2>3, Tuples
  <2> QED BY <1>2, <2>1, <2>2, <2>3
<1> QED BY <1>1, <1>3 DEF n, S, F, R, Kinds

\* A publisher goes on with its own call; the plans of the others stay.
LEMMA PlansStep ==
    ASSUME PlansOK, todo \in [Publishers -> Seq(Steps)], made \in Nat, made' = made,
           NEW p \in Publishers, Busy(p), NEW n \in Nat, Number(p) = n,
           NEW t, todo' = [todo EXCEPT ![p] = t], records \subseteq records', workers' = workers,
           \A m \in Nat, k \in Kinds : m # n =>
               /\ Event(k, m) \in ToSet(log)' <=> Event(k, m) \in ToSet(log)
               /\ Event(k, m) \in Reached' <=> Event(k, m) \in Reached,
           t # <<>> => Number(p)' = n /\ (HandlePlan(p, n) \/ RecordPlan(p, n))'
    PROVE  PlansOK'
<1>1. todo'[p] = t /\ \A q \in Publishers : q # p => todo'[q] = todo[q]
  OBVIOUS
<1>2. n \in 1..made
  BY DEF PlansOK
<1>3. ASSUME NEW q \in Publishers, q # p, Busy(q)'
      PROVE  /\ Busy(q) /\ Number(q)' = Number(q) /\ Number(q) # n /\ Number(q) \in 1..made
             /\ (HandlePlan(q, Number(q)) \/ RecordPlan(q, Number(q)))'
  <2>1. Busy(q) /\ Number(q)' = Number(q)
    BY <1>1, <1>3 DEF Busy, Number
  <2>2. PICK m \in 1..made : m = Number(q) /\ m # n /\ (HandlePlan(q, m) \/ RecordPlan(q, m))
    BY <1>3, <2>1 DEF PlansOK
  <2>3. (HandlePlan(q, m) \/ RecordPlan(q, m))'
    BY <1>1, <1>3, <2>2, PlanFrame
  <2> QED BY <2>1, <2>2, <2>3
<1>4. Busy(p)' => t # <<>>
  BY <1>1 DEF Busy
<1>5. ASSUME NEW q \in Publishers, Busy(q)'
      PROVE  Number(q)' \in 1..made' /\ (HandlePlan(q, Number(q)) \/ RecordPlan(q, Number(q)))'
  <2>1. CASE q = p
    BY <1>2, <1>4, <1>5, <2>1
  <2>2. CASE q # p
    BY <1>3, <1>5, <2>2
  <2> QED BY <2>1, <2>2
<1>6. ASSUME NEW q \in Publishers, NEW r \in Publishers, q # r, Busy(q)', Busy(r)'
      PROVE  Number(q)' # Number(r)'
  <2>1. CASE q = p
    BY <1>3, <1>4, <1>6, <2>1
  <2>2. CASE r = p
    BY <1>3, <1>4, <1>6, <2>2
  <2>3. CASE q # p /\ r # p
    BY <1>3, <1>6, <2>3 DEF PlansOK
  <2> QED BY <2>1, <2>2, <2>3
<1> QED BY <1>5, <1>6 DEF PlansOK

\* A stream's own steps leave the publishers alone.
LEMMA PlansUnchanged ==
    ASSUME PlansOK, UNCHANGED <<log, trace, torn, records, workers, todo, made>>
    PROVE  PlansOK'
<1>1. \A e : (Fresh(e)' <=> Fresh(e)) /\ (Published(e)' <=> Published(e))
  BY DEF Fresh, Published, Reached
<1>2. \A p : (Busy(p)' <=> Busy(p)) /\ Number(p)' = Number(p)
  BY DEF Busy, Number
<1>3. \A p, n : (HandlePlan(p, n) => HandlePlan(p, n)') /\ (RecordPlan(p, n) => RecordPlan(p, n)')
  BY <1>1 DEF HandlePlan, RecordPlan, OnFile
<1> QED BY <1>2, <1>3 DEF PlansOK

-----------------------------------------------------------------------------
(* Every step keeps the invariant: one lemma for each action. *)

\* A sequence whose finished calls are on record stays one when such an event is appended,
LEMMA OnRecordAppend ==
    ASSUME NEW q \in Seq(Happenings), NEW e \in Happenings, OnRecord(q),
           e.kind # "started" => OnFile(e.call)
    PROVE  OnRecord(Append(q, e))
BY AppendToSet DEF OnRecord

\* and when its oldest events are dropped.
LEMMA OnRecordSubSeq ==
    ASSUME NEW q \in Seq(Happenings), OnRecord(q), NEW a \in 1..(Len(q) + 1)
    PROVE  OnRecord(SubSeq(q, a, Len(q)))
BY DEF OnRecord

\* What is left to do is an end of the plan.
LEMMA AdvanceTyped ==
    ASSUME EventsTypeOK, NEW p \in Publishers, Busy(p), Advance(p)
    PROVE  /\ todo' = [todo EXCEPT ![p] = Tail(todo[p])]
           /\ todo' \in [Publishers -> Seq(Steps)]
           /\ todo'[p] = Tail(todo[p])
           /\ \A q \in Publishers : q # p => todo'[q] = todo[q]
BY DEF EventsTypeOK, Advance, Busy

\* A call that starts takes the next number, with its whole plan to do.
LEMMA StartInv ==
    ASSUME EventsInv, NEW p \in Publishers, Start(p)
    PROVE  EventsInv'
<1>0. PICK n \in Nat : n = made + 1
  BY DEF EventsInv, EventsTypeOK
<1>1. n \in Nat /\ made' = n /\ made \in Nat /\ todo[p] = <<>>
      /\ UNCHANGED <<log, history, chan, slow, seen, from, trace, torn, records, workers>>
  BY <1>0 DEF EventsInv, EventsTypeOK, Start, hub
<1>2. PICK program \in {Handle(n), Record(n)} \cup (IF workers THEN {} ELSE {demoEvents(n)}) :
        todo' = [todo EXCEPT ![p] = program]
  BY <1>0 DEF Start, Programs
<1>3. program \in Seq(Steps)
  BY <1>1, <1>2, PlanTuples
<1>4. /\ todo'[p] = program /\ \A q \in Publishers : q # p => todo'[q] = todo[q]
      /\ todo' \in [Publishers -> Seq(Steps)]
  BY <1>2, <1>3 DEF EventsInv, EventsTypeOK
<1>5. EventsTypeOK'
  BY <1>1, <1>4 DEF EventsInv, EventsTypeOK, Open
<1>6. \A k \in Kinds : Fresh(Event(k, n))'
  <2>1. \A k \in Kinds : Event(k, n) \notin ToSet(log) \cup Reached
    BY <1>0, <1>1, EventFields DEF EventsInv, TraceOK
  <2> QED BY <1>1, <2>1 DEF Fresh, Reached
<1>7. Number(p)' = n /\ (HandlePlan(p, n) \/ RecordPlan(p, n))'
  <2>1. CASE program = Handle(n)
    <3>1. HandlePlan(p, n)'
      BY <1>1, <1>4, <1>6, <2>1, PlanTuples DEF HandlePlan, Kinds
    <3>2. Head(todo'[p]) = Sent(Event("started", n))
      BY <1>1, <1>4, <2>1, PlanTuples, Tuples
    <3> QED BY <1>1, <3>1, <3>2, StepFields, EventFields DEF Number, Kinds
  <2>2. CASE program = Record(n)
    <3>1. RecordPlan(p, n)'
      BY <1>1, <1>4, <1>6, <2>2, PlanTuples DEF RecordPlan, Kinds
    <3>2. Head(todo'[p]) = Kept(n)
      BY <1>1, <1>4, <2>2, PlanTuples, Tuples
    <3> QED BY <3>1, <3>2, StepFields DEF Number
  <2>3. CASE program = demoEvents(n) /\ ~workers
    <3>1. HandlePlan(p, n)'
      BY <1>1, <1>4, <1>6, <2>3, PlanTuples DEF HandlePlan, Kinds, OnFile
    <3>2. Head(todo'[p]) = Sent(Event("finished", n))
      BY <1>1, <1>4, <2>3, PlanTuples, Tuples
    <3> QED BY <1>1, <3>1, <3>2, StepFields, EventFields DEF Number, Kinds
  <2> QED BY <1>2, <2>1, <2>2, <2>3
<1>8. ASSUME NEW q \in Publishers, q # p, Busy(q)'
      PROVE  /\ Busy(q) /\ Number(q)' = Number(q) /\ Number(q) \in 1..made
             /\ (HandlePlan(q, Number(q)) \/ RecordPlan(q, Number(q)))'
  <2>1. Busy(q) /\ Number(q)' = Number(q)
    BY <1>4, <1>8 DEF Busy, Number
  <2>2. PICK m \in 1..made : m = Number(q) /\ (HandlePlan(q, m) \/ RecordPlan(q, m))
    BY <2>1 DEF EventsInv, PlansOK
  <2>3. (HandlePlan(q, m) \/ RecordPlan(q, m))'
    BY <1>1, <1>4, <1>8, <2>2, PlanFrame DEF Reached
  <2> QED BY <2>1, <2>2, <2>3
<1>9. PlansOK'
  <2>1. n \in 1..made' /\ n \notin 1..made
    BY <1>0, <1>1
  <2>2. ASSUME NEW q \in Publishers, Busy(q)'
        PROVE  Number(q)' \in 1..made' /\ (HandlePlan(q, Number(q)) \/ RecordPlan(q, Number(q)))'
    <3>1. CASE q = p
      BY <1>7, <2>1, <3>1
    <3>2. CASE q # p
      BY <1>0, <1>1, <1>8, <2>2, <3>2
    <3> QED BY <3>1, <3>2
  <2>3. ASSUME NEW q \in Publishers, NEW r \in Publishers, q # r, Busy(q)', Busy(r)'
        PROVE  Number(q)' # Number(r)'
    <3>1. CASE q = p
      BY <1>7, <1>8, <2>1, <2>3, <3>1
    <3>2. CASE r = p
      BY <1>7, <1>8, <2>1, <2>3, <3>2
    <3>3. CASE q # p /\ r # p
      BY <1>8, <2>3, <3>3 DEF EventsInv, PlansOK
    <3> QED BY <3>1, <3>2, <3>3
  <2> QED BY <2>2, <2>3 DEF PlansOK
<1>10. Remembered' /\ StreamsOK' /\ ToldOK'
  BY <1>1 DEF EventsInv, Remembered, StreamsOK, NoGap, ToldOK, OnRecord, Open, OnFile
<1>11. TraceOK'
  <2>1. \A e \in ToSet(log) : e.call \in 1..made'
    BY <1>0, <1>1 DEF EventsInv, TraceOK
  <2>2. ASSUME NEW e \in ToSet(log), e \notin Reached
        PROVE  \E q \in Publishers : Busy(q)' /\ Head(todo'[q]) = Traced(e)
    <3>1. PICK q \in Publishers : Busy(q) /\ Head(todo[q]) = Traced(e)
      BY <2>2 DEF EventsInv, TraceOK
    <3> QED BY <1>1, <1>4, <3>1 DEF Busy
  <2> QED BY <1>1, <2>1, <2>2 DEF EventsInv, TraceOK, Reached
<1> QED BY <1>5, <1>9, <1>10, <1>11 DEF EventsInv

\* A call is on record before its last event is published.
LEMMA AppendRecordInv ==
    ASSUME EventsInv, NEW p \in Publishers, AppendRecord(p)
    PROVE  EventsInv'
<1>1. /\ EventsTypeOK /\ PlansOK /\ Remembered /\ StreamsOK /\ ToldOK /\ TraceOK
      /\ At(p, "record") /\ Advance(p) /\ Busy(p)
      /\ UNCHANGED <<log, history, chan, slow, seen, from, trace, torn, workers, made>>
  BY DEF EventsInv, AppendRecord, hub, At, Busy
<1>2. PICK n \in 1..made, k \in Kinds :
         /\ Number(p) = n /\ k # "started"
         /\ todo[p] = <<Kept(n), Sent(Event(k, n)), Traced(Event(k, n))>> /\ Fresh(Event(k, n))
  BY <1>1, AtRecord
<1>3. n \in Nat /\ made \in Nat
  BY <1>1 DEF EventsTypeOK
<1>4. PICK e : e = Event(k, n)
  OBVIOUS
<1>5. e \in Happenings /\ e.kind = k /\ e.call = n
  BY <1>3, <1>4, EventFields
<1>6. Head(todo[p]) = Kept(n) /\ Tail(todo[p]) = <<Sent(e), Traced(e)>>
  BY <1>2, <1>4, Tuples
<1>7. records' = records \cup {n}
  BY <1>6, StepFields DEF AppendRecord
<1>8. /\ todo' = [todo EXCEPT ![p] = Tail(todo[p])] /\ todo' \in [Publishers -> Seq(Steps)]
      /\ todo'[p] = Tail(todo[p]) /\ \A q \in Publishers : q # p => todo'[q] = todo[q]
  BY <1>1, AdvanceTyped
<1>9. EventsTypeOK'
  BY <1>1, <1>3, <1>7, <1>8 DEF EventsTypeOK, Open
<1>10. UNCHANGED <<ToSet(log), Reached>>
  BY <1>1 DEF Reached
<1>11. PlansOK'
  <2>1. Fresh(e)' /\ OnFile(n)'
    BY <1>2, <1>4, <1>7, <1>10 DEF Fresh, OnFile
  <2>2. todo'[p] = <<Sent(e), Traced(e)>> /\ Head(todo'[p]) = Sent(e)
    <3>1. todo'[p] = <<Sent(e), Traced(e)>>
      BY <1>6, <1>8
    <3>2. Head(<<Sent(e), Traced(e)>>) = Sent(e)
      BY Tuples
    <3> QED BY <3>1, <3>2
  <2>3. Number(p)' = n
    BY <1>5, <2>2, StepFields DEF Number
  <2>4. (HandlePlan(p, n) \/ RecordPlan(p, n))'
    <3>1. CASE k = "finished"
      BY <1>4, <2>1, <2>2, <3>1 DEF HandlePlan
    <3>2. CASE k = "recorded"
      BY <1>4, <2>1, <2>2, <3>2 DEF RecordPlan
    <3> QED BY <1>2, <3>1, <3>2 DEF Kinds
  <2> QED BY <1>1, <1>2, <1>3, <1>7, <1>8, <1>10, <2>3, <2>4, PlansStep DEF EventsTypeOK
<1>12. Remembered' /\ StreamsOK'
  BY <1>1 DEF Remembered, StreamsOK, NoGap, Open
<1>13. ToldOK'
  BY <1>1, <1>7 DEF ToldOK, OnRecord, Open, OnFile
<1>14. TraceOK'
  <2>1. ASSUME NEW d \in ToSet(log), d \notin Reached
        PROVE  \E q \in Publishers : Busy(q)' /\ Head(todo'[q]) = Traced(d)
    <3>1. PICK q \in Publishers : Busy(q) /\ Head(todo[q]) = Traced(d)
      BY <1>1, <2>1 DEF TraceOK
    <3>2. q # p
      BY <1>6, <3>1, StepFields
    <3> QED BY <1>8, <3>1, <3>2 DEF Busy
  <2> QED BY <1>1, <1>10, <2>1 DEF TraceOK
<1> QED BY <1>9, <1>11, <1>12, <1>13, <1>14 DEF EventsInv

\* Publish remembers the event and gives it to every stream that has room.
LEMMA HubPublishInv ==
    ASSUME EventsInv, NEW p \in Publishers, HubPublish(p)
    PROVE  EventsInv'
<1>1. /\ EventsTypeOK /\ PlansOK /\ Remembered /\ StreamsOK /\ ToldOK /\ TraceOK
      /\ At(p, "hub") /\ Advance(p) /\ Busy(p)
      /\ UNCHANGED <<seen, from, trace, torn, records, workers, made>>
  BY DEF EventsInv, HubPublish, At, Busy
<1>2. PICK n \in 1..made, k \in Kinds :
         /\ Number(p) = n /\ Head(todo[p]) = Sent(Event(k, n)) /\ Fresh(Event(k, n))
         /\ \/ /\ k = "started" /\ Fresh(Event("finished", n))
               /\ Tail(todo[p]) = <<Traced(Event(k, n)), Kept(n), Sent(Event("finished", n)),
                                    Traced(Event("finished", n))>>
            \/ k # "started" /\ OnFile(n) /\ Tail(todo[p]) = <<Traced(Event(k, n))>>
  BY <1>1, AtHub
<1>3. n \in Nat /\ made \in Nat
  BY <1>1 DEF EventsTypeOK
<1>4. PICK e : e = Event(k, n)
  OBVIOUS
<1>5. e \in Happenings /\ e.kind = k /\ e.call = n /\ (e.kind # "started" => OnFile(e.call))
  BY <1>2, <1>3, <1>4, EventFields
<1>6. /\ log' = Append(log, e)
      /\ history' = Trimmed(Append(history, e))
      /\ slow' = slow \cup {s \in Open : Len(chan[s]) >= Capacity}
      /\ chan' = [s \in Subscribers |-> IF s \in Open THEN Offer(chan[s], e) ELSE NoStream]
  BY <1>2, <1>4, StepFields DEF HubPublish
<1>7. /\ todo' = [todo EXCEPT ![p] = Tail(todo[p])] /\ todo' \in [Publishers -> Seq(Steps)]
      /\ todo'[p] = Tail(todo[p]) /\ \A q \in Publishers : q # p => todo'[q] = todo[q]
  BY <1>1, AdvanceTyped
<1>8. /\ log \in Seq(Happenings) /\ log' \in Seq(Happenings) /\ Len(log) \in Nat
      /\ Len(log') = Len(log) + 1 /\ ToSet(log)' = ToSet(log) \cup {e}
      /\ UNCHANGED Reached
  BY <1>1, <1>5, <1>6, AppendToSet DEF EventsTypeOK, Reached
<1>9. ASSUME NEW s \in Open'
      PROVE  /\ s \in Open /\ chan'[s] = Offer(chan[s], e) /\ chan'[s] \in Seq(Happenings)
             /\ s \notin slow' => s \notin slow /\ chan'[s] = Append(chan[s], e)
             /\ OnRecord(chan[s])'
  <2>1. s \in Subscribers /\ s \in Open /\ chan'[s] = Offer(chan[s], e)
    BY <1>6, <1>9 DEF Open
  <2>2. chan[s] \in Seq(Happenings) /\ OnRecord(chan[s])
    BY <1>1, <2>1 DEF EventsTypeOK, ToldOK
  <2>3. chan'[s] = IF Len(chan[s]) < Capacity THEN Append(chan[s], e) ELSE chan[s]
    BY <2>1 DEF Offer
  <2>4. Append(chan[s], e) \in Seq(Happenings) /\ OnRecord(Append(chan[s], e))
    BY <1>5, <2>2, OnRecordAppend
  <2>5. Capacity \in Nat /\ Len(chan[s]) \in Nat
    BY <2>2, EventsAssumption DEF Capacity
  <2>6. s \notin slow' => s \notin slow /\ Len(chan[s]) < Capacity
    BY <1>6, <2>1, <2>5
  <2>7. OnRecord(chan'[s])
    BY <2>2, <2>3, <2>4
  <2>8. OnRecord(chan[s])'
    BY <1>1, <2>7 DEF OnRecord, OnFile
  <2> QED BY <2>1, <2>2, <2>3, <2>4, <2>6, <2>8
<1>10. First(Len(log)) \in 1..(Len(log) + 1) /\ First(Len(log')) \in 1..(Len(log') + 1)
  BY <1>8, EventsAssumption DEF First
<1>11. Remembered'
  BY <1>1, <1>5, <1>6, <1>8, TrimmedEnd DEF Remembered
<1>12. history' \in Seq(Happenings)
  BY <1>8, <1>10, <1>11 DEF Remembered
<1>13. EventsTypeOK'
  <2>1. chan' = [s \in Subscribers |-> chan'[s]]
    BY <1>6
  <2>2. slow' \subseteq Subscribers
    BY <1>1, <1>6 DEF EventsTypeOK, Open
  <2> QED BY <1>1, <1>7, <1>8, <1>9, <1>12, <2>1, <2>2 DEF EventsTypeOK
<1>14. PlansOK'
  <2>1. \A m \in Nat, j \in Kinds : m # n => (Event(j, m) \in ToSet(log)' <=> Event(j, m) \in ToSet(log))
    BY <1>3, <1>4, <1>5, <1>8, EventFields
  <2>2. Published(e)'
    BY <1>2, <1>4, <1>8 DEF Published, Fresh
  <2>3. /\ Tail(todo[p]) # <<>> /\ Head(Tail(todo[p])) = Traced(e)
        /\ (HandlePlan(p, n) \/ RecordPlan(p, n))'
    <3>1. CASE k = "started"
      <4>1. PICK f : f = Event("finished", n)
        OBVIOUS
      <4>2. Tail(todo[p]) = <<Traced(e), Kept(n), Sent(f), Traced(f)>> /\ Fresh(f)
        BY <1>2, <1>4, <3>1, <4>1
      <4>3. f # e
        BY <1>3, <1>5, <3>1, <4>1, EventFields DEF Kinds
      <4>4. Fresh(f)'
        BY <1>8, <4>2, <4>3 DEF Fresh
      <4>5. HandlePlan(p, n)'
        BY <1>4, <1>7, <2>2, <3>1, <4>1, <4>2, <4>4 DEF HandlePlan
      <4>6. Tail(todo[p]) # <<>> /\ Head(Tail(todo[p])) = Traced(e)
        <5>1. PICK t : t = Tail(todo[p])
          OBVIOUS
        <5>2. t = <<Traced(e), Kept(n), Sent(f), Traced(f)>>
          BY <4>2, <5>1
        <5>3. t # <<>> /\ Head(t) = Traced(e)
          BY <5>2, Tuples
        <5> QED BY <5>1, <5>3
      <4> QED BY <4>5, <4>6
    <3>2. CASE k # "started"
      <4>1. Tail(todo[p]) = <<Traced(e)>> /\ OnFile(n)'
        BY <1>1, <1>2, <1>4, <3>2 DEF OnFile
      <4>2. CASE k = "finished"
        <5>1. HandlePlan(p, n)'
          BY <1>4, <1>7, <2>2, <4>1, <4>2 DEF HandlePlan
        <5> QED BY <4>1, <5>1, Tuples, ZenonT(60)
      <4>3. CASE k = "recorded"
        <5>1. RecordPlan(p, n)'
          BY <1>4, <1>7, <2>2, <4>1, <4>3 DEF RecordPlan
        <5> QED BY <4>1, <5>1, Tuples, ZenonT(60)
      <4> QED BY <3>2, <4>2, <4>3 DEF Kinds
    <3> QED BY <3>1, <3>2
  <2>4. Number(p)' = n
    BY <1>5, <1>7, <2>3, StepFields DEF Number
  <2> QED BY <1>1, <1>2, <1>3, <1>7, <1>8, <2>1, <2>3, <2>4, PlansStep DEF EventsTypeOK
<1>15. StreamsOK'
  <2>1. \A s \in Subscribers : from[s] \in 1..(Len(log') + 1)
    BY <1>1, <1>8 DEF StreamsOK
  <2>2. ASSUME NEW s \in Open' \ slow'
        PROVE  seen[s] \o chan'[s] = SubSeq(log', from[s], Len(log'))
    <3>1. s \in Open \ slow /\ chan'[s] = Append(chan[s], e) /\ s \in Subscribers
      BY <1>9, <2>2 DEF Open
    <3>2. seen[s] \in Seq(Happenings) /\ chan[s] \in Seq(Happenings) /\ from[s] \in 1..(Len(log) + 1)
      BY <1>1, <3>1 DEF EventsTypeOK, StreamsOK
    <3>3. seen[s] \o chan'[s] = Append(seen[s] \o chan[s], e)
      <4>1. seen[s] \o Append(chan[s], e) = Append(seen[s] \o chan[s], e)
        <5>1. \A q, c \in Seq(Happenings) : q \o Append(c, e) = Append(q \o c, e)
          BY <1>5, ConcatAppend
        <5> QED BY <3>2, <5>1, Zenon
      <4> QED BY <3>1, <4>1
    <3>4. seen[s] \o chan[s] = SubSeq(log, from[s], Len(log))
      BY <1>1, <3>1 DEF StreamsOK, NoGap
    <3>5. Append(SubSeq(log, from[s], Len(log)), e) = SubSeq(Append(log, e), from[s], Len(log) + 1)
      BY <1>5, <1>8, <3>2, SuffixAppend
    <3> QED BY <1>6, <1>8, <3>3, <3>4, <3>5
  <2> QED BY <1>1, <2>1, <2>2 DEF StreamsOK, NoGap
<1>16. ToldOK'
  <2>1. OnRecord(log')
    BY <1>1, <1>5, <1>6, <1>8, OnRecordAppend DEF ToldOK
  <2>2. OnRecord(history')
    BY <1>8, <1>10, <1>11, <2>1, OnRecordSubSeq DEF Remembered
  <2>3. OnRecord(log)' /\ OnRecord(history)'
    BY <1>1, <2>1, <2>2 DEF OnRecord, OnFile
  <2>4. \A s \in Subscribers : OnRecord(seen[s])'
    BY <1>1 DEF ToldOK, OnRecord, OnFile
  <2>5. \A s \in Open' : OnRecord(chan[s])'
    BY <1>9
  <2> QED BY <2>3, <2>4, <2>5 DEF ToldOK
<1>17. TraceOK'
  <2>1. \A d \in ToSet(log)' : d.call \in 1..made'
    BY <1>1, <1>2, <1>5, <1>8 DEF TraceOK
  <2>2. Busy(p)' /\ Head(todo'[p]) = Traced(e)
    <3>1. CASE k = "started"
      <4>1. PICK f : f = Event("finished", n)
        OBVIOUS
      <4>2. Tail(todo[p]) = <<Traced(e), Kept(n), Sent(f), Traced(f)>>
        BY <1>2, <1>4, <3>1, <4>1
      <4>3. todo'[p] = <<Traced(e), Kept(n), Sent(f), Traced(f)>>
        BY <1>7, <4>2
      <4> QED BY <4>3, Tuples DEF Busy
    <3>2. CASE k # "started"
      BY <1>2, <1>4, <1>7, <3>2, Tuples DEF Busy
    <3> QED BY <3>1, <3>2
  <2>3. ASSUME NEW d \in ToSet(log)', d \notin Reached'
        PROVE  \E q \in Publishers : Busy(q)' /\ Head(todo'[q]) = Traced(d)
    <3>1. CASE d = e
      BY <2>2, <3>1
    <3>2. CASE d # e
      <4>1. PICK q \in Publishers : Busy(q) /\ Head(todo[q]) = Traced(d)
        BY <1>1, <1>8, <2>3, <3>2 DEF TraceOK
      <4>2. q # p
        BY <1>2, <4>1, StepFields
      <4> QED BY <1>7, <4>1, <4>2 DEF Busy
    <3> QED BY <3>1, <3>2
  <2> QED BY <1>1, <1>8, <2>1, <2>3 DEF TraceOK
<1> QED BY <1>11, <1>13, <1>14, <1>15, <1>16, <1>17 DEF EventsInv

\* The append to the trace is of an event the hub has taken, or fails.
LEMMA TraceAppendInv ==
    ASSUME EventsInv, NEW p \in Publishers, TraceAppend(p)
    PROVE  EventsInv'
<1>1. /\ EventsTypeOK /\ PlansOK /\ Remembered /\ StreamsOK /\ ToldOK /\ TraceOK
      /\ At(p, "trace") /\ Advance(p) /\ Busy(p)
      /\ UNCHANGED <<log, history, chan, slow, seen, from, records, workers, made>>
  BY DEF EventsInv, TraceAppend, hub, At, Busy
<1>2. PICK n \in 1..made, k \in Kinds :
         /\ Number(p) = n /\ Head(todo[p]) = Traced(Event(k, n)) /\ Published(Event(k, n))
         /\ \/ /\ k = "started" /\ Fresh(Event("finished", n))
               /\ Tail(todo[p]) = <<Kept(n), Sent(Event("finished", n)), Traced(Event("finished", n))>>
            \/ k # "started" /\ OnFile(n) /\ Tail(todo[p]) = <<>>
  BY <1>1, AtTrace
<1>3. n \in Nat /\ made \in Nat
  BY <1>1 DEF EventsTypeOK
<1>4. PICK e, f : e = Event(k, n) /\ f = Event("finished", n)
  OBVIOUS
<1>5. /\ e \in Happenings /\ e.kind = k /\ e.call = n
      /\ f \in Happenings /\ f.kind = "finished" /\ f.call = n
  BY <1>3, <1>4, EventFields DEF Kinds
<1>6. e \in ToSet(log) /\ e \notin ToSet(trace) /\ e \notin torn
  BY <1>2, <1>4 DEF Published, Reached
<1>7. \/ trace' = Append(trace, e) /\ UNCHANGED torn
      \/ torn' = torn \cup {e} /\ UNCHANGED trace
  BY <1>2, <1>4, StepFields DEF TraceAppend
<1>8. /\ todo' = [todo EXCEPT ![p] = Tail(todo[p])] /\ todo' \in [Publishers -> Seq(Steps)]
      /\ todo'[p] = Tail(todo[p]) /\ \A q \in Publishers : q # p => todo'[q] = todo[q]
  BY <1>1, AdvanceTyped
<1>9. trace \in Seq(Happenings) /\ trace' \in Seq(Happenings) /\ torn' \subseteq Happenings
  <2>1. trace \in Seq(Happenings) /\ torn \subseteq Happenings /\ Append(trace, e) \in Seq(Happenings)
    BY <1>1, <1>5 DEF EventsTypeOK
  <2>2. CASE trace' = Append(trace, e) /\ UNCHANGED torn
    BY <2>1, <2>2
  <2>3. CASE torn' = torn \cup {e} /\ UNCHANGED trace
    BY <1>5, <2>1, <2>3
  <2> QED BY <1>7, <2>2, <2>3
<1>10. Reached' = Reached \cup {e} /\ UNCHANGED ToSet(log)
  <2>1. CASE trace' = Append(trace, e) /\ UNCHANGED torn
    <3>1. ToSet(trace)' = ToSet(trace) \cup {e}
      BY <1>5, <1>9, <2>1, AppendToSet
    <3> QED BY <1>1, <2>1, <3>1 DEF Reached
  <2>2. CASE torn' = torn \cup {e} /\ UNCHANGED trace
    BY <1>1, <2>2 DEF Reached
  <2> QED BY <1>7, <2>1, <2>2
<1>11. EventsTypeOK'
  BY <1>1, <1>8, <1>9 DEF EventsTypeOK, Open
<1>12. PlansOK'
  <2>1. \A m \in Nat, j \in Kinds : m # n => (Event(j, m) \in Reached' <=> Event(j, m) \in Reached)
    BY <1>3, <1>4, <1>5, <1>10, EventFields
  <2>2. Tail(todo[p]) # <<>> => Number(p)' = n /\ (HandlePlan(p, n) \/ RecordPlan(p, n))'
    <3>1. CASE k = "started"
      <4>1. todo'[p] = <<Kept(n), Sent(f), Traced(f)>> /\ Fresh(f)
        BY <1>2, <1>4, <1>8, <3>1
      <4>2. Fresh(f)'
        BY <1>5, <1>10, <3>1, <4>1 DEF Fresh
      <4>3. HandlePlan(p, n)'
        BY <1>4, <4>1, <4>2 DEF HandlePlan
      <4>4. Head(todo'[p]) = Kept(n)
        BY <4>1, Tuples
      <4>5. Number(p)' = n
        BY <4>4, StepFields DEF Number
      <4> QED BY <4>3, <4>5
    <3>2. CASE k # "started"
      BY <1>2, <3>2
    <3> QED BY <3>1, <3>2
  <2> QED BY <1>1, <1>2, <1>3, <1>8, <1>10, <2>1, <2>2, PlansStep DEF EventsTypeOK
<1>13. Remembered' /\ StreamsOK'
  BY <1>1 DEF Remembered, StreamsOK, NoGap, Open
<1>14. ToldOK'
  BY <1>1 DEF ToldOK, OnRecord, Open, OnFile
<1>15. TraceOK'
  <2>1. \A d \in ToSet(log)' : d.call \in 1..made'
    BY <1>1 DEF TraceOK
  <2>2. Reached' \subseteq ToSet(log)' /\ (ToSet(trace) \cap torn)' = {}
    <3>1. Reached' \subseteq ToSet(log)'
      BY <1>1, <1>6, <1>10 DEF TraceOK
    <3>2. CASE trace' = Append(trace, e) /\ UNCHANGED torn
      <4>1. ToSet(trace)' = ToSet(trace) \cup {e}
        BY <1>5, <1>9, <3>2, AppendToSet
      <4> QED BY <1>1, <1>6, <3>1, <3>2, <4>1 DEF TraceOK
    <3>3. CASE torn' = torn \cup {e} /\ UNCHANGED trace
      BY <1>1, <1>6, <3>1, <3>3 DEF TraceOK
    <3> QED BY <1>7, <3>2, <3>3
  <2>3. ASSUME NEW d \in ToSet(log), d \notin Reached'
        PROVE  \E q \in Publishers : Busy(q)' /\ Head(todo'[q]) = Traced(d)
    <3>1. d # e /\ d \notin Reached
      BY <1>10, <2>3
    <3>2. PICK q \in Publishers : Busy(q) /\ Head(todo[q]) = Traced(d)
      BY <1>1, <2>3, <3>1 DEF TraceOK
    <3>3. q # p
      BY <1>2, <1>4, <3>1, <3>2, StepFields
    <3> QED BY <1>8, <3>2, <3>3 DEF Busy
  <2>4. (\A i, j \in DOMAIN trace : trace[i] = trace[j] => i = j)'
        /\ (\A i, j \in DOMAIN trace :
              /\ trace[i].kind = "started" /\ trace[j].kind = "finished"
              /\ trace[i].call = trace[j].call
              => i < j)'
    <3>1. CASE trace' = Append(trace, e) /\ UNCHANGED torn
      <4>1. PICK l : l = Len(trace) + 1
        OBVIOUS
      <4>2. /\ DOMAIN trace' = DOMAIN trace \cup {l} /\ l \notin DOMAIN trace
            /\ \A i \in DOMAIN trace : trace'[i] = trace[i] /\ i < l
            /\ trace'[l] = e
        BY <1>5, <1>9, <3>1, <4>1, AppendToSet
      <4>3. \A i \in DOMAIN trace : trace[i] # e
        BY <1>6 DEF ToSet
      <4>4. \A i \in DOMAIN trace : k = "started" => trace[i] # f
        <5>1. k = "started" => f \notin ToSet(trace)
          BY <1>2, <1>4 DEF Fresh, Reached
        <5> QED BY <5>1 DEF ToSet
      <4>5. \A i \in DOMAIN trace : trace[i].kind = "finished" /\ trace[i].call = n => trace[i] = f
        <5>1. \A i \in DOMAIN trace : trace[i] \in Happenings
          BY <1>9
        <5>2. \A d \in Happenings : d.kind = "finished" /\ d.call = n => d = f
          BY <1>4 DEF Happenings, Event
        <5> QED BY <5>1, <5>2
      <4>6. ASSUME NEW i \in DOMAIN trace', NEW j \in DOMAIN trace', trace'[i] = trace'[j]
            PROVE  i = j
        BY <1>1, <4>2, <4>3, <4>6 DEF TraceOK
      <4>7. ASSUME NEW i \in DOMAIN trace', NEW j \in DOMAIN trace',
                   trace'[i].kind = "started", trace'[j].kind = "finished",
                   trace'[i].call = trace'[j].call
            PROVE  i < j
        <5>1. CASE i \in DOMAIN trace /\ j \in DOMAIN trace
          BY <1>1, <4>2, <4>7, <5>1 DEF TraceOK
        <5>2. CASE i \in DOMAIN trace /\ j = l
          BY <4>2, <5>2
        <5>3. CASE i = l
          <6>1. k = "started" /\ trace'[j].call = n /\ j # l
            BY <1>5, <4>2, <4>7, <5>3
          <6>2. j \in DOMAIN trace /\ trace[j].kind = "finished" /\ trace[j].call = n
            BY <4>2, <4>7, <6>1
          <6> QED BY <4>4, <4>5, <6>1, <6>2
        <5> QED BY <4>2, <5>1, <5>2, <5>3
      <4> QED BY <4>6, <4>7
    <3>2. CASE torn' = torn \cup {e} /\ UNCHANGED trace
      BY <1>1, <3>2 DEF TraceOK
    <3> QED BY <1>7, <3>1, <3>2
  <2> QED BY <1>1, <2>1, <2>2, <2>3, <2>4 DEF TraceOK
<1> QED BY <1>11, <1>12, <1>13, <1>14, <1>15 DEF EventsInv

\* A stream starts with what the hub remembers.
LEMMA SubscribeInv ==
    ASSUME EventsInv, NEW s \in Subscribers, Subscribe(s)
    PROVE  EventsInv'
<1>1. /\ EventsTypeOK /\ PlansOK /\ Remembered /\ StreamsOK /\ ToldOK /\ TraceOK
      /\ UNCHANGED <<log, history, trace, torn, records, workers, todo, made>>
      /\ chan' = [chan EXCEPT ![s] = Replayed]
      /\ from' = [from EXCEPT ![s] = First(Len(log))]
      /\ seen' = [seen EXCEPT ![s] = <<>>]
      /\ slow' = slow \ {s}
  BY DEF EventsInv, Subscribe, First
<1>2. log \in Seq(Happenings) /\ history \in Seq(Happenings) /\ Len(log) \in Nat /\ Len(history) \in Nat
  BY <1>1 DEF EventsTypeOK
<1>3. First(Len(log)) \in 1..(Len(log) + 1) /\ Len(log) - First(Len(log)) + 1 <= HistorySize
  BY <1>2, EventsAssumption DEF First
<1>4. Len(history) <= HistorySize
  <2>1. Len(SubSeq(log, First(Len(log)), Len(log))) = Len(log) - First(Len(log)) + 1
    BY <1>2, <1>3
  <2> QED BY <1>1, <1>3, <2>1 DEF Remembered
<1>5. Replayed = history
  <2>1. Capacity \in Nat /\ Len(history) <= Capacity
    BY <1>2, <1>4, EventsAssumption DEF Capacity
  <2>2. Replayed = SubSeq(history, 1, Len(history))
    BY <1>2, <2>1 DEF Replayed
  <2> QED BY <1>2, <2>2
<1>6. /\ chan'[s] = history /\ from'[s] = First(Len(log)) /\ seen'[s] = <<>>
      /\ \A t \in Subscribers : t # s => UNCHANGED <<chan[t], from[t], seen[t]>>
      /\ chan' = [t \in Subscribers |-> chan'[t]]
  BY <1>1, <1>5 DEF EventsTypeOK
<1>7. \A t \in Open' : t = s \/ (t # s /\ t \in Open)
  BY <1>6 DEF Open
<1>8. EventsTypeOK'
  <2>1. \A t \in Open' : chan'[t] \in Seq(Happenings)
    BY <1>1, <1>2, <1>6, <1>7 DEF EventsTypeOK, Open
  <2>2. seen' \in [Subscribers -> Seq(Happenings)] /\ from' \in [Subscribers -> Nat]
    BY <1>1, <1>3 DEF EventsTypeOK
  <2> QED BY <1>1, <1>6, <2>1, <2>2 DEF EventsTypeOK
<1>9. PlansOK'
  BY <1>1, PlansUnchanged
<1>10. StreamsOK'
  <2>1. \A t \in Subscribers : from'[t] \in 1..(Len(log') + 1)
    BY <1>1, <1>3, <1>6 DEF StreamsOK
  <2>2. ASSUME NEW t \in Open' \ slow'
        PROVE  seen'[t] \o chan'[t] = SubSeq(log, from'[t], Len(log))
    <3>1. CASE t = s
      <4>1. <<>> \o history = history
        BY <1>2, ConcatEmptySeq
      <4> QED BY <1>1, <1>6, <3>1, <4>1 DEF Remembered
    <3>2. CASE t # s
      <4>1. t \in Open \ slow /\ t \in Subscribers
        BY <1>1, <1>7, <2>2, <3>2 DEF Open
      <4>2. seen[t] \o chan[t] = SubSeq(log, from[t], Len(log))
        BY <1>1, <4>1 DEF StreamsOK, NoGap
      <4> QED BY <1>6, <3>2, <4>1, <4>2
    <3> QED BY <3>1, <3>2
  <2> QED BY <1>1, <2>1, <2>2 DEF StreamsOK, NoGap
<1>11. ToldOK'
  <2>1. OnRecord(log)' /\ OnRecord(history)'
    BY <1>1 DEF ToldOK, OnRecord, OnFile
  <2>2. ASSUME NEW t \in Subscribers
        PROVE  OnRecord(seen[t])'
    BY <1>1, <1>6 DEF ToldOK, OnRecord, OnFile
  <2>3. ASSUME NEW t \in Open'
        PROVE  OnRecord(chan[t])'
    BY <1>1, <1>6, <1>7 DEF ToldOK, OnRecord, Open, OnFile
  <2> QED BY <2>1, <2>2, <2>3 DEF ToldOK
<1>12. Remembered' /\ TraceOK'
  BY <1>1 DEF Remembered, TraceOK, Reached, Busy
<1> QED BY <1>8, <1>9, <1>10, <1>11, <1>12 DEF EventsInv

\* A stream writes the oldest event of its channel.
LEMMA WriteSSEInv ==
    ASSUME EventsInv, NEW s \in Subscribers, WriteSSE(s)
    PROVE  EventsInv'
<1>1. /\ EventsTypeOK /\ PlansOK /\ Remembered /\ StreamsOK /\ ToldOK /\ TraceOK
      /\ UNCHANGED <<log, history, slow, from, trace, torn, records, workers, todo, made>>
      /\ s \in Open /\ chan[s] # <<>>
      /\ seen' = [seen EXCEPT ![s] = Append(seen[s], Head(chan[s]))]
      /\ chan' = [chan EXCEPT ![s] = Tail(chan[s])]
  BY DEF EventsInv, EventsTypeOK, WriteSSE
<1>2. chan[s] \in Seq(Happenings) /\ seen[s] \in Seq(Happenings)
  BY <1>1 DEF EventsTypeOK
<1>3. PICK c, w : c = Tail(chan[s]) /\ w = Append(seen[s], Head(chan[s]))
  OBVIOUS
<1>4. /\ c \in Seq(Happenings) /\ w \in Seq(Happenings)
      /\ w \o c = seen[s] \o chan[s]
  <2>1. c \in Seq(Happenings) /\ w \in Seq(Happenings)
    BY <1>1, <1>2, <1>3
  <2>2. Append(seen[s], Head(chan[s])) \o Tail(chan[s]) = seen[s] \o chan[s]
    <3>1. \A q, d \in Seq(Happenings) : d # <<>> => Append(q, Head(d)) \o Tail(d) = q \o d
      BY WrittenOnce, Zenon
    <3> QED BY <1>1, <1>2, <3>1, Zenon
  <2> QED BY <1>3, <2>1, <2>2
<1>5. OnRecord(c) /\ OnRecord(w)
  <2>1. OnRecord(chan[s]) /\ OnRecord(seen[s])
    BY <1>1 DEF ToldOK
  <2>2. OnRecord(c)
    BY <1>1, <1>2, <1>3, <2>1 DEF OnRecord
  <2>3. Head(chan[s]) \in Happenings /\ Head(chan[s]) = chan[s][1] /\ 1 \in DOMAIN chan[s]
    BY <1>1, <1>2
  <2>4. OnRecord(w)
    BY <1>2, <1>3, <2>1, <2>3, OnRecordAppend DEF OnRecord
  <2> QED BY <2>2, <2>4
<1>6. /\ chan'[s] = c /\ seen'[s] = w
      /\ \A t \in Subscribers : t # s => UNCHANGED <<chan[t], seen[t]>>
      /\ chan' = [t \in Subscribers |-> chan'[t]]
      /\ seen' \in [Subscribers -> Seq(Happenings)]
  BY <1>1, <1>3, <1>4 DEF EventsTypeOK
<1>7. \A t \in Open' : t \in Subscribers /\ (t = s \/ (t # s /\ t \in Open))
  BY <1>6 DEF Open
<1>8. EventsTypeOK'
  <2>1. \A t \in Open' : chan'[t] \in Seq(Happenings)
    BY <1>1, <1>4, <1>6, <1>7 DEF EventsTypeOK
  <2> QED BY <1>1, <1>6, <2>1 DEF EventsTypeOK
<1>9. PlansOK'
  BY <1>1, PlansUnchanged
<1>10. StreamsOK'
  <2>1. ASSUME NEW t \in Open' \ slow'
        PROVE  seen'[t] \o chan'[t] = SubSeq(log, from[t], Len(log))
    <3>1. t \in Open \ slow
      BY <1>1, <1>7, <2>1
    <3>2. seen[t] \o chan[t] = SubSeq(log, from[t], Len(log))
      BY <1>1, <3>1 DEF StreamsOK, NoGap
    <3>3. CASE t = s
      BY <1>4, <1>6, <3>2, <3>3
    <3>4. CASE t # s
      BY <1>6, <1>7, <2>1, <3>2, <3>4
    <3> QED BY <3>3, <3>4
  <2> QED BY <1>1, <2>1 DEF StreamsOK, NoGap
<1>11. ToldOK'
  <2>1. OnRecord(log)' /\ OnRecord(history)'
    BY <1>1 DEF ToldOK, OnRecord, OnFile
  <2>2. ASSUME NEW t \in Subscribers
        PROVE  OnRecord(seen[t])'
    BY <1>1, <1>5, <1>6 DEF ToldOK, OnRecord, OnFile
  <2>3. ASSUME NEW t \in Open'
        PROVE  OnRecord(chan[t])'
    BY <1>1, <1>5, <1>6, <1>7 DEF ToldOK, OnRecord, OnFile
  <2> QED BY <2>1, <2>2, <2>3 DEF ToldOK
<1>12. Remembered' /\ TraceOK'
  BY <1>1 DEF Remembered, TraceOK, Reached, Busy
<1> QED BY <1>8, <1>9, <1>10, <1>11, <1>12 DEF EventsInv

\* A client that goes away takes its channel and what it saw with it.
LEMMA CancelInv ==
    ASSUME EventsInv, NEW s \in Subscribers, Cancel(s)
    PROVE  EventsInv'
<1>1. /\ EventsTypeOK /\ PlansOK /\ Remembered /\ StreamsOK /\ ToldOK /\ TraceOK
      /\ UNCHANGED <<log, history, slow, from, trace, torn, records, workers, todo, made>>
      /\ chan' = [chan EXCEPT ![s] = NoStream]
      /\ seen' = [seen EXCEPT ![s] = <<>>]
  BY DEF EventsInv, Cancel
<1>2. /\ chan'[s] = NoStream /\ seen'[s] = <<>>
      /\ \A t \in Subscribers : t # s => UNCHANGED <<chan[t], seen[t]>>
      /\ chan' = [t \in Subscribers |-> chan'[t]]
      /\ seen' \in [Subscribers -> Seq(Happenings)]
  <2>1. <<>> \in Seq(Happenings)
    OBVIOUS
  <2>2. chan = [t \in Subscribers |-> chan[t]] /\ seen \in [Subscribers -> Seq(Happenings)]
    BY <1>1 DEF EventsTypeOK
  <2>3. /\ chan'[s] = NoStream /\ \A t \in Subscribers : t # s => chan'[t] = chan[t]
        /\ chan' = [t \in Subscribers |-> chan'[t]]
    BY <1>1, <2>2
  <2>4. /\ seen'[s] = <<>> /\ \A t \in Subscribers : t # s => seen'[t] = seen[t]
        /\ seen' \in [Subscribers -> Seq(Happenings)]
    BY <1>1, <2>1, <2>2
  <2> QED BY <2>3, <2>4
<1>3. \A t \in Open' : t \in Subscribers /\ t # s /\ t \in Open
  BY <1>2 DEF Open
<1>4. EventsTypeOK'
  <2>1. \A t \in Open' : chan'[t] \in Seq(Happenings)
    BY <1>1, <1>2, <1>3 DEF EventsTypeOK
  <2> QED BY <1>1, <1>2, <2>1 DEF EventsTypeOK
<1>5. PlansOK'
  BY <1>1, PlansUnchanged
<1>6. StreamsOK'
  <2>1. ASSUME NEW t \in Open' \ slow'
        PROVE  seen'[t] \o chan'[t] = SubSeq(log, from[t], Len(log))
    <3>1. t \in Open \ slow /\ t # s
      BY <1>1, <1>3, <2>1
    <3>2. seen[t] \o chan[t] = SubSeq(log, from[t], Len(log))
      BY <1>1, <3>1 DEF StreamsOK, NoGap
    <3> QED BY <1>2, <1>3, <2>1, <3>1, <3>2
  <2> QED BY <1>1, <2>1 DEF StreamsOK, NoGap
<1>7. ToldOK'
  <2>1. OnRecord(log)' /\ OnRecord(history)'
    BY <1>1 DEF ToldOK, OnRecord, OnFile
  <2>2. ASSUME NEW t \in Subscribers
        PROVE  OnRecord(seen[t])'
    BY <1>1, <1>2 DEF ToldOK, OnRecord, OnFile
  <2>3. ASSUME NEW t \in Open'
        PROVE  OnRecord(chan[t])'
    BY <1>1, <1>2, <1>3 DEF ToldOK, OnRecord, OnFile
  <2> QED BY <2>1, <2>2, <2>3 DEF ToldOK
<1>8. Remembered' /\ TraceOK'
  BY <1>1 DEF Remembered, TraceOK, Reached, Busy
<1> QED BY <1>4, <1>5, <1>6, <1>7, <1>8 DEF EventsInv

-----------------------------------------------------------------------------
(* The invariant of the specification and what follows from it. *)

\* Nothing has been published: the invariant holds of the empty hub.
LEMMA EventsInitInv == EInit => EventsInv
<1> SUFFICES ASSUME EInit PROVE EventsInv
  OBVIOUS
<1>1. Open = {}
  BY DEF EInit, Open
<1>2. ToSet(log) = {} /\ ToSet(trace) = {} /\ Reached = {}
  BY DEF EInit, ToSet, Reached
<1>3. EventsTypeOK
  BY <1>1 DEF EInit, EventsTypeOK
<1>4. PlansOK
  BY DEF EInit, PlansOK, Busy
<1>5. Remembered
  BY EventsAssumption DEF EInit, Remembered, First
<1>6. StreamsOK
  BY <1>1 DEF EInit, StreamsOK, NoGap
<1>7. ToldOK
  BY <1>1 DEF EInit, ToldOK, OnRecord
<1>8. TraceOK
  BY <1>2 DEF EInit, TraceOK
<1> QED BY <1>3, <1>4, <1>5, <1>6, <1>7, <1>8 DEF EventsInv

\* Every step of the publishers and of the streams keeps the invariant.
LEMMA EventsNextInv == EventsInv /\ [ENext]_evars => EventsInv'
<1> SUFFICES ASSUME EventsInv, [ENext]_evars PROVE EventsInv'
  OBVIOUS
<1>1. CASE \E p \in Publishers : Start(p) \/ PublisherStep(p)
  <2>1. PICK p \in Publishers : Start(p) \/ AppendRecord(p) \/ HubPublish(p) \/ TraceAppend(p)
    BY <1>1 DEF PublisherStep
  <2> QED BY <2>1, StartInv, AppendRecordInv, HubPublishInv, TraceAppendInv
<1>2. CASE \E s \in Subscribers : Subscribe(s) \/ WriteSSE(s) \/ Cancel(s)
  BY <1>2, SubscribeInv, WriteSSEInv, CancelInv
<1>3. CASE UNCHANGED evars
  <2>1. UNCHANGED <<log, history, chan, seen, from, slow, trace, torn, records, workers, todo, made>>
    BY <1>3 DEF evars
  <2>2. EventsTypeOK'
    BY <2>1 DEF EventsInv, EventsTypeOK, Open
  <2>3. PlansOK'
    BY <2>1, PlansUnchanged DEF EventsInv
  <2>4. Remembered' /\ StreamsOK'
    BY <2>1 DEF EventsInv, Remembered, StreamsOK, NoGap, Open
  <2>5. ToldOK'
    BY <2>1 DEF EventsInv, ToldOK, OnRecord, Open, OnFile
  <2>6. TraceOK'
    BY <2>1 DEF EventsInv, TraceOK, Reached, Busy
  <2> QED BY <2>2, <2>3, <2>4, <2>5, <2>6 DEF EventsInv
<1> QED BY <1>1, <1>2, <1>3 DEF ENext

\* In every reachable state of the hub and the trace the invariant holds.
THEOREM EventsInvariant == ESpec => []EventsInv
<1>1. EInit => EventsInv
  BY EventsInitInv
<1>2. EventsInv /\ [ENext]_evars => EventsInv'
  BY EventsNextInv
<1> QED BY <1>1, <1>2, PTL DEF ESpec

\* A stream that kept up has every event from its beginning on, once and in the
\* order of the hub: Subscribe replays the history and registers the channel
\* under one lock, and NewHub makes the channel large enough for the replay.
THEOREM EventsNoGap == ESpec => []NoGap
<1>1. EventsInv => NoGap
  BY DEF EventsInv, StreamsOK
<1> QED BY <1>1, EventsInvariant, PTL

\* In a daemon with its worker runtime, whatever a client sees finished, detected
\* or observed is on record: the components append the record before they publish
\* the event about it.
THEOREM EventsSeenIsRecorded == ESpec => []SeenIsRecorded
<1>1. EventsInv => SeenIsRecorded
  BY DEF EventsInv, ToldOK, OnRecord, SeenIsRecorded, OnFile
<1> QED BY <1>1, EventsInvariant, PTL

\* The trace file doubles no event, starts a call before it ends it and lacks
\* nothing but what could not be written, in whatever order publishers append.
THEOREM EventsTraceSound == ESpec => []TraceSound
<1>1. EventsInv => TraceSound
  <2> SUFFICES ASSUME EventsInv PROVE TraceSound
    OBVIOUS
  <2>1. TraceOK /\ EventsTypeOK
    BY DEF EventsInv
  <2>2. ASSUME NEW n \in 1..made,
               {Event("started", n), Event("finished", n)} \subseteq ToSet(trace)
        PROVE  Position(trace, Event("started", n)) < Position(trace, Event("finished", n))
    <3>1. PICK i \in DOMAIN trace, j \in DOMAIN trace :
             /\ i = Position(trace, Event("started", n)) /\ trace[i] = Event("started", n)
             /\ j = Position(trace, Event("finished", n)) /\ trace[j] = Event("finished", n)
      BY <2>2 DEF Position, ToSet
    <3>2. /\ trace[i].kind = "started" /\ trace[j].kind = "finished"
          /\ trace[i].call = trace[j].call
      BY <3>1 DEF Event
    <3> QED BY <2>1, <3>1, <3>2 DEF TraceOK
  <2>3. ASSUME \A p \in Publishers : todo[p] = <<>>
        PROVE  ToSet(trace) = ToSet(log) \ torn
    BY <2>1, <2>3 DEF TraceOK, Reached, Busy
  <2>4. \A i, j \in DOMAIN trace : trace[i] = trace[j] => i = j
    BY <2>1 DEF TraceOK
  <2> QED BY <2>2, <2>3, <2>4 DEF TraceSound
<1> QED BY <1>1, EventsInvariant, PTL
=============================================================================
