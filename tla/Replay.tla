------------------------------- MODULE Replay -------------------------------
(***************************************************************************)
(* Replaying a trace (internal/replay/replay.go): one pass over the events *)
(* that checks their time stamps and keeps the last status they tell.  The *)
(* loop is a fold, compared with what it should compute for every file of  *)
(* up to MaxLen events: the initial states are the files.                  *)
(*                                                                         *)
(* A time stamp is a natural number, 0 for one that does not parse.  The   *)
(* status texts are abstract, NoText is the empty one.                       *)
(***************************************************************************)
EXTENDS Integers, Sequences, SequencesExt

CONSTANTS Times, Types, Texts, NoText, MaxLen

ASSUME ReplayAssumption ==
    /\ Times \subseteq Nat
    /\ Types \subseteq {"task_completed", "task_failed", "recovery", "tool"}
    /\ NoText \notin Texts
    /\ MaxLen \in Nat

VARIABLE file    \* the events read from the trace file

Unparsable == 0

TraceEvents == [time : Times, type : Types, final_status : Texts \cup {NoText}, status : Texts \cup {NoText}]
Traces == UNION {[1..n -> TraceEvents] : n \in 0..MaxLen}

\* The payload's final status; else its status, for events whose type tells of an
\* end or a recovery; else what the type itself says.
statusFromEvent(e) ==
    CASE e.final_status # NoText -> e.final_status
      [] e.final_status = NoText /\ e.status # NoText /\ e.type \in {"task_completed", "task_failed", "recovery"}
            -> e.status
      [] e.final_status = NoText /\ e.status = NoText /\ e.type = "task_completed" -> "completed"
      [] e.final_status = NoText /\ e.status = NoText /\ e.type = "task_failed" -> "failed"
      [] OTHER -> NoText

\* What the loop keeps: the stamp of the event before, the last status told, and
\* whether it returned early.
Unread == [first |-> TRUE, previous |-> 0, original |-> "unknown", divergence |-> FALSE]

\* Fault: the first event is compared as well, and equal stamps are a violation.
OutOfOrderStrict(r, e) == e.time <= r.previous
OutOfOrder(r, e) == ~r.first /\ e.time < r.previous

NextStatus(r, e) == IF statusFromEvent(e) = NoText THEN r.original ELSE statusFromEvent(e)

diverged(r) == [r EXCEPT !.divergence = TRUE]

ReplayEvent(r, e) ==
    CASE r.divergence -> r
      [] ~r.divergence /\ (e.time = Unparsable \/ OutOfOrder(r, e)) -> diverged(r)
      [] OTHER -> [r EXCEPT !.first = FALSE, !.previous = e.time, !.original = NextStatus(r, e)]

\* A trace that tells no status counts as completed.
ReplayEvents(events) ==
    LET r == FoldLeft(ReplayEvent, Unread, events)
    IN  [success |-> ~r.divergence,
         final |-> CASE r.divergence -> "diverged"
                     [] ~r.divergence /\ r.original = "unknown" /\ events # <<>> -> "completed"
                     [] OTHER -> r.original]

-----------------------------------------------------------------------------
(* Properties. *)

Ordered(events) ==
    /\ \A n \in DOMAIN events : events[n].time # Unparsable
    /\ \A m, n \in DOMAIN events : m < n => events[m].time <= events[n].time

\* The last status told anywhere in the trace.  None told, and the text that
\* stands for none, count as completed.
Told(events) ==
    LET telling == {n \in DOMAIN events : statusFromEvent(events[n]) # NoText}
        latest  == CHOOSE n \in telling : \A m \in telling : m <= n
        last    == IF telling = {} THEN "unknown" ELSE statusFromEvent(events[latest])
    IN  IF last = "unknown" /\ events # <<>> THEN "completed" ELSE last

\* The one pass that compares neighbours finds exactly the traces that are in
\* order as a whole with readable stamps, and then reports the last status told
\* anywhere in the trace (ReplayEvents).
ReplayCorrect ==
    LET result == ReplayEvents(file)
    IN  /\ result.success <=> Ordered(file)
        /\ result.success => result.final = Told(file)
=============================================================================
