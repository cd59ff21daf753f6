----------------------------- MODULE Semaphore -----------------------------
(***************************************************************************)
(* What concurrency control promises (ConcurrencyControlService.throttle,  *)
(* "Block or let through an execution based on concurrency capacity", and  *)
(* release, "Release capacity back so the next execution in the queue can  *)
(* proceed"): at most Permits callers hold a permit, the others wait in    *)
(* line, and a permit that is given back goes to the head of the line.     *)
(***************************************************************************)
EXTENDS Integers, Sequences, FiniteSets

CONSTANTS Caller, Permits

VARIABLES holders, line

Init == holders = {} /\ line = <<>>

InLine(c) == \E i \in 1..Len(line) : line[i] = c

Acquire(c) ==
  /\ c \notin holders /\ ~InLine(c)
  /\ line = <<>> /\ Cardinality(holders) < Permits
  /\ holders' = holders \cup {c}
  /\ UNCHANGED line

Wait(c) ==
  /\ c \notin holders /\ ~InLine(c)
  /\ Cardinality(holders) = Permits
  /\ line' = Append(line, c)
  /\ UNCHANGED holders

Release(c) ==
  /\ c \in holders
  /\ IF line = <<>>
     THEN holders' = holders \ {c} /\ UNCHANGED line
     ELSE holders' = (holders \ {c}) \cup {Head(line)} /\ line' = Tail(line)

Next == \E c \in Caller : Acquire(c) \/ Wait(c) \/ Release(c)

Spec == Init /\ [][Next]_<<holders, line>>
=============================================================================
