------------------------------- MODULE TaskLog -------------------------------
(***************************************************************************)
(* What the execution plane promises of one partition of platform.tasks: a *)
(* log whose entries are dealt with in order, and an acknowledged offset   *)
(* that never runs ahead of the entries dealt with.  It may fall back: an  *)
(* acknowledgement that arrives late makes entries come again.             *)
(***************************************************************************)
EXTENDS Naturals, Sequences

CONSTANT Entry

VARIABLES
  log,        \* the entries, in the order they were published
  handled,    \* the offsets dealt with: recorded, refused or given up
  committed   \* the offset up to which the group has acknowledged the log

vars == <<log, handled, committed>>

Init == log = <<>> /\ handled = {} /\ committed = 0

Publish ==
  /\ \E e \in Entry : log' = Append(log, e)
  /\ UNCHANGED <<handled, committed>>

Handle ==
  /\ \E i \in 1..Len(log) : 1..(i - 1) \subseteq handled /\ handled' = handled \cup {i}
  /\ UNCHANGED <<log, committed>>

Acknowledge ==
  /\ committed' \in 0..Len(log)
  /\ 1..committed' \subseteq handled
  /\ UNCHANGED <<log, handled>>

Next == Publish \/ Handle \/ Acknowledge

Spec == Init /\ [][Next]_vars

=============================================================================
