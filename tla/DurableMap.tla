----------------------------- MODULE DurableMap ------------------------------
(***************************************************************************)
(* What the log of a bucket promises: a map that changes statement by      *)
(* statement and keeps, across a crash, everything it held at the last     *)
(* sync and a beginning of what came after.  What a transaction wrote may  *)
(* thus survive in part: there is nothing in a log that marks its end.     *)
(* The promise holds up to the first of the events that the code has no    *)
(* guard for (Harms in BucketLog), and none does after it.                 *)
(***************************************************************************)
EXTENDS Integers, Sequences

CONSTANT Initial  \* the map of a new log

VARIABLES
  up,       \* is a process running?
  versions, \* the map at the last sync, and after each statement since
  broken    \* has such an event happened?

vars == <<up, versions, broken>>

Init == up = FALSE /\ versions = <<Initial>> /\ broken = FALSE

Open == ~up /\ up' = TRUE /\ UNCHANGED versions

Commit ==
  /\ up /\ UNCHANGED up
  /\ Len(versions') > Len(versions)
  /\ SubSeq(versions', 1, Len(versions)) = versions

Sync == up /\ UNCHANGED up /\ versions' = <<versions[Len(versions)]>>

Close == up /\ up' = FALSE /\ versions' = <<versions[Len(versions)]>>

Crash == up /\ up' = FALSE /\ \E i \in 1..Len(versions) : versions' = <<versions[i]>>

Kept == ~broken /\ UNCHANGED broken /\ (Open \/ Commit \/ Sync \/ Close \/ Crash)

Breaks == broken'

Next == Kept \/ Breaks

Spec == Init /\ [][Next]_vars
=============================================================================
