---------------------------- MODULE AtomicBucket -----------------------------
(***************************************************************************)
(* What a bucket promises to the goroutines that share it: a map from keys *)
(* to entries that changes only when a transaction commits, all at once,   *)
(* or when an entry whose time has passed is evicted; and a log whose      *)
(* replay gives the map back, but for entries already expired.             *)
(***************************************************************************)
EXTENDS Integers

CONSTANTS Keys, Entries, Nil, Never, MaxTime

VARIABLES
  now,     \* the clock
  store,   \* the contents of the bucket
  durable  \* the contents a replay of the log gives

vars == <<now, store, durable>>

Contents == [Keys -> Entries \cup {Nil}]

IsExpired(e, at) == e # Nil /\ e.exp # Never /\ e.exp < at

Init ==
  /\ now = 0
  /\ store = [k \in Keys |-> Nil]
  /\ durable = [k \in Keys |-> Nil]

Tick ==
  /\ now < MaxTime
  /\ now' = now + 1
  /\ UNCHANGED <<store, durable>>

\* A transaction changes the keys of written to what they hold in new, in the
\* contents and in the log alike.
Commit ==
  \E written \in SUBSET Keys, new \in Contents :
    /\ store' = [k \in Keys |-> IF k \in written THEN new[k] ELSE store[k]]
    /\ durable' = [k \in Keys |-> IF k \in written THEN new[k] ELSE durable[k]]
    /\ UNCHANGED now

\* Eviction writes nothing to the log.
Evict ==
  \E k \in Keys :
    /\ IsExpired(store[k], now)
    /\ store' = [store EXCEPT ![k] = Nil]
    /\ UNCHANGED <<now, durable>>

Next == Tick \/ Commit \/ Evict

Spec == Init /\ [][Next]_vars

=============================================================================
