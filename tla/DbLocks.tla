------------------------------- MODULE DbLocks -------------------------------
(***************************************************************************)
(* The goroutines of an open database and the locks they share (db.go,     *)
(* bucket.go:336-391, tx.go:60-156): clients that call View, Update,       *)
(* CreateBucket, DropBucket and Close, the manager of the database, the    *)
(* goroutine that starts it and then the managers of the buckets, and      *)
(* these managers.                                                         *)
(*                                                                         *)
(* The database lock is held for reading through a whole transaction, and  *)
(* the end of a transaction calls Update again, on _sysperf, before it     *)
(* lets go: a client then holds it twice (level 2).  A sync.RWMutex with a *)
(* writer waiting admits no new reader, not even one that is a reader      *)
(* already.                                                                *)
(*                                                                         *)
(* One bucket name; each creation under that name is a bucket object of    *)
(* its own.  (_sys is left out: to the locks it is a bucket that nobody    *)
(* drops.)  CreateBucket starts a manager for it, and so may the          *)
(* goroutine that Open has left to start those of the buckets it found:    *)
(* that one ranges over db.buckets without a lock, and reads what it       *)
(* happens to find.  (Go may also notice the race on the map and abort;    *)
(* nothing happens after that.)  What happens inside a bucket is BucketTx; *)
(* the files are left out but for the nil file of a closed database.       *)
(* Persistence and the performance monitor are on.                         *)
(*                                                                         *)
(* An operator named x_y, just before the definition x, is x with the      *)
(* mistake y in it: the model checker must notice the exchange.            *)
(***************************************************************************)
EXTENDS Integers

CONSTANTS
  Clients,      \* goroutines of the application
  Bkts,         \* the bucket objects created under the one name
  perf,         \* the bucket _sysperf
  NoBucket,     \* a nil *Bucket
  RunManager,   \* the goroutine of runManager
  NoOne,        \* no writer
  Calls,        \* what each client may call
  SyncAtTicks,  \* config.persist with syncFreq = MNGFREQ
  Overlap       \* may a writer of the database lock arrive during a transaction?

AllBkts == Bkts \cup {perf}

\* The managers of buckets, by their bucket and by who starts them.
Managers == (AllBkts \X {"Open"}) \cup (Bkts \X {"Create"})

Ops == {"View", "Update", "CreateBucket", "DropBucket", "Close"}

ASSUME LocksAssumption ==
  /\ SyncAtTicks \in BOOLEAN /\ Overlap \in BOOLEAN
  /\ Calls \in [Clients -> SUBSET Ops]
  /\ NoBucket \notin AllBkts
  /\ Clients \cap Managers = {} /\ RunManager \notin Clients
  /\ NoOne \notin Clients \cup Managers \cup {RunManager}

VARIABLES
  open,    \* db.open
  cur,     \* db.buckets at the one name
  life,    \* of each bucket object: not made yet, open, closed
  dblock,  \* the lock of the database; a reader is a pair <<client, level>>
  bktlock, \* the lock of each bucket
  pc,      \* where each client is
  call,    \* what it called, its level, its bucket, the buckets it has to close
  mpc,     \* where each manager of a bucket is
  rpc,     \* where the loop of runManager is
  spc      \* where runManager is in starting the managers of the buckets

vars == <<open, cur, life, dblock, bktlock, pc, call, mpc, rpc, spc>>

-----------------------------------------------------------------------------
(* sync.RWMutex: writer is the goroutine that has announced its Lock; held says
   that the readers it found have left. *)

Free == [readers |-> {}, writer |-> NoOne, held |-> FALSE]

CanRLock(l) == l.writer = NoOne
RLocked(l, r) == [l EXCEPT !.readers = @ \cup {r}]
RUnlocked(l, r) == [l EXCEPT !.readers = @ \ {r}]

CanAnnounce(l) == l.writer = NoOne
Announced(l, w) == [l EXCEPT !.writer = w]

CanAcquire(l, w) == l.writer = w /\ ~l.held /\ l.readers = {}
Acquired(l) == [l EXCEPT !.held = TRUE]
Unlocked(l) == [l EXCEPT !.writer = NoOne, !.held = FALSE]

Locks(readers, writers) ==
  [readers : SUBSET readers, writer : writers \cup {NoOne}, held : BOOLEAN]

-----------------------------------------------------------------------------

CallRecords ==
  [op : Ops \cup {"none"}, level : {1, 2}, bkt : AllBkts \cup {NoBucket}, todo : SUBSET AllBkts]

TypeOK ==
  /\ open \in BOOLEAN
  /\ cur \in Bkts \cup {NoBucket}
  /\ life \in [AllBkts -> {"unborn", "open", "closed"}]
  /\ dblock \in Locks(Clients \X {1, 2}, Clients \cup {RunManager})
  /\ bktlock \in [AllBkts -> Locks(Clients, Clients \cup Managers)]
  /\ pc \in [Clients -> {"idle", "rlock", "check", "enter", "entering", "fn",
                         "runlock", "lock", "locking", "locked", "closing",
                         "closingBucket", "unlock"}]
  /\ call \in [Clients -> CallRecords]
  /\ mpc \in [Managers -> {"none", "tick", "waiting", "work", "done"}]
  /\ rpc \in {"tick", "lock", "locking", "work", "done"}
  /\ spc \in {"systemperf", "buckets", "done"}

Called(op) == [op |-> op, level |-> 1, bkt |-> NoBucket, todo |-> {}]

\* Open has returned, on a directory with the bucket or without it, and has left the
\* start of the managers to a goroutine.
Init ==
  /\ open = TRUE
  /\ cur \in Bkts \cup {NoBucket}
  /\ life = [b \in AllBkts |-> IF b \in Bkts \ {cur} THEN "unborn" ELSE "open"]
  /\ dblock = Free
  /\ bktlock = [b \in AllBkts |-> Free]
  /\ pc = [c \in Clients |-> "idle"]
  /\ call = [c \in Clients |-> Called("none")]
  /\ mpc = [m \in Managers |-> "none"]
  /\ rpc = "tick" /\ spc = "systemperf"

Goto(c, label) == pc' = [pc EXCEPT ![c] = label]

-----------------------------------------------------------------------------
(* View and Update, at level 1 on the bucket, at level 2 on _sysperf *)

Start(c, op) ==
  /\ pc[c] = "idle"
  /\ op = "CreateBucket" => \E b \in Bkts : life[b] = "unborn"
  /\ call' = [call EXCEPT ![c] = Called(op)]
  /\ Goto(c, IF op \in {"View", "Update"} THEN "rlock" ELSE "lock")
  /\ UNCHANGED <<open, cur, life, dblock, bktlock, mpc, rpc, spc>>

Level(c) == call[c].level

Reads(c) == call[c].op = "View" /\ Level(c) = 1

dbRLock_forgotten(c) ==
  /\ pc[c] = "rlock"
  /\ CanRLock(dblock)
  /\ Goto(c, "check")
  /\ UNCHANGED <<open, cur, life, dblock, bktlock, call, mpc, rpc, spc>>

dbRLock(c) ==
  /\ pc[c] = "rlock"
  /\ CanRLock(dblock)
  /\ dblock' = RLocked(dblock, <<c, Level(c)>>)
  /\ Goto(c, "check")
  /\ UNCHANGED <<open, cur, life, bktlock, call, mpc, rpc, spc>>

getBucket(c) == IF Level(c) = 1 THEN cur ELSE perf

\* The checks of View, Update and startTx.
checkOpen(c) ==
  /\ pc[c] = "check"
  /\ IF open /\ getBucket(c) # NoBucket /\ life[getBucket(c)] = "open"
     THEN /\ call' = [call EXCEPT ![c].bkt = getBucket(c)]
          /\ Goto(c, "enter")
     ELSE /\ Goto(c, "runlock")
          /\ UNCHANGED call
  /\ UNCHANGED <<open, cur, life, dblock, bktlock, mpc, rpc, spc>>

\* tx.lock: a View reads, an Update announces itself and waits.
txRLock(c) ==
  /\ pc[c] = "enter" /\ Reads(c)
  /\ CanRLock(bktlock[call[c].bkt])
  /\ bktlock' = [bktlock EXCEPT ![call[c].bkt] = RLocked(@, c)]
  /\ Goto(c, "fn")
  /\ UNCHANGED <<open, cur, life, dblock, call, mpc, rpc, spc>>

txLockAnnounce(c) ==
  /\ pc[c] = "enter" /\ ~Reads(c)
  /\ CanAnnounce(bktlock[call[c].bkt])
  /\ bktlock' = [bktlock EXCEPT ![call[c].bkt] = Announced(@, c)]
  /\ Goto(c, "entering")
  /\ UNCHANGED <<open, cur, life, dblock, call, mpc, rpc, spc>>

txLock(c) ==
  /\ pc[c] = "entering"
  /\ CanAcquire(bktlock[call[c].bkt], c)
  /\ bktlock' = [bktlock EXCEPT ![call[c].bkt] = Acquired(@)]
  /\ Goto(c, "fn")
  /\ UNCHANGED <<open, cur, life, dblock, call, mpc, rpc, spc>>

Leave_always(c) ==
  /\ bktlock' = [bktlock EXCEPT ![call[c].bkt] =
                   IF Reads(c) THEN RUnlocked(@, c) ELSE Unlocked(@)]
  /\ call' = [call EXCEPT ![c].level = @ + 1]
  /\ Goto(c, "rlock")

\* The client's function has run and the transaction is rolled back: the bucket is
\* let go and, at level 1, Update is called on _sysperf.
Leave(c) ==
  /\ bktlock' = [bktlock EXCEPT ![call[c].bkt] =
                   IF Reads(c) THEN RUnlocked(@, c) ELSE Unlocked(@)]
  /\ IF Level(c) = 1
     THEN call' = [call EXCEPT ![c].level = 2] /\ Goto(c, "rlock")
     ELSE Goto(c, "runlock") /\ UNCHANGED call

rollbackTx(c) ==
  /\ pc[c] = "fn"
  /\ Leave(c)
  /\ UNCHANGED <<open, cur, life, dblock, mpc, rpc, spc>>

commitTx_keepsLock(c) ==
  /\ pc[c] = "fn" /\ ~Reads(c)
  /\ Goto(c, "runlock")
  /\ UNCHANGED <<open, cur, life, dblock, bktlock, call, mpc, rpc, spc>>

\* A commit that finds the database closed returns with the bucket locked.
commitTx(c) ==
  /\ pc[c] = "fn" /\ ~Reads(c)
  /\ IF open THEN Leave(c) ELSE Goto(c, "runlock") /\ UNCHANGED <<bktlock, call>>
  /\ UNCHANGED <<open, cur, life, dblock, mpc, rpc, spc>>

dbRUnlock(c) ==
  /\ pc[c] = "runlock"
  /\ dblock' = RUnlocked(dblock, <<c, Level(c)>>)
  /\ IF Level(c) = 2
     THEN call' = [call EXCEPT ![c].level = 1] /\ UNCHANGED pc
     ELSE Goto(c, "idle") /\ UNCHANGED call
  /\ UNCHANGED <<open, cur, life, bktlock, mpc, rpc, spc>>

-----------------------------------------------------------------------------
(* CreateBucket, DropBucket, Close *)

MayArrive == Overlap \/ dblock.readers = {}

dbLockAnnounce(c) ==
  /\ pc[c] = "lock"
  /\ CanAnnounce(dblock) /\ MayArrive
  /\ dblock' = Announced(dblock, c)
  /\ Goto(c, "locking")
  /\ UNCHANGED <<open, cur, life, bktlock, call, mpc, rpc, spc>>

dbLock(c) ==
  /\ pc[c] = "locking"
  /\ CanAcquire(dblock, c)
  /\ dblock' = Acquired(dblock)
  /\ Goto(c, "locked")
  /\ UNCHANGED <<open, cur, life, bktlock, call, mpc, rpc, spc>>

CreateBucket(c) ==
  /\ pc[c] = "locked" /\ call[c].op = "CreateBucket"
  /\ IF open /\ cur = NoBucket
     THEN \E b \in Bkts :
            /\ life[b] = "unborn"
            /\ cur' = b
            /\ life' = [life EXCEPT ![b] = "open"]
            /\ mpc' = [mpc EXCEPT ![<<b, "Create">>] = "tick"]
     ELSE UNCHANGED <<cur, life, mpc>>
  /\ Goto(c, "unlock")
  /\ UNCHANGED <<open, dblock, bktlock, call, rpc, spc>>

\* DropBucket closes the one bucket, Close all of them.
ToClose(c) ==
  ({cur} \ {NoBucket}) \cup (IF call[c].op = "Close" THEN {perf} ELSE {})

startClosing_atOnce(c) ==
  /\ pc[c] = "locked" /\ call[c].op \in {"DropBucket", "Close"}
  /\ IF open /\ ToClose(c) # {}
     THEN /\ call' = [call EXCEPT ![c].todo = ToClose(c)]
          /\ open' = (call[c].op # "Close")
          /\ Goto(c, "closing")
     ELSE Goto(c, "unlock") /\ UNCHANGED <<open, call>>
  /\ UNCHANGED <<cur, life, dblock, bktlock, mpc, rpc, spc>>

startClosing(c) ==
  /\ pc[c] = "locked" /\ call[c].op \in {"DropBucket", "Close"}
  /\ IF open /\ ToClose(c) # {}
     THEN /\ call' = [call EXCEPT ![c].todo = ToClose(c)]
          /\ Goto(c, "closing")
     ELSE Goto(c, "unlock") /\ UNCHANGED call
  /\ UNCHANGED <<open, cur, life, dblock, bktlock, mpc, rpc, spc>>

closeAnnounce(c) ==
  /\ pc[c] = "closing"
  /\ \E b \in call[c].todo :
       /\ b = perf => call[c].todo = {perf}
       /\ CanAnnounce(bktlock[b])
       /\ bktlock' = [bktlock EXCEPT ![b] = Announced(@, c)]
       /\ call' = [call EXCEPT ![c].bkt = b]
  /\ Goto(c, "closingBucket")
  /\ UNCHANGED <<open, cur, life, dblock, mpc, rpc, spc>>

\* Bucket.close takes the lock of the bucket, closes it and lets go.
closeBucket(c) ==
  LET b == call[c].bkt
  IN  /\ pc[c] = "closingBucket"
      /\ CanAcquire(bktlock[b], c)
      /\ bktlock' = [bktlock EXCEPT ![b] = Unlocked(@)]
      /\ life' = [life EXCEPT ![b] = "closed"]
      /\ call' = [call EXCEPT ![c].todo = @ \ {b}]
      /\ Goto(c, "closing")
      /\ UNCHANGED <<open, cur, dblock, mpc, rpc, spc>>

endClosing(c) ==
  /\ pc[c] = "closing"
  /\ call[c].todo = {}
  /\ cur' = NoBucket
  /\ open' = (open /\ call[c].op # "Close")
  /\ Goto(c, "unlock")
  /\ UNCHANGED <<life, dblock, bktlock, call, mpc, rpc, spc>>

dbUnlock(c) ==
  /\ pc[c] = "unlock"
  /\ dblock' = Unlocked(dblock)
  /\ Goto(c, "idle")
  /\ UNCHANGED <<open, cur, life, bktlock, call, mpc, rpc, spc>>

-----------------------------------------------------------------------------
(* The managers *)

\* runManager looks at db.open before it takes the lock, and not again after.
rmTick ==
  /\ rpc = "tick"
  /\ rpc' = IF open THEN "lock" ELSE "done"
  /\ UNCHANGED <<open, cur, life, dblock, bktlock, pc, call, mpc, spc>>

rmAnnounce ==
  /\ rpc = "lock"
  /\ CanAnnounce(dblock) /\ MayArrive
  /\ dblock' = Announced(dblock, RunManager)
  /\ rpc' = "locking"
  /\ UNCHANGED <<open, cur, life, bktlock, pc, call, mpc, spc>>

rmLock ==
  /\ rpc = "locking"
  /\ CanAcquire(dblock, RunManager)
  /\ dblock' = Acquired(dblock)
  /\ rpc' = "work"
  /\ UNCHANGED <<open, cur, life, bktlock, pc, call, mpc, spc>>

\* The file of a closed database is nil: its Sync fails and the loop goes on to
\* its next round without the unlock.
rmWork ==
  /\ rpc = "work"
  /\ dblock' = IF SyncAtTicks /\ ~open THEN dblock ELSE Unlocked(dblock)
  /\ rpc' = "tick"
  /\ UNCHANGED <<open, cur, life, bktlock, pc, call, mpc, spc>>

Started(b) == mpc' = [mpc EXCEPT ![<<b, "Open">>] = "tick"]

\* The fields of a closed database are nil: the manager is then started only if the
\* goroutine, which has no lock, reads what they were.
startSystem ==
  /\ spc = "systemperf" /\ spc' = "buckets"
  /\ Started(perf) \/ (~open /\ UNCHANGED mpc)
  /\ UNCHANGED <<open, cur, life, dblock, bktlock, pc, call, rpc>>

\* The range over db.buckets comes to the bucket, be it one that CreateBucket has made,
\* and started a manager for, in the meantime.
startBucket ==
  /\ spc = "buckets" /\ cur # NoBucket /\ mpc[<<cur, "Open">>] = "none"
  /\ Started(cur)
  /\ UNCHANGED <<open, cur, life, dblock, bktlock, pc, call, rpc, spc>>

\* It ends: the map is empty, the bucket in it is nil since Close has closed it, or the
\* range has been there, or the bucket was put into the map during the range, which
\* need not see it.
startDone ==
  /\ spc = "buckets" /\ spc' = "done"
  /\ cur # NoBucket => \/ life[cur] = "closed"
                      \/ \E how \in {"Open", "Create"} : mpc[<<cur, how>>] # "none"
  /\ UNCHANGED <<open, cur, life, dblock, bktlock, pc, call, mpc, rpc>>

managerAnnounce_neverLocks(m) ==
  /\ mpc[m] = "tick"
  /\ mpc' = [mpc EXCEPT ![m] = "work"]
  /\ UNCHANGED <<open, cur, life, dblock, bktlock, pc, call, rpc, spc>>

managerAnnounce(m) ==
  /\ mpc[m] = "tick"
  /\ CanAnnounce(bktlock[m[1]])
  /\ bktlock' = [bktlock EXCEPT ![m[1]] = Announced(@, m)]
  /\ mpc' = [mpc EXCEPT ![m] = "waiting"]
  /\ UNCHANGED <<open, cur, life, dblock, pc, call, rpc, spc>>

managerLock(m) ==
  /\ mpc[m] = "waiting"
  /\ CanAcquire(bktlock[m[1]], m)
  /\ bktlock' = [bktlock EXCEPT ![m[1]] = Acquired(@)]
  /\ mpc' = [mpc EXCEPT ![m] = "work"]
  /\ UNCHANGED <<open, cur, life, dblock, pc, call, rpc, spc>>

managerWork_ignoresClose(m) ==
  /\ mpc[m] = "work"
  /\ bktlock' = [bktlock EXCEPT ![m[1]] = Unlocked(@)]
  /\ mpc' = [mpc EXCEPT ![m] = "tick"]
  /\ UNCHANGED <<open, cur, life, dblock, pc, call, rpc, spc>>

\* The manager of a closed database leaves its loop, and keeps the lock.
managerWork(m) ==
  /\ mpc[m] = "work"
  /\ IF open
     THEN /\ bktlock' = [bktlock EXCEPT ![m[1]] = Unlocked(@)]
          /\ mpc' = [mpc EXCEPT ![m] = "tick"]
     ELSE /\ mpc' = [mpc EXCEPT ![m] = "done"]
          /\ UNCHANGED bktlock
  /\ UNCHANGED <<open, cur, life, dblock, pc, call, rpc, spc>>

-----------------------------------------------------------------------------

TxSteps(c) ==
  \/ dbRLock(c) \/ checkOpen(c) \/ txRLock(c) \/ txLockAnnounce(c) \/ txLock(c)
  \/ rollbackTx(c) \/ commitTx(c) \/ dbRUnlock(c)

DbSteps(c) ==
  \/ dbLockAnnounce(c) \/ dbLock(c) \/ CreateBucket(c) \/ startClosing(c)
  \/ closeAnnounce(c) \/ closeBucket(c) \/ endClosing(c) \/ dbUnlock(c)

runManager == rmTick \/ rmAnnounce \/ rmLock \/ rmWork

startManagers == startSystem \/ startBucket \/ startDone

manager(m) == managerAnnounce(m) \/ managerLock(m) \/ managerWork(m)

Next ==
  \/ \E c \in Clients : (\E op \in Calls[c] : Start(c, op)) \/ TxSteps(c) \/ DbSteps(c)
  \/ runManager \/ startManagers
  \/ \E m \in Managers : manager(m)

Spec == Init /\ [][Next]_vars

(***************************************************************************)
(* A goroutine that is again and again able to go on does: a sync.RWMutex  *)
(* lets in all the readers a writer kept out, and its writers in the order *)
(* they came, and tickers keep ticking.  Clients need not call anything.   *)
(***************************************************************************)
Fairness ==
  /\ \A c \in Clients : SF_vars(TxSteps(c) \/ DbSteps(c))
  /\ SF_vars(runManager) /\ WF_vars(startManagers)
  /\ \A m \in Managers : SF_vars(manager(m))

FairSpec == Spec /\ Fairness

-----------------------------------------------------------------------------
(* Properties *)

Working(c) == pc[c] = "fn"

\* The function of a transaction, and its commit, find the database and the bucket
\* open to their end: no drop or close comes between the checks and the unlock.
\* (A commit that found the database closed would leave the bucket locked.)
TxSeesOpen ==
  \A c \in Clients : Working(c) => open /\ life[call[c].bkt] = "open"

\* In a bucket a writer, or a working manager, is alone, also where the bucket has two
\* managers.
BucketExclusion ==
  /\ \A c \in Clients : Working(c) =>
       /\ \A m \in Managers : m[1] = call[c].bkt => mpc[m] # "work"
       /\ \A d \in Clients \ {c} :
            Working(d) /\ call[d].bkt = call[c].bkt => Reads(c) /\ Reads(d)
  /\ \A m, n \in Managers : m # n /\ m[1] = n[1] => ~(mpc[m] = "work" /\ mpc[n] = "work")

\* A client that has returned from its call, or not yet begun the next, holds and
\* awaits no lock: no path through a call, refused, committed, rolled back, dropped
\* or closed, forgets one.
IdleHoldsNothing ==
  \A c \in Clients : pc[c] = "idle" =>
    /\ dblock.writer # c /\ \A i \in {1, 2} : <<c, i>> \notin dblock.readers
    /\ \A b \in AllBkts : bktlock[b].writer # c /\ c \notin bktlock[b].readers

\* A manager leaves its loop with the lock of its bucket (bucket.go:391).  No client is at
\* that bucket then, or has it still to close: the lock is in nobody's way.
EndedInNobodysWay ==
  \A m \in Managers, c \in Clients : mpc[m] = "done" =>
    /\ pc[c] \in {"enter", "entering", "fn"} => call[c].bkt # m[1]
    /\ pc[c] \in {"closing", "closingBucket"} => m[1] \notin call[c].todo

\* Every View and every Update returns.
CallsReturn ==
  \A c \in Clients : pc[c] = "rlock" ~> pc[c] = "idle"

\* Once the database is closed a manager of every bucket that has one comes to its end,
\* also of a bucket created while runManager was starting the managers, and of one whose
\* manager is started only after the Close.  (Of two managers of one bucket the second
\* waits for ever: the first has left with the lock.)
ManagersEnd ==
  ~open ~> \A b \in AllBkts :
             LET its == {m \in Managers : m[1] = b /\ mpc[m] # "none"}
             IN  its = {} \/ \E m \in its : mpc[m] = "done"
=============================================================================
