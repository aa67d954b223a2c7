---------------------------- MODULE DbLocksProofs ----------------------------
(***************************************************************************)
(* Proofs about DbLocks, for any number of clients and buckets, with and   *)
(* without writers that arrive during a transaction.                       *)
(*                                                                         *)
(* The inductive invariant says who has which lock: the read lock of the   *)
(* database belongs to the clients between dbRLock and dbRUnlock, once or  *)
(* twice, its write lock to the goroutine that announced itself, and the   *)
(* lock of a bucket to the transactions that are in it, to the client that *)
(* closes it or to its manager.  What a transaction found at its checks    *)
(* then lasts, since who would change it must have the lock of the         *)
(* database.                                                               *)
(***************************************************************************)
EXTENDS DbLocks, TLAPS

InTx == {"check", "enter", "entering", "fn", "runlock"}

InDb == {"locked", "closing", "closingBucket", "unlock"}

\* The read lock of the database.
ReadsDb(c) ==
  /\ call[c].level = 2 => pc[c] \in InTx \cup {"rlock"}
  /\ <<c, 1>> \in dblock.readers <=> pc[c] \in InTx \/ call[c].level = 2
  /\ <<c, 2>> \in dblock.readers <=> pc[c] \in InTx /\ call[c].level = 2

DbReaders == \A c \in Clients : ReadsDb(c)

\* Its write lock.
DbWriter ==
  /\ dblock.held => dblock.readers = {} /\ dblock.writer # NoOne
  /\ \A c \in Clients :
       /\ dblock.writer = c <=> pc[c] \in InDb \cup {"locking"}
       /\ pc[c] \in InDb => dblock.held
  /\ rpc \in {"locking", "work"} => dblock.writer = RunManager
  /\ rpc = "work" => dblock.held

\* What the checks of a transaction, or of DropBucket and Close, have found.
HasPassed(c) ==
  /\ pc[c] \in {"enter", "entering", "fn"} =>
       open /\ call[c].bkt \in AllBkts /\ life[call[c].bkt] = "open"
  /\ pc[c] \in {"closing", "closingBucket"} => open

Passed == \A c \in Clients : HasPassed(c)

WritesIn(c, b) ==
  /\ call[c].bkt = b
  /\ pc[c] \in {"entering", "closingBucket"} \/ (pc[c] = "fn" /\ ~Reads(c))

\* The lock of a bucket, and what a client has of it.
BktLock(b) ==
  /\ bktlock[b].held => bktlock[b].readers = {} /\ bktlock[b].writer # NoOne
  /\ \A m \in Managers : m[1] = b =>
       /\ mpc[m] \in {"waiting", "work"} => bktlock[b].writer = m
       /\ mpc[m] = "work" => bktlock[b].held

InBkt(c, b) ==
  /\ pc[c] = "entering" => ~Reads(c)
  /\ c \in bktlock[b].readers <=> pc[c] = "fn" /\ Reads(c) /\ call[c].bkt = b
  /\ bktlock[b].writer = c <=> WritesIn(c, b)
  /\ WritesIn(c, b) /\ pc[c] = "fn" => bktlock[b].held

LockIn(b, c) == BktLock(b) /\ (c \in Clients => InBkt(c, b))

BktLocks == \A b \in AllBkts : BktLock(b) /\ \A c \in Clients : InBkt(c, b)

\* A manager leaves its loop only when it finds the database closed.
EndedAfterClose == \A m \in Managers : mpc[m] = "done" => ~open

IInv == TypeOK /\ DbReaders /\ DbWriter /\ Passed /\ BktLocks /\ EndedAfterClose

-----------------------------------------------------------------------------

LEMMA InitIInv == Init => IInv
<1> SUFFICES ASSUME Init
             PROVE  IInv
  OBVIOUS
<1> USE LocksAssumption DEF Init, Free, Called, AllBkts
<1>1. call \in [Clients -> CallRecords]
  BY DEF CallRecords
<1>2. TypeOK
  BY <1>1 DEF TypeOK, Locks
<1>3. DbReaders /\ DbWriter
  BY DEF DbReaders, ReadsDb, DbWriter, InTx, InDb
<1>4. Passed
  BY DEF Passed, HasPassed
<1>5. BktLocks
  BY DEF BktLocks, BktLock, InBkt, WritesIn
<1>6. EndedAfterClose
  BY DEF EndedAfterClose
<1> QED
  BY <1>2, <1>3, <1>4, <1>5, <1>6 DEF IInv

-----------------------------------------------------------------------------

BktLockType == Locks(Clients, Clients \cup Managers)

\* What the operations of a lock make of it.
LEMMA ReaderTyped ==
  ASSUME NEW l \in BktLockType, NEW c \in Clients
  PROVE  RLocked(l, c) \in BktLockType /\ RUnlocked(l, c) \in BktLockType
  BY DEF BktLockType, Locks, RLocked, RUnlocked

LEMMA WriterTyped ==
  ASSUME NEW l \in BktLockType, NEW w \in Clients \cup Managers
  PROVE  Announced(l, w) \in BktLockType
  BY DEF BktLockType, Locks, Announced

LEMMA HolderTyped ==
  ASSUME NEW l \in BktLockType
  PROVE  Acquired(l) \in BktLockType /\ Unlocked(l) \in BktLockType
  BY DEF BktLockType, Locks, Acquired, Unlocked

\* The changes of a call.
LEMMA CalledTyped ==
  ASSUME NEW op \in Ops
  PROVE  Called(op) \in CallRecords
  BY DEF CallRecords, Called

LEMMA TypePreserved ==
  ASSUME TypeOK, [Next]_vars
  PROVE  TypeOK'
<1>1. ASSUME NEW c \in Clients, NEW op \in Calls[c], Start(c, op)  PROVE  TypeOK'
  <2>1. call' \in [Clients -> CallRecords]
    BY <1>1, LocksAssumption, CalledTyped DEF TypeOK, Start
  <2> QED
    BY <1>1, <2>1 DEF TypeOK, Start, Goto
<1>2. ASSUME NEW c \in Clients, dbRLock(c)  PROVE  TypeOK'
  <2>1. <<c, Level(c)>> \in Clients \X {1, 2}
    BY DEF TypeOK, Level, CallRecords
  <2>2. dblock' = RLocked(dblock, <<c, Level(c)>>)
    BY <1>2 DEF dbRLock
  <2>3. dblock' \in Locks(Clients \X {1, 2}, Clients \cup {RunManager})
    BY <2>1, <2>2 DEF TypeOK, RLocked, Locks
  <2> QED
    BY <1>2, <2>3 DEF TypeOK, dbRLock, Goto
<1>3. ASSUME NEW c \in Clients, checkOpen(c)  PROVE  TypeOK'
  <2>1. call' = call \/ \E b \in AllBkts : call' = [call EXCEPT ![c].bkt = b]
    BY <1>3 DEF checkOpen, getBucket, AllBkts, TypeOK
  <2>2. call' \in [Clients -> CallRecords]
    BY <2>1, SMTT(40) DEF TypeOK, CallRecords
  <2> QED
    BY <1>3, <2>1, <2>2 DEF TypeOK, checkOpen, Goto
<1>4. ASSUME NEW c \in Clients, txRLock(c)  PROVE  TypeOK'
  <2>1. bktlock' \in [AllBkts -> Locks(Clients, Clients \cup Managers)]
    BY <1>4, ReaderTyped, WriterTyped, HolderTyped DEF TypeOK, BktLockType, txRLock
  <2> QED
    BY <1>4, <2>1 DEF TypeOK, txRLock, Goto
<1>5. ASSUME NEW c \in Clients, txLockAnnounce(c)  PROVE  TypeOK'
  <2>1. bktlock' \in [AllBkts -> Locks(Clients, Clients \cup Managers)]
    BY <1>5, ReaderTyped, WriterTyped, HolderTyped DEF TypeOK, BktLockType, txLockAnnounce
  <2> QED
    BY <1>5, <2>1 DEF TypeOK, txLockAnnounce, Goto
<1>6. ASSUME NEW c \in Clients, txLock(c)  PROVE  TypeOK'
  <2>1. bktlock' \in [AllBkts -> Locks(Clients, Clients \cup Managers)]
    BY <1>6, ReaderTyped, WriterTyped, HolderTyped DEF TypeOK, BktLockType, txLock
  <2> QED
    BY <1>6, <2>1 DEF TypeOK, txLock, Goto
<1>7. ASSUME NEW c \in Clients, rollbackTx(c)  PROVE  TypeOK'
  <2>1. bktlock' \in [AllBkts -> Locks(Clients, Clients \cup Managers)]
    BY <1>7, ReaderTyped, WriterTyped, HolderTyped DEF TypeOK, BktLockType, rollbackTx,
       Leave
  <2>2. call' = call \/ call' = [call EXCEPT ![c].level = 2]
    BY <1>7 DEF rollbackTx, Leave, TypeOK
  <2>3. call' \in [Clients -> CallRecords]
    BY <2>2 DEF TypeOK, CallRecords
  <2> QED
    BY <1>7, <2>1, <2>2, <2>3, ZenonT(40) DEF TypeOK, rollbackTx, Leave, Goto
<1>8. ASSUME NEW c \in Clients, commitTx(c)  PROVE  TypeOK'
  <2>1. bktlock' = bktlock \/ Leave(c)
    BY <1>8 DEF commitTx
  <2>2. bktlock' \in [AllBkts -> Locks(Clients, Clients \cup Managers)]
    <3>1. CASE bktlock' = bktlock
      BY <3>1 DEF TypeOK
    <3>2. CASE Leave(c)
      BY <3>2, ReaderTyped, HolderTyped DEF TypeOK, BktLockType, Leave
    <3> QED
      BY <2>1, <3>1, <3>2
  <2>3. call' = call \/ call' = [call EXCEPT ![c].level = 2]
    BY <1>8 DEF commitTx, Leave, TypeOK
  <2>4. call' \in [Clients -> CallRecords]
    BY <2>3 DEF TypeOK, CallRecords
  <2>5. \E label \in {"rlock", "runlock"} : pc' = [pc EXCEPT ![c] = label]
    BY <1>8 DEF commitTx, Leave, Goto
  <2>6. UNCHANGED <<open, cur, life, dblock, mpc, rpc, spc>>
    BY <1>8 DEF commitTx
  <2> QED
    BY <2>2, <2>4, <2>5, <2>6 DEF TypeOK
<1>9. ASSUME NEW c \in Clients, dbRUnlock(c)  PROVE  TypeOK'
  <2>1. call' = call \/ call' = [call EXCEPT ![c].level = 1]
    BY <1>9 DEF dbRUnlock, TypeOK
  <2>2. call' \in [Clients -> CallRecords]
    BY <2>1 DEF TypeOK, CallRecords
  <2>3. dblock' \in Locks(Clients \X {1, 2}, Clients \cup {RunManager})
    BY <1>9 DEF TypeOK, dbRUnlock, RUnlocked, Level, Locks
  <2> QED
    BY <1>9, <2>1, <2>2, <2>3 DEF TypeOK, dbRUnlock, Goto
<1>10. ASSUME NEW c \in Clients, dbLockAnnounce(c)  PROVE  TypeOK'
  <2>1. dblock' \in Locks(Clients \X {1, 2}, Clients \cup {RunManager})
    BY <1>10 DEF TypeOK, dbLockAnnounce, Announced, Locks
  <2> QED
    BY <1>10, <2>1 DEF TypeOK, dbLockAnnounce, Goto
<1>11. ASSUME NEW c \in Clients, dbLock(c)  PROVE  TypeOK'
  <2>1. dblock' \in Locks(Clients \X {1, 2}, Clients \cup {RunManager})
    BY <1>11 DEF TypeOK, dbLock, Acquired, Locks
  <2> QED
    BY <1>11, <2>1 DEF TypeOK, dbLock, Goto
<1>12. ASSUME NEW c \in Clients, CreateBucket(c)  PROVE  TypeOK'
  BY <1>12 DEF TypeOK, CreateBucket, AllBkts, Goto
<1>13. ASSUME NEW c \in Clients, startClosing(c)  PROVE  TypeOK'
  <2>1. call' = call \/ \E S \in SUBSET AllBkts : call' = [call EXCEPT ![c].todo = S]
    BY <1>13 DEF startClosing, ToClose, AllBkts, TypeOK
  <2>2. call' \in [Clients -> CallRecords]
    BY <2>1, SMTT(40) DEF TypeOK, CallRecords
  <2> QED
    BY <1>13, <2>1, <2>2 DEF TypeOK, startClosing, Goto
<1>14. ASSUME NEW c \in Clients, closeAnnounce(c)  PROVE  TypeOK'
  <2>1. \E b \in AllBkts : bktlock' = [bktlock EXCEPT ![b] = Announced(@, c)]
    BY <1>14 DEF closeAnnounce, CallRecords, TypeOK
  <2>2. bktlock' \in [AllBkts -> Locks(Clients, Clients \cup Managers)]
    BY <2>1, SMTT(40) DEF TypeOK, Locks, RUnlocked, Unlocked, Announced
  <2>3. \E b \in AllBkts : call' = [call EXCEPT ![c].bkt = b]
    BY <1>14 DEF closeAnnounce, CallRecords, TypeOK
  <2>4. call' \in [Clients -> CallRecords]
    BY <2>3, SMTT(40) DEF TypeOK, CallRecords
  <2> QED
    BY <1>14, <2>1, <2>2, <2>3, <2>4 DEF TypeOK, closeAnnounce, Goto
<1>15. ASSUME NEW c \in Clients, closeBucket(c)  PROVE  TypeOK'
  <2>1. bktlock' \in [AllBkts -> Locks(Clients, Clients \cup Managers)]
    BY <1>15, ReaderTyped, WriterTyped, HolderTyped DEF TypeOK, BktLockType, closeBucket
  <2>2. \E S \in SUBSET AllBkts : call' = [call EXCEPT ![c].todo = S]
    BY <1>15 DEF closeBucket, CallRecords, TypeOK
  <2>3. call' \in [Clients -> CallRecords]
    BY <2>2, SMTT(40) DEF TypeOK, CallRecords
  <2> QED
    BY <1>15, <2>1, <2>2, <2>3 DEF TypeOK, closeBucket, Goto
<1>16. ASSUME NEW c \in Clients, endClosing(c)  PROVE  TypeOK'
  BY <1>16 DEF TypeOK, endClosing, Goto
<1>17. ASSUME NEW c \in Clients, dbUnlock(c)  PROVE  TypeOK'
  <2>1. dblock' \in Locks(Clients \X {1, 2}, Clients \cup {RunManager})
    BY <1>17 DEF TypeOK, dbUnlock, Unlocked, Locks
  <2> QED
    BY <1>17, <2>1 DEF TypeOK, dbUnlock, Goto
<1>18. ASSUME rmTick  PROVE  TypeOK'
  BY <1>18 DEF TypeOK, rmTick
<1>19. ASSUME rmAnnounce  PROVE  TypeOK'
  <2>1. dblock' \in Locks(Clients \X {1, 2}, Clients \cup {RunManager})
    BY <1>19 DEF TypeOK, rmAnnounce, Announced, Locks
  <2> QED
    BY <1>19, <2>1 DEF TypeOK, rmAnnounce
<1>20. ASSUME rmLock  PROVE  TypeOK'
  <2>1. dblock' \in Locks(Clients \X {1, 2}, Clients \cup {RunManager})
    BY <1>20 DEF TypeOK, rmLock, Acquired, Locks
  <2> QED
    BY <1>20, <2>1 DEF TypeOK, rmLock
<1>21. ASSUME rmWork  PROVE  TypeOK'
  <2>1. dblock' \in Locks(Clients \X {1, 2}, Clients \cup {RunManager})
    BY <1>21 DEF TypeOK, rmWork, Unlocked, Locks
  <2> QED
    BY <1>21, <2>1 DEF TypeOK, rmWork
<1>22. ASSUME NEW m \in Managers, managerAnnounce(m)  PROVE  TypeOK'
  <2>1. bktlock' \in [AllBkts -> Locks(Clients, Clients \cup Managers)]
    BY <1>22, ReaderTyped, WriterTyped, HolderTyped DEF TypeOK, BktLockType, managerAnnounce
  <2> QED
    BY <1>22, <2>1 DEF TypeOK, managerAnnounce
<1>23. ASSUME NEW m \in Managers, managerLock(m)  PROVE  TypeOK'
  <2>1. bktlock' \in [AllBkts -> Locks(Clients, Clients \cup Managers)]
    BY <1>23, ReaderTyped, WriterTyped, HolderTyped DEF TypeOK, BktLockType, managerLock
  <2> QED
    BY <1>23, <2>1 DEF TypeOK, managerLock
<1>24. ASSUME NEW m \in Managers, managerWork(m)  PROVE  TypeOK'
  <2>1. bktlock' \in {bktlock, [bktlock EXCEPT ![m[1]] = Unlocked(@)]}
    BY <1>24 DEF managerWork
  <2>2. bktlock' \in [AllBkts -> Locks(Clients, Clients \cup Managers)]
    <3>1. CASE bktlock' = bktlock
      BY <3>1 DEF TypeOK
    <3>2. CASE bktlock' = [bktlock EXCEPT ![m[1]] = Unlocked(@)]
      BY <3>2, HolderTyped DEF TypeOK, BktLockType
    <3> QED
      BY <2>1, <3>1, <3>2
  <2> QED
    BY <1>24, <2>1, <2>2 DEF TypeOK, managerWork
<1>25. ASSUME startSystem  PROVE  TypeOK'
  BY <1>25 DEF TypeOK, startSystem, Started, Managers, AllBkts
<1>26. ASSUME startBucket  PROVE  TypeOK'
  BY <1>26 DEF TypeOK, startBucket, Started, Managers, AllBkts
<1>27. ASSUME startDone  PROVE  TypeOK'
  BY <1>27 DEF TypeOK, startDone
<1>28. CASE UNCHANGED vars
  BY <1>28 DEF vars, TypeOK
<1> QED
  BY <1>1, <1>2, <1>3, <1>4, <1>5, <1>6, <1>7, <1>8, <1>9, <1>10, <1>11, <1>12, <1>13,
     <1>14, <1>15, <1>16, <1>17, <1>18, <1>19, <1>20, <1>21, <1>22, <1>23, <1>24, <1>25,
     <1>26, <1>27, <1>28
     DEF Next, TxSteps, DbSteps, runManager, startManagers, manager

\* Only the client itself takes and gives back its read lock.
LEMMA DbReadersPreserved ==
  ASSUME NEW d \in Clients, TypeOK, DbReaders, [Next]_vars
  PROVE  ReadsDb(d)'
<1> USE LocksAssumption DEF TypeOK, AllBkts, Ops, Locks, CallRecords, DbReaders, ReadsDb,
        InTx
<1>1. ASSUME NEW c \in Clients, NEW op \in Calls[c], Start(c, op)  PROVE  ReadsDb(d)'
  BY <1>1 DEF Start, Called, Goto
<1>2. ASSUME NEW c \in Clients, dbRLock(c)  PROVE  ReadsDb(d)'
  BY <1>2 DEF Goto, dbRLock, CanRLock, RLocked, Level
<1>3. ASSUME NEW c \in Clients, checkOpen(c)  PROVE  ReadsDb(d)'
  BY <1>3 DEF Goto, checkOpen, getBucket
<1>4. ASSUME NEW c \in Clients, txRLock(c)  PROVE  ReadsDb(d)'
  BY <1>4 DEF Goto, txRLock, CanRLock, RLocked, Reads, Level
<1>5. ASSUME NEW c \in Clients, txLockAnnounce(c)  PROVE  ReadsDb(d)'
  BY <1>5 DEF Goto, txLockAnnounce, CanAnnounce, Announced, Reads, Level
<1>6. ASSUME NEW c \in Clients, txLock(c)  PROVE  ReadsDb(d)'
  BY <1>6 DEF Goto, txLock, CanAcquire, Acquired, Reads, Level
<1>7. ASSUME NEW c \in Clients, rollbackTx(c)  PROVE  ReadsDb(d)'
  BY <1>7 DEF Goto, rollbackTx, Leave, Reads, Level, RUnlocked, Unlocked
<1>8. ASSUME NEW c \in Clients, commitTx(c)  PROVE  ReadsDb(d)'
  <2>1. Leave(c) \/ (Goto(c, "runlock") /\ UNCHANGED call)
    BY <1>8 DEF commitTx
  <2>2. CASE Leave(c)
    BY <1>8, <2>2 DEF commitTx, Leave, Level, Goto
  <2>3. CASE Goto(c, "runlock") /\ UNCHANGED call
    BY <1>8, <2>3 DEF commitTx, Goto
  <2> QED
    BY <2>1, <2>2, <2>3
<1>9. ASSUME NEW c \in Clients, dbRUnlock(c)  PROVE  ReadsDb(d)'
  BY <1>9 DEF Goto, dbRUnlock, Level, RUnlocked
<1>10. ASSUME NEW c \in Clients, dbLockAnnounce(c)  PROVE  ReadsDb(d)'
  BY <1>10 DEF Goto, dbLockAnnounce, CanAnnounce, Announced
<1>11. ASSUME NEW c \in Clients, dbLock(c)  PROVE  ReadsDb(d)'
  BY <1>11 DEF Goto, dbLock, CanAcquire, Acquired
<1>12. ASSUME NEW c \in Clients, CreateBucket(c)  PROVE  ReadsDb(d)'
  BY <1>12 DEF Goto, CreateBucket
<1>13. ASSUME NEW c \in Clients, startClosing(c)  PROVE  ReadsDb(d)'
  BY <1>13 DEF Goto, startClosing, ToClose
<1>14. ASSUME NEW c \in Clients, closeAnnounce(c)  PROVE  ReadsDb(d)'
  BY <1>14 DEF Goto, closeAnnounce, CanAnnounce, Announced
<1>15. ASSUME NEW c \in Clients, closeBucket(c)  PROVE  ReadsDb(d)'
  BY <1>15 DEF Goto, closeBucket, CanAcquire, Unlocked
<1>16. ASSUME NEW c \in Clients, endClosing(c)  PROVE  ReadsDb(d)'
  BY <1>16 DEF Goto, endClosing
<1>17. ASSUME NEW c \in Clients, dbUnlock(c)  PROVE  ReadsDb(d)'
  BY <1>17 DEF Goto, dbUnlock, Unlocked
<1>18. ASSUME rmTick  PROVE  ReadsDb(d)'
  BY <1>18 DEF rmTick
<1>19. ASSUME rmAnnounce  PROVE  ReadsDb(d)'
  BY <1>19 DEF rmAnnounce, CanAnnounce, Announced
<1>20. ASSUME rmLock  PROVE  ReadsDb(d)'
  BY <1>20 DEF rmLock, CanAcquire, Acquired
<1>21. ASSUME rmWork  PROVE  ReadsDb(d)'
  BY <1>21 DEF rmWork, Unlocked
<1>22. ASSUME NEW m \in Managers, managerAnnounce(m)  PROVE  ReadsDb(d)'
  BY <1>22 DEF managerAnnounce, CanAnnounce, Announced
<1>23. ASSUME NEW m \in Managers, managerLock(m)  PROVE  ReadsDb(d)'
  BY <1>23 DEF managerLock, CanAcquire, Acquired
<1>24. ASSUME NEW m \in Managers, managerWork(m)  PROVE  ReadsDb(d)'
  BY <1>24 DEF managerWork, Unlocked
<1>25. ASSUME startSystem  PROVE  ReadsDb(d)'
  BY <1>25 DEF startSystem, Started, Managers, AllBkts
<1>26. ASSUME startBucket  PROVE  ReadsDb(d)'
  BY <1>26 DEF startBucket, Started, Managers, AllBkts
<1>27. ASSUME startDone  PROVE  ReadsDb(d)'
  BY <1>27 DEF startDone
<1>28. CASE UNCHANGED vars
  BY <1>28 DEF vars
<1> QED
  BY <1>1, <1>2, <1>3, <1>4, <1>5, <1>6, <1>7, <1>8, <1>9, <1>10, <1>11, <1>12, <1>13,
     <1>14, <1>15, <1>16, <1>17, <1>18, <1>19, <1>20, <1>21, <1>22, <1>23, <1>24, <1>25,
     <1>26, <1>27, <1>28
     DEF Next, TxSteps, DbSteps, runManager, startManagers, manager

\* A writer finds no reader, and who announced itself is the next to write.
LEMMA DbWriterPreserved ==
  ASSUME TypeOK, DbReaders, DbWriter, [Next]_vars
  PROVE  DbWriter'
<1> USE LocksAssumption DEF TypeOK, AllBkts, Ops, Locks, CallRecords, DbReaders, ReadsDb,
        DbWriter, InTx, InDb
<1>1. ASSUME NEW c \in Clients, NEW op \in Calls[c], Start(c, op)  PROVE  DbWriter'
  BY <1>1 DEF Start, Called, Goto
<1>2. ASSUME NEW c \in Clients, dbRLock(c)  PROVE  DbWriter'
  BY <1>2 DEF Goto, dbRLock, CanRLock, RLocked, Level
<1>3. ASSUME NEW c \in Clients, checkOpen(c)  PROVE  DbWriter'
  BY <1>3 DEF Goto, checkOpen, getBucket
<1>4. ASSUME NEW c \in Clients, txRLock(c)  PROVE  DbWriter'
  BY <1>4 DEF Goto, txRLock, CanRLock, RLocked, Reads, Level
<1>5. ASSUME NEW c \in Clients, txLockAnnounce(c)  PROVE  DbWriter'
  BY <1>5 DEF Goto, txLockAnnounce, CanAnnounce, Announced, Reads, Level
<1>6. ASSUME NEW c \in Clients, txLock(c)  PROVE  DbWriter'
  BY <1>6 DEF Goto, txLock, CanAcquire, Acquired, Reads, Level
<1>7. ASSUME NEW c \in Clients, rollbackTx(c)  PROVE  DbWriter'
  BY <1>7 DEF Goto, rollbackTx, Leave, Reads, Level, RUnlocked, Unlocked
<1>8. ASSUME NEW c \in Clients, commitTx(c)  PROVE  DbWriter'
  BY <1>8 DEF Goto, commitTx, Leave, Reads, Level, RUnlocked, Unlocked
<1>9. ASSUME NEW c \in Clients, dbRUnlock(c)  PROVE  DbWriter'
  BY <1>9 DEF Goto, dbRUnlock, Level, RUnlocked
<1>10. ASSUME NEW c \in Clients, dbLockAnnounce(c)  PROVE  DbWriter'
  BY <1>10 DEF Goto, dbLockAnnounce, CanAnnounce, Announced
<1>11. ASSUME NEW c \in Clients, dbLock(c)  PROVE  DbWriter'
  BY <1>11 DEF Goto, dbLock, CanAcquire, Acquired
<1>12. ASSUME NEW c \in Clients, CreateBucket(c)  PROVE  DbWriter'
  BY <1>12 DEF Goto, CreateBucket
<1>13. ASSUME NEW c \in Clients, startClosing(c)  PROVE  DbWriter'
  BY <1>13 DEF Goto, startClosing, ToClose
<1>14. ASSUME NEW c \in Clients, closeAnnounce(c)  PROVE  DbWriter'
  BY <1>14 DEF Goto, closeAnnounce, CanAnnounce, Announced
<1>15. ASSUME NEW c \in Clients, closeBucket(c)  PROVE  DbWriter'
  BY <1>15 DEF Goto, closeBucket, CanAcquire, Unlocked
<1>16. ASSUME NEW c \in Clients, endClosing(c)  PROVE  DbWriter'
  BY <1>16 DEF Goto, endClosing
<1>17. ASSUME NEW c \in Clients, dbUnlock(c)  PROVE  DbWriter'
  BY <1>17 DEF Goto, dbUnlock, Unlocked
<1>18. ASSUME rmTick  PROVE  DbWriter'
  BY <1>18 DEF rmTick
<1>19. ASSUME rmAnnounce  PROVE  DbWriter'
  BY <1>19 DEF rmAnnounce, CanAnnounce, Announced
<1>20. ASSUME rmLock  PROVE  DbWriter'
  BY <1>20 DEF rmLock, CanAcquire, Acquired
<1>21. ASSUME rmWork  PROVE  DbWriter'
  BY <1>21 DEF rmWork, Unlocked
<1>22. ASSUME NEW m \in Managers, managerAnnounce(m)  PROVE  DbWriter'
  BY <1>22 DEF managerAnnounce, CanAnnounce, Announced
<1>23. ASSUME NEW m \in Managers, managerLock(m)  PROVE  DbWriter'
  BY <1>23 DEF managerLock, CanAcquire, Acquired
<1>24. ASSUME NEW m \in Managers, managerWork(m)  PROVE  DbWriter'
  BY <1>24 DEF managerWork, Unlocked
<1>25. ASSUME startSystem  PROVE  DbWriter'
  BY <1>25 DEF startSystem, Started, Managers, AllBkts
<1>26. ASSUME startBucket  PROVE  DbWriter'
  BY <1>26 DEF startBucket, Started, Managers, AllBkts
<1>27. ASSUME startDone  PROVE  DbWriter'
  BY <1>27 DEF startDone
<1>28. CASE UNCHANGED vars
  BY <1>28 DEF vars
<1> QED
  BY <1>1, <1>2, <1>3, <1>4, <1>5, <1>6, <1>7, <1>8, <1>9, <1>10, <1>11, <1>12, <1>13,
     <1>14, <1>15, <1>16, <1>17, <1>18, <1>19, <1>20, <1>21, <1>22, <1>23, <1>24, <1>25,
     <1>26, <1>27, <1>28
     DEF Next, TxSteps, DbSteps, runManager, startManagers, manager

\* Who closes a bucket, or the database, has no reader beside it.
LEMMA PassedPreserved ==
  ASSUME NEW d \in Clients, TypeOK, DbReaders, DbWriter, Passed, [Next]_vars
  PROVE  HasPassed(d)'
<1> USE LocksAssumption DEF TypeOK, AllBkts, Ops, Locks, CallRecords, DbReaders, ReadsDb,
        DbWriter, Passed, HasPassed, InTx, InDb
<1>1. ASSUME NEW c \in Clients, NEW op \in Calls[c], Start(c, op)  PROVE  HasPassed(d)'
  BY <1>1 DEF Start, Called, Goto
<1>2. ASSUME NEW c \in Clients, dbRLock(c)  PROVE  HasPassed(d)'
  BY <1>2 DEF Goto, dbRLock, CanRLock, RLocked, Level
<1>3. ASSUME NEW c \in Clients, checkOpen(c)  PROVE  HasPassed(d)'
  BY <1>3, SMTT(30) DEF Goto, checkOpen, getBucket
<1>4. ASSUME NEW c \in Clients, txRLock(c)  PROVE  HasPassed(d)'
  BY <1>4 DEF Goto, txRLock, CanRLock, RLocked, Reads, Level
<1>5. ASSUME NEW c \in Clients, txLockAnnounce(c)  PROVE  HasPassed(d)'
  BY <1>5 DEF Goto, txLockAnnounce, CanAnnounce, Announced, Reads, Level
<1>6. ASSUME NEW c \in Clients, txLock(c)  PROVE  HasPassed(d)'
  BY <1>6 DEF Goto, txLock, CanAcquire, Acquired, Reads, Level
<1>7. ASSUME NEW c \in Clients, rollbackTx(c)  PROVE  HasPassed(d)'
  BY <1>7 DEF Goto, rollbackTx, Leave, Level
<1>8. ASSUME NEW c \in Clients, commitTx(c)  PROVE  HasPassed(d)'
  <2>1. Leave(c) \/ (Goto(c, "runlock") /\ UNCHANGED call)
    BY <1>8 DEF commitTx
  <2>2. CASE Leave(c)
    BY <1>8, <2>2 DEF commitTx, Leave, Level, Goto
  <2>3. CASE Goto(c, "runlock") /\ UNCHANGED call
    BY <1>8, <2>3 DEF commitTx, Goto
  <2> QED
    BY <2>1, <2>2, <2>3
<1>9. ASSUME NEW c \in Clients, dbRUnlock(c)  PROVE  HasPassed(d)'
  BY <1>9, SMTT(30) DEF Goto, dbRUnlock, Level, RUnlocked
<1>10. ASSUME NEW c \in Clients, dbLockAnnounce(c)  PROVE  HasPassed(d)'
  BY <1>10 DEF Goto, dbLockAnnounce, CanAnnounce, Announced
<1>11. ASSUME NEW c \in Clients, dbLock(c)  PROVE  HasPassed(d)'
  BY <1>11 DEF Goto, dbLock, CanAcquire, Acquired
<1>12. ASSUME NEW c \in Clients, CreateBucket(c)  PROVE  HasPassed(d)'
  <2>1. life' = life \/ \E b \in Bkts : life' = [life EXCEPT ![b] = "open"]
    BY <1>12, ZenonT(40) DEF CreateBucket
  <2>2. \A b \in AllBkts : life[b] = "open" => life'[b] = "open"
    BY <2>1
  <2> QED
    BY <1>12, <2>2 DEF Goto, CreateBucket
<1>13. ASSUME NEW c \in Clients, startClosing(c)  PROVE  HasPassed(d)'
  BY <1>13 DEF Goto, startClosing, ToClose
<1>14. ASSUME NEW c \in Clients, closeAnnounce(c)  PROVE  HasPassed(d)'
  BY <1>14 DEF Goto, closeAnnounce, CanAnnounce, Announced
<1>15. ASSUME NEW c \in Clients, closeBucket(c)  PROVE  HasPassed(d)'
  <2>1. pc[d] \notin {"enter", "entering", "fn"}
    BY <1>15 DEF closeBucket
  <2> QED
    BY <1>15, <2>1 DEF closeBucket, Goto
<1>16. ASSUME NEW c \in Clients, endClosing(c)  PROVE  HasPassed(d)'
  <2>1. pc[d] \notin {"enter", "entering", "fn"}
    BY <1>16 DEF endClosing
  <2>2. d # c => pc[d] \notin {"closing", "closingBucket"}
    BY <1>16 DEF endClosing
  <2> QED
    BY <1>16, <2>1, <2>2 DEF endClosing, Goto
<1>17. ASSUME NEW c \in Clients, dbUnlock(c)  PROVE  HasPassed(d)'
  BY <1>17 DEF Goto, dbUnlock, Unlocked
<1>18. ASSUME rmTick  PROVE  HasPassed(d)'
  BY <1>18 DEF rmTick
<1>19. ASSUME rmAnnounce  PROVE  HasPassed(d)'
  BY <1>19 DEF rmAnnounce, CanAnnounce, Announced
<1>20. ASSUME rmLock  PROVE  HasPassed(d)'
  BY <1>20 DEF rmLock, CanAcquire, Acquired
<1>21. ASSUME rmWork  PROVE  HasPassed(d)'
  BY <1>21 DEF rmWork, Unlocked
<1>22. ASSUME NEW m \in Managers, managerAnnounce(m)  PROVE  HasPassed(d)'
  BY <1>22 DEF managerAnnounce, CanAnnounce, Announced
<1>23. ASSUME NEW m \in Managers, managerLock(m)  PROVE  HasPassed(d)'
  BY <1>23 DEF managerLock, CanAcquire, Acquired
<1>24. ASSUME NEW m \in Managers, managerWork(m)  PROVE  HasPassed(d)'
  BY <1>24 DEF managerWork, Unlocked
<1>25. ASSUME startSystem  PROVE  HasPassed(d)'
  BY <1>25 DEF startSystem, Started, Managers, AllBkts
<1>26. ASSUME startBucket  PROVE  HasPassed(d)'
  BY <1>26 DEF startBucket, Started, Managers, AllBkts
<1>27. ASSUME startDone  PROVE  HasPassed(d)'
  BY <1>27 DEF startDone
<1>28. CASE UNCHANGED vars
  BY <1>28 DEF vars
<1> QED
  BY <1>1, <1>2, <1>3, <1>4, <1>5, <1>6, <1>7, <1>8, <1>9, <1>10, <1>11, <1>12, <1>13,
     <1>14, <1>15, <1>16, <1>17, <1>18, <1>19, <1>20, <1>21, <1>22, <1>23, <1>24, <1>25,
     <1>26, <1>27, <1>28
     DEF Next, TxSteps, DbSteps, runManager, startManagers, manager

\* A manager that is started is at its tick.
LEMMA StartedTicks ==
  ASSUME TypeOK, NEW k, mpc' = [mpc EXCEPT ![k] = "tick"], NEW m \in Managers
  PROVE  mpc'[m] = mpc[m] \/ mpc'[m] = "tick"
<1>1. DOMAIN mpc = Managers
  BY DEF TypeOK
<1> HIDE DEF Managers
<1> QED
  BY <1>1

\* The bucket a transaction ran in is let go of what the transaction had of it, and
\* no other bucket changes.
LEMMA LeaveKeepsLocks ==
  ASSUME NEW x \in AllBkts, NEW d, TypeOK, Passed, BktLocks,
         NEW c \in Clients, pc[c] = "fn", Leave(c), UNCHANGED mpc
  PROVE  LockIn(x, d)'
<1> USE LocksAssumption DEF TypeOK, AllBkts, Ops, Locks, CallRecords, Passed, HasPassed,
        BktLocks, BktLock, InBkt, LockIn, WritesIn, Reads, Level
<1>1. call[c].bkt \in AllBkts
  OBVIOUS
<1>2. /\ pc' = [pc EXCEPT ![c] = pc'[c]] /\ pc'[c] \in {"rlock", "runlock"}
      /\ \A e \in Clients : call'[e].bkt = call[e].bkt /\ call'[e].op = call[e].op
      /\ \A e \in Clients : e # c => call'[e] = call[e]
  <2>1. CASE Level(c) = 1
    <3>1. call' = [call EXCEPT ![c].level = 2] /\ pc' = [pc EXCEPT ![c] = "rlock"]
      BY <2>1 DEF Leave, Goto
    <3> QED
      BY <3>1
  <2>2. CASE Level(c) # 1
    <3>1. call' = call /\ pc' = [pc EXCEPT ![c] = "runlock"]
      BY <2>2 DEF Leave, Goto
    <3> QED
      BY <3>1
  <2> QED
    BY <2>1, <2>2
<1>3. CASE call[c].bkt # x
  <2>1. bktlock'[x] = bktlock[x]
    BY <1>3 DEF Leave
  <2> QED
    BY <1>2, <1>3, <2>1
<1>4. CASE call[c].bkt = x /\ Reads(c)
  <2>1. bktlock'[x] = [bktlock[x] EXCEPT !.readers = @ \ {c}]
    BY <1>1, <1>4 DEF Leave, RUnlocked
  <2> QED
    BY <1>2, <1>4, <2>1
<1>5. CASE call[c].bkt = x /\ ~Reads(c)
  <2>1. bktlock'[x] = [bktlock[x] EXCEPT !.writer = NoOne, !.held = FALSE]
    BY <1>1, <1>5 DEF Leave, Unlocked
  <2>2. \A m \in Managers : m[1] = x => mpc[m] \notin {"waiting", "work"}
    BY <1>5
  <2>3. BktLock(x)'
    BY <2>1, <2>2
  <2>4. ASSUME d \in Clients  PROVE  InBkt(d, x)'
    BY <1>2, <1>5, <2>1, <2>4
  <2> QED
    BY <2>3, <2>4
<1> QED
  BY <1>3, <1>4, <1>5

\* A transaction leaves the lock of a bucket as it found it: since the database is
\* open at its end, the commit does not return early.
LEMMA BktLocksPreserved ==
  ASSUME NEW x \in AllBkts, NEW d, TypeOK, Passed, BktLocks, [Next]_vars
  PROVE  LockIn(x, d)'
<1> USE LocksAssumption DEF TypeOK, AllBkts, Ops, Locks, CallRecords, Passed, HasPassed,
        BktLocks, BktLock,
          InBkt, LockIn, WritesIn, Reads, Level
<1>1. ASSUME NEW c \in Clients, NEW op \in Calls[c], Start(c, op)  PROVE  LockIn(x, d)'
  BY <1>1 DEF Start, Called, Goto
<1>2. ASSUME NEW c \in Clients, dbRLock(c)  PROVE  LockIn(x, d)'
  BY <1>2 DEF Goto, dbRLock, CanRLock, RLocked, Level
<1>3. ASSUME NEW c \in Clients, checkOpen(c)  PROVE  LockIn(x, d)'
  BY <1>3 DEF Goto, checkOpen, getBucket
<1>4. ASSUME NEW c \in Clients, txRLock(c)  PROVE  LockIn(x, d)'
  BY <1>4 DEF Goto, txRLock, CanRLock, RLocked, Reads, Level
<1>5. ASSUME NEW c \in Clients, txLockAnnounce(c)  PROVE  LockIn(x, d)'
  BY <1>5 DEF Goto, txLockAnnounce, CanAnnounce, Announced, Reads, Level
<1>6. ASSUME NEW c \in Clients, txLock(c)  PROVE  LockIn(x, d)'
  BY <1>6 DEF Goto, txLock, CanAcquire, Acquired, Reads, Level
<1>7. ASSUME NEW c \in Clients, rollbackTx(c)  PROVE  LockIn(x, d)'
  BY <1>7, LeaveKeepsLocks DEF rollbackTx
<1>8. ASSUME NEW c \in Clients, commitTx(c)  PROVE  LockIn(x, d)'
  <2>1. open
    BY <1>8 DEF commitTx
  <2>2. Leave(c) /\ UNCHANGED mpc
    BY <1>8, <2>1 DEF commitTx
  <2> QED
    BY <1>8, <2>2, LeaveKeepsLocks DEF commitTx
<1>9. ASSUME NEW c \in Clients, dbRUnlock(c)  PROVE  LockIn(x, d)'
  BY <1>9 DEF Goto, dbRUnlock, Level, RUnlocked
<1>10. ASSUME NEW c \in Clients, dbLockAnnounce(c)  PROVE  LockIn(x, d)'
  BY <1>10 DEF Goto, dbLockAnnounce, CanAnnounce, Announced
<1>11. ASSUME NEW c \in Clients, dbLock(c)  PROVE  LockIn(x, d)'
  BY <1>11 DEF Goto, dbLock, CanAcquire, Acquired
<1>12. ASSUME NEW c \in Clients, CreateBucket(c)  PROVE  LockIn(x, d)'
  <2>1. mpc' = mpc \/ \E k : mpc' = [mpc EXCEPT ![k] = "tick"]
    BY <1>12, Zenon DEF CreateBucket
  <2>2. \A m \in Managers : mpc'[m] = mpc[m] \/ mpc'[m] = "tick"
    BY <2>1, StartedTicks
  <2> QED
    BY <1>12, <2>2 DEF Goto, CreateBucket
<1>13. ASSUME NEW c \in Clients, startClosing(c)  PROVE  LockIn(x, d)'
  BY <1>13 DEF Goto, startClosing, ToClose
<1>14. ASSUME NEW c \in Clients, closeAnnounce(c)  PROVE  LockIn(x, d)'
  BY <1>14 DEF Goto, closeAnnounce, CanAnnounce, Announced
<1>15. ASSUME NEW c \in Clients, closeBucket(c)  PROVE  LockIn(x, d)'
  BY <1>15 DEF Goto, closeBucket, CanAcquire, Unlocked
<1>16. ASSUME NEW c \in Clients, endClosing(c)  PROVE  LockIn(x, d)'
  BY <1>16 DEF Goto, endClosing
<1>17. ASSUME NEW c \in Clients, dbUnlock(c)  PROVE  LockIn(x, d)'
  BY <1>17 DEF Goto, dbUnlock, Unlocked
<1>18. ASSUME rmTick  PROVE  LockIn(x, d)'
  BY <1>18 DEF rmTick
<1>19. ASSUME rmAnnounce  PROVE  LockIn(x, d)'
  BY <1>19 DEF rmAnnounce, CanAnnounce, Announced
<1>20. ASSUME rmLock  PROVE  LockIn(x, d)'
  BY <1>20 DEF rmLock, CanAcquire, Acquired
<1>21. ASSUME rmWork  PROVE  LockIn(x, d)'
  BY <1>21 DEF rmWork, Unlocked
<1>22. ASSUME NEW m \in Managers, managerAnnounce(m)  PROVE  LockIn(x, d)'
  BY <1>22 DEF managerAnnounce, CanAnnounce, Announced
<1>23. ASSUME NEW m \in Managers, managerLock(m)  PROVE  LockIn(x, d)'
  BY <1>23 DEF managerLock, CanAcquire, Acquired
<1>24. ASSUME NEW m \in Managers, managerWork(m)  PROVE  LockIn(x, d)'
  <2>1. \/ bktlock' = [bktlock EXCEPT ![m[1]] = Unlocked(@)] /\ mpc' = [mpc EXCEPT ![m] = "tick"]
        \/ bktlock' = bktlock /\ mpc' = [mpc EXCEPT ![m] = "done"]
    BY <1>24 DEF managerWork
  <2>2. CASE bktlock' = [bktlock EXCEPT ![m[1]] = Unlocked(@)] /\ mpc' = [mpc EXCEPT ![m] = "tick"]
    BY <1>24, <2>2 DEF managerWork, Unlocked
  <2>3. CASE bktlock' = bktlock /\ mpc' = [mpc EXCEPT ![m] = "done"]
    BY <1>24, <2>3 DEF managerWork
  <2> QED
    BY <2>1, <2>2, <2>3
<1>25. ASSUME startSystem  PROVE  LockIn(x, d)'
  <2>1. \A m \in Managers : mpc'[m] = mpc[m] \/ mpc'[m] = "tick"
    BY <1>25, StartedTicks DEF startSystem, Started
  <2> QED
    BY <1>25, <2>1 DEF startSystem
<1>26. ASSUME startBucket  PROVE  LockIn(x, d)'
  <2>1. \A m \in Managers : mpc'[m] = mpc[m] \/ mpc'[m] = "tick"
    BY <1>26, StartedTicks DEF startBucket, Started
  <2> QED
    BY <1>26, <2>1 DEF startBucket
<1>27. ASSUME startDone  PROVE  LockIn(x, d)'
  BY <1>27 DEF startDone
<1>28. CASE UNCHANGED vars
  BY <1>28 DEF vars
<1> QED
  BY <1>1, <1>2, <1>3, <1>4, <1>5, <1>6, <1>7, <1>8, <1>9, <1>10, <1>11, <1>12, <1>13,
     <1>14, <1>15, <1>16, <1>17, <1>18, <1>19, <1>20, <1>21, <1>22, <1>23, <1>24, <1>25,
     <1>26, <1>27, <1>28
     DEF Next, TxSteps, DbSteps, runManager, startManagers, manager

\* No step opens the database again, and a manager looks before it leaves.
LEMMA EndedPreserved ==
  ASSUME TypeOK, EndedAfterClose, [Next]_vars
  PROVE  EndedAfterClose'
<1>1. /\ open' => open
      /\ \A m \in Managers : mpc'[m] = "done" => mpc[m] = "done" \/ ~open
  <2> USE DEF TypeOK, EndedAfterClose
  <2>1. ASSUME NEW c \in Clients, NEW op \in Calls[c], Start(c, op) \/ TxSteps(c)
        PROVE  open' = open /\ mpc' = mpc
    BY <2>1 DEF Start, TxSteps, dbRLock, checkOpen, txRLock, txLockAnnounce, txLock,
       rollbackTx, commitTx, dbRUnlock
  <2>2. ASSUME NEW c \in Clients, TxSteps(c)
        PROVE  open' = open /\ mpc' = mpc
    BY <2>2 DEF TxSteps, dbRLock, checkOpen, txRLock, txLockAnnounce, txLock,
       rollbackTx, commitTx, dbRUnlock
  <2>3. ASSUME NEW c \in Clients, DbSteps(c), ~CreateBucket(c)
        PROVE  (open' => open) /\ mpc' = mpc
    BY <2>3 DEF DbSteps, dbLockAnnounce, dbLock, startClosing, closeAnnounce, closeBucket,
       endClosing, dbUnlock
  <2>4. ASSUME NEW c \in Clients, CreateBucket(c)
        PROVE  open' = open /\ \A m \in Managers : mpc'[m] = mpc[m] \/ mpc'[m] = "tick"
    BY <2>4 DEF CreateBucket, Managers
  <2>5. ASSUME runManager  PROVE  open' = open /\ mpc' = mpc
    BY <2>5 DEF runManager, rmTick, rmAnnounce, rmLock, rmWork
  <2>6. ASSUME startManagers
        PROVE  open' = open /\ \A m \in Managers : mpc'[m] = mpc[m] \/ mpc'[m] = "tick"
    BY <2>6 DEF startManagers, startSystem, startBucket, startDone, Started, Managers
  <2>7. ASSUME NEW n \in Managers, manager(n)
        PROVE  /\ open' = open
               /\ \A m \in Managers : mpc'[m] = "done" => mpc[m] = "done" \/ ~open
    BY <2>7 DEF manager, managerAnnounce, managerLock, managerWork
  <2>8. CASE UNCHANGED vars
    BY <2>8 DEF vars
  <2> QED
    BY <2>1, <2>2, <2>3, <2>4, <2>5, <2>6, <2>7, <2>8 DEF Next
<1> QED
  BY <1>1 DEF EndedAfterClose

-----------------------------------------------------------------------------

\* The inductive invariant: every lock is held and awaited by exactly the goroutines
\* that are at a place in the code where they hold or await it.
THEOREM LocksAccountedFor == Spec => []IInv
<1>1. Init => IInv
  BY InitIInv
<1>2. IInv /\ [Next]_vars => IInv'
  <2> SUFFICES ASSUME IInv, [Next]_vars
               PROVE  IInv'
    OBVIOUS
  <2> USE DEF IInv
  <2>1. TypeOK'
    BY TypePreserved
  <2>2. DbReaders'
    BY DbReadersPreserved DEF DbReaders
  <2>3. DbWriter'
    BY DbWriterPreserved
  <2>4. Passed'
    BY PassedPreserved DEF Passed
  <2>5. BktLocks'
    BY BktLocksPreserved DEF BktLocks, LockIn, AllBkts
  <2>6. EndedAfterClose'
    BY EndedPreserved
  <2> QED
    BY <2>1, <2>2, <2>3, <2>4, <2>5, <2>6
<1> QED
  BY <1>1, <1>2, PTL DEF Spec

\* Every variable keeps its type, with any number of clients and buckets.
THEOREM LockTypes == Spec => []TypeOK
<1>1. IInv => TypeOK
  BY DEF IInv
<1> QED
  BY <1>1, LocksAccountedFor, PTL

\* DropBucket and Close never pull the bucket or the database from under a
\* transaction that has passed its checks, and commitTx never finds it closed.
THEOREM TransactionsSeeOpen == Spec => []TxSeesOpen
<1>1. IInv => TxSeesOpen
  BY DEF IInv, Passed, HasPassed, TxSeesOpen, Working
<1> QED
  BY <1>1, LocksAccountedFor, PTL

\* The function of an Update is alone in its bucket, and so is a working manager, of
\* however many managers the bucket has.
THEOREM WritersAreAlone == Spec => []BucketExclusion
<1>1. IInv => BucketExclusion
  <2> SUFFICES ASSUME IInv  PROVE BucketExclusion
    OBVIOUS
  <2>1. ASSUME NEW m \in Managers, NEW b \in AllBkts, m[1] = b, mpc[m] = "work"
        PROVE  bktlock[b].writer = m /\ bktlock[b].held /\ bktlock[b].readers = {}
    BY <2>1 DEF IInv, BktLocks, BktLock
  <2>2. ASSUME NEW c \in Clients, Working(c)
        PROVE  /\ call[c].bkt \in AllBkts
               /\ Reads(c) => c \in bktlock[call[c].bkt].readers
               /\ ~Reads(c) => bktlock[call[c].bkt].writer = c /\ bktlock[call[c].bkt].held
    BY <2>2 DEF IInv, Passed, HasPassed, Working, BktLocks, InBkt, WritesIn
  <2>3. ASSUME NEW c \in Clients, Working(c), NEW m \in Managers, m[1] = call[c].bkt
        PROVE  mpc[m] # "work"
    BY <2>1, <2>2, <2>3, LocksAssumption
  <2>4. ASSUME NEW c \in Clients, Working(c), NEW d \in Clients \ {c},
               Working(d), call[d].bkt = call[c].bkt
        PROVE  Reads(c) /\ Reads(d)
    BY <2>2, <2>4 DEF IInv, BktLocks, BktLock
  <2>5. ASSUME NEW m \in Managers, NEW n \in Managers, m # n, m[1] = n[1]
        PROVE  ~(mpc[m] = "work" /\ mpc[n] = "work")
    BY <2>1, <2>5 DEF Managers, AllBkts
  <2> QED
    BY <2>3, <2>4, <2>5 DEF BucketExclusion
<1> QED
  BY <1>1, LocksAccountedFor, PTL

\* Every path through View, Update, CreateBucket, DropBucket and Close gives back
\* every lock it took: a client at rest has none.
THEOREM CallsGiveLocksBack == Spec => []IdleHoldsNothing
<1>1. IInv => IdleHoldsNothing
  BY DEF IInv, TypeOK, DbReaders, ReadsDb, DbWriter, BktLocks, InBkt, WritesIn, InTx, InDb,
     IdleHoldsNothing
<1> QED
  BY <1>1, LocksAccountedFor, PTL

\* The lock that a manager takes with it when it leaves is one that no client needs.
THEOREM KeptLocksAreUnused == Spec => []EndedInNobodysWay
<1>1. IInv => EndedInNobodysWay
  BY DEF IInv, Passed, HasPassed, EndedAfterClose, EndedInNobodysWay
<1> QED
  BY <1>1, LocksAccountedFor, PTL
=============================================================================
