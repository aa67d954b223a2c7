------------------------------ MODULE MCDbLocks ------------------------------
(* Small instances of DbLocks: two clients, one name created once or twice. *)
EXTENDS DbLocks, TLC

CONSTANTS c1, c2, b1, b2

Transactions == [c \in Clients |-> {"View", "Update"}]

\* What each of two clients calls, to keep an instance small: one makes the bucket, the
\* other drops it or closes the database.
Several == [c \in Clients |-> IF c = c1 THEN {"View", "Update", "CreateBucket"}
                                        ELSE {"Update", "DropBucket", "Close"}]

Few == [c \in Clients |-> IF c = c1 THEN {"Update", "CreateBucket"} ELSE {"View", "Close"}]

\* The bucket objects are alike.
Alike == Permutations(Bkts)
=============================================================================
