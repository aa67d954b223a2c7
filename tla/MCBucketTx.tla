----------------------------- MODULE MCBucketTx ------------------------------
(***************************************************************************)
(* Small instances of BucketTx.  In MCMeeting, and in the smaller MCMixed, *)
(* entries of different keys share deadlines and field values, some have   *)
(* no field and some a word where a number is expected; in MCApart each    *)
(* key has deadlines and numbers of its own.                               *)
(***************************************************************************)
EXTENDS BucketTx, TLC

CONSTANTS t1, t2, p1, one, two, word

Entry(k, exp, inv, f, coords) ==
  [k |-> k, exp |-> exp, inv |-> inv, field |-> [p \in {p1} |-> f],
   coords |-> coords]

MCPatterns == {p1}
MCFieldValues == {one, two, word}
MCRank == one :> 1 @@ two :> 2 @@ word :> 0 @@ NoField :> 0

MCMeeting ==
  {Entry(1, 0, Never, one, TRUE),
   Entry(1, 1, 1, NoField, FALSE),
   Entry(2, 0, 1, one, TRUE),
   Entry(3, 1, Never, word, FALSE)}

MCMixed ==
  {Entry(1, 0, Never, one, TRUE),
   Entry(2, 0, 0, one, TRUE),
   Entry(2, Never, 1, NoField, FALSE)}

MCApart ==
  {Entry(1, 0, Never, one, TRUE),
   Entry(1, 0, 1, one, FALSE),
   Entry(2, 2, Never, two, TRUE),
   Entry(2, 1, 0, two, TRUE)}
=============================================================================
