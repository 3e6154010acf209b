----------------------------- MODULE MCLockFile -----------------------------
(* Instances of LockFile for TLC: pids are numbers, 0 is the dead owner. *)
EXTENDS LockFile

OneUserEach == [u \in User |-> u]
TwoUsersInOne == [u \in User |-> IF u = 1 THEN 1 ELSE 2]
=============================================================================
