--------------------------- MODULE LockFileProofs ---------------------------
(***************************************************************************)
(* Mutual exclusion of the lock file for any number of users, in processes *)
(* of their own or in shared ones, whose calls fail and whose processes    *)
(* die anywhere: what the protocol promises holds until one of the three   *)
(* mishaps that defeat it has happened.                                    *)
(***************************************************************************)
EXTENDS LockFile, TLAPS

Undisturbed == mishaps \cap Overtaking = {}

Bidding == {"rename", "settle", "foreign"}
Placed == {"settle", "foreign"}       \* the bid has been renamed into place

(* The inductive invariant.  A holder's pid is in the file, and no one who *)
(* may still rename a bid is left; a bid is only renamed over a file; and  *)
(* while bids wait to settle, the file records one of them.                *)
HolderInFile == Undisturbed => \A u \in User : pc[u] \in Holding => Mine(u)
HolderAlone ==
  Undisturbed =>
    \A u, v \in User : pc[u] \in Holding /\ pc[v] \in Bidding => FALSE
BidOverFile == Undisturbed => \A u \in User : pc[u] \in Bidding => lock # Absent
PlacedInFile ==
  Undisturbed =>
    \A u \in User : pc[u] \in Placed => \E v \in User : pc[v] \in Placed /\ Mine(v)

LockInv ==
  /\ LockTypeOK /\ MutualExclusion /\ HolderInFile /\ HolderAlone
  /\ BidOverFile /\ PlacedInFile /\ LockHasAnOwner

USE DEF Goto, Mine, Watch

\* No user holds, bids or renews anything at the start.
LEMMA InitLockInv == Init => LockInv
<1> SUFFICES ASSUME Init PROVE LockInv
  OBVIOUS
<1>1. /\ pc = [u \in User |-> "idle"] /\ renewing = {} /\ watch = {} /\ alive = Proc
      /\ lock \in {Absent, Corpse} /\ attempts = [u \in User |-> 0] /\ mishaps = {}
  BY DEF Init
<1>2. \A u \in User : pc[u] = "idle"
  BY <1>1
<1>3. lock \notin alive
  BY <1>1, LockFileAssumption
<1>4. LockTypeOK
  <2>1. attempts \in [User -> 0..MaxAttempts]
    BY <1>1, LockFileAssumption
  <2>2. pc \in [User -> Pcs]
    BY <1>1 DEF Pcs
  <2>3. \A u \in User : ProcOf[u] \in alive
    BY <1>1, LockFileAssumption
  <2> QED
    BY <1>1, <1>2, <2>1, <2>2, <2>3 DEF LockTypeOK, InAttempt
<1> QED
  BY <1>1, <1>2, <1>3, <1>4
     DEF LockInv, MutualExclusion, HolderInFile, HolderAlone, BidOverFile,
         PlacedInFile, LockHasAnOwner, Holding, Bidding, Placed

\* Every step keeps the invariant: one step per action, and in it one per
\* conjunct the action can disturb and one for the others.
LEMMA NextLockInv ==
  ASSUME LockInv, [Next]_vars
  PROVE  LockInv'
<1> USE LockFileAssumption
    DEF LockInv, InAttempt, Holding, Pcs, Bidding, Placed, Mishaps, Overtaking
<1>1. ASSUME NEW u \in User, acquire(u) PROVE LockInv'
  <2>1. LockTypeOK'
    BY <1>1
       DEF acquire, LockTypeOK
  <2>2. (MutualExclusion /\ HolderInFile /\ HolderAlone
       /\ BidOverFile /\ PlacedInFile /\ LockHasAnOwner)'
    BY <1>1
       DEF acquire, LockTypeOK, MutualExclusion, HolderInFile, HolderAlone,
           BidOverFile, PlacedInFile, LockHasAnOwner, Undisturbed
  <2> QED
    BY <2>1, <2>2
<1>2. ASSUME NEW u \in User, reapDeadWatches(u) PROVE LockInv'
  <2>1. LockTypeOK'
    BY <1>2
       DEF reapDeadWatches, LockTypeOK, DeadWatches
  <2>2. (MutualExclusion /\ HolderInFile /\ HolderAlone
       /\ BidOverFile /\ PlacedInFile /\ LockHasAnOwner)'
    BY <1>2
       DEF reapDeadWatches, LockTypeOK, MutualExclusion, HolderInFile,
           HolderAlone, BidOverFile, PlacedInFile, LockHasAnOwner, Undisturbed
  <2> QED
    BY <2>1, <2>2
<1>3. ASSUME NEW u \in User, tryCreate(u) PROVE LockInv'
  <2>1. LockTypeOK'
    BY <1>3
       DEF tryCreate, LockTypeOK
  <2>2. MutualExclusion'
    BY <1>3
       DEF tryCreate, LockTypeOK, MutualExclusion, HolderInFile, Undisturbed
  <2>3. (HolderInFile /\ HolderAlone)'
    BY <1>3
       DEF tryCreate, LockTypeOK, HolderInFile, HolderAlone, BidOverFile,
           Undisturbed
  <2>4. (BidOverFile /\ PlacedInFile)'
    BY <1>3
       DEF tryCreate, LockTypeOK, BidOverFile, PlacedInFile, Undisturbed
  <2>5. LockHasAnOwner'
    BY <1>3
       DEF tryCreate, LockTypeOK, LockHasAnOwner, Undisturbed
  <2> QED
    BY <2>1, <2>2, <2>3, <2>4, <2>5
<1>4. ASSUME NEW u \in User, inspect(u) PROVE LockInv'
  <2>1. LockTypeOK'
    BY <1>4
       DEF inspect, LockTypeOK
  <2>2. (MutualExclusion /\ HolderInFile /\ HolderAlone
       /\ BidOverFile /\ PlacedInFile /\ LockHasAnOwner)'
    BY <1>4
       DEF inspect, LockTypeOK, MutualExclusion, HolderInFile, HolderAlone,
           BidOverFile, PlacedInFile, LockHasAnOwner, Undisturbed
  <2> QED
    BY <2>1, <2>2
<1>5. ASSUME NEW u \in User, writeBid(u) PROVE LockInv'
  <2>1. LockTypeOK'
    BY <1>5
       DEF writeBid, LockTypeOK
  <2>2. (MutualExclusion /\ HolderInFile /\ HolderAlone
       /\ BidOverFile /\ PlacedInFile /\ LockHasAnOwner)'
    BY <1>5
       DEF writeBid, LockTypeOK, MutualExclusion, HolderInFile, HolderAlone,
           BidOverFile, PlacedInFile, LockHasAnOwner, Undisturbed
  <2> QED
    BY <2>1, <2>2
<1>6. ASSUME NEW u \in User, gate(u) PROVE LockInv'
  <2>1. LockTypeOK'
    BY <1>6
       DEF gate, LockTypeOK
  <2>2. HolderAlone'
    BY <1>6
       DEF gate, LockTypeOK, HolderAlone, HolderInFile, RecordsTheDead,
           Undisturbed
  <2>3. BidOverFile'
    BY <1>6
       DEF gate, LockTypeOK, BidOverFile, RecordsTheDead, Undisturbed
  <2>4. (MutualExclusion /\ HolderInFile /\ PlacedInFile /\ LockHasAnOwner)'
    BY <1>6
       DEF gate, LockTypeOK, MutualExclusion, HolderInFile, PlacedInFile,
           LockHasAnOwner, Undisturbed
  <2> QED
    BY <2>1, <2>2, <2>3, <2>4
<1>7. ASSUME NEW u \in User, renameBid(u) PROVE LockInv'
  <2>1. LockTypeOK'
    BY <1>7
       DEF renameBid, LockTypeOK
  <2>2. (MutualExclusion /\ HolderAlone)'
    BY <1>7
       DEF renameBid, LockTypeOK, MutualExclusion, HolderAlone, Undisturbed
  <2>3. HolderInFile'
    BY <1>7
       DEF renameBid, LockTypeOK, HolderInFile, HolderAlone, Undisturbed
  <2>4. (BidOverFile /\ PlacedInFile)'
    BY <1>7
       DEF renameBid, LockTypeOK, BidOverFile, PlacedInFile, Undisturbed
  <2>5. LockHasAnOwner'
    BY <1>7
       DEF renameBid, LockTypeOK, LockHasAnOwner, Undisturbed
  <2> QED
    BY <2>1, <2>2, <2>3, <2>4, <2>5
<1>8. ASSUME NEW u \in User, settle(u) PROVE LockInv'
  <2>1. LockTypeOK'
    BY <1>8
       DEF settle, LockTypeOK
  <2>2. PlacedInFile'
    BY <1>8
       DEF settle, LockTypeOK, PlacedInFile, Undisturbed
  <2>3. LockHasAnOwner'
    BY <1>8
       DEF settle, LockTypeOK, LockHasAnOwner, Undisturbed
  <2>4. (MutualExclusion /\ HolderInFile /\ HolderAlone /\ BidOverFile)'
    BY <1>8
       DEF settle, LockTypeOK, MutualExclusion, HolderInFile, HolderAlone,
           BidOverFile, Undisturbed
  <2> QED
    BY <2>1, <2>2, <2>3, <2>4
<1>9. ASSUME NEW u \in User, hasLiveForeignWatch(u) PROVE LockInv'
  <2>1. LockTypeOK'
    <3>1. /\ pc' \in [User -> Pcs] /\ mishaps' \subseteq Mishaps
          /\ \A v \in User : pc[v] # pc'[v] => v = u /\ pc'[v] \in {"settle", "won"}
      BY <1>9 DEF hasLiveForeignWatch, LockTypeOK
    <3>2. /\ watch' \subseteq watch
          /\ \A w \in watch : ProcOf[w[1]] \in alive => w \in watch'
      BY <1>9 DEF hasLiveForeignWatch, DeadWatches
    <3>3. \A v \in User : ProcOf[v] \in alive /\ Watch(v) \in watch => Watch(v) \in watch'
      BY <3>2
    <3>4. pc[u] = "foreign" /\ UNCHANGED <<lock, alive, attempts, renewing>>
      BY <1>9 DEF hasLiveForeignWatch
    <3> QED
      BY <3>1, <3>2, <3>3, <3>4 DEF LockTypeOK
  <2>2. MutualExclusion'
    BY <1>9
       DEF hasLiveForeignWatch, LockTypeOK, MutualExclusion, HolderAlone,
           Undisturbed
  <2>3. HolderInFile'
    BY <1>9
       DEF hasLiveForeignWatch, LockTypeOK, HolderInFile, PlacedInFile,
           Undisturbed
  <2>4. HolderAlone'
    BY <1>9
       DEF hasLiveForeignWatch, LockTypeOK, HolderAlone, Undisturbed
  <2>5. (PlacedInFile /\ BidOverFile)'
    BY <1>9
       DEF hasLiveForeignWatch, LockTypeOK, PlacedInFile, BidOverFile,
           Undisturbed
  <2>6. LockHasAnOwner'
    BY <1>9
       DEF hasLiveForeignWatch, LockTypeOK, LockHasAnOwner, Undisturbed
  <2> QED
    BY <2>1, <2>2, <2>3, <2>4, <2>5, <2>6
<1>10. ASSUME NEW u \in User, unlinkWatch(u) PROVE LockInv'
  <2>1. LockTypeOK'
    BY <1>10
       DEF unlinkWatch, LockTypeOK
  <2>2. (MutualExclusion /\ HolderInFile /\ HolderAlone
       /\ BidOverFile /\ PlacedInFile /\ LockHasAnOwner)'
    BY <1>10
       DEF unlinkWatch, LockTypeOK, MutualExclusion, HolderInFile,
           HolderAlone, BidOverFile, PlacedInFile, LockHasAnOwner, Undisturbed
  <2> QED
    BY <2>1, <2>2
<1>11. ASSUME NEW u \in User, releaseInspect(u) PROVE LockInv'
  <2>1. LockTypeOK'
    BY <1>11
       DEF releaseInspect, LockTypeOK
  <2>2. (MutualExclusion /\ HolderInFile
       /\ HolderAlone /\ BidOverFile /\ PlacedInFile)'
    BY <1>11
       DEF releaseInspect, LockTypeOK, MutualExclusion, HolderInFile,
           HolderAlone, BidOverFile, PlacedInFile, Undisturbed
  <2>3. LockHasAnOwner'
    BY <1>11
       DEF releaseInspect, LockTypeOK, LockHasAnOwner, Undisturbed
  <2> QED
    BY <2>1, <2>2, <2>3
<1>12. ASSUME NEW u \in User, releaseUnlink(u) PROVE LockInv'
  <2>1. LockTypeOK'
    BY <1>12
       DEF releaseUnlink, LockTypeOK
  <2>2. (MutualExclusion /\ HolderAlone)'
    BY <1>12
       DEF releaseUnlink, LockTypeOK, MutualExclusion, HolderAlone,
           Undisturbed
  <2>3. HolderInFile'
    BY <1>12
       DEF releaseUnlink, LockTypeOK, HolderInFile, MutualExclusion,
           Undisturbed
  <2>4. (BidOverFile /\ PlacedInFile)'
    BY <1>12
       DEF releaseUnlink, LockTypeOK, BidOverFile, PlacedInFile, HolderAlone,
           Undisturbed
  <2>5. LockHasAnOwner'
    BY <1>12
       DEF releaseUnlink, LockTypeOK, LockHasAnOwner, Undisturbed
  <2> QED
    BY <2>1, <2>2, <2>3, <2>4, <2>5
<1>13. ASSUME NEW u \in User, renewWrite(u) PROVE LockInv'
  <2>1. LockTypeOK'
    BY <1>13
       DEF renewWrite, LockTypeOK
  <2>2. (MutualExclusion /\ HolderInFile /\ HolderAlone
       /\ BidOverFile /\ PlacedInFile /\ LockHasAnOwner)'
    BY <1>13
       DEF renewWrite, LockTypeOK, MutualExclusion, HolderInFile, HolderAlone,
           BidOverFile, PlacedInFile, LockHasAnOwner, Undisturbed
  <2> QED
    BY <2>1, <2>2
<1>14. ASSUME NEW u \in User, renewRename(u) PROVE LockInv'
  <2>1. LockTypeOK'
    BY <1>14
       DEF renewRename, LockTypeOK
  <2>2. (MutualExclusion /\ HolderAlone)'
    BY <1>14
       DEF renewRename, LockTypeOK, MutualExclusion, HolderAlone, Undisturbed
  <2>3. HolderInFile'
    BY <1>14
       DEF renewRename, LockTypeOK, HolderInFile, MutualExclusion, Undisturbed
  <2>4. (BidOverFile /\ PlacedInFile)'
    BY <1>14
       DEF renewRename, LockTypeOK, BidOverFile, PlacedInFile, HolderAlone,
           Undisturbed
  <2>5. LockHasAnOwner'
    BY <1>14
       DEF renewRename, LockTypeOK, LockHasAnOwner, Undisturbed
  <2> QED
    BY <2>1, <2>2, <2>3, <2>4, <2>5
<1>15. ASSUME NEW p \in Proc, die(p) PROVE LockInv'
  <2>1. LockTypeOK'
    BY <1>15
       DEF die, LockTypeOK
  <2>2. PlacedInFile'
    BY <1>15
       DEF die, LockTypeOK, PlacedInFile, Undisturbed
  <2>3. LockHasAnOwner'
    BY <1>15
       DEF die, LockTypeOK, LockHasAnOwner, Undisturbed
  <2>4. (MutualExclusion /\ HolderInFile /\ HolderAlone /\ BidOverFile)'
    BY <1>15
       DEF die, LockTypeOK, MutualExclusion, HolderInFile, HolderAlone,
           BidOverFile, Undisturbed
  <2> QED
    BY <2>1, <2>2, <2>3, <2>4
<1>16. CASE UNCHANGED vars
  BY <1>16 DEF vars, LockTypeOK, MutualExclusion, HolderInFile, HolderAlone,
               BidOverFile, PlacedInFile, LockHasAnOwner, Undisturbed
<1> QED
  BY <1>1, <1>2, <1>3, <1>4, <1>5, <1>6, <1>7, <1>8, <1>9, <1>10, <1>11, <1>12,
     <1>13, <1>14, <1>15, <1>16 DEF Next, Attempt

\* The invariant holds throughout.
LEMMA LockInvariance == Spec => []LockInv
  BY InitLockInv, NextLockInv, PTL DEF Spec

-----------------------------------------------------------------------------
(* Every state has the types LockTypeOK gives, the dead are dead, and a    *)
(* contender's watch file is there for as long as it is inside acquire().  *)
THEOREM LockTypeCorrect == Spec => []LockTypeOK
<1>1. LockInv => LockTypeOK
  BY DEF LockInv
<1> QED
  BY <1>1, LockInvariance, PTL

(* acquire(): however many users find the same dead owner, in whatever     *)
(* order their links, renames and unlinks land or fail, and whoever dies,  *)
(* at most one holds the lock, unless a contender has disappeared beside   *)
(* its winning bid, a watch has been overlooked or a stray renewal has     *)
(* been renamed over the lock.                                             *)
THEOREM LockMutualExclusion == Spec => []MutualExclusion
<1>1. LockInv => MutualExclusion
  BY DEF LockInv
<1> QED
  BY <1>1, LockInvariance, PTL

(* inspect(): but for a bid left behind, a stray renewal and an unlink     *)
(* that fails in release(), a lock file that names a live process is       *)
(* always that of a user who holds the lock or is about to decide, so      *)
(* nobody is kept waiting for a lock that no one will release.             *)
THEOREM LockOwned == Spec => []LockHasAnOwner
<1>1. LockInv => LockHasAnOwner
  BY DEF LockInv
<1> QED
  BY <1>1, LockInvariance, PTL
=============================================================================
