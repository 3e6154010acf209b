------------------------------ MODULE LockFile ------------------------------
(***************************************************************************)
(* The exclusive lock file of minidb (minidb/src/lockfile.ts).  Processes  *)
(* that open one database directory compete for db.lock; a lock whose      *)
(* recorded process is dead may be taken over.                             *)
(*                                                                         *)
(* A user is one LockFile object; several may live in one process.  Every  *)
(* action is one file-system call with what follows it up to the next      *)
(* await; any of those calls may fail.  The lock file is the pid it        *)
(* records, or Absent.  Sidecar files have names of their own and matter   *)
(* only as watch registrations: one for each attempt of a user.            *)
(*                                                                         *)
(* Three things defeat the protocol and two outlive it: mishaps records    *)
(* which of them have happened.  No action reads it; the properties say    *)
(* that nothing else breaks what they promise.                             *)
(***************************************************************************)
EXTENDS Naturals, FiniteSets

CONSTANTS
  User, Proc,
  ProcOf,        \* the process each user lives in
  Absent,        \* no lock file
  Corpse,        \* the pid of a process that is already dead
  MaxAttempts    \* bound: calls of acquire() per user

ASSUME LockFileAssumption ==
  /\ ProcOf \in [User -> Proc]
  /\ {Absent, Corpse} \cap Proc = {} /\ Absent # Corpse
  /\ MaxAttempts \in Nat

VARIABLES
  lock,       \* what the lock file records
  watch,      \* .watch- files: the user, and which of its attempts
  pc,         \* where each user is
  alive,      \* processes for which process.kill(pid, 0) succeeds
  attempts,   \* calls of acquire() so far
  renewing,   \* users whose renew() has written its temporary file
  mishaps     \* history: the failures below that have happened

vars == <<lock, watch, pc, alive, attempts, renewing, mishaps>>

InAttempt == {"reap", "create", "inspect", "bid", "gate", "rename", "settle",
              "foreign", "lost"}
Holding == {"won", "held", "releasing"}     \* this.held
Pcs == {"idle", "dead"} \cup InAttempt \cup Holding

Overtaking ==
  { "abandonedBid",      \* the winning bid's user died, or could not read the lock
    "overlookedWatch",   \* claimed beside a contender of the same process, or unseen
    "strayRenewal" }     \* a renewal renamed after its user had let go
Mishaps == Overtaking \cup
  { "keptLock",          \* release() could not unlink the file and went on
    "keptWatch" }        \* acquire() could not unlink its watch and went on

Init ==
  /\ lock \in {Absent, Corpse}
  /\ watch = {}
  /\ pc = [u \in User |-> "idle"]
  /\ alive = Proc
  /\ attempts = [u \in User |-> 0]
  /\ renewing = {}
  /\ mishaps = {}

Mine(u) == lock = ProcOf[u]
Goto(u, label) == pc' = [pc EXCEPT ![u] = label]
Watch(u) == <<u, attempts[u]>>

-----------------------------------------------------------------------------
(* acquire(): the watch registration comes before everything else. *)
acquire(u) ==
  /\ pc[u] = "idle"
  /\ attempts[u] < MaxAttempts
  /\ attempts' = [attempts EXCEPT ![u] = @ + 1]
  /\ watch' = watch \cup {<<u, attempts[u] + 1>>}
  /\ Goto(u, "reap")
  /\ UNCHANGED <<lock, alive, renewing, mishaps>>

DeadWatches(p) == {w \in watch : ProcOf[w[1]] # p /\ ProcOf[w[1]] \notin alive}

\* Mutant: the watches of live contenders are removed too.
reapDeadWatches_All(u) ==
  /\ pc[u] = "reap"
  /\ watch' = {Watch(u)}
  /\ Goto(u, "create")
  /\ UNCHANGED <<lock, alive, attempts, renewing, mishaps>>

(* Nothing is reaped when the directory cannot be listed. *)
reapDeadWatches(u) ==
  /\ pc[u] = "reap"
  /\ watch' \in {watch, watch \ DeadWatches(ProcOf[u])}
  /\ Goto(u, "create")
  /\ UNCHANGED <<lock, alive, attempts, renewing, mishaps>>

(* link(2) of a complete temporary file: creates the lock or fails. *)
tryCreate(u) ==
  /\ pc[u] = "create"
  /\ \/ lock = Absent /\ lock' = ProcOf[u] /\ Goto(u, "won")
     \/ lock # Absent /\ lock' = lock /\ Goto(u, "inspect")
     \/ lock' = lock /\ Goto(u, "lost")
  /\ UNCHANGED <<watch, alive, attempts, renewing, mishaps>>

RecordsTheDead == lock # Absent /\ lock \notin alive

(* Only the lock of a dead process is bid for. *)
inspect(u) ==
  /\ pc[u] = "inspect"
  /\ \/ RecordsTheDead /\ Goto(u, "bid")
     \/ Goto(u, "lost")
  /\ UNCHANGED <<lock, watch, alive, attempts, renewing, mishaps>>

writeBid(u) ==
  /\ pc[u] = "bid"
  /\ \E label \in {"gate", "lost"} : Goto(u, label)
  /\ UNCHANGED <<lock, watch, alive, attempts, renewing, mishaps>>

(* The dead owner must still be there right before the rename. *)
gate(u) ==
  /\ pc[u] = "gate"
  /\ \/ RecordsTheDead /\ Goto(u, "rename")
     \/ Goto(u, "lost")
  /\ UNCHANGED <<lock, watch, alive, attempts, renewing, mishaps>>

\* Mutant: the bid counts as the lock at once.
renameBid_Holds(u) ==
  /\ pc[u] = "rename"
  /\ lock' = ProcOf[u] /\ Goto(u, "won")
  /\ UNCHANGED <<watch, alive, attempts, renewing, mishaps>>

(* rename(2) replaces whatever is there.  On Windows it may fail while     *)
(* somebody has the lock open: inspected and tried again, or given up.     *)
renameBid(u) ==
  /\ pc[u] = "rename"
  /\ \/ lock' = ProcOf[u] /\ Goto(u, "settle")
     \/ lock' = lock /\ \E label \in {"gate", "lost"} : Goto(u, label)
  /\ UNCHANGED <<watch, alive, attempts, renewing, mishaps>>

(* After the settle pause the bid must still be the lock.  If it cannot be *)
(* read, acquire() throws: the bid stays although nobody waits behind it.  *)
settle(u) ==
  /\ pc[u] = "settle"
  /\ \/ Mine(u) /\ Goto(u, "foreign") /\ mishaps' = mishaps
     \/ ~Mine(u) /\ Goto(u, "lost") /\ mishaps' = mishaps
     \/ Mine(u) /\ Goto(u, "lost") /\ mishaps' = mishaps \cup {"abandonedBid"}
  /\ UNCHANGED <<lock, watch, alive, attempts, renewing>>

LiveForeignWatch(u) ==
  \E w \in watch : ProcOf[w[1]] # ProcOf[u] /\ ProcOf[w[1]] \in alive

\* Mutant: watches are not consulted.
hasLiveForeignWatch_Unchecked(u) ==
  /\ pc[u] = "foreign"
  /\ Goto(u, "won")
  /\ UNCHANGED <<lock, watch, alive, attempts, renewing, mishaps>>

\* Mutant: instead of waiting, the contender gives up beside its bid.
hasLiveForeignWatch_GivesUp(u) ==
  /\ pc[u] = "foreign"
  /\ Goto(u, IF LiveForeignWatch(u) THEN "lost" ELSE "won")
  /\ UNCHANGED <<lock, watch, alive, attempts, renewing, mishaps>>

(* Nobody else may be inside acquire(), or it waits again.  The watches of *)
(* its own process do not count, and a directory that cannot be listed     *)
(* counts as one without watches.                                          *)
hasLiveForeignWatch(u) ==
  /\ pc[u] = "foreign"
  /\ \/ LiveForeignWatch(u) /\ Goto(u, "settle") /\ UNCHANGED <<watch, mishaps>>
     \/ /\ Goto(u, "won")
        /\ \/ ~LiveForeignWatch(u) /\ watch' = watch \ DeadWatches(ProcOf[u])
           \/ watch' = watch
        /\ mishaps' = IF \E v \in User \ {u} : pc[v] \in InAttempt
                         THEN mishaps \cup {"overlookedWatch"}
                         ELSE mishaps
  /\ UNCHANGED <<lock, alive, attempts, renewing>>

\* Mutant: the loser leaves its watch registration behind.
unlinkWatch_WinnerOnly(u) ==
  /\ pc[u] \in {"won", "lost"}
  /\ watch' = IF pc[u] = "won" THEN watch \ {Watch(u)} ELSE watch
  /\ Goto(u, IF pc[u] = "won" THEN "held" ELSE "idle")
  /\ UNCHANGED <<lock, alive, attempts, renewing, mishaps>>

(* finally: acquire() removes its watch, if it can, and returns. *)
unlinkWatch(u) ==
  /\ pc[u] \in {"won", "lost"}
  /\ \/ watch' = watch \ {Watch(u)} /\ mishaps' = mishaps
     \/ watch' = watch /\ mishaps' = mishaps \cup {"keptWatch"}
  /\ Goto(u, IF pc[u] = "won" THEN "held" ELSE "idle")
  /\ UNCHANGED <<lock, alive, attempts, renewing>>

-----------------------------------------------------------------------------
(* release() looks whether the file is still its own, then unlinks it; if  *)
(* it cannot look, it throws and still holds.  ShardHandle.close() has     *)
(* stopped the renewal timer, but waits for no renewal under way.          *)
releaseInspect(u) ==
  /\ pc[u] = "held"
  /\ Goto(u, IF Mine(u) THEN "releasing" ELSE "idle")
  /\ UNCHANGED <<lock, watch, alive, attempts, renewing, mishaps>>

(* An error of unlink is swallowed. *)
releaseUnlink(u) ==
  /\ pc[u] = "releasing"
  /\ Goto(u, "idle")
  /\ \/ lock' = Absent /\ mishaps' = mishaps
     \/ /\ lock # Absent /\ lock' = lock
        /\ mishaps' = mishaps \cup {"keptLock"}
  /\ UNCHANGED <<watch, alive, attempts, renewing>>

(* renew(): the temporary file is written while the lock is held, and      *)
(* renamed over the lock, if at all, whenever that write has finished.     *)
renewWrite(u) ==
  /\ pc[u] = "held" /\ u \notin renewing
  /\ renewing' = renewing \cup {u}
  /\ UNCHANGED <<lock, watch, pc, alive, attempts, mishaps>>

renewRename(u) ==
  /\ u \in renewing
  /\ renewing' = renewing \ {u}
  /\ \/ /\ lock' = ProcOf[u]
        /\ mishaps' = IF pc[u] \in {"held", "releasing"}
                         THEN mishaps ELSE mishaps \cup {"strayRenewal"}
     \/ UNCHANGED <<lock, mishaps>>
  /\ UNCHANGED <<watch, pc, alive, attempts>>

(* A process dies; its sidecar files stay. *)
die(p) ==
  /\ p \in alive
  /\ alive' = alive \ {p}
  /\ pc' = [u \in User |-> IF ProcOf[u] = p THEN "dead" ELSE pc[u]]
  /\ renewing' = {u \in renewing : ProcOf[u] # p}
  /\ mishaps' = IF \E u \in User : pc[u] \in {"settle", "foreign"} /\ ProcOf[u] = p /\ Mine(u)
                   THEN mishaps \cup {"abandonedBid"} ELSE mishaps
  /\ UNCHANGED <<lock, watch, attempts>>

Attempt(u) ==
  \/ reapDeadWatches(u) \/ tryCreate(u) \/ inspect(u) \/ writeBid(u) \/ gate(u)
  \/ renameBid(u) \/ settle(u) \/ hasLiveForeignWatch(u) \/ unlinkWatch(u)

Next ==
  \/ \E u \in User : acquire(u) \/ Attempt(u)
  \/ \E u \in User : releaseInspect(u) \/ releaseUnlink(u)
  \/ \E u \in User : renewWrite(u) \/ renewRename(u)
  \/ \E p \in Proc : die(p)

(* An await returns and a rename that keeps failing is given up (attempt   *)
(* < 50); nobody has to acquire, release or die.                           *)
Fairness ==
  \A u \in User : /\ WF_vars(Attempt(u))
                  /\ SF_vars(pc[u] = "rename" /\ renameBid(u) /\ pc'[u] # "gate")

Spec == Init /\ [][Next]_vars /\ Fairness

-----------------------------------------------------------------------------
(* The types, and: the dead are dead, and a contender is visible to the    *)
(* others from its first step to its last.                                 *)
LockTypeOK ==
  /\ lock \in Proc \cup {Absent, Corpse}
  /\ watch \subseteq User \X (1..MaxAttempts)
  /\ renewing \subseteq User /\ alive \subseteq Proc /\ mishaps \subseteq Mishaps
  /\ pc \in [User -> Pcs] /\ attempts \in [User -> 0..MaxAttempts]
  /\ \A u \in User : pc[u] = "dead" <=> ProcOf[u] \notin alive
  /\ \A u \in User : pc[u] \in InAttempt \cup {"won"} => Watch(u) \in watch

(* acquire(): at most one user believes to hold the lock, in whatever      *)
(* order several of them find the same dead owner, links, renames and      *)
(* unlinks fail and processes die, until a contender disappears beside its *)
(* winning bid, a watch is overlooked or a stray renewal overwrites the    *)
(* lock.                                                                   *)
MutualExclusion ==
  mishaps \cap Overtaking = {} =>
    \A u, v \in User : pc[u] \in Holding /\ pc[v] \in Holding => u = v

(* inspect(): a lock that records a live process is respected for ever, so *)
(* that process must have a user who holds it or is about to decide.  What *)
(* breaks this is a bid left behind, a stray renewal and an unlink that    *)
(* fails in release(); not even two holders at once do.                    *)
LockHasAnOwner ==
  mishaps \cap {"abandonedBid", "strayRenewal", "keptLock"} = {} /\ lock \in alive =>
    \E u \in User : ProcOf[u] = lock /\ pc[u] \in Holding \cup {"settle", "foreign"}

(* The settle loop: contenders wait for each other's watches, but never    *)
(* all of them for ever, unless a watch could not be removed.              *)
AttemptEnds ==
  \A u \in User : pc[u] \in InAttempt ~> pc[u] \notin InAttempt \/ "keptWatch" \in mishaps

(* What the comment on the watch check says of it (lockfile.ts:155-158):   *)
(* "exactly-one a construction, not a timing bet".                         *)
ExactlyOneHolder ==
  \A u, v \in User : pc[u] \in Holding /\ pc[v] \in Holding => u = v
=============================================================================
