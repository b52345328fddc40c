-------------------------------- MODULE Rcu --------------------------------
(***************************************************************************)
(* Epoch-based reclamation (ptc/rcu.c).                                    *)
(*                                                                         *)
(* A reader publishes the global epoch in its own slot for the time of its *)
(* read side.  A writer unlinks an object and retires it into the bucket   *)
(* of the current epoch.  xtc_rcu_synchronize moves the epoch on, waits    *)
(* until no slot shows an epoch that is not newer than the old one, and    *)
(* frees the bucket of two epochs back.                                    *)
(*                                                                         *)
(* One action is one atomic access, or one critical section of __rcu.lock. *)
(* The slots are registered from the start: a slot registered later holds  *)
(* zero until its reader publishes, and the scan skips zeros.  The epoch   *)
(* is bounded by MaxEpoch, nesting by MaxNest.                             *)
(***************************************************************************)
EXTENDS Integers, FiniteSets

CONSTANTS Readers, Syncers, Objects, MaxEpoch, MaxNest, None

ASSUME RcuConstants ==
  /\ MaxEpoch \in Nat
  /\ MaxNest \in Nat \ {0}
  /\ None \notin Objects

VARIABLES
  epoch,      \* __rcu.epoch
  buckets,    \* __rcu.buckets: the objects waiting in each
  active,     \* rcu_tls.active_epoch of every reader's slot
  nest,       \* rcu_tls.nest
  rpc,        \* "out", "publish" (epoch loaded, not yet stored) or "in"
  re,         \* the epoch the reader loaded
  holds,      \* the object the reader has loaded a pointer to, or None
  ostate,     \* "linked", "unlinked", "retired" or "freed"
  spc,        \* "idle", "store", "scan", "reclaim" or "free"
  old,        \* the epoch the synchronizer loaded
  left,       \* the slots the current pass has still to read
  toFree,     \* the list taken from the bucket
  stamp,      \* history: the epoch an object was retired in
  inside      \* history: per synchronizer, the read sides it found open

vars == <<epoch, buckets, active, nest, rpc, re, holds, ostate, spc, old,
          left, toFree, stamp, inside>>

readerVars == <<active, nest, rpc, re, holds>>
objectVars == <<ostate, stamp>>
syncVars == <<spc, old, left, toFree>>

XTC_RCU_NBUCKETS == 4
XTC_RCU_EPOCH_START == 1

Bucket(e) == e % XTC_RCU_NBUCKETS
Buckets == 0 .. XTC_RCU_NBUCKETS - 1

Init ==
  /\ epoch = XTC_RCU_EPOCH_START
  /\ buckets = [b \in Buckets |-> {}]
  /\ active = [r \in Readers |-> 0]
  /\ nest = [r \in Readers |-> 0]
  /\ rpc = [r \in Readers |-> "out"]
  /\ re = [r \in Readers |-> 0]
  /\ holds = [r \in Readers |-> None]
  /\ ostate = [o \in Objects |-> "linked"]
  /\ spc = [s \in Syncers |-> "idle"]
  /\ old = [s \in Syncers |-> 0]
  /\ left = [s \in Syncers |-> {}]
  /\ toFree = [s \in Syncers |-> {}]
  /\ stamp = [o \in Objects |-> 0]
  /\ inside = [s \in Syncers |-> {}]

----------------------------------------------------------------------------
(* Readers.                                                                *)

\* The outermost xtc_rcu_read_lock: the load of the epoch.
ReadLock(r) ==
  /\ rpc[r] = "out"
  /\ nest' = [nest EXCEPT ![r] = 1]
  /\ re' = [re EXCEPT ![r] = epoch]
  /\ rpc' = [rpc EXCEPT ![r] = "publish"]
  /\ UNCHANGED <<epoch, buckets, active, holds, objectVars, syncVars, inside>>

\* ... and the store into the slot.
Publish(r) ==
  /\ rpc[r] = "publish"
  /\ active' = [active EXCEPT ![r] = re[r]]
  /\ rpc' = [rpc EXCEPT ![r] = "in"]
  /\ UNCHANGED <<epoch, buckets, nest, re, holds, objectVars, syncVars, inside>>

\* A nested xtc_rcu_read_lock only counts.
ReadLockNested(r) ==
  /\ rpc[r] = "in" /\ nest[r] < MaxNest
  /\ nest' = [nest EXCEPT ![r] = nest[r] + 1]
  /\ UNCHANGED <<epoch, buckets, active, rpc, re, holds, objectVars, syncVars,
                 inside>>

\* The reader follows the shared pointer to an object that is still linked.
Load(r, o) ==
  /\ rpc[r] = "in"
  /\ ostate[o] = "linked"
  /\ holds' = [holds EXCEPT ![r] = o]
  /\ UNCHANGED <<epoch, buckets, active, nest, rpc, re, objectVars, syncVars,
                 inside>>

\* A mutant: every unlock clears the slot, the nested one included.
ReadUnlockAny(r) ==
  /\ rpc[r] = "in"
  /\ nest' = [nest EXCEPT ![r] = nest[r] - 1]
  /\ active' = [active EXCEPT ![r] = 0]
  /\ IF nest[r] = 1
     THEN /\ rpc' = [rpc EXCEPT ![r] = "out"]
          /\ holds' = [holds EXCEPT ![r] = None]
          /\ inside' = [s \in Syncers |-> inside[s] \ {r}]
     ELSE UNCHANGED <<rpc, holds, inside>>
  /\ UNCHANGED <<epoch, buckets, re, objectVars, syncVars>>

\* A mutant: the count is tested before it is taken down.
ReadUnlockLate(r) ==
  /\ rpc[r] = "in"
  /\ nest' = [nest EXCEPT ![r] = nest[r] - 1]
  /\ IF nest[r] = 0
     THEN /\ active' = [active EXCEPT ![r] = 0]
          /\ rpc' = [rpc EXCEPT ![r] = "out"]
          /\ holds' = [holds EXCEPT ![r] = None]
          /\ inside' = [s \in Syncers |-> inside[s] \ {r}]
     ELSE UNCHANGED <<active, rpc, holds, inside>>
  /\ UNCHANGED <<epoch, buckets, re, objectVars, syncVars>>

\* xtc_rcu_read_unlock: the outermost one clears the slot, and its caller
\* has let go of the pointer by then.
ReadUnlock(r) ==
  /\ rpc[r] = "in"
  /\ nest' = [nest EXCEPT ![r] = nest[r] - 1]
  /\ IF nest[r] = 1
     THEN /\ active' = [active EXCEPT ![r] = 0]
          /\ rpc' = [rpc EXCEPT ![r] = "out"]
          /\ holds' = [holds EXCEPT ![r] = None]
          /\ inside' = [s \in Syncers |-> inside[s] \ {r}]
     ELSE UNCHANGED <<active, rpc, holds, inside>>
  /\ UNCHANGED <<epoch, buckets, re, objectVars, syncVars>>

----------------------------------------------------------------------------
(* Writers.                                                                *)

\* A writer takes the object out of the shared structure.
Unlink(o) ==
  /\ ostate[o] = "linked"
  /\ ostate' = [ostate EXCEPT ![o] = "unlinked"]
  /\ UNCHANGED <<epoch, buckets, readerVars, syncVars, stamp, inside>>

\* xtc_rcu_retire: the epoch is loaded and the object filed under the lock.
Retire(o) ==
  /\ ostate[o] = "unlinked"
  /\ ostate' = [ostate EXCEPT ![o] = "retired"]
  /\ buckets' = [buckets EXCEPT ![Bucket(epoch)] = @ \cup {o}]
  /\ stamp' = [stamp EXCEPT ![o] = epoch]
  /\ UNCHANGED <<epoch, readerVars, syncVars, inside>>

----------------------------------------------------------------------------
(* xtc_rcu_synchronize.                                                    *)

SyncLoad(s) ==
  /\ spc[s] = "idle" /\ epoch < MaxEpoch
  /\ old' = [old EXCEPT ![s] = epoch]
  /\ spc' = [spc EXCEPT ![s] = "store"]
  /\ inside' = [inside EXCEPT ![s] = {r \in Readers : rpc[r] = "in"}]
  /\ UNCHANGED <<epoch, buckets, readerVars, objectVars, left, toFree>>

\* A plain store of the value loaded before plus one.
SyncStore(s) ==
  /\ spc[s] = "store"
  /\ epoch' = old[s] + 1
  /\ left' = [left EXCEPT ![s] = Readers]
  /\ spc' = [spc EXCEPT ![s] = "scan"]
  /\ UNCHANGED <<buckets, readerVars, objectVars, old, toFree, inside>>

\* A mutant: the wait takes in the readers of the new epoch as well.
StillInNew(s, a) == a # 0 /\ a <= old[s] + 1

\* A mutant: the wait is for strictly older epochs only.
StillInOldStrict(s, a) == a # 0 /\ a < old[s]

StillInOld(s, a) == a # 0 /\ a <= old[s]

\* One slot of a pass over the registry.  A slot still in the old epoch
\* ends the pass; the next one starts from the first slot after a yield.
SyncScan(s) ==
  /\ spc[s] = "scan"
  /\ \E r \in left[s] :
       left' = [left EXCEPT ![s] =
                  IF StillInOld(s, active[r]) THEN Readers ELSE @ \ {r}]
  /\ UNCHANGED <<epoch, buckets, readerVars, objectVars, spc, old, toFree,
                 inside>>

\* A pass that met none of them ends the wait.
SyncDrained(s) ==
  /\ spc[s] = "scan" /\ left[s] = {}
  /\ spc' = [spc EXCEPT ![s] = "reclaim"]
  /\ UNCHANGED <<epoch, buckets, readerVars, objectVars, old, left, toFree,
                 inside>>

\* A mutant: the bucket of three epochs back is taken.
SyncReclaimLate(s) ==
  /\ spc[s] = "reclaim"
  /\ toFree' = [toFree EXCEPT ![s] = buckets[Bucket(old[s] + 2)]]
  /\ buckets' = [buckets EXCEPT ![Bucket(old[s] + 2)] = {}]
  /\ spc' = [spc EXCEPT ![s] = "free"]
  /\ UNCHANGED <<epoch, readerVars, objectVars, old, left, inside>>

\* The bucket of epoch new_e - 2 is taken under the lock.
SyncReclaim(s) ==
  /\ spc[s] = "reclaim"
  /\ toFree' = [toFree EXCEPT ![s] = buckets[Bucket(old[s] - 1)]]
  /\ buckets' = [buckets EXCEPT ![Bucket(old[s] - 1)] = {}]
  /\ spc' = [spc EXCEPT ![s] = "free"]
  /\ UNCHANGED <<epoch, readerVars, objectVars, old, left, inside>>

\* One callback of the list.
SyncFree(s, o) ==
  /\ spc[s] = "free" /\ o \in toFree[s]
  /\ ostate' = [ostate EXCEPT ![o] = "freed"]
  /\ toFree' = [toFree EXCEPT ![s] = @ \ {o}]
  /\ UNCHANGED <<epoch, buckets, readerVars, spc, old, left, stamp, inside>>

\* The end of the list returns to the caller.
SyncReturn(s) ==
  /\ spc[s] = "free" /\ toFree[s] = {}
  /\ spc' = [spc EXCEPT ![s] = "idle"]
  /\ UNCHANGED <<epoch, buckets, readerVars, objectVars, old, left, toFree,
                 inside>>

----------------------------------------------------------------------------
ReaderStep(r) ==
  \/ ReadLock(r) \/ Publish(r) \/ ReadLockNested(r) \/ ReadUnlock(r)
  \/ \E o \in Objects : Load(r, o)

WriterStep(o) == Unlink(o) \/ Retire(o)

SyncStep(s) ==
  \/ SyncLoad(s) \/ SyncStore(s) \/ SyncScan(s) \/ SyncDrained(s)
  \/ SyncReclaim(s) \/ SyncReturn(s)
  \/ \E o \in Objects : SyncFree(s, o)

Next ==
  \/ \E r \in Readers : ReaderStep(r)
  \/ \E o \in Objects : WriterStep(o)
  \/ \E s \in Syncers : SyncStep(s)

Spec == Init /\ [][Next]_vars

\* Threads run, and a caller ends its read side: the outermost unlock is
\* strongly fair because nested sections may come and go before it.
Fairness ==
  /\ \A r \in Readers : /\ WF_vars(Publish(r))
                        /\ WF_vars(ReadUnlock(r))
                        /\ SF_vars(nest[r] = 1 /\ ReadUnlock(r))
  /\ \A s \in Syncers : WF_vars(spc[s] # "idle" /\ SyncStep(s))

FairSpec == Spec /\ Fairness

----------------------------------------------------------------------------
(* Properties.                                                             *)

\* Every variable keeps its type.
TypeOK ==
  /\ epoch \in Nat
  /\ buckets \in [Buckets -> SUBSET Objects]
  /\ active \in [Readers -> Nat]
  /\ nest \in [Readers -> Nat]
  /\ rpc \in [Readers -> {"out", "publish", "in"}]
  /\ re \in [Readers -> Nat]
  /\ holds \in [Readers -> Objects \cup {None}]
  /\ ostate \in [Objects -> {"linked", "unlinked", "retired", "freed"}]
  /\ spc \in [Syncers -> {"idle", "store", "scan", "reclaim", "free"}]
  /\ old \in [Syncers -> Nat]
  /\ left \in [Syncers -> SUBSET Readers]
  /\ toFree \in [Syncers -> SUBSET Objects]
  /\ stamp \in [Objects -> Nat]
  /\ inside \in [Syncers -> SUBSET Readers]

\* An object is not freed while a read side that loaded it is still open:
\* xtc_rcu_retire frees "after every reader currently inside a read-side has
\* finished".
NoUseAfterFree ==
  \A r \in Readers : holds[r] # None => ostate[holds[r]] # "freed"

\* xtc_rcu_synchronize ends its wait only when every read side that was open
\* at the call has ended.
GracePeriod ==
  \A s \in Syncers : spc[s] \in {"reclaim", "free"} => inside[s] = {}

\* Nothing is left behind in a bucket: between calls, an object not yet freed
\* was retired in the current epoch or the one before, so that two more calls
\* free it.
RetiredIsRecent ==
  (\A s \in Syncers : spc[s] = "idle") =>
    \A o \in Objects : ostate[o] = "retired" => stamp[o] >= epoch - 1

\* xtc_rcu_synchronize returns, whatever read sides begin after it.
SynchronizeReturns ==
  \A s \in Syncers : spc[s] # "idle" ~> spc[s] = "idle"

=============================================================================
