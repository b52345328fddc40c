----------------------------- MODULE RcuProofs -----------------------------
(***************************************************************************)
(* Proofs about Rcu, for any number of readers and objects, any depth of   *)
(* nesting and any number of epochs, when the calls of xtc_rcu_synchronize *)
(* do not overlap (Serialised).                                            *)
(*                                                                         *)
(* The argument.  A reader that holds a retired object published an epoch  *)
(* no newer than the one the object was retired in (HeldStamp).  Objects   *)
(* in the buckets are at most two epochs old while a synchronizer waits    *)
(* (BucketWindow), so the bucket it takes holds the objects of epoch       *)
(* old - 1 and, of four buckets, no others.  A slot the scan has passed    *)
(* belongs to a reader that holds none of those (Passed).                  *)
(***************************************************************************)
EXTENDS Rcu, TLAPS

\* The calls of xtc_rcu_synchronize come from one thread.
Serialised == \A s, t \in Syncers : s = t

\* A reader's slot shows the epoch it loaded, exactly while it is inside.
Slots ==
  \A r \in Readers :
    /\ rpc[r] = "in" => active[r] = re[r]
    /\ rpc[r] # "in" => active[r] = 0 /\ holds[r] = None
    /\ rpc[r] # "out" => re[r] >= 1 /\ re[r] <= epoch /\ nest[r] >= 1

\* The epoch a synchronizer works with is the global one.
OldEpoch ==
  /\ epoch >= 1
  /\ \A s \in Syncers :
       /\ spc[s] = "store" => old[s] = epoch
       /\ spc[s] \in {"scan", "reclaim", "free"} =>
            epoch = old[s] + 1 /\ old[s] >= 1
       /\ spc[s] # "free" => toFree[s] = {}

\* A reader that holds a retired object entered no later than its retirement.
HeldStamp ==
  \A r \in Readers :
    holds[r] # None /\ ostate[holds[r]] = "retired" => re[r] <= stamp[holds[r]]

\* A retired object is in the bucket of its epoch or on a list being freed.
BucketWindow ==
  /\ \A b \in Buckets : \A o \in buckets[b] :
       /\ ostate[o] = "retired"
       /\ b = Bucket(stamp[o])
       /\ stamp[o] <= epoch
       /\ stamp[o] >= epoch - 2
       /\ (\A s \in Syncers : spc[s] \notin {"scan", "reclaim"}) =>
            stamp[o] >= epoch - 1
  /\ \A o \in Objects : ostate[o] = "retired" =>
       o \in buckets[Bucket(stamp[o])] \/ \E s \in Syncers : o \in toFree[s]

\* The reader r holds no object retired before the epoch s found.
Clear(r, s) ==
  holds[r] # None /\ ostate[holds[r]] = "retired" =>
    stamp[holds[r]] > old[s] - 1

Passed ==
  \A s \in Syncers : \A r \in Readers :
    \/ spc[s] \notin {"scan", "reclaim"}
    \/ spc[s] = "scan" /\ r \in left[s]
    \/ Clear(r, s)

Freeing ==
  \A s \in Syncers : \A o \in toFree[s] :
    /\ ostate[o] = "retired"
    /\ \A b \in Buckets : o \notin buckets[b]
    /\ \A r \in Readers : holds[r] # o

\* What a synchronizer found open is still to be scanned, or has ended.
Found ==
  \A s \in Syncers :
    /\ \A r \in inside[s] : rpc[r] = "in" /\ (spc[s] # "idle" => re[r] <= old[s])
    /\ spc[s] = "scan" => inside[s] \subseteq left[s]
    /\ spc[s] \in {"reclaim", "free"} => inside[s] = {}

IInv ==
  /\ TypeOK /\ Slots /\ OldEpoch /\ HeldStamp /\ BucketWindow /\ Passed
  /\ Freeing /\ Found /\ NoUseAfterFree

\* Every epoch has a bucket, epoch zero included.
LEMMA BucketRange == \A e \in Nat : Bucket(e) \in Buckets
BY DEF Bucket, Buckets, XTC_RCU_NBUCKETS

\* Of three consecutive epochs, no two share a bucket.
LEMMA BucketOf ==
  \A x, y \in Nat : Bucket(x) = Bucket(y) /\ y <= x /\ x <= y + 2 => x = y
BY DEF Bucket, XTC_RCU_NBUCKETS

----------------------------------------------------------------------------
(* Steps.  One lemma per action, one step per conjunct.                    *)

\* The load of the epoch in xtc_rcu_read_lock keeps the invariant.
LEMMA ReadLockKeeps ==
  ASSUME IInv, Serialised, NEW r \in Readers, ReadLock(r)
  PROVE  IInv'
<1>1. TypeOK'
  BY DEF IInv, TypeOK, ReadLock, objectVars, syncVars
<1>2. Slots'
  BY DEF IInv, TypeOK, Slots, OldEpoch, ReadLock, objectVars, syncVars
<1>3. OldEpoch'
  BY DEF IInv, TypeOK, OldEpoch, ReadLock, objectVars, syncVars
<1>4. HeldStamp'
  BY DEF IInv, TypeOK, Slots, HeldStamp, ReadLock, objectVars, syncVars
<1>5. BucketWindow'
  BY DEF IInv, TypeOK, OldEpoch, BucketWindow, ReadLock, objectVars, syncVars
<1>6. Passed'
  BY DEF IInv, TypeOK, Slots, Passed, Clear, ReadLock, objectVars, syncVars
<1>7. Freeing'
  BY DEF IInv, TypeOK, Freeing, ReadLock, objectVars, syncVars
<1>8. Found'
  BY DEF IInv, TypeOK, Slots, Found, ReadLock, objectVars, syncVars
<1>9. NoUseAfterFree'
  BY DEF IInv, TypeOK, NoUseAfterFree, ReadLock, objectVars, syncVars
<1> QED
  BY <1>1, <1>2, <1>3, <1>4, <1>5, <1>6, <1>7, <1>8, <1>9 DEF IInv

\* The store into the slot in xtc_rcu_read_lock keeps the invariant.
LEMMA PublishKeeps ==
  ASSUME IInv, Serialised, NEW r \in Readers, Publish(r)
  PROVE  IInv'
<1>1. TypeOK'
  BY DEF IInv, TypeOK, Publish, objectVars, syncVars
<1>2. Slots'
  BY DEF IInv, TypeOK, Slots, OldEpoch, Publish, objectVars, syncVars
<1>3. OldEpoch'
  BY DEF IInv, TypeOK, OldEpoch, Publish, objectVars, syncVars
<1>4. HeldStamp'
  BY DEF IInv, TypeOK, Slots, HeldStamp, Publish, objectVars, syncVars
<1>5. BucketWindow'
  BY DEF IInv, TypeOK, OldEpoch, BucketWindow, Publish, objectVars, syncVars
<1>6. Passed'
  BY DEF IInv, TypeOK, Slots, Passed, Clear, Publish, objectVars, syncVars
<1>7. Freeing'
  BY DEF IInv, TypeOK, Freeing, Publish, objectVars, syncVars
<1>8. Found'
  BY DEF IInv, TypeOK, Slots, Found, Publish, objectVars, syncVars
<1>9. NoUseAfterFree'
  BY DEF IInv, TypeOK, NoUseAfterFree, Publish, objectVars, syncVars
<1> QED
  BY <1>1, <1>2, <1>3, <1>4, <1>5, <1>6, <1>7, <1>8, <1>9 DEF IInv

\* A nested xtc_rcu_read_lock keeps the invariant.
LEMMA ReadLockNestedKeeps ==
  ASSUME IInv, Serialised, NEW r \in Readers, ReadLockNested(r)
  PROVE  IInv'
<1>1. TypeOK'
  BY DEF IInv, TypeOK, ReadLockNested, objectVars, syncVars
<1>2. Slots'
  BY DEF IInv, TypeOK, Slots, OldEpoch, ReadLockNested, objectVars, syncVars
<1>3. OldEpoch'
  BY DEF IInv, TypeOK, OldEpoch, ReadLockNested, objectVars, syncVars
<1>4. HeldStamp'
  BY DEF IInv, TypeOK, Slots, HeldStamp, ReadLockNested, objectVars, syncVars
<1>5. BucketWindow'
  BY DEF IInv, TypeOK, OldEpoch, BucketWindow, ReadLockNested, objectVars, syncVars
<1>6. Passed'
  BY DEF IInv, TypeOK, Slots, Passed, Clear, ReadLockNested, objectVars, syncVars
<1>7. Freeing'
  BY DEF IInv, TypeOK, Freeing, ReadLockNested, objectVars, syncVars
<1>8. Found'
  BY DEF IInv, TypeOK, Slots, Found, ReadLockNested, objectVars, syncVars
<1>9. NoUseAfterFree'
  BY DEF IInv, TypeOK, NoUseAfterFree, ReadLockNested, objectVars, syncVars
<1> QED
  BY <1>1, <1>2, <1>3, <1>4, <1>5, <1>6, <1>7, <1>8, <1>9 DEF IInv

\* A reader following the shared pointer keeps the invariant.
LEMMA LoadKeeps ==
  ASSUME IInv, Serialised, NEW r \in Readers, NEW o \in Objects, Load(r, o)
  PROVE  IInv'
<1>1. TypeOK'
  BY DEF IInv, TypeOK, Load, objectVars, syncVars
<1>2. Slots'
  BY DEF IInv, TypeOK, Slots, OldEpoch, Load, objectVars, syncVars
<1>3. OldEpoch'
  BY DEF IInv, TypeOK, OldEpoch, Load, objectVars, syncVars
<1>4. HeldStamp'
  BY DEF IInv, TypeOK, Slots, HeldStamp, Load, objectVars, syncVars
<1>5. BucketWindow'
  BY DEF IInv, TypeOK, OldEpoch, BucketWindow, Load, objectVars, syncVars
<1>6. Passed'
  BY DEF IInv, TypeOK, Slots, Passed, Clear, Load, objectVars, syncVars
<1>7. Freeing'
  BY DEF IInv, TypeOK, Freeing, Load, objectVars, syncVars
<1>8. Found'
  BY DEF IInv, TypeOK, Slots, Found, Load, objectVars, syncVars
<1>9. NoUseAfterFree'
  BY DEF IInv, TypeOK, NoUseAfterFree, Load, objectVars, syncVars
<1> QED
  BY <1>1, <1>2, <1>3, <1>4, <1>5, <1>6, <1>7, <1>8, <1>9 DEF IInv

\* xtc_rcu_read_unlock keeps the invariant.
LEMMA ReadUnlockKeeps ==
  ASSUME IInv, Serialised, NEW r \in Readers, ReadUnlock(r)
  PROVE  IInv'
<1>1. TypeOK'
  BY DEF IInv, TypeOK, Slots, ReadUnlock, objectVars, syncVars
<1>2. Slots'
  BY DEF IInv, TypeOK, Slots, OldEpoch, ReadUnlock, objectVars, syncVars
<1>3. OldEpoch'
  BY DEF IInv, TypeOK, OldEpoch, ReadUnlock, objectVars, syncVars
<1>4. HeldStamp'
  BY DEF IInv, TypeOK, Slots, HeldStamp, ReadUnlock, objectVars, syncVars
<1>5. BucketWindow'
  BY DEF IInv, TypeOK, OldEpoch, BucketWindow, ReadUnlock, objectVars, syncVars
<1>6. Passed'
  BY DEF IInv, TypeOK, Slots, Passed, Clear, ReadUnlock, objectVars, syncVars
<1>7. Freeing'
  BY RcuConstants DEF IInv, TypeOK, Freeing, ReadUnlock, objectVars, syncVars
<1>8. Found'
  BY DEF IInv, TypeOK, Slots, Found, ReadUnlock, objectVars, syncVars
<1>9. NoUseAfterFree'
  BY DEF IInv, TypeOK, NoUseAfterFree, ReadUnlock, objectVars, syncVars
<1> QED
  BY <1>1, <1>2, <1>3, <1>4, <1>5, <1>6, <1>7, <1>8, <1>9 DEF IInv

\* A writer unlinking an object keeps the invariant.
LEMMA UnlinkKeeps ==
  ASSUME IInv, Serialised, NEW o \in Objects, Unlink(o)
  PROVE  IInv'
<1>1. TypeOK'
  BY DEF IInv, TypeOK, Unlink, readerVars, syncVars
<1>2. Slots'
  BY DEF IInv, TypeOK, Slots, OldEpoch, Unlink, readerVars, syncVars
<1>3. OldEpoch'
  BY DEF IInv, TypeOK, OldEpoch, Unlink, readerVars, syncVars
<1>4. HeldStamp'
  BY DEF IInv, TypeOK, Slots, HeldStamp, Unlink, readerVars, syncVars
<1>5. BucketWindow'
  BY DEF IInv, TypeOK, OldEpoch, BucketWindow, Unlink, readerVars, syncVars
<1>6. Passed'
  BY DEF IInv, TypeOK, Slots, Passed, Clear, Unlink, readerVars, syncVars
<1>7. Freeing'
  BY DEF IInv, TypeOK, Freeing, Unlink, readerVars, syncVars
<1>8. Found'
  BY DEF IInv, TypeOK, Slots, Found, Unlink, readerVars, syncVars
<1>9. NoUseAfterFree'
  BY DEF IInv, TypeOK, NoUseAfterFree, Unlink, readerVars, syncVars
<1> QED
  BY <1>1, <1>2, <1>3, <1>4, <1>5, <1>6, <1>7, <1>8, <1>9 DEF IInv

\* xtc_rcu_retire keeps the invariant.
LEMMA RetireKeeps ==
  ASSUME IInv, Serialised, NEW o \in Objects, Retire(o)
  PROVE  IInv'
<1>1. TypeOK'
  BY BucketRange DEF IInv, TypeOK, Retire, readerVars, syncVars
<1>2. Slots'
  BY DEF IInv, TypeOK, Slots, OldEpoch, Retire, readerVars, syncVars
<1>3. OldEpoch'
  BY DEF IInv, TypeOK, OldEpoch, Retire, readerVars, syncVars
<1>4. HeldStamp'
  BY DEF IInv, TypeOK, Slots, HeldStamp, Retire, readerVars, syncVars
<1>5. BucketWindow'
  <2> DEFINE b0 == Bucket(epoch)
  <2>1. b0 \in Buckets /\ o \notin UNION {buckets[b] : b \in Buckets}
    BY BucketRange DEF IInv, TypeOK, BucketWindow, Retire
  <2>2. /\ buckets' = [buckets EXCEPT ![b0] = @ \cup {o}]
        /\ ostate' = [ostate EXCEPT ![o] = "retired"]
        /\ stamp' = [stamp EXCEPT ![o] = epoch]
        /\ epoch' = epoch /\ spc' = spc /\ toFree' = toFree
    BY DEF Retire, syncVars
  <2>3. Bucket(stamp'[o]) = b0
    BY <2>2 DEF IInv, TypeOK
  <2>4. \A p \in Objects \ {o} :
          stamp'[p] = stamp[p] /\ ostate'[p] = ostate[p]
    BY <2>2 DEF IInv, TypeOK
  <2> HIDE DEF b0
  <2>5. \A b \in Buckets : \A p \in buckets'[b] :
          \/ p = o /\ b = b0
          \/ p \in buckets[b] /\ p # o
    BY <2>1, <2>2 DEF IInv, TypeOK
  <2>6. \A b \in Buckets : buckets[b] \subseteq buckets'[b]
    BY <2>1, <2>2 DEF IInv, TypeOK
  <2>7. o \in buckets'[b0]
    BY <2>1, <2>2 DEF IInv, TypeOK
  <2>8. \A p \in Objects : stamp[p] \in Nat /\ Bucket(stamp[p]) \in Buckets
    BY BucketRange DEF IInv, TypeOK
  <2>9. ASSUME NEW b \in Buckets, NEW p \in buckets'[b]
        PROVE  /\ ostate'[p] = "retired"
               /\ b = Bucket(stamp'[p])
               /\ stamp'[p] <= epoch'
               /\ stamp'[p] >= epoch' - 2
               /\ (\A s \in Syncers : spc'[s] \notin {"scan", "reclaim"}) =>
                    stamp'[p] >= epoch' - 1
    <3>1. CASE p = o /\ b = b0
      BY <3>1, <2>2, <2>3 DEF IInv, TypeOK
    <3>2. CASE p \in buckets[b] /\ p # o
      BY <3>2, <2>2, <2>4 DEF IInv, TypeOK, BucketWindow
    <3> QED
      BY <3>1, <3>2, <2>5
  <2>10. ASSUME NEW p \in Objects, ostate'[p] = "retired"
         PROVE  p \in buckets'[Bucket(stamp'[p])]
                  \/ \E s \in Syncers : p \in toFree'[s]
    <3>1. CASE p = o
      BY <3>1, <2>3, <2>7
    <3>2. CASE p # o
      BY <3>2, <2>10, <2>2, <2>4, <2>6, <2>8 DEF IInv, BucketWindow
    <3> QED
      BY <3>1, <3>2
  <2> QED
    BY <2>9, <2>10 DEF BucketWindow
<1>6. Passed'
  BY DEF IInv, TypeOK, OldEpoch, Passed, Clear, Retire, readerVars, syncVars
<1>7. Freeing'
  BY DEF IInv, TypeOK, Freeing, Retire, readerVars, syncVars
<1>8. Found'
  BY DEF IInv, TypeOK, Slots, Found, Retire, readerVars, syncVars
<1>9. NoUseAfterFree'
  BY DEF IInv, TypeOK, NoUseAfterFree, Retire, readerVars, syncVars
<1> QED
  BY <1>1, <1>2, <1>3, <1>4, <1>5, <1>6, <1>7, <1>8, <1>9 DEF IInv

\* The load of the epoch in xtc_rcu_synchronize keeps the invariant.
LEMMA SyncLoadKeeps ==
  ASSUME IInv, Serialised, NEW s \in Syncers, SyncLoad(s)
  PROVE  IInv'
<1>1. TypeOK'
  BY DEF IInv, TypeOK, SyncLoad, readerVars, objectVars
<1>2. Slots'
  BY DEF IInv, TypeOK, Slots, OldEpoch, SyncLoad, readerVars, objectVars
<1>3. OldEpoch'
  BY DEF IInv, TypeOK, OldEpoch, SyncLoad, readerVars, objectVars
<1>4. HeldStamp'
  BY DEF IInv, TypeOK, Slots, HeldStamp, SyncLoad, readerVars, objectVars
<1>5. BucketWindow'
  BY DEF IInv, TypeOK, OldEpoch, BucketWindow, SyncLoad, readerVars, objectVars
<1>6. Passed'
  BY DEF IInv, TypeOK, Slots, Passed, Clear, SyncLoad, readerVars, objectVars
<1>7. Freeing'
  BY DEF IInv, TypeOK, Freeing, SyncLoad, readerVars, objectVars
<1>8. Found'
  BY DEF IInv, TypeOK, Slots, Found, SyncLoad, readerVars, objectVars
<1>9. NoUseAfterFree'
  BY DEF IInv, TypeOK, NoUseAfterFree, SyncLoad, readerVars, objectVars
<1> QED
  BY <1>1, <1>2, <1>3, <1>4, <1>5, <1>6, <1>7, <1>8, <1>9 DEF IInv

\* The store of the next epoch keeps the invariant.
LEMMA SyncStoreKeeps ==
  ASSUME IInv, Serialised, NEW s \in Syncers, SyncStore(s)
  PROVE  IInv'
<1>1. TypeOK'
  BY DEF IInv, TypeOK, SyncStore, readerVars, objectVars
<1>2. Slots'
  BY DEF IInv, TypeOK, Slots, OldEpoch, SyncStore, readerVars, objectVars
<1>3. OldEpoch'
  BY DEF IInv, TypeOK, OldEpoch, SyncStore, Serialised
<1>4. HeldStamp'
  BY DEF IInv, TypeOK, Slots, HeldStamp, SyncStore, readerVars, objectVars
<1>5. BucketWindow'
  <2>1. \A t \in Syncers : spc[t] = "store"
    BY DEF SyncStore, Serialised
  <2>2. spc'[s] = "scan" /\ epoch' = epoch + 1
    BY DEF IInv, TypeOK, OldEpoch, SyncStore
  <2> QED
    BY <2>1, <2>2 DEF IInv, TypeOK, BucketWindow, SyncStore, objectVars
<1>6. Passed'
  BY DEF IInv, TypeOK, Slots, Passed, Clear, SyncStore, readerVars, objectVars
<1>7. Freeing'
  BY DEF IInv, TypeOK, Freeing, SyncStore, readerVars, objectVars
<1>8. Found'
  BY DEF IInv, TypeOK, Slots, Found, SyncStore, readerVars, objectVars
<1>9. NoUseAfterFree'
  BY DEF IInv, TypeOK, NoUseAfterFree, SyncStore, readerVars, objectVars
<1> QED
  BY <1>1, <1>2, <1>3, <1>4, <1>5, <1>6, <1>7, <1>8, <1>9 DEF IInv

\* One slot of the scan keeps the invariant.
LEMMA SyncScanKeeps ==
  ASSUME IInv, Serialised, NEW s \in Syncers, SyncScan(s)
  PROVE  IInv'
<1>1. TypeOK'
  BY DEF IInv, TypeOK, SyncScan, readerVars, objectVars
<1>2. Slots'
  BY DEF IInv, TypeOK, Slots, OldEpoch, SyncScan, readerVars, objectVars
<1>3. OldEpoch'
  BY DEF IInv, TypeOK, OldEpoch, SyncScan, readerVars, objectVars
<1>4. HeldStamp'
  BY DEF IInv, TypeOK, Slots, HeldStamp, SyncScan, readerVars, objectVars
<1>5. BucketWindow'
  BY DEF IInv, TypeOK, OldEpoch, BucketWindow, SyncScan, readerVars, objectVars
<1>6. Passed'
  <2>1. PICK r \in left[s] :
          left' = [left EXCEPT ![s] =
                     IF StillInOld(s, active[r]) THEN Readers ELSE @ \ {r}]
    BY Zenon DEF SyncScan
  <2>2. StillInOld(s, active[r]) \/ Clear(r, s)
    BY DEF IInv, TypeOK, Slots, OldEpoch, HeldStamp, SyncScan, StillInOld, Clear
  <2>3. \A t \in Syncers : t = s
    BY DEF Serialised
  <2>4. \A q \in Readers : Clear(q, s)' <=> Clear(q, s)
    BY DEF SyncScan, readerVars, objectVars, Clear
  <2>5. spc' = spc /\ spc[s] = "scan"
    BY DEF SyncScan
  <2>6. \A q \in Readers : q \in left'[s] \/ Clear(q, s)
    BY <2>1, <2>2, <2>5 DEF IInv, TypeOK, Passed
  <2> QED
    BY <2>3, <2>4, <2>5, <2>6 DEF Passed
<1>7. Freeing'
  BY DEF IInv, TypeOK, Freeing, SyncScan, readerVars, objectVars
<1>8. Found'
  <2>1. PICK r \in left[s] :
          left' = [left EXCEPT ![s] =
                     IF StillInOld(s, active[r]) THEN Readers ELSE @ \ {r}]
    BY Zenon DEF SyncScan
  <2>2. r \in inside[s] => StillInOld(s, active[r])
    BY DEF IInv, TypeOK, Slots, Found, SyncScan, StillInOld
  <2>3. /\ spc' = spc /\ spc[s] = "scan" /\ inside' = inside
        /\ rpc' = rpc /\ re' = re /\ old' = old
    BY DEF SyncScan, readerVars
  <2>4. inside[s] \subseteq left'[s]
    BY <2>1, <2>2, <2>3 DEF IInv, TypeOK, Found
  <2>5. \A t \in Syncers : t = s
    BY DEF Serialised
  <2> QED
    BY <2>3, <2>4, <2>5 DEF IInv, Found
<1>9. NoUseAfterFree'
  BY DEF IInv, TypeOK, NoUseAfterFree, SyncScan, readerVars, objectVars
<1> QED
  BY <1>1, <1>2, <1>3, <1>4, <1>5, <1>6, <1>7, <1>8, <1>9 DEF IInv

\* The end of a clean pass keeps the invariant.
LEMMA SyncDrainedKeeps ==
  ASSUME IInv, Serialised, NEW s \in Syncers, SyncDrained(s)
  PROVE  IInv'
<1>1. TypeOK'
  BY DEF IInv, TypeOK, SyncDrained, readerVars, objectVars
<1>2. Slots'
  BY DEF IInv, TypeOK, Slots, OldEpoch, SyncDrained, readerVars, objectVars
<1>3. OldEpoch'
  BY DEF IInv, TypeOK, OldEpoch, SyncDrained, readerVars, objectVars
<1>4. HeldStamp'
  BY DEF IInv, TypeOK, Slots, HeldStamp, SyncDrained, readerVars, objectVars
<1>5. BucketWindow'
  BY DEF IInv, TypeOK, OldEpoch, BucketWindow, SyncDrained, readerVars, objectVars
<1>6. Passed'
  BY DEF IInv, TypeOK, Slots, Passed, Clear, SyncDrained, readerVars, objectVars
<1>7. Freeing'
  BY DEF IInv, TypeOK, Freeing, SyncDrained, readerVars, objectVars
<1>8. Found'
  BY DEF IInv, TypeOK, Slots, Found, SyncDrained, readerVars, objectVars
<1>9. NoUseAfterFree'
  BY DEF IInv, TypeOK, NoUseAfterFree, SyncDrained, readerVars, objectVars
<1> QED
  BY <1>1, <1>2, <1>3, <1>4, <1>5, <1>6, <1>7, <1>8, <1>9 DEF IInv

\* The taking of the bucket keeps the invariant.
LEMMA SyncReclaimKeeps ==
  ASSUME IInv, Serialised, NEW s \in Syncers, SyncReclaim(s)
  PROVE  IInv'
<1>1. TypeOK'
  BY BucketRange DEF IInv, TypeOK, OldEpoch, SyncReclaim, readerVars, objectVars
<1>2. Slots'
  BY DEF IInv, TypeOK, Slots, OldEpoch, SyncReclaim, readerVars, objectVars
<1>3. OldEpoch'
  BY DEF IInv, TypeOK, OldEpoch, SyncReclaim, readerVars, objectVars
<1>4. HeldStamp'
  BY DEF IInv, TypeOK, Slots, HeldStamp, SyncReclaim, readerVars, objectVars
<1>5. BucketWindow'
  <2> DEFINE b0 == Bucket(old[s] - 1)
  <2>1. b0 \in Buckets
    BY BucketRange DEF IInv, TypeOK, OldEpoch, SyncReclaim
  <2>2. \A b \in Buckets : \A p \in buckets[b] : b # b0 => stamp[p] # old[s] - 1
    BY DEF IInv, TypeOK, BucketWindow
  <2>3. /\ buckets' = [buckets EXCEPT ![b0] = {}]
        /\ toFree' = [toFree EXCEPT ![s] = buckets[b0]]
        /\ epoch' = epoch /\ stamp' = stamp /\ ostate' = ostate
        /\ epoch = old[s] + 1
    BY DEF IInv, OldEpoch, SyncReclaim, objectVars
  <2>4. toFree[s] = {}
    BY DEF IInv, OldEpoch, SyncReclaim
  <2>5. old[s] \in Nat /\ epoch \in Nat
    BY DEF IInv, TypeOK
  <2> HIDE DEF b0
  <2>6. ASSUME NEW b \in Buckets, NEW p \in buckets'[b]
        PROVE  /\ ostate'[p] = "retired"
               /\ b = Bucket(stamp'[p])
               /\ stamp'[p] <= epoch'
               /\ stamp'[p] >= epoch' - 1
    <3>1. b # b0 /\ p \in buckets[b] /\ p \in Objects /\ stamp[p] \in Nat
      BY <2>1, <2>3 DEF IInv, TypeOK
    <3>2. stamp[p] # old[s] - 1
      BY <3>1, <2>2
    <3> QED
      BY <3>1, <3>2, <2>3, <2>5 DEF IInv, BucketWindow
  <2>7. ASSUME NEW p \in Objects, ostate'[p] = "retired"
        PROVE  p \in buckets'[Bucket(stamp'[p])]
                 \/ \E t \in Syncers : p \in toFree'[t]
    <3>1. Bucket(stamp[p]) \in Buckets
      BY BucketRange DEF IInv, TypeOK
    <3>2. p \in buckets[Bucket(stamp[p])]
      BY <2>3, <2>4, <2>7 DEF IInv, BucketWindow, Serialised
    <3> QED
      BY <3>1, <3>2, <2>1, <2>3 DEF IInv, TypeOK
  <2>8. \A b \in Buckets : \A p \in buckets'[b] :
          stamp'[p] \in Nat /\ epoch' \in Nat
    BY <2>3, <2>5, <1>1 DEF IInv, TypeOK
  <2>9. \A b \in Buckets : \A p \in buckets'[b] : stamp'[p] >= epoch' - 2
    BY <2>6, <2>8
  <2> QED
    BY <2>6, <2>7, <2>9 DEF BucketWindow
<1>6. Passed'
  BY DEF IInv, TypeOK, Slots, Passed, Clear, SyncReclaim, readerVars, objectVars
<1>7. Freeing'
  <2>1. \A p \in buckets[Bucket(old[s] - 1)] :
          /\ ostate[p] = "retired"
          /\ p \in Objects
          /\ stamp[p] = old[s] - 1
    BY BucketRange, BucketOf DEF IInv, TypeOK, OldEpoch, BucketWindow, SyncReclaim
  <2>2. \A p \in buckets[Bucket(old[s] - 1)] : \A r \in Readers : holds[r] # p
    BY <2>1, RcuConstants DEF IInv, TypeOK, Passed, Clear, SyncReclaim
  <2>3. Bucket(old[s] - 1) \in Buckets
    BY BucketRange DEF IInv, TypeOK, OldEpoch, SyncReclaim
  <2>4. \A p \in buckets[Bucket(old[s] - 1)] : \A b \in Buckets :
          p \notin buckets'[b]
    BY <2>1, <2>3 DEF IInv, TypeOK, BucketWindow, SyncReclaim
  <2>5. \A t \in Syncers : t = s
    BY DEF Serialised
  <2> QED
    BY <2>1, <2>2, <2>4, <2>5 DEF IInv, TypeOK, Freeing, SyncReclaim, readerVars,
       objectVars
<1>8. Found'
  BY DEF IInv, TypeOK, Slots, Found, SyncReclaim, readerVars, objectVars
<1>9. NoUseAfterFree'
  BY DEF IInv, TypeOK, NoUseAfterFree, SyncReclaim, readerVars, objectVars
<1> QED
  BY <1>1, <1>2, <1>3, <1>4, <1>5, <1>6, <1>7, <1>8, <1>9 DEF IInv

\* One callback keeps the invariant.
LEMMA SyncFreeKeeps ==
  ASSUME IInv, Serialised, NEW s \in Syncers, NEW o \in Objects, SyncFree(s, o)
  PROVE  IInv'
<1>1. TypeOK'
  BY DEF IInv, TypeOK, SyncFree, readerVars
<1>2. Slots'
  BY DEF IInv, TypeOK, Slots, OldEpoch, SyncFree, readerVars
<1>3. OldEpoch'
  BY DEF IInv, TypeOK, OldEpoch, SyncFree, readerVars
<1>4. HeldStamp'
  BY DEF IInv, TypeOK, Slots, HeldStamp, SyncFree, readerVars
<1>5. BucketWindow'
  <2>1. \A b \in Buckets : o \notin buckets[b]
    BY DEF IInv, Freeing, SyncFree
  <2>2. \A p \in Objects \ {o} : ostate'[p] = ostate[p]
    BY DEF IInv, TypeOK, SyncFree
  <2>3. ostate'[o] = "freed"
    BY DEF IInv, TypeOK, SyncFree
  <2>4. \A t \in Syncers : \A p \in toFree[t] : p # o => p \in toFree'[t]
    BY DEF IInv, TypeOK, SyncFree
  <2>5. /\ buckets' = buckets /\ epoch' = epoch /\ stamp' = stamp /\ spc' = spc
        /\ \A b \in Buckets : buckets[b] \subseteq Objects
    BY DEF IInv, TypeOK, SyncFree
  <2> QED
    BY <2>1, <2>2, <2>3, <2>4, <2>5 DEF IInv, BucketWindow
<1>6. Passed'
  BY DEF IInv, TypeOK, Slots, Passed, Clear, SyncFree, readerVars
<1>7. Freeing'
  BY DEF IInv, TypeOK, Freeing, SyncFree, readerVars, Serialised
<1>8. Found'
  BY DEF IInv, TypeOK, Slots, Found, SyncFree, readerVars
<1>9. NoUseAfterFree'
  BY DEF IInv, TypeOK, Freeing, NoUseAfterFree, SyncFree, readerVars
<1> QED
  BY <1>1, <1>2, <1>3, <1>4, <1>5, <1>6, <1>7, <1>8, <1>9 DEF IInv

\* The return of xtc_rcu_synchronize keeps the invariant.
LEMMA SyncReturnKeeps ==
  ASSUME IInv, Serialised, NEW s \in Syncers, SyncReturn(s)
  PROVE  IInv'
<1>1. TypeOK'
  BY DEF IInv, TypeOK, SyncReturn, readerVars, objectVars
<1>2. Slots'
  BY DEF IInv, TypeOK, Slots, OldEpoch, SyncReturn, readerVars, objectVars
<1>3. OldEpoch'
  BY DEF IInv, TypeOK, OldEpoch, SyncReturn, readerVars, objectVars
<1>4. HeldStamp'
  BY DEF IInv, TypeOK, Slots, HeldStamp, SyncReturn, readerVars, objectVars
<1>5. BucketWindow'
  BY DEF IInv, TypeOK, OldEpoch, BucketWindow, SyncReturn, readerVars, objectVars
<1>6. Passed'
  BY DEF IInv, TypeOK, Slots, Passed, Clear, SyncReturn, readerVars, objectVars
<1>7. Freeing'
  BY DEF IInv, TypeOK, Freeing, SyncReturn, readerVars, objectVars
<1>8. Found'
  BY DEF IInv, TypeOK, Slots, Found, SyncReturn, readerVars, objectVars
<1>9. NoUseAfterFree'
  BY DEF IInv, TypeOK, NoUseAfterFree, SyncReturn, readerVars, objectVars
<1> QED
  BY <1>1, <1>2, <1>3, <1>4, <1>5, <1>6, <1>7, <1>8, <1>9 DEF IInv

----------------------------------------------------------------------------
(* The invariant and what follows from it.                                 *)

\* The invariant holds at the start: nothing is retired, nobody is inside.
LEMMA IInvInit == Init => IInv
<1> SUFFICES ASSUME Init PROVE IInv
  OBVIOUS
<1>1. TypeOK
  BY DEF Init, TypeOK, XTC_RCU_EPOCH_START
<1>2. Slots /\ OldEpoch /\ HeldStamp
  BY DEF Init, Slots, OldEpoch, HeldStamp, XTC_RCU_EPOCH_START
<1>3. BucketWindow /\ Passed /\ Freeing
  BY DEF Init, BucketWindow, Passed, Freeing
<1>4. Found /\ NoUseAfterFree
  BY DEF Init, Found, NoUseAfterFree
<1> QED
  BY <1>1, <1>2, <1>3, <1>4 DEF IInv

\* A step that changes nothing keeps the invariant.
LEMMA StutterKeeps == ASSUME IInv, UNCHANGED vars PROVE IInv'
<1>1. (TypeOK /\ Slots /\ OldEpoch /\ HeldStamp)'
  BY DEF IInv, vars, TypeOK, Slots, OldEpoch, HeldStamp
<1>2. BucketWindow'
  BY Zenon DEF IInv, vars, BucketWindow
<1>3. (Passed /\ Freeing)'
  BY DEF IInv, vars, Passed, Clear, Freeing
<1>4. (Found /\ NoUseAfterFree)'
  BY DEF IInv, vars, Found, NoUseAfterFree
<1> QED
  BY <1>1, <1>2, <1>3, <1>4 DEF IInv

\* Every step of readers, writers and the synchronizer keeps the invariant.
LEMMA NextKeeps == ASSUME IInv, Serialised, [Next]_vars PROVE IInv'
<1>1. ASSUME NEW r \in Readers, ReaderStep(r) PROVE IInv'
  BY <1>1, ReadLockKeeps, PublishKeeps, ReadLockNestedKeeps, LoadKeeps,
     ReadUnlockKeeps DEF ReaderStep
<1>2. ASSUME NEW o \in Objects, WriterStep(o) PROVE IInv'
  BY <1>2, UnlinkKeeps, RetireKeeps DEF WriterStep
<1>3. ASSUME NEW s \in Syncers, SyncStep(s) PROVE IInv'
  BY <1>3, SyncLoadKeeps, SyncStoreKeeps, SyncScanKeeps, SyncDrainedKeeps,
     SyncReclaimKeeps, SyncFreeKeeps, SyncReturnKeeps DEF SyncStep
<1>4. CASE UNCHANGED vars
  BY <1>4, StutterKeeps
<1> QED
  BY <1>1, <1>2, <1>3, <1>4 DEF Next

\* The conjunction of facts above is an invariant of rcu.c when the calls of
\* xtc_rcu_synchronize do not overlap.
THEOREM RcuInvariant == ASSUME Serialised PROVE Spec => []IInv
<1>1. Init => IInv
  BY IInvInit
<1>2. IInv /\ [Next]_vars => IInv'
  BY NextKeeps
<1> QED
  BY <1>1, <1>2, PTL DEF Spec

\* Every variable keeps its type.
THEOREM RcuTypes == ASSUME Serialised PROVE Spec => []TypeOK
<1>1. IInv => TypeOK
  BY DEF IInv
<1> QED
  BY <1>1, RcuInvariant, PTL

\* With calls of xtc_rcu_synchronize that do not overlap, no object is freed
\* under a read side that loaded it, for any number of readers and objects.
THEOREM RcuSafe == ASSUME Serialised PROVE Spec => []NoUseAfterFree
<1>1. IInv => NoUseAfterFree
  BY DEF IInv
<1> QED
  BY <1>1, RcuInvariant, PTL

\* With calls that do not overlap, xtc_rcu_synchronize outlasts every read
\* side that was open when it was called.
THEOREM RcuGrace == ASSUME Serialised PROVE Spec => []GracePeriod
<1>1. IInv => GracePeriod
  BY DEF IInv, Found, GracePeriod
<1> QED
  BY <1>1, RcuInvariant, PTL

\* With calls that do not overlap, no object is left behind in a bucket: two
\* more calls free everything retired before them.
THEOREM RcuReclaims == ASSUME Serialised PROVE Spec => []RetiredIsRecent
<1>1. IInv => RetiredIsRecent
  <2> SUFFICES ASSUME IInv, \A s \in Syncers : spc[s] = "idle",
                      NEW o \in Objects, ostate[o] = "retired"
               PROVE  stamp[o] >= epoch - 1
    BY DEF RetiredIsRecent
  <2>1. o \in buckets[Bucket(stamp[o])]
    BY DEF IInv, BucketWindow, OldEpoch
  <2>2. Bucket(stamp[o]) \in Buckets
    BY BucketRange DEF IInv, TypeOK
  <2> QED
    BY <2>1, <2>2 DEF IInv, BucketWindow
<1> QED
  BY <1>1, RcuInvariant, PTL

=============================================================================
