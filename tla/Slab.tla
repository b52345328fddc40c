-------------------------------- MODULE Slab --------------------------------
(***************************************************************************)
(* The allocator of ptc/slab.c: chunks of slots under the cache's mutex,   *)
(* magazines of freed slots per thread, reaping and the teardown; and its  *)
(* shared-memory mode, where processes share a header, a cursor and a list *)
(* of freed offsets.  A slot is <<chunk, index>>; its content is left out. *)
(*                                                                         *)
(* The memory contexts of ptc/mctx.c: a root context and its child whose   *)
(* chunks are charged to an accountant, allocated, freed and reset by      *)
(* several threads; and the arena groups, whose discard kills the members  *)
(* and resets the arena.  A chunk is a number; header and payload are one  *)
(* unit each.                                                              *)
(***************************************************************************)
EXTENDS Naturals, Sequences, FiniteSets
LOCAL INSTANCE SequencesExt
LOCAL INSTANCE FiniteSetsExt

CONSTANTS
  Threads,
  NoMags,         \* threads with magazines of eight other caches
  Backoff,        \* XTC_SLAB_OOM_BACKOFF, else FAIL
  MaxChunks,      \* what opts.res admits
  ObjsPerChunk, MagazineSize,
  Refuses,        \* whether the constructor may refuse
  Leavers,        \* threads that may exit
  MaxChunkId,     \* bound: chunks ever made
  Procs, Offsets, \* shared memory: processes, and offsets 0 (the header), 1, 2, ...
  MayDie,         \* shared memory: processes that may die inside the list's lock
  Budget,         \* contexts: MEM_BYTES of each accountant
  MaxChunk,       \* bound: chunks a context ever allocates
  Masked,         \* group: the Procs that may be inside xtc_uncancelable
  Discarders      \* group: 0 is a plain thread, a member of Procs that process

(* st has the fields
     chunks    the chunks, newest first: their numbers
     free      per chunk: its free list
     mag       per thread: its magazine
     held      the slots of objects the application has
     pc, slot  per thread: where it is, and the slot it works on
     n_free    the counter; n_inuse  the allocs less refusals and frees, over all stripes
     made      bound: chunks made
     dtors     history: slots whose destructor has run since they were constructed
     twice     history: slots whose destructor ran twice
     dead      the cache is destroyed
   and of the contexts
     live      per context: whether it exists
     res       per context: its accountant, or "none"
     chunks    per context: its chunks
     n_chunks  per context: the counter (n_bytes grows with it)
     cleanups  per context: callbacks registered
     used      per accountant: what is charged
     work      per thread: the frames of what it is doing, innermost first
     made      bound: chunks allocated *)
VARIABLE st

Slots(c) == {<<c, i>> : i \in 1 .. ObjsPerChunk}
None == <<0, 0>>
Ids == 1 .. MaxChunkId

Init ==
  st = [chunks |-> <<>>, free |-> [c \in Ids |-> <<>>], mag |-> [t \in Threads |-> <<>>],
        held |-> {}, pc |-> [t \in Threads |-> "idle"], slot |-> [t \in Threads |-> None],
        n_free |-> 0, n_inuse |-> 0, made |-> 0, dtors |-> {}, twice |-> {}, dead |-> FALSE]

At(t, where) == st.pc[t] = where /\ ~st.dead

(* __chunk_new *)
ChunkNew(s) ==
  LET c == s.made + 1
  IN [s EXCEPT !.made = c, !.chunks = <<c>> \o @,
               !.free[c] = [i \in 1 .. ObjsPerChunk |-> <<c, i>>],
               !.n_free = @ + ObjsPerChunk]

(* __pop_slot_locked: the first slot of the first chunk that has one, else of a new
   chunk; no slot when there is no budget for one. *)
Partial(s) == SelectSeq(s.chunks, LAMBDA c : s.free[c] # <<>>)
PopSlot(s, t) ==
  LET q == IF Partial(s) # <<>> THEN s
           ELSE IF Len(s.chunks) < MaxChunks THEN ChunkNew(s) ELSE s
      c == Head(Partial(q))
  IN IF Partial(q) = <<>> THEN [q EXCEPT !.slot[t] = None]
     ELSE [q EXCEPT !.slot[t] = Head(q.free[c]), !.free[c] = Tail(@)]

(* __push_slot_locked *)
PushSlot(s, slot) == [s EXCEPT !.free[slot[1]] = <<slot>> \o @]

(* __slot_on_free_list_locked *)
OnFreeList(s, slot) == slot \in Range(s.free[slot[1]])

NInuse(s, c) == ObjsPerChunk - Len(s.free[c])

----------------------------------------------------------------------------
(* xtc_slab_alloc *)

(* The magazine's newest slot. *)
AllocFast(t) ==
  /\ At(t, "idle") /\ st.mag[t] # <<>>
  /\ st' = [st EXCEPT !.slot[t] = Last(st.mag[t]), !.mag[t] = Front(@), !.n_inuse = @ + 1,
                      !.pc[t] = "ctor"]

(* The cache's lock: a slot, or none; a second try after a pause. *)
AllocSlow(t) ==
  /\ \/ At(t, "idle") /\ st.mag[t] = <<>>
     \/ At(t, "backoff")
  /\ st.made < MaxChunkId \/ Partial(st) # <<>> \/ Len(st.chunks) = MaxChunks
  /\ LET s == PopSlot(st, t)
     IN st' = IF s.slot[t] # None
                THEN [s EXCEPT !.n_free = @ - 1, !.n_inuse = @ + 1, !.pc[t] = "ctor"]
              ELSE [s EXCEPT !.pc[t] = IF Backoff /\ @ = "idle" THEN "backoff" ELSE "idle"]

Construct(t) ==
  /\ At(t, "ctor")
  /\ st' = [st EXCEPT !.held = @ \cup {st.slot[t]}, !.dtors = @ \ {st.slot[t]},
                      !.slot[t] = None, !.pc[t] = "idle"]


(* A constructor that refuses puts the slot back under the lock. *)
CtorRefuses(t) ==
  /\ Refuses /\ At(t, "ctor")
  /\ st' = [PushSlot(st, st.slot[t]) EXCEPT
              !.n_free = @ + 1, !.n_inuse = @ - 1, !.slot[t] = None, !.pc[t] = "idle"]

----------------------------------------------------------------------------
(* xtc_slab_free, by any thread *)

RunDtor(s, x) == [s EXCEPT !.dtors = @ \cup {x}, !.twice = IF x \in s.dtors THEN @ \cup {x} ELSE @]

FreeFast(t, x) ==
  /\ At(t, "idle") /\ x \in st.held /\ t \notin NoMags /\ Len(st.mag[t]) < MagazineSize
  /\ st' = [RunDtor(st, x) EXCEPT !.held = @ \ {x}, !.mag[t] = Append(@, x), !.n_inuse = @ - 1]

FreeSlow(t, x) ==
  /\ At(t, "idle") /\ x \in st.held /\ (t \in NoMags \/ Len(st.mag[t]) = MagazineSize)
  /\ st' = [PushSlot(RunDtor(st, x), x) EXCEPT !.held = @ \ {x}, !.pc[t] = "count"]

(* n_free is counted after the lock is dropped. *)
FreeCount(t) ==
  /\ At(t, "count")
  /\ st' = [st EXCEPT !.n_free = @ + 1, !.n_inuse = @ - 1, !.pc[t] = "idle"]

----------------------------------------------------------------------------
(* xtc_slab_reap; xtc_slab_reap_all and the pressure listener call it. *)

(* The thread's own magazine goes back to the chunks, ... *)
Reap(t) ==
  /\ At(t, "idle")
  /\ st' = [FoldLeft(PushSlot, st, Reverse(st.mag[t])) EXCEPT
              !.mag[t] = <<>>, !.n_free = @ + Len(st.mag[t]), !.pc[t] = "reap"]

(* ... then the chunks with no slot in use are released. *)
ReapChunks(t) ==
  /\ At(t, "reap")
  /\ LET keep == SelectSeq(st.chunks, LAMBDA c : NInuse(st, c) # 0)
     IN st' = [st EXCEPT
                 !.chunks = keep, !.pc[t] = "idle",
                 !.free = [c \in Ids |-> IF c \in Range(keep) THEN @[c] ELSE <<>>],
                 !.n_free = @ - ObjsPerChunk * (Len(st.chunks) - Len(keep))]

(* __slab_tls_cleanup: the magazine's array is freed, its slots stay out of the lists. *)
ThreadExits(t) ==
  /\ t \in Leavers /\ At(t, "idle") /\ st.mag[t] # <<>>
  /\ st' = [st EXCEPT !.mag[t] = <<>>]

(* xtc_slab_destroy, when nobody else is inside: the magazine of the calling thread is
   emptied, and the destructor runs on every slot that is on no free list. *)
Destroy(t) ==
  /\ \A u \in Threads : At(u, "idle")
  /\ LET s == FoldLeft(LAMBDA q, x : IF OnFreeList(q, x) THEN q ELSE PushSlot(q, x),
                       st, Reverse(st.mag[t]))
         live == UNION {Slots(c) \ Range(s.free[c]) : c \in Range(s.chunks)}
     IN st' = [st EXCEPT !.dead = TRUE, !.chunks = <<>>, !.mag[t] = <<>>, !.held = {},
                         !.free = [c \in Ids |-> <<>>], !.twice = @ \cup (live \cap st.dtors)]

Next ==
  \E t \in Threads :
    \/ AllocFast(t) \/ AllocSlow(t) \/ Construct(t) \/ CtorRefuses(t) \/ FreeCount(t)
    \/ Reap(t) \/ ReapChunks(t) \/ ThreadExits(t) \/ Destroy(t)
    \/ \E x \in st.held : FreeFast(t, x) \/ FreeSlow(t, x)

----------------------------------------------------------------------------
(* Chunks and slots are in their ranges, and magazines hold what they may. *)
TypeOK ==
  /\ Range(st.chunks) \subseteq Ids /\ Len(st.chunks) <= MaxChunks
  /\ \A t \in Threads : Len(st.mag[t]) <= MagazineSize
  /\ st.held \subseteq UNION {Slots(c) : c \in Ids}

(* Where a slot is: on its chunk's list, in a magazine, in a call, with the application. *)
InCalls == {st.slot[t] : t \in Threads} \ {None}
OutOfLists == st.held \cup InCalls \cup UNION {Range(st.mag[t]) : t \in Threads}

(* A slot has one owner: the lists, the magazines, the calls and the application have no
   slot in common or twice, whatever order threads allocate, refuse, free, reap and exit
   in; and whatever is out of the lists is in a chunk that has not been released. *)
OneOwner ==
  ~st.dead =>
  /\ \A t \in Threads : IsInjective(st.mag[t])
  /\ \A c \in Range(st.chunks) : IsInjective(st.free[c]) /\ Range(st.free[c]) \subseteq Slots(c)
  /\ Cardinality(OutOfLists) = Cardinality(st.held)
       + MapThenSumSet(LAMBDA t : Len(st.mag[t]) + (IF st.slot[t] = None THEN 0 ELSE 1), Threads)
  /\ \A x \in OutOfLists : x[1] \in Range(st.chunks) /\ x \notin Range(st.free[x[1]])

(* The statistics are exact when no call is under way: n_free counts the slots on the
   lists, and n_inuse, which is computed from the others, the live objects. *)
StatsExact ==
  ~st.dead /\ (\A t \in Threads : st.pc[t] = "idle") =>
  /\ st.n_free = MapThenSumSet(LAMBDA c : Len(st.free[c]), Range(st.chunks))
  /\ st.n_inuse = Cardinality(st.held)

(* Slab.c's header: the destructor is called once per object lifetime.  It does not hold
   when a slot is in another thread's magazine, or was in that of a thread that has
   exited, at the teardown. *)
DtorOnce == st.twice = {}

----------------------------------------------------------------------------
(* Shared memory: st has the fields
     magic, version, slot_size, free_off, free_lock, cursor   the header; 0 before init
     next      per offset: the link in its first bytes
     pc, off   per process: where it is, the offset it works on
     held      per process: the offsets it has allocated
     early     history: a process passed the checks before the header was initialised;
               what it does with the header then is left out *)
Nil == 99
Magic == 1
HDR == 1                               \* XTC_SHM_HDR_SIZE in slots

ShmInit ==
  st = [magic |-> 0, version |-> 0, slot_size |-> 0, free_off |-> 0, free_lock |-> FALSE,
        cursor |-> 0, next |-> [o \in Offsets |-> Nil], pc |-> [p \in Procs |-> "out"],
        off |-> [p \in Procs |-> Nil], held |-> [p \in Procs |-> {}], early |-> FALSE]

(* xtc_slab_create: whoever exchanges the magic initialises the rest, ... *)
Attach(p) ==
  /\ st.pc[p] = "out"
  /\ st' = [st EXCEPT !.magic = Magic, !.pc[p] = IF st.magic = Magic THEN "check" ELSE "init"]

InitStep(p) ==
  \/ /\ st.pc[p] = "init"
     /\ st' = [st EXCEPT !.version = 1, !.pc[p] = "init2"]
  \/ /\ st.pc[p] = "init2"
     /\ st' = [st EXCEPT !.slot_size = 1, !.pc[p] = "init3"]
  \/ /\ st.pc[p] = "init3"
     /\ st' = [st EXCEPT !.free_off = Nil, !.pc[p] = "init4"]
  \/ /\ st.pc[p] = "init4"
     /\ st' = [st EXCEPT !.free_lock = FALSE, !.cursor = HDR, !.pc[p] = "check"]

(* ... and everyone verifies version and stride: XTC_E_VERSION, XTC_E_INVAL. *)
Check(p) ==
  /\ st.pc[p] = "check"
  /\ st' = [st EXCEPT !.pc[p] = IF st.version = 1 /\ st.slot_size = 1 THEN "idle" ELSE "failed",
                      !.early = st.slot_size = 1 /\ st.cursor = 0]

(* __shm_lock of __shm_free_pop *)
PopLock(p) ==
  /\ st.pc[p] = "idle" /\ ~st.free_lock
  /\ st' = [st EXCEPT !.free_lock = TRUE, !.pc[p] = "pop"]

(* The head, and its link *)
PopSlotOff(p) ==
  /\ st.pc[p] = "pop"
  /\ st' = IF st.free_off = Nil THEN [st EXCEPT !.free_lock = FALSE, !.pc[p] = "carve"]
           ELSE [st EXCEPT !.free_off = st.next[st.free_off], !.free_lock = FALSE,
                           !.held[p] = @ \cup {st.free_off}, !.pc[p] = "idle"]

(* __shm_cursor_carve: load, then exchange or load again. *)
Carve(p) ==
  \/ /\ st.pc[p] = "carve" /\ st.cursor \in Offsets
     /\ st' = [st EXCEPT !.off[p] = st.cursor, !.pc[p] = "carved"]
  \/ /\ st.pc[p] = "carve" /\ st.cursor \notin Offsets
     /\ st' = [st EXCEPT !.pc[p] = "idle"]
  \/ /\ st.pc[p] = "carved"
     /\ st' = IF st.cursor = st.off[p]
                THEN [st EXCEPT !.cursor = @ + 1, !.held[p] = @ \cup {st.off[p]},
                                !.off[p] = Nil, !.pc[p] = "idle"]
              ELSE [st EXCEPT !.pc[p] = "carve"]

(* __shm_free_push of an object of any process: the link and the head under the lock. *)
PushLock(p, q, o) ==
  /\ st.pc[p] = "idle" /\ o \in st.held[q] /\ ~st.free_lock
  /\ st' = [st EXCEPT !.free_lock = TRUE, !.held[q] = @ \ {o}, !.off[p] = o, !.pc[p] = "push"]

Push(p) ==
  /\ st.pc[p] = "push"
  /\ st' = [st EXCEPT !.next[st.off[p]] = st.free_off, !.free_off = st.off[p],
                      !.free_lock = FALSE, !.off[p] = Nil, !.pc[p] = "idle"]

(* A process dies; the lock it has, if any, stays taken. *)
Dies(p) ==
  /\ p \in MayDie /\ st.pc[p] \notin {"dead", "out", "failed"}
  /\ st' = [st EXCEPT !.pc[p] = "dead"]

ShmNext ==
  /\ ~st.early
  /\ \E p \in Procs :
     \/ Attach(p) \/ InitStep(p) \/ Check(p) \/ PopLock(p) \/ PopSlotOff(p) \/ Carve(p)
     \/ Push(p) \/ Dies(p)
     \/ \E q \in Procs : \E o \in st.held[q] : PushLock(p, q, o)

(* The offsets on the list. *)
RECURSIVE ListFrom(_, _)
ListFrom(o, n) == IF o = Nil \/ n = 0 THEN <<>> ELSE <<o>> \o ListFrom(st.next[o], n - 1)

(* Shared memory: no offset is allocated twice, on the list twice, or both, however the
   processes' pops, pushes and carves interleave and wherever one of them dies, unless a
   process has used the header before it was initialised. *)
ShmOneOwner ==
  LET list == ListFrom(st.free_off, Cardinality(Offsets) + 1)
  IN ~st.early /\ st.free_off # 0 =>
     /\ \A p, q \in Procs : p # q => st.held[p] \cap st.held[q] = {}
     /\ IsInjective(list) /\ 0 \notin Range(list)
     /\ \A p \in Procs : st.held[p] \cap Range(list) = {}
     /\ \A o \in Range(list) : o < st.cursor

(* Slab.c: the compare-and-swap on the magic handles the race of two attachers.  It does
   not: the magic is there before the rest of the header. *)
ShmReady == ~st.early /\ \A p \in Procs : st.pc[p] # "failed"

----------------------------------------------------------------------------
(* The memory contexts. *)

Ctxs == {"root", "child"}
Res == {"r1", "r2"}
Unit == 2       \* CHUNK_HDR_SIZE + payload

Footprint(m) == st.n_chunks[m] * Unit

McInit ==
  st = [live |-> [m \in Ctxs |-> m = "root"], res |-> [m \in Ctxs |-> "none"],
        chunks |-> [m \in Ctxs |-> {}], n_chunks |-> [m \in Ctxs |-> 0],
        cleanups |-> [m \in Ctxs |-> 0], used |-> [r \in Res |-> 0],
        work |-> [t \in Threads |-> <<>>], made |-> 0]

Idle(t) == st.work[t] = <<>>
Doing(t, what) == ~Idle(t) /\ st.work[t][1].do = what
Top(t) == st.work[t][1]
Quiet == \A t \in Threads : Idle(t)

Charged(used, r, n) == IF r = "none" THEN used ELSE [used EXCEPT ![r] = @ + n]
Released(used, r, n) == IF r = "none" THEN used ELSE [used EXCEPT ![r] = @ - n]
Admits(r, n) == IF r = "none" THEN TRUE ELSE st.used[r] + n <= Budget

(* xtc_mctx_create of the child: it inherits the accountant. *)
Create(t) ==
  /\ Idle(t) /\ st.live["root"] /\ ~st.live["child"]
  /\ st' = [st EXCEPT !.live["child"] = TRUE, !.res["child"] = st.res["root"]]

(* xtc_res_attach_mctx, which must not race an alloc or a free. *)
McAttach(t, m, r) ==
  /\ Quiet /\ st.live[m] /\ r # st.res[m] /\ Admits(r, Footprint(m))
  /\ st' = [st EXCEPT !.used = Released(Charged(@, r, Footprint(m)), st.res[m], Footprint(m)),
                      !.res[m] = r]

(* xtc_mctx_alloc: the charge, or NULL; ... *)
Alloc(t, m) ==
  /\ Idle(t) /\ st.live[m] /\ st.made < MaxChunk /\ Admits(st.res[m], Unit)
  /\ st' = [st EXCEPT !.used = Charged(@, st.res[m], Unit), !.made = @ + 1,
                      !.work[t] = <<[do |-> "link", m |-> m, c |-> st.made + 1]>>]

(* ... then the chunk is linked. *)
AllocLink(t) ==
  /\ Doing(t, "link")
  /\ st' = [st EXCEPT !.chunks[Top(t).m] = @ \cup {Top(t).c}, !.n_chunks[Top(t).m] = @ + 1,
                      !.work[t] = Tail(@)]

(* xtc_mctx_free: unlinked and counted under the lock, released after it. *)
Free(t, m, c) ==
  /\ Idle(t) /\ st.live[m] /\ c \in st.chunks[m]
  /\ st' = [st EXCEPT !.chunks[m] = @ \ {c}, !.n_chunks[m] = @ - 1,
                      !.work[t] = <<[do |-> "release", m |-> m, fp |-> Unit]>>]

Release(t) ==
  /\ Doing(t, "release")
  /\ st' = [st EXCEPT !.used = Released(@, st.res[Top(t).m], Top(t).fp), !.work[t] = Tail(@)]

(* xtc_mctx_register_cleanup, also from inside a callback *)
RegisterCleanup(t, m) ==
  /\ Idle(t) \/ Doing(t, "chunks")
  /\ st.live[m] /\ st.cleanups[m] < 1
  /\ st' = [st EXCEPT !.cleanups[m] = @ + 1]

(* xtc_mctx_reset and xtc_mctx_destroy: the child first; nobody else is in a context
   that is destroyed. *)
Frames(m, gone) ==
  LET one(x) == <<[do |-> "cleanups", m |-> x], [do |-> "chunks", m |-> x]>>
                  \o (IF gone THEN <<[do |-> "gone", m |-> x]>> ELSE <<>>)
  IN (IF m = "root" /\ st.live["child"] THEN one("child") ELSE <<>>) \o one(m)

Reset(t, m) ==
  /\ Idle(t) /\ st.live[m]
  /\ st' = [st EXCEPT !.work[t] = Frames(m, FALSE)]

McDestroy(t, m) ==
  /\ Quiet /\ st.live[m]
  /\ st' = [st EXCEPT !.work[t] = Frames(m, TRUE)]

(* __free_chunks_and_cleanups: the callbacks are detached and run with no lock, ... *)
FreeCleanups(t) ==
  /\ Doing(t, "cleanups")
  /\ st' = [st EXCEPT !.cleanups[Top(t).m] = 0, !.work[t] = Tail(@)]

(* ... then the chunks, with what they are charged for, are. *)
FreeChunks(t) ==
  /\ Doing(t, "chunks")
  /\ LET m == Top(t).m
     IN st' = [st EXCEPT !.chunks[m] = {}, !.n_chunks[m] = 0,
                         !.work[t] = <<[do |-> "release", m |-> m, fp |-> Footprint(m)]>> \o Tail(@)]

(* __detach, and the context's own memory *)
Gone(t) ==
  /\ Doing(t, "gone")
  /\ st' = [st EXCEPT !.live[Top(t).m] = FALSE, !.res[Top(t).m] = "none", !.work[t] = Tail(@)]

(* While a context is being destroyed, nobody else uses it. *)
Destroying(m) ==
  \E u \in Threads : \E i \in 1 .. Len(st.work[u]) : st.work[u][i] = [do |-> "gone", m |-> m]

McNext ==
  \E t \in Threads :
    \/ AllocLink(t) \/ Release(t) \/ FreeCleanups(t) \/ FreeChunks(t) \/ Gone(t)
    \/ ~Destroying("root") /\ Create(t)
    \/ \E m \in Ctxs :
         \/ McDestroy(t, m) \/ \E r \in Res \cup {"none"} : McAttach(t, m, r)
         \/ ~Destroying(m) /\ ~Destroying("root")
            /\ (Alloc(t, m) \/ \E c \in st.chunks[m] : Free(t, m, c))
         \/ (\A x \in Ctxs : ~Destroying(x)) /\ Reset(t, m)
         \/ RegisterCleanup(t, m)

----------------------------------------------------------------------------
McTypeOK ==
  /\ \A m \in Ctxs : st.n_chunks[m] \in 0 .. MaxChunk /\ st.cleanups[m] \in 0 .. 1
  /\ \A r \in Res : st.used[r] \in 0 .. Budget
  /\ st.made \in 0 .. MaxChunk

(* The accountant is charged for every live chunk and for nothing else: what it counts is
   the footprint of its contexts plus what a call has charged and not yet linked, or has
   unlinked and not yet released, whatever allocs, frees, resets, destroys and attaches
   there were; and the counters count the chunks. *)
Metered ==
  /\ \A m \in Ctxs : st.n_chunks[m] = Cardinality(st.chunks[m])
  /\ \A r \in Res :
       st.used[r] =
         MapThenSumSet(LAMBDA m : IF st.res[m] = r THEN Footprint(m) ELSE 0, Ctxs)
         + MapThenSumSet(LAMBDA t :
             IF (Doing(t, "link") \/ Doing(t, "release")) /\ st.res[Top(t).m] = r
               THEN (IF Doing(t, "link") THEN Unit ELSE Top(t).fp) ELSE 0, Threads)

----------------------------------------------------------------------------
(* Arena groups: st has the fields
     members   the list, as a set;  sealed  a discard is in flight
     life      per process: "live", "dying" (not alive, its at-exit callbacks may run),
               "reaped" (its slot is released)
     killed    processes with a kill pending;  masked  inside xtc_uncancelable
     uses      processes that have joined: they, and their callbacks, touch the arena
     pc, snap, at, all_gone   per discarder: its step, members left and at hand, verdict
     reset     the processes that could touch the arena when it was reset *)
GrpInit ==
  st = [members |-> {}, sealed |-> FALSE, life |-> [p \in Procs |-> "live"], killed |-> {},
        masked |-> {}, uses |-> {}, pc |-> [d \in Discarders |-> "idle"],
        snap |-> [d \in Discarders |-> {}], at |-> [d \in Discarders |-> 0],
        all_gone |-> [d \in Discarders |-> TRUE], reset |-> {}]

(* xtc_arena_group_add, on the process's own fiber: XTC_E_AGAIN when sealed *)
Add(p) ==
  /\ st.life[p] = "live" /\ p \notin st.killed /\ ~st.sealed
  /\ (p \in Discarders => st.pc[p] = "idle")
  /\ st' = [st EXCEPT !.members = @ \cup {p}, !.uses = @ \cup {p}]

Mask(p) ==
  /\ p \in Masked /\ st.life[p] = "live"
  /\ st' = [st EXCEPT !.masked = IF p \in @ THEN @ \ {p} ELSE @ \cup {p}]

(* A process unwinds on a kill, or exits; alive is cleared first, the slot released last. *)
Unwind(p) ==
  /\ st.life[p] = "live" /\ p \notin st.masked
  /\ (p \in Discarders => st.pc[p] = "idle")
  /\ st' = [st EXCEPT !.life[p] = "dying"]

Reaped(p) ==
  /\ st.life[p] = "dying"
  /\ st' = [st EXCEPT !.life[p] = "reaped", !.uses = @ \ {p}]

McAt(d, where) == st.pc[d] = where
Unsealed(s, d) == [s EXCEPT !.sealed = FALSE, !.pc[d] = "idle", !.snap[d] = {}, !.at[d] = 0,
                            !.all_gone[d] = TRUE]

(* xtc_arena_group_discard: sealed and copied under the lock; a member that discards
   its own group is refused. *)
Discard(d) ==
  /\ McAt(d, "idle") /\ ~st.sealed /\ (d \in Procs => st.life[d] = "live")
  /\ st' = [st EXCEPT !.sealed = TRUE, !.snap[d] = st.members, !.pc[d] = "self"]

DiscardSelf(d) ==
  /\ McAt(d, "self")
  /\ st' = IF d \in st.snap[d] THEN Unsealed(st, d) ELSE [st EXCEPT !.pc[d] = "kill"]

(* Phase 1, one member: the kill, ... *)
KillMember(d, p) ==
  /\ McAt(d, "kill") /\ p \in st.snap[d]
  /\ st' = IF st.life[p] = "reaped" THEN [st EXCEPT !.snap[d] = @ \ {p}]
           ELSE [st EXCEPT !.snap[d] = @ \ {p}, !.at[d] = p, !.pc[d] = "wait",
                           !.killed = IF st.life[p] = "live" THEN @ \cup {p} ELSE @]

(* ... until it is dead, has it deferred, or the deadline is over; *)
KillReported(d) ==
  /\ McAt(d, "wait")
  /\ LET p == st.at[d]
     IN \/ /\ p \in st.masked /\ st.life[p] = "live"
           /\ st' = [st EXCEPT !.all_gone[d] = FALSE, !.pc[d] = "kill"]
        \/ st' = [st EXCEPT !.pc[d] = "reap"]

(* ... then its slot is released within what is left of the time, or not. *)
WaitReaped(d) ==
  /\ McAt(d, "reap")
  /\ \/ st.life[st.at[d]] = "reaped" /\ st' = [st EXCEPT !.pc[d] = "kill"]
     \/ st.life[st.at[d]] # "reaped" /\ st' = [st EXCEPT !.all_gone[d] = FALSE, !.pc[d] = "kill"]

(* Phase 2: the reset, then the members are forgotten, then the group is unsealed. *)
ResetArena(d) ==
  /\ McAt(d, "kill") /\ st.snap[d] = {}
  /\ st' = IF st.all_gone[d] THEN [st EXCEPT !.reset = st.uses, !.pc[d] = "forget"]
           ELSE Unsealed(st, d)

Forget(d) ==
  /\ McAt(d, "forget")
  /\ st' = [st EXCEPT !.members = {}, !.reset = {}, !.pc[d] = "unseal"]

Unseal(d) ==
  /\ McAt(d, "unseal")
  /\ st' = Unsealed(st, d)

GrpNext ==
  \/ \E p \in Procs : Add(p) \/ Mask(p) \/ Unwind(p) \/ Reaped(p)
  \/ \E d \in Discarders :
       \/ Discard(d) \/ DiscardSelf(d) \/ KillReported(d) \/ WaitReaped(d)
       \/ ResetArena(d) \/ Forget(d) \/ Unseal(d)
       \/ \E p \in Procs : KillMember(d, p)

(* The arena is reset only when nothing can touch it: no process that has joined is left,
   not even in its at-exit callbacks, however joins, exits, masks and two discards
   interleave; and nobody who uses it is ever missing from the list. *)
ResetAlone ==
  /\ st.reset = {}
  /\ st.uses \subseteq st.members

=============================================================================
