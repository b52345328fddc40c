-------------------------------- MODULE Tnt --------------------------------
(***************************************************************************)
(* A shard of the tnt runtime (orc/tnt.c): the arena of isolates with its  *)
(* generations and mailboxes, the rings that other shards and other        *)
(* threads send through, the couriers and timers that post completions,    *)
(* the tick, and the park on the wake pipe.  A handler is any isolate's:   *)
(* it does one thing at most and returns any transition.                   *)
(***************************************************************************)
EXTENDS Naturals, Sequences, FiniteSets
LOCAL INSTANCE SequencesExt

CONSTANTS
  Peers, Exts,      \* senders: other shards, each with a ring; threads, which share one
  Slots,            \* 1 .. n, the arena
  Acts, InitActs,   \* what handlers and init functions do
  GenMod,           \* XTC_TNT_GEN_MASK + 1
  MboxCap, RingCap, CompCap, Budget,
  MayStop,          \* whether the runtime is stopped
  MaxMsgs, MaxSpawns, MaxIo   \* bounds: messages sent, isolates, operations and timers

Senders == Peers \cup Exts
Rings == Peers \cup {"ext"}
RingOf(p) == IF p \in Exts THEN "ext" ELSE p
NoMsg == [src |-> "none"]

(* A handle names a slot and a generation; `inc`, the isolate it was made for, is history.
   st has, of the shard,
     pc, cursor, scanned, ran      the step of its loop and of the dispatch
     slot[s]                       state, gen, inc, mbox, io_pending
     free                          the stack of free slots
     ring[r], take                 messages; how many of them the drain has seen
     spawns, req                   requests for isolates; those being served
     comp, couriers, timers        completions; fibers that will post one
     pipe, sleeping, stop          a byte in the wake pipe, and the flags
   of each sender
     sp, lock                      its step; who holds ext_lock
   and the history
     handles, ninc, nmsg, nio      handles made, isolates, messages, operations so far
     seen[i][p]                    the last message of p that isolate i handled
     mistaken, overflow            a message reached another isolate or out of order; a
                                   completion was dropped
     live, taken                   buffers allocated and not freed; those that handlers keep *)
VARIABLE st

NoneSeen == [p \in Senders \cup {"self"} |-> 0]
Isolates == 0 .. MaxSpawns

FreeArena == [s \in Slots |-> [state |-> "FREE", gen |-> 1, inc |-> 0, mbox |-> <<>>, io |-> 0]]

Init ==
  st = [pc |-> "boot", cursor |-> 1, scanned |-> 0, ran |-> 0,
        slot |-> FreeArena, free |-> Reverse([s \in Slots |-> s]),
        ring |-> [r \in Rings |-> <<>>], take |-> [r |-> "none", n |-> 0], drained |-> {},
        spawns |-> 0, req |-> 0, comp |-> <<>>, couriers |-> {}, timers |-> {},
        pipe |-> FALSE, sleeping |-> FALSE, stop |-> FALSE,
        sp |-> [p \in Senders |-> "idle"], lock |-> "none",
        handles |-> {}, ninc |-> 0, nmsg |-> 0, nio |-> 0,
        seen |-> [i \in Isolates |-> NoneSeen],
        mistaken |-> FALSE, overflow |-> FALSE, live |-> 0, taken |-> 0]

Handle(s, k) == [slot |-> k, gen |-> s.slot[k].gen, inc |-> s.slot[k].inc]

----------------------------------------------------------------------------
(* xtc_tnt_deliver: into the mailbox, unless the handle is stale or the mailbox full. *)
Deliver(s, m) ==
  LET k == m.to.slot
      t == s.slot[k]
  IN  IF t.state = "FREE" \/ t.gen # m.to.gen \/ Len(t.mbox) >= MboxCap THEN s
      ELSE [s EXCEPT !.slot[k].mbox = Append(@, m),
                     !.slot[k].state = IF @ = "WAIT_MESSAGE" THEN "READY" ELSE @]

(* The state of a slot after a handler or an init. *)
Parked(s, k, tr) ==
  [s EXCEPT !.slot[k].state =
     CASE tr = "WAIT_IO" -> "WAIT_IO"
       [] tr = "WAIT_MESSAGE" -> IF s.slot[k].mbox # <<>> THEN "READY" ELSE "WAIT_MESSAGE"
       [] OTHER -> "READY"]

(* xtc_tnt_commit_one_io: a courier for an operation. *)
CommitIo(s, k, act) ==
  IF act \notin {"recv", "owned", "close"} THEN s
  ELSE [s EXCEPT !.couriers = @ \cup {[to |-> Handle(s, k), kind |-> act, id |-> s.nio]},
                 !.slot[k].io = @ + 1]

(* The staged operation, counted; io_send_owned hands over a buffer. *)
Stage(s, act) ==
  IF act \notin {"recv", "owned", "close"} THEN s
  ELSE [s EXCEPT !.nio = @ + 1, !.live = IF act = "owned" THEN @ + 1 ELSE @]

(* frame_drop_staged *)
DropStaged(s, act) == IF act = "owned" THEN [s EXCEPT !.live = @ - 1] ELSE s

(* The slot is free again, and handles to it are stale. *)
Freed(s, k) ==
  [s EXCEPT !.slot[k].state = "FREE", !.slot[k].gen = (@ + 1) % GenMod, !.free = Append(@, k),
            !.seen[s.slot[k].inc] = NoneSeen]

(* slot_teardown *)
Teardown(s, k) == [Freed(s, k) EXCEPT !.slot[k].mbox = <<>>]

(* What an isolate may send to itself. *)
SelfMsg(s, k) == [src |-> "self", n |-> s.nmsg + 1, to |-> Handle(s, k)]

(* slot_spawn: the init function does one thing and returns tr; what it staged is
   committed whatever it returned, unless it crashed.  The handle returned for an init that
   is DONE has the generation of the slot's next isolate: nobody uses it here, and such an
   init stages nothing. *)
Spawn(s, act, tr) ==
  IF s.free = <<>> THEN s
  ELSE LET k == s.free[Len(s.free)]
           i == s.ninc + 1
           a == [s EXCEPT !.free = Front(@), !.ninc = i,
                          !.slot[k] = [@ EXCEPT !.state = "READY", !.inc = i, !.mbox = <<>>, !.io = 0]]
           b == Stage(IF act = "send" THEN [Deliver(a, SelfMsg(a, k)) EXCEPT !.nmsg = @ + 1] ELSE a, act)
       IN  CASE tr = "CRASH" -> Freed(DropStaged(b, act), k)
             [] tr = "DONE" -> Freed(b, k)
             [] OTHER -> [CommitIo(Parked(b, k, tr), k, act) EXCEPT !.handles = @ \cup {Handle(b, k)}]

MaySpawn(s) == s.ninc + s.spawns + s.req < MaxSpawns
InitTrs(act) == {"CRASH", "WAIT_MESSAGE", "YIELD"} \cup (IF act = "none" THEN {"DONE"} ELSE {})
                \cup (IF act = "recv" THEN {"WAIT_IO"} ELSE {})

(* xtc_tnt_register_timer *)
Timer(s, k) == [s EXCEPT !.timers = @ \cup {[to |-> Handle(s, k), id |-> s.nio + 1]}, !.nio = @ + 1]

(* What a handler may do, within the bounds. *)
Allowed(s, act) ==
  CASE act \in {"recv", "owned", "close", "timer"} -> s.nio < MaxIo
    [] act = "spawn" -> MaySpawn(s)
    [] act = "send" -> s.nmsg < MaxMsgs
    [] OTHER -> TRUE

(* A handler of slot k does act: here a send goes to any handle of this shard. *)
Acted(s, k, act, h) ==
  CASE act = "send" -> [Deliver(s, [src |-> "self", n |-> s.nmsg + 1, to |-> h]) EXCEPT !.nmsg = @ + 1]
    [] act = "timer" -> Timer(s, k)
    [] OTHER -> Stage(s, act)

(* dispatch_slot, and the same in drain_completions: the transition is carried out.  What
   was staged is committed by WAIT_IO only. *)
Transition(s, k, act, tr) ==
  CASE tr \in {"DONE", "CRASH"} -> Teardown(DropStaged(s, act), k)
    [] tr = "WAIT_IO" -> CommitIo(Parked(s, k, tr), k, act)
    [] OTHER -> Parked(DropStaged(s, act), k, tr)

(* The message is the isolate's own and in its sender's order; history. *)
Noted(s, k, m) ==
  LET i == s.slot[k].inc IN
  CASE m.src = "none" -> s
    [] m.src = "io" -> [s EXCEPT !.mistaken = @ \/ m.to.inc # i]
    [] OTHER -> [s EXCEPT !.mistaken = @ \/ m.to.inc # i \/ m.n <= s.seen[i][m.src],
                          !.seen[i][m.src] = m.n]

(* The handler's turn: the states it may leave. *)
Turns(s, k, m) ==
  LET n == Noted(s, k, m)
      May(act, tr) == Allowed(s, act) /\ (tr = "WAIT_IO" => act \in {"recv", "owned", "close"})
      Trs == {"DONE", "WAIT_MESSAGE", "YIELD", "WAIT_IO"}
      Targets(act) == IF act = "send" THEN s.handles ELSE {Handle(n, k)}
      acts == {<<act, tr>> \in (Acts \ {"spawn"}) \X Trs : May(act, tr)}
      spawns == {<<ia, it, tr>> \in InitActs \X (InitTrs("none") \cup InitTrs("recv")) \X Trs :
                   /\ "spawn" \in Acts /\ May("spawn", tr)
                   /\ it \in InitTrs(ia) /\ Allowed(s, ia)}
  IN {Transition(Spawn(n, x[1], x[2]), k, "none", x[3]) : x \in spawns} \cup
     UNION {{Transition(Acted(n, k, x[1], h), k, x[1], x[2]) : h \in Targets(x[1])} : x \in acts}

----------------------------------------------------------------------------
(* xtc_tnt_shard_main: the boot isolate, ... *)
Boot ==
  /\ st.pc = "boot"
  /\ \E ia \in InitActs, it \in InitTrs("none") \cup InitTrs("recv") :
       it \in InitTrs(ia) /\ st' = [Spawn(st, ia, it) EXCEPT !.pc = "spawns"]

(* ... and ticks.  drain_spawns: the requests are taken and served; ... *)
DrainSpawns ==
  /\ st.pc = "spawns"
  /\ st' = [st EXCEPT !.req = st.spawns, !.spawns = 0, !.pc = IF st.spawns = 0 THEN "xshard" ELSE "serve"]

ServeSpawn ==
  /\ st.pc = "serve"
  /\ \E ia \in InitActs, it \in InitTrs("none") \cup InitTrs("recv") :
       /\ it \in InitTrs(ia)
       /\ st' = [Spawn(st, ia, it) EXCEPT !.req = @ - 1, !.pc = IF st.req = 1 THEN "xshard" ELSE @]

(* ... drain_xshard: each ring's tail is read, and what was there is delivered before the
   head is stored; ... *)
DrainLoad(r) ==
  /\ st.pc = "xshard" /\ st.take.r = "none" /\ r \notin st.drained /\ (r = "ext" => Peers \subseteq st.drained)
  /\ st' = [st EXCEPT !.take = [r |-> r, n |-> Len(st.ring[r])]]

DrainStore ==
  LET r == st.take.r
      n == st.take.n
  IN
  /\ st.pc = "xshard" /\ r # "none"
  /\ st' = [FoldLeft(Deliver, st, SubSeq(st.ring[r], 1, n)) EXCEPT
              !.ring[r] = SubSeq(@, n + 1, Len(@)), !.take = [r |-> "none", n |-> 0],
              !.drained = IF r = "ext" THEN {} ELSE @ \cup {r}, !.pc = IF r = "ext" THEN "comp" ELSE @]

(* ... drain_completions: each is handled at once, unless its isolate is gone, and its
   buffer freed, unless the handler took it; ... *)
Completion ==
  LET c == Head(st.comp)
      k == c.to.slot
      p == [st EXCEPT !.comp = Tail(@), !.slot[k].io = IF @ > 0 THEN @ - 1 ELSE @]
      stale == st.slot[k].state = "FREE" \/ st.slot[k].gen # c.to.gen
      freed(s) == IF c.buf THEN [s EXCEPT !.live = @ - 1] ELSE s
      kept(s) == IF c.buf THEN [s EXCEPT !.taken = @ + 1] ELSE s
      m == [src |-> "io", to |-> c.to]
  IN
  /\ st.pc = "comp"
  /\ IF st.comp = <<>> THEN st' = [st EXCEPT !.pc = "tick", !.scanned = 0, !.ran = 0]
     ELSE IF stale THEN st' = freed(p)
     ELSE \E s \in Turns(p, k, m) : st' = freed(s) \/ (c.buf /\ st' = kept(s))

(* ... and the slots are scanned from the cursor on, within the budget; here one step goes
   to the next that is READY, and the last goes on to look at `stop`. *)
SlotAt(j) == 1 + ((st.cursor + j - 1) % Cardinality(Slots))
ReadyAhead == {j \in 0 .. Cardinality(Slots) - 1 - st.scanned : st.slot[SlotAt(j)].state = "READY"}

Scan ==
  LET j == CHOOSE x \in ReadyAhead : \A y \in ReadyAhead : x <= y
      k == SlotAt(j)
      t == st.slot[k]
      d == [st EXCEPT !.cursor = SlotAt(j + 1), !.scanned = @ + j + 1, !.ran = @ + 1]
  IN
  /\ st.pc = "tick" /\ ReadyAhead # {} /\ st.ran < Budget
  /\ st' \in IF t.mbox # <<>> THEN Turns([d EXCEPT !.slot[k].mbox = Tail(@)], k, Head(t.mbox))
              ELSE Turns(d, k, NoMsg)

Ticked ==
  /\ st.pc = "tick" /\ (IF st.ran < Budget THEN ReadyAhead = {} ELSE TRUE)
  /\ st' = [st EXCEPT !.pc = IF st.stop THEN "gone" ELSE "ready?", !.scanned = 0, !.ran = 0,
                      !.cursor = IF st.ran < Budget THEN SlotAt(Cardinality(Slots) - st.scanned) ELSE @]

(* shard_has_ready *)
HasReady == (\E r \in Rings : st.ring[r] # <<>>) \/ \E k \in Slots : st.slot[k].state = "READY"

(* After the tick: the work that is left, ... *)
LooksReady ==
  /\ st.pc = "ready?"
  /\ st' = [st EXCEPT !.pc = IF HasReady THEN "spawns" ELSE "announce"]

(* ... the announcement of the park, and another look; ... *)
Announce == st.pc = "announce" /\ st' = [st EXCEPT !.sleeping = TRUE, !.pc = "again"]

LooksAgain ==
  /\ st.pc = "again"
  /\ st' = IF HasReady THEN [st EXCEPT !.sleeping = FALSE, !.pc = "spawns"] ELSE [st EXCEPT !.pc = "park"]

(* ... the park, which a byte or its timeout ends, and the byte is taken out. *)
Unpark == st.pc = "park" /\ st.pipe /\ st' = [st EXCEPT !.pipe = FALSE, !.pc = "awake"]
ParkTimesOut == st.pc = "park" /\ st' = [st EXCEPT !.pipe = FALSE, !.pc = "awake"]
Awake == st.pc = "awake" /\ st' = [st EXCEPT !.sleeping = FALSE, !.pc = "spawns"]

----------------------------------------------------------------------------
(* xring_push: the message and the tail; a full ring refuses; ... *)
Pushed(s, p, h) ==
  [s EXCEPT !.ring[RingOf(p)] = Append(@, [src |-> p, n |-> s.nmsg + 1, to |-> h]),
            !.nmsg = @ + 1, !.sp[p] = "look"]

MayPush(p) == st.sp[p] = "idle" /\ st.nmsg < MaxMsgs /\ Len(st.ring[RingOf(p)]) < RingCap

(* xtc_tnt_send by a handler of another shard. *)
Send(p, h) == p \in Peers /\ MayPush(p) /\ st' = Pushed(st, p, h)

(* xtc_tnt_send_from, under ext_lock. *)
SendFrom(p, h) ==
  p \in Exts /\ MayPush(p) /\ st.lock = "none" /\ st' = [Pushed(st, p, h) EXCEPT !.lock = p]

(* ... then `sleeping`, ... *)
PushLooks(p) ==
  /\ st.sp[p] = "look"
  /\ st' = IF st.sleeping THEN [st EXCEPT !.sp[p] = "wake"]
           ELSE [st EXCEPT !.sp[p] = "idle", !.lock = IF p \in Exts THEN "none" ELSE @]

(* ... and the byte (shard_wake). *)
PushWakes(p) ==
  /\ st.sp[p] = "wake"
  /\ st' = [st EXCEPT !.pipe = TRUE, !.sp[p] = "idle", !.lock = IF p \in Exts THEN "none" ELSE @]

(* xtc_tnt_spawn_on; the byte follows the request. *)
SpawnOn ==
  /\ st.ninc + st.spawns + st.req < MaxSpawns /\ st.spawns = 0
  /\ st' = [st EXCEPT !.spawns = 1, !.pipe = TRUE]

(* comp_push and shard_wake, by a fiber that is done. *)
Posted(s, c) ==
  IF Len(s.comp) >= CompCap THEN [s EXCEPT !.overflow = TRUE, !.pipe = TRUE]
  ELSE [s EXCEPT !.comp = Append(@, c), !.pipe = TRUE]

(* xtc_tnt_courier_main: a receive that brought something allocates a buffer, a send that
   owned one frees it. *)
Courier(c) ==
  /\ c \in st.couriers
  /\ \E data \in BOOLEAN :
       /\ data => c.kind = "recv"
       /\ LET s == [st EXCEPT !.couriers = @ \ {c},
                      !.live = CASE data -> @ + 1 [] c.kind = "owned" -> @ - 1 [] OTHER -> @]
          IN  st' = Posted(s, [to |-> c.to, buf |-> data])

(* xtc_tnt_timer_main *)
TimerFires(t) ==
  /\ t \in st.timers
  /\ st' = Posted([st EXCEPT !.timers = @ \ {t}], [to |-> t.to, buf |-> FALSE])

(* xtc_tnt_stop *)
Stop == MayStop /\ ~st.stop /\ st' = [st EXCEPT !.stop = TRUE, !.pipe = TRUE]

ShardRuns ==
  \/ Boot \/ DrainSpawns \/ ServeSpawn \/ (\E r \in Rings : DrainLoad(r)) \/ DrainStore
  \/ Completion \/ Scan \/ Ticked \/ LooksReady \/ Announce \/ LooksAgain \/ Unpark \/ Awake

Next ==
  \/ ShardRuns \/ ParkTimesOut \/ SpawnOn \/ Stop
  \/ \E p \in Senders : PushLooks(p) \/ PushWakes(p) \/ \E h \in st.handles : Send(p, h) \/ SendFrom(p, h)
  \/ (\E c \in st.couriers : Courier(c)) \/ (\E t \in st.timers : TimerFires(t))

----------------------------------------------------------------------------
(* The fields of the shard have their types. *)
TypeOK ==
  /\ \A k \in Slots : /\ st.slot[k].state \in {"FREE", "WAIT_MESSAGE", "READY", "WAIT_IO"}
                      /\ st.slot[k].gen \in 0 .. GenMod - 1 /\ Len(st.slot[k].mbox) <= MboxCap
  /\ \A r \in Rings : Len(st.ring[r]) <= RingCap
  /\ Len(st.comp) <= CompCap /\ st.lock \in Exts \cup {"none"}

(* xtc_tnt_deliver and drain_completions: no message, completion or timer reaches another
   isolate than the one it was for, although slots are used again; and those of one sender
   are handled in order. *)
RightIsolate == ~st.mistaken

(* slot_spawn and slot_teardown: every slot is free once or used, and the generation of a
   handle that is not stale is its isolate's. *)
SlotsExact ==
  /\ IsInjective(st.free)
  /\ \A k \in Slots : (st.slot[k].state = "FREE") <=> (\E j \in DOMAIN st.free : st.free[j] = k)
  /\ \A h \in st.handles :
       st.slot[h.slot].state # "FREE" /\ st.slot[h.slot].gen = h.gen => st.slot[h.slot].inc = h.inc

(* Parked: an isolate with mail is dispatched, waits for I/O, or runs; one that waits for
   I/O has a courier, or its completion is there. *)
NoneForgotten ==
  \A k \in Slots :
    LET t == st.slot[k] IN
    /\ t.state = "WAIT_MESSAGE" => t.mbox = <<>>
    /\ t.state = "WAIT_IO" /\ ~st.overflow =>
         \/ \E c \in st.couriers : c.to = Handle(st, k)
         \/ \E j \in DOMAIN st.comp : st.comp[j].to = Handle(st, k)

(* xtc_tnt_shard_main: a shard parked on an empty pipe has nothing to do that its timeout
   would have to find: every sender that has pushed is about to write the byte. *)
ParkIsWoken ==
  st.pc = "park" /\ ~st.pipe =>
    /\ st.spawns = 0 /\ st.comp = <<>> /\ ~st.stop
    /\ \A k \in Slots : st.slot[k].state # "READY"
    /\ \A r \in Rings : st.ring[r] # <<>> => \E p \in Senders : RingOf(p) = r /\ st.sp[p] # "idle"

(* xtc_tnt_io_send_owned, xtc_tnt_recv_take: every buffer is freed once, or the isolate's. *)
BuffersExact ==
  ~st.overflow =>
    st.live = Cardinality({c \in st.couriers : c.kind = "owned"})
              + Len(SelectSeq(st.comp, LAMBDA c : c.buf)) + st.taken
=============================================================================
