----------------------------- MODULE ProcWaitFd -----------------------------
(***************************************************************************)
(* xtc_proc_wait_fd of ptc/proc.c: a migratable proc waits for one         *)
(* descriptor, its mailbox, a kill and a deadline at once, and is resumed  *)
(* on any loop.  Each loop's thread runs the proc, or polls its own        *)
(* registry and fires its own timers; another loop's registration is only  *)
(* ever deleted through that loop's queue of deferred deletes.  The n-th   *)
(* park has token n and, with a deadline, timer n; 0 is none.              *)
(***************************************************************************)
EXTENDS Naturals, FiniteSets

CONSTANTS
  Loops,        \* the loops, each with its thread, registry and timer heap
  Home,         \* the loop the proc starts on
  MaxParks,     \* bound: registrations of the descriptor
  MaxSends,     \* bound: messages sent to the proc
  Kills         \* whether somebody kills the proc

(* st has the fields
     pc, at, rev, deadline, rc          the proc: step, loop, sampled wake_revents, timed, result
     mail, armed, kill, deferred        mailbox not empty, waker_armed, kill_pending, mask_deferred
     wake_pending, wake_revents, park_fd, park_io, park_timer      its task
     gen, hand, mine                    park_gen; registry and timer in the proc's hands
     reg, pending_del                   the registry of each loop and its deferred deletes
     heap, fired, refs                  the timers: the loop whose heap has it, state, references
     lpc, tok, io, due                  a loop's thread: step, token, registry and timer in hand
     hot, sends, kpc                    the descriptor is readable; the other threads *)
VARIABLE st

Timers == 1 .. MaxParks

Init ==
    st = [pc |-> "body", at |-> Home, rev |-> {}, deadline |-> FALSE, rc |-> "ok",
          mail |-> FALSE, armed |-> FALSE, kill |-> FALSE, deferred |-> FALSE,
          wake_pending |-> FALSE, wake_revents |-> {}, park_fd |-> 0, park_io |-> 0,
          park_timer |-> 0, gen |-> 0, hand |-> 0, mine |-> 0,
          reg |-> [k \in Loops |-> FALSE], pending_del |-> [k \in Loops |-> FALSE],
          heap |-> [n \in Timers |-> 0], fired |-> [n \in Timers |-> "no"],
          refs |-> [n \in Timers |-> 0],
          lpc |-> [k \in Loops |-> IF k = Home THEN "run" ELSE "idle"],
          tok |-> [k \in Loops |-> 0], io |-> [k \in Loops |-> 0], due |-> [k \in Loops |-> 0],
          hot |-> FALSE, sends |-> 0, kpc |-> "idle"]

(* xtc_waker_wake of the proc's task, in a state that is s otherwise. *)
Wake(s) ==
  IF s.pc = "parked" THEN [s EXCEPT !.pc = "ready"]
  ELSE IF s.pc = "dead" THEN s
  ELSE [s EXCEPT !.wake_pending = TRUE]

(* The fiber leaves the loop it runs on. *)
Leave(s, to) == [s EXCEPT !.pc = to, !.lpc[st.at] = "idle"]
Die(s) == Leave(s, "dead")

(* __xtc_timer_park_release *)
Release(s, n) == [s EXCEPT !.refs[n] = IF @ = 0 THEN 0 ELSE @ - 1]

----------------------------------------------------------------------------
(* A pending kill is delivered at once; else the causes of earlier wakes go, ... *)
Call(timed) ==
  /\ st.pc = "body" /\ st.gen < MaxParks
  /\ st' = IF st.kill THEN Die(st)
           ELSE [st EXCEPT !.deadline = timed, !.rc = "ok", !.wake_revents = {}, !.pc = "check"]

(* ... and under mbox_lock a message ends the call, or the waker is armed and a kill
   seen, which is then delivered. *)
Check ==
  /\ st.pc = "check"
  /\ st' = IF st.mail THEN [st EXCEPT !.rc = "ok", !.pc = "body"]
           ELSE IF st.kill THEN Die([st EXCEPT !.armed = TRUE])
           ELSE [st EXCEPT !.armed = TRUE, !.pc = "reg"]

(* xtc_io_reg_fd on the loop the proc runs on: a delete in the queue is applied first;
   a live registration is an error, and the waker is disarmed. *)
Reg ==
  /\ st.pc = "reg"
  /\ LET s == [st EXCEPT !.pending_del[st.at] = FALSE]
     IN st' = IF st.reg[st.at] /\ ~st.pending_del[st.at]
              THEN [s EXCEPT !.armed = FALSE, !.rc = "inval", !.pc = "body"]
              ELSE [s EXCEPT !.reg[st.at] = TRUE, !.park_io = st.at, !.gen = @ + 1,
                             !.park_fd = st.gen + 1,
                             !.pc = IF st.deadline THEN "timer" ELSE "yield"]

(* The timer of the deadline belongs to the heap and to park_timer. *)
Timer ==
  /\ st.pc = "timer"
  /\ st' = [st EXCEPT !.heap[st.gen] = st.at, !.refs[st.gen] = 2, !.park_timer = st.gen,
                      !.pc = "yield"]

(* xtc_yield: a wake that came before the park ends it. *)
Yield ==
  /\ st.pc = "yield"
  /\ st' = Leave([st EXCEPT !.wake_pending = FALSE],
                 IF st.wake_pending THEN "ready" ELSE "parked")

(* The proc is resumed on a loop, its own or a thief.  The park is masked: a kill is
   only noted. *)
Resume(l) ==
  /\ st.pc = "ready" /\ st.lpc[l] = "idle"
  /\ st' = [st EXCEPT !.at = l, !.lpc[l] = "run", !.deferred = st.kill,
                      !.wake_pending = FALSE, !.pc = "disarm"]

Disarm ==
  /\ st.pc = "disarm"
  /\ st' = [st EXCEPT !.armed = FALSE, !.pc = "sample"]

(* wake_revents is read, and then cleared. *)
Sample ==
  /\ st.pc = "sample"
  /\ st' = [st EXCEPT !.rev = st.wake_revents, !.pc = "zero"]

Zero ==
  /\ st.pc = "zero"
  /\ st' = [st EXCEPT !.wake_revents = {}, !.pc = "claim"]

(* The registration is the proc's to delete if it takes park_fd, ... *)
Claim ==
  /\ st.pc = "claim"
  /\ st' = [st EXCEPT !.hand = IF st.park_fd # 0 THEN st.park_io ELSE 0,
                      !.park_fd = 0, !.park_io = 0, !.pc = "del"]

(* ... __xtc_io_defer_del_fd: at once on its own loop, else through the queue. *)
Del ==
  /\ st.pc = "del"
  /\ st' = IF st.hand = 0 THEN [st EXCEPT !.pc = "slot"]
           ELSE IF st.hand = st.at
           THEN [st EXCEPT !.reg[st.at] = FALSE, !.hand = 0, !.pc = "slot"]
           ELSE [st EXCEPT !.pending_del[st.hand] = TRUE, !.hand = 0, !.pc = "slot"]

(* The timer is the proc's to cancel if park_timer still has it, ... *)
Slot ==
  /\ st.pc = "slot"
  /\ st' = IF st.deadline /\ st.park_timer # 0
           THEN [st EXCEPT !.mine = st.park_timer, !.park_timer = 0, !.pc = "cancel"]
           ELSE [st EXCEPT !.pc = "return"]

(* ... __xtc_timer_try_cancel: `fired` arbitrates, and on the timer's own loop the node
   leaves the heap, ... *)
Cancel ==
  /\ st.pc = "cancel"
  /\ LET n == st.mine
         s == [st EXCEPT !.fired[n] = IF @ = "no" THEN "cancelled" ELSE @, !.pc = "release"]
     IN st' = IF st.fired[n] = "no" /\ st.heap[n] = st.at
              THEN Release([s EXCEPT !.heap[n] = 0], n) ELSE s

(* ... and the reference of park_timer is dropped. *)
ReleaseSlot ==
  /\ st.pc = "release"
  /\ st' = Release([st EXCEPT !.mine = 0, !.pc = "return"], st.mine)

(* The mailbox is looked at again, the mask is lowered and a kill delivered, or the call
   returns. *)
Return ==
  /\ st.pc = "return"
  /\ LET rev == st.rev \union (IF st.mail THEN {"mailbox"} ELSE {})
     IN st' = IF st.deferred \/ st.kill THEN Die([st EXCEPT !.deferred = FALSE])
              ELSE [st EXCEPT !.rev = {}, !.rc = IF rev = {"timeout"} THEN "again" ELSE "ok",
                              !.pc = "body"]

(* What the caller does in between: it takes its mail or reads the descriptor. *)
Body ==
  /\ st.pc = "body"
  /\ \/ st.mail /\ st' = [st EXCEPT !.mail = FALSE]
     \/ st.hot /\ st' = [st EXCEPT !.hot = FALSE]

(* It yields, and a thief goes on with it. *)
Migrate(l) ==
  /\ st.pc = "body" /\ st.lpc[l] = "idle"
  /\ st' = [Leave(st, "body") EXCEPT !.at = l, !.lpc[l] = "run", !.wake_pending = FALSE]

----------------------------------------------------------------------------
(* A loop's thread polls: deferred deletes are applied, then an event is reaped. *)
Poll(l) ==
  /\ st.lpc[l] = "idle" /\ (st.pending_del[l] \/ (st.reg[l] /\ st.hot))
  /\ LET live == st.reg[l] /\ ~st.pending_del[l]
     IN st' = [st EXCEPT !.reg[l] = live, !.pending_del[l] = FALSE,
                         !.lpc[l] = IF live /\ st.hot THEN "event" ELSE "idle"]

(* __xtc_loop_dispatch_event: the cause, the token, then its registry are read, ... *)
Event(l) ==
  /\ st.lpc[l] = "event"
  /\ st' = [st EXCEPT !.wake_revents = @ \union {"fd"}, !.lpc[l] = "token"]

Token(l) ==
  /\ st.lpc[l] = "token"
  /\ st' = [st EXCEPT !.tok[l] = st.park_fd, !.lpc[l] = "io"]

Io(l) ==
  /\ st.lpc[l] = "io"
  /\ st' = [st EXCEPT !.io[l] = st.park_io, !.lpc[l] = "cas"]

(* A mutant: the park of the descriptor is taken whatever registry it is on. *)
CasAny(l) ==
  /\ st.lpc[l] = "cas"
  /\ st' = [st EXCEPT !.park_fd = IF @ = st.tok[l] THEN 0 ELSE @,
                      !.reg[l] = FALSE, !.tok[l] = 0, !.io[l] = 0, !.lpc[l] = "wake"]

(* ... a park on this very registry is claimed, this registration deleted, ... *)
Cas(l) ==
  /\ st.lpc[l] = "cas"
  /\ st' = [st EXCEPT !.park_fd = IF st.io[l] = l /\ @ = st.tok[l] THEN 0 ELSE @,
                      !.reg[l] = FALSE, !.tok[l] = 0, !.io[l] = 0, !.lpc[l] = "wake"]

(* ... and the task woken. *)
EventWake(l) ==
  /\ st.lpc[l] = "wake"
  /\ st' = Wake([st EXCEPT !.lpc[l] = "idle"])

(* __xtc_timer_heap_pop_due: a cancelled timer is dropped, a due one claimed to fire. *)
PopDue(l, n) ==
  /\ st.lpc[l] = "idle" /\ st.heap[n] = l
  /\ st' = IF st.fired[n] = "cancelled" THEN Release([st EXCEPT !.heap[n] = 0], n)
           ELSE [st EXCEPT !.heap[n] = 0, !.fired[n] = "fired", !.due[l] = n, !.lpc[l] = "fire"]

(* __drain_due_timers: the cause, the wake, ... *)
Fire(l) ==
  /\ st.lpc[l] = "fire"
  /\ st' = [st EXCEPT !.wake_revents = @ \union {"timeout"}, !.lpc[l] = "firewake"]

FireWake(l) ==
  /\ st.lpc[l] = "firewake"
  /\ st' = Wake([st EXCEPT !.lpc[l] = "fireslot"])

(* ... the reference of park_timer if it still has this timer, and that of the heap. *)
FireSlot(l) ==
  /\ st.lpc[l] = "fireslot"
  /\ st' = IF st.park_timer = st.due[l]
           THEN Release([st EXCEPT !.park_timer = 0, !.lpc[l] = "fireheap"], st.due[l])
           ELSE [st EXCEPT !.lpc[l] = "fireheap"]

FireHeap(l) ==
  /\ st.lpc[l] = "fireheap"
  /\ st' = Release([st EXCEPT !.due[l] = 0, !.lpc[l] = "idle"], st.due[l])

----------------------------------------------------------------------------
(* The descriptor becomes readable, which only a registry that has it can tell. *)
Readable ==
  /\ ~st.hot /\ \E l \in Loops : st.reg[l]
  /\ st' = [st EXCEPT !.hot = TRUE]

(* __mbox_deliver_locked of a proc that is alive. *)
Send ==
  /\ st.pc # "dead" /\ st.sends < MaxSends
  /\ LET s == [st EXCEPT !.mail = TRUE, !.sends = @ + 1]
     IN st' = IF st.armed THEN Wake([s EXCEPT !.wake_revents = @ \union {"mailbox"}]) ELSE s

(* __exit_pid_on: the mark, then the wake of the task that last ran or is armed. *)
KillMark ==
  /\ Kills /\ st.kpc = "idle" /\ st.pc # "dead"
  /\ st' = [st EXCEPT !.kill = TRUE, !.kpc = "wake"]

KillWake ==
  /\ st.kpc = "wake"
  /\ st' = Wake([st EXCEPT !.kpc = "done", !.armed = FALSE])

Runs ==
  \/ Check \/ Reg \/ Timer \/ Yield \/ Disarm \/ Sample \/ Zero \/ Claim \/ Del
  \/ Slot \/ Cancel \/ ReleaseSlot \/ Return \/ \E l \in Loops : Resume(l)

LoopRuns(l) ==
  \/ Poll(l) \/ Event(l) \/ Token(l) \/ Io(l) \/ Cas(l) \/ EventWake(l)
  \/ (\E n \in Timers : PopDue(l, n)) \/ Fire(l) \/ FireWake(l) \/ FireSlot(l) \/ FireHeap(l)

Next ==
  \/ \E timed \in BOOLEAN : Call(timed)
  \/ Runs \/ Body \/ Readable \/ Send \/ KillMark \/ KillWake
  \/ \E l \in Loops : LoopRuns(l) \/ Migrate(l)

----------------------------------------------------------------------------
(* Properties *)

Dispatching == {"event", "token", "io", "cas"}

TypeOK ==
  /\ st.at \in Loops /\ st.gen \in 0 .. MaxParks /\ st.park_fd \in {0, st.gen}
  /\ st.wake_revents \subseteq {"fd", "mailbox", "timeout"}
  /\ \A n \in Timers : st.refs[n] \in 0 .. 2 /\ st.heap[n] \in {0} \union Loops
  /\ \A l \in Loops : st.lpc[l] = "run" => st.at = l
  /\ st.pc \notin {"parked", "ready", "dead"} <=> st.lpc[st.at] = "run"

(* Out of the wait, by return or by a kill, nothing of the proc's is left behind: not its
   timer, and of its registrations only such as the registry's own thread is about to
   delete, so that the next wait for the descriptor is never refused as a duplicate. *)
NothingLeft ==
  /\ st.rc # "inval"
  /\ st.pc \in {"body", "dead"} =>
       /\ st.park_fd = 0 /\ st.park_timer = 0
       /\ \A n \in Timers : st.heap[n] # 0 => st.fired[n] = "cancelled"
       /\ \A l \in Loops : st.reg[l] => st.pending_del[l] \/ st.lpc[l] \in Dispatching

(* The references to a timer are those of the heap, or of the thread that popped it, and
   of park_timer, or of the proc that took it out: it is freed once and by the last. *)
TimerRefs ==
  \A n \in Timers :
    st.refs[n] = Cardinality({l \in Loops : st.heap[n] = l \/ st.due[l] = n})
                   + Cardinality({i \in {st.park_timer, st.mine} : i = n})

(* A wake is on its way. *)
Stirred == st.kpc = "wake" \/ \E l \in Loops : st.lpc[l] \in Dispatching \union {"wake", "fire", "firewake"}

(* A proc is parked only on what can still wake it: no mail and no kill, its registration
   in its registry with no delete behind it, and its timer still to fire. *)
ParkIsWatched ==
  st.pc = "parked" /\ ~Stirred =>
    /\ st.armed /\ ~st.mail /\ ~st.kill
    /\ st.park_fd # 0 /\ st.reg[st.park_io] /\ ~st.pending_del[st.park_io]
    /\ st.deadline => st.heap[st.gen] \in Loops /\ st.fired[st.gen] = "no"

(* XTC_E_AGAIN is the answer to a wait whose own deadline has passed. *)
AgainIsDue == st.rc = "again" => st.deadline /\ st.fired[st.gen] = "fired"

MustReturn ==
  st.pc \notin {"body", "dead"} /\ (st.deadline \/ st.hot \/ st.mail \/ st.kill)
Returned == st.pc \in {"body", "dead"}
=============================================================================
