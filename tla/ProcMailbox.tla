---------------------------- MODULE ProcMailbox ----------------------------
(***************************************************************************)
(* The mailbox of ptc/proc.c: a proc that receives (with a filter and a    *)
(* deadline) or sleeps, and senders, killers and wakers on other threads.  *)
(* What happens under mbox_lock is one step.  A wake makes a parked task   *)
(* run; of a running one it is remembered until its next park.  The k-th   *)
(* message accepted is <<tag, k>>.                                         *)
(***************************************************************************)
EXTENDS Naturals, Sequences, FiniteSets
LOCAL INSTANCE SequencesExt

CONSTANTS
  Senders, Killers, Wakers,   \* threads that send, xtc_exit_pid, xtc_proc_wake
  Cap,                        \* mbox_cap
  Waits,                      \* the waits the proc uses: "no", "timed", "forever", "sleep"
  MaxSends,                   \* bound: messages of a sender
  MaxCalls                    \* bound: receives and sleeps of the proc

Tags == {"x", "y"}
Filters == {"any", "x"}

(* st has the fields
     mbox, saved, armed, alive, slot, run_task, kill_pending   struct xtc_proc
     timer, wake_pending                                       its task
     pc, want, wait, due, hand, mark       __do_recv: step, filter, wait, deadline passed,
                                           popped message (or <<>>), saved ones already tested
     spc, msg, kpc, wpc                    the other threads
     accepted, received, sys, sends, calls history: messages in order; DOWN and EXIT signals *)
VARIABLE st

Init ==
  st = [mbox |-> <<>>, saved |-> <<>>, armed |-> FALSE, alive |-> TRUE, slot |-> TRUE,
        run_task |-> TRUE, kill_pending |-> FALSE, timer |-> FALSE, wake_pending |-> FALSE,
        pc |-> "body", want |-> "any", wait |-> "no", due |-> FALSE, hand |-> <<>>, mark |-> 0,
        spc |-> [s \in Senders |-> "idle"], msg |-> [s \in Senders |-> "x"],
        kpc |-> [k \in Killers |-> "idle"], wpc |-> [w \in Wakers |-> "idle"],
        accepted |-> <<>>, received |-> <<>>, sys |-> 0, sends |-> [s \in Senders |-> 0],
        calls |-> 0]

(* xtc_waker_wake of the proc's task, in a state that is s otherwise. *)
Wake(s) ==
  IF s.pc = "parked" THEN [s EXCEPT !.pc = "resumed"]
  ELSE IF s.pc = "done" THEN s
  ELSE [s EXCEPT !.wake_pending = TRUE]

Matches(m) == st.want \in {"any", m[1]}
Take(s, m) == [s EXCEPT !.received = Append(@, m), !.timer = FALSE, !.pc = "body"]

----------------------------------------------------------------------------
(* __do_recv, xtc_proc_sleep: a pending kill is delivered at once. *)
Call(f, w) ==
  /\ st.pc = "body" /\ st.calls < MaxCalls /\ ~st.kill_pending
  /\ st' = [st EXCEPT !.calls = @ + 1, !.want = f, !.wait = w, !.due = FALSE, !.mark = 0,
                      !.pc = IF w = "sleep" THEN "sleep" ELSE "walk"]

(* The messages saved since `mark` that the filter takes. *)
Fits == {i \in st.mark + 1 .. Len(st.saved) : Matches(st.saved[i])}

Walk ==
  /\ st.pc = "walk"
  /\ IF Fits = {} THEN st' = [st EXCEPT !.pc = "pop"]
     ELSE LET i == CHOOSE i \in Fits : \A j \in Fits : i <= j
          IN st' = Take([st EXCEPT !.saved = RemoveAt(@, i)], st.saved[i])

Pop ==
  /\ st.pc = "pop" /\ st.mbox # <<>>
  /\ st' = [st EXCEPT !.hand = Head(st.mbox), !.mbox = Tail(@), !.pc = "test"]

(* A popped message is delivered or set aside. *)
Test ==
  /\ st.pc = "test"
  /\ LET s == [st EXCEPT !.hand = <<>>]
     IN st' = IF Matches(st.hand) THEN Take(s, st.hand)
              ELSE [s EXCEPT !.saved = Append(@, st.hand), !.pc = "pop"]

(* A mutant: the waker is armed after the lock is released. *)
PopEmptyLate ==
  /\ st.pc = "pop" /\ st.mbox = <<>>
  /\ st' = [st EXCEPT !.mark = Len(st.saved), !.pc = IF st.wait = "no" THEN "body" ELSE "arm"]

(* The empty mailbox arms the waker under the lock, unless the call is not to wait. *)
PopEmpty ==
  /\ st.pc = "pop" /\ st.mbox = <<>>
  /\ st' = [st EXCEPT !.mark = Len(st.saved), !.armed = @ \/ st.wait # "no",
                      !.pc = IF st.wait = "no" THEN "body" ELSE "arm"]

(* XTC_E_AGAIN at the deadline; before it the park timer is set anew. *)
Deadline ==
  /\ st.pc = "arm"
  /\ st' = IF st.wait = "timed" /\ st.due THEN [st EXCEPT !.timer = FALSE, !.pc = "body"]
           ELSE [st EXCEPT !.timer = st.wait = "timed", !.pc = "yield"]

(* xtc_proc_sleep: kill, deadline, timer, park. *)
Sleep ==
  /\ st.pc = "sleep"
  /\ st' = IF st.kill_pending THEN [st EXCEPT !.pc = "dying"]
           ELSE IF st.due THEN [st EXCEPT !.pc = "body"]
           ELSE [st EXCEPT !.timer = TRUE, !.pc = "yield"]

(* xtc_yield: a wake that came before the park ends it. *)
Yield ==
  /\ st.pc = "yield"
  /\ st' = IF st.wake_pending THEN [st EXCEPT !.wake_pending = FALSE, !.pc = "resumed"]
           ELSE [st EXCEPT !.pc = "parked"]

(* After the park: sleep takes its timer down, and a kill is delivered. *)
Resume ==
  /\ st.pc = "resumed"
  /\ LET s == [st EXCEPT !.timer = @ /\ st.wait # "sleep" /\ ~st.kill_pending]
     IN st' = IF st.kill_pending THEN [s EXCEPT !.pc = "dying"]
              ELSE [s EXCEPT !.pc = IF st.wait = "sleep" THEN "sleep" ELSE "disarm"]

Disarm ==
  /\ st.pc = "disarm"
  /\ st' = [st EXCEPT !.armed = FALSE, !.pc = "walk"]

(* The deadline passes; the timer of a park fires after it. *)
Tick ==
  /\ st.wait \in {"timed", "sleep"} /\ ~st.due /\ st.pc \notin {"body", "dying", "done"}
  /\ st' = [st EXCEPT !.due = TRUE]

Fire ==
  /\ st.timer /\ st.due
  /\ st' = Wake([st EXCEPT !.timer = FALSE])

----------------------------------------------------------------------------
(* __proc_entry past the body, by return, xtc_exit_self or a kill: not alive, ... *)
Die ==
  /\ st.pc = "body" \/ st.pc = "dying"
  /\ st' = [st EXCEPT !.alive = FALSE, !.pc = "hooks"]

(* ... the hooks have run, and the task can no longer be found, ... *)
Hooks ==
  /\ st.pc = "hooks"
  /\ st' = [st EXCEPT !.kill_pending = FALSE, !.run_task = FALSE, !.pc = "notify"]

(* ... the slot is given up, the peers are told, and the task completes. *)
Notify ==
  /\ st.pc = "notify"
  /\ st' = [st EXCEPT !.slot = FALSE, !.pc = "done"]

----------------------------------------------------------------------------
(* __send_ex: the proc is there, ... *)
Send(s, m) ==
  /\ st.spc[s] = "idle" /\ st.sends[s] < MaxSends /\ st.alive
  /\ st' = [st EXCEPT !.spc[s] = "deliver", !.msg[s] = m, !.sends[s] = @ + 1]

(* A mutant: the messages set aside do not count. *)
FullMbox == Len(st.mbox) >= Cap

Full == Len(st.mbox) + Len(st.saved) >= Cap

Push(s, sys) ==
  LET m == <<st.msg[s], Len(st.accepted) + 1>>
      q == [st EXCEPT !.mbox = Append(@, m), !.accepted = Append(@, m), !.spc[s] = "idle",
                      !.sys = IF sys THEN @ + 1 ELSE @]
  IN IF st.armed THEN Wake(q) ELSE q

Rejects(sys) == ~st.alive \/ (~sys /\ Full)

(* ... and __mbox_deliver_locked puts the message in and fires an armed waker, or
   rejects it: the proc is dead, or full and the message no DOWN or EXIT. *)
Deliver(s) ==
  /\ st.spc[s] = "deliver"
  /\ \E sys \in BOOLEAN :
       /\ sys => st.sys = 0
       /\ st' = IF Rejects(sys) THEN [st EXCEPT !.spc[s] = "idle"] ELSE Push(s, sys)

----------------------------------------------------------------------------
(* __exit_pid_on: the proc is there, ... *)
KillCheck(k) ==
  /\ st.kpc[k] = "idle" /\ st.alive
  /\ st' = [st EXCEPT !.kpc[k] = "mark"]

(* ... the first kill stays, ... *)
KillMark(k) ==
  /\ st.kpc[k] = "mark"
  /\ st' = [st EXCEPT !.kill_pending = TRUE, !.kpc[k] = "wake"]


(* ... and the task is woken, through the armed waker or as the one that last ran. *)
KillWake(k) ==
  /\ st.kpc[k] = "wake"
  /\ LET s == [st EXCEPT !.kpc[k] = "done"]
     IN st' = IF st.armed THEN Wake([s EXCEPT !.armed = FALSE])
              ELSE IF st.run_task THEN Wake(s) ELSE s

(* xtc_proc_wake *)
WakeCheck(w) ==
  /\ st.wpc[w] = "idle" /\ st.alive
  /\ st' = [st EXCEPT !.wpc[w] = "wake"]

WakeLocked(w) ==
  /\ st.wpc[w] = "wake"
  /\ LET s == [st EXCEPT !.wpc[w] = "done"]
     IN st' = IF st.armed THEN Wake(s) ELSE s

(* What the proc's fiber does by itself once it is in a call. *)
Runs == \/ Walk \/ Pop \/ Test \/ PopEmpty \/ Deadline \/ Sleep \/ Yield \/ Resume \/ Disarm
        \/ (st.pc = "dying" /\ Die) \/ Hooks \/ Notify

Next ==
  \/ \E f \in Filters, w \in Waits : (w = "sleep" => f = "any") /\ Call(f, w)
  \/ Runs \/ Die \/ Tick \/ Fire
  \/ \E s \in Senders : (\E m \in Tags : Send(s, m)) \/ Deliver(s)
  \/ \E k \in Killers : KillCheck(k) \/ KillMark(k) \/ KillWake(k)
  \/ \E w \in Wakers : WakeCheck(w) \/ WakeLocked(w)

----------------------------------------------------------------------------
(* Properties *)

TypeOK ==
  /\ st.mark \in 0 .. Len(st.saved)
  /\ st.pc \in {"body", "walk", "pop", "test", "arm", "sleep", "yield", "parked", "resumed",
                "disarm", "dying", "hooks", "notify", "done"}
  /\ st.hand # <<>> <=> st.pc = "test"
  /\ st.slot \/ ~st.alive

OfTag(q, t) == SelectSeq(q, LAMBDA m : m[1] = t)

(* However receives with different filters interleave with the senders, messages of one
   kind arrive in the order in which they were accepted, and none is lost or doubled. *)
MailInOrder ==
  \A t \in Tags :
    OfTag(st.received \o st.saved, t) \o (IF st.pc = "test" THEN OfTag(<<st.hand>>, t) ELSE <<>>)
      \o OfTag(st.mbox, t) = OfTag(st.accepted, t)

(* Nobody is parked in a receive with a message in the mailbox, nor in any wait with a
   kill that no killer is about to tell of. *)
NoSleepOnMail ==
  st.pc = "parked" =>
    /\ st.wait # "sleep" => st.mbox = <<>>
    /\ st.kill_pending => \E k \in Killers : st.kpc[k] = "wake"

(* The mailbox and the messages set aside are bounded by the capacity, one message that
   was in the receiver's hands, and the signals that bypass it. *)
MailBounded == Len(st.mbox) + Len(st.saved) <= Cap + 1 + st.sys

(* In a call that must end: with a message for it, a kill, or a deadline. *)
MustReturn ==
  /\ st.pc \notin {"body", "dying", "hooks", "notify", "done"}
  /\ \/ st.wait # "forever" \/ st.kill_pending
     \/ st.wait # "sleep" /\ \E m \in Range(st.mbox) : Matches(m)
Returned == st.pc \in {"body", "done"}
=============================================================================
