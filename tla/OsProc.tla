------------------------------ MODULE OsProc ------------------------------
(***************************************************************************)
(* Work outside the process or against a deadline: OS processes and their  *)
(* reaping (orc/osproc.c), the process pair of xtc_xspawn with its control *)
(* channel and its shadow (orc/xproc.c), request and reply over that       *)
(* channel, and xtc_launch (orc/launch.c).                                 *)
(***************************************************************************)
EXTENDS Naturals, Sequences, FiniteSets

CONSTANTS
  ByEntry,       \* xtc_xspawn_entry (a new image, its argument the first frame), or a fork
  OneLoop,       \* the handle and its shadow are used on one loop
  Codes,         \* reasons with which the child's root exits
  MaxFrames,     \* bound: frames sent
  MaxCalls, MaxMail   \* bounds: calls of the channel; other mail of a launcher

VARIABLE st

----------------------------------------------------------------------------
(* THE PROCESS PAIR.  st has
     child, status        the OS process: running states, zombie, reaped; its wait status
     sigs                 signals sent to it
     root, reason, down   its root proc; the exit reason; the DOWN in the pump's mailbox
     pump, code           the pump; the exit code it leaves
     chan, closed, mbox   frames to the child; whether the parent's end is closed; what the
                          root has received
     reaped, cached       the osproc's record of the wait status
     os, refs             whether the osproc is allocated, and __xproc_os.refs
     user, shadow         steps of the handle's user and of the shadow proc
     mid                  who is between waitpid and recording what it returned
     heard                the DOWN that a monitor of the shadow receives
     nsent                frames sent
     touched, stray       history: the osproc was used after it was freed; a signal went to
                          a pid that was reaped already *)
NoStatus == [kind |-> "none", n |-> 0]
XInit ==
  st = [child |-> IF ByEntry THEN "arg" ELSE "start", status |-> NoStatus, sigs |-> {},
        root |-> "none", reason |-> 0, down |-> FALSE, pump |-> "none", code |-> 0,
        chan |-> <<>>, closed |-> FALSE, mbox |-> <<>>, reaped |-> FALSE, cached |-> NoStatus,
        os |-> "live", refs |-> 1, user |-> IF ByEntry THEN "ship" ELSE "idle", shadow |-> "none",
        mid |-> "none", heard |-> NoStatus, nsent |-> 0, touched |-> FALSE, stray |-> FALSE]

StartFailures == {243, 251, 252, 253}   \* 240 - XTC_E_*, XPROC_CHILD_E_*
Running(s) == s.child \in {"arg", "start", "up"}
Dies(s, status) == [s EXCEPT !.child = "zombie", !.status = status, !.root = "gone", !.pump = "gone"]

(* Child side.  xtc_xproc_win_child_maybe: the first frame is the argument; a channel
   error, ten seconds without it and an unknown entry have codes of their own. *)
ChildArg ==
  /\ st.child = "arg"
  /\ \/ st.chan # <<>> /\ Head(st.chan) = 0
        /\ st' = [st EXCEPT !.child = "start", !.chan = Tail(@)]
     \/ st.chan # <<>> /\ st' = Dies(st, [kind |-> "EXIT", n |-> 253])
     \/ st.chan = <<>> /\ st' = Dies(st, [kind |-> "EXIT", n |-> IF st.closed THEN 251 ELSE 252])

(* xtc_xproc_child_main: the loop, which may fail for good; the pump. *)
ChildMain ==
  /\ st.child = "start"
  /\ \/ st' = [st EXCEPT !.child = "up", !.pump = "new"]
     \/ st' = Dies(st, [kind |-> "EXIT", n |-> 243])

(* child_pump_proc: the root is spawned and monitored at once; ... *)
PumpSpawns ==
  /\ st.pump = "new"
  /\ st' = [st EXCEPT !.pump = "run", !.root = "run"]

(* ... a frame goes to the root's mailbox, if it is there; ... *)
PumpFrame ==
  /\ st.pump = "run" /\ st.chan # <<>>
  /\ st' = [st EXCEPT !.chan = Tail(@),
                      !.mbox = IF st.root = "run" THEN Append(@, Head(st.chan)) ELSE @]

(* ... a slice without one looks for the root's DOWN; ... *)
PumpIdle ==
  /\ st.pump = "run" /\ st.chan = <<>> /\ ~st.closed /\ st.down
  /\ st' = [st EXCEPT !.pump = "gone", !.down = FALSE, !.code = st.reason]

(* ... and a closed channel ends it. *)
PumpClosed ==
  /\ st.pump = "run" /\ st.chan = <<>> /\ st.closed
  /\ st' = [st EXCEPT !.pump = "gone"]

(* child_root_proc: the root function returns or exits. *)
RootEnds(r) ==
  /\ st.root = "run"
  /\ st' = [st EXCEPT !.root = "gone", !.reason = r, !.down = st.pump = "run"]

(* The loop is idle: the process exits with eight bits of the code. *)
ChildReturns ==
  /\ st.child = "up" /\ st.root = "gone" /\ st.pump = "gone"
  /\ st' = Dies(st, [kind |-> IF st.code % 256 = 0 THEN "CLEAN" ELSE "EXIT", n |-> st.code % 256])

(* A signal that was sent, or a fault.  SIGTERM may be handled. *)
ChildSignalled ==
  /\ Running(st)
  /\ \E n \in {11} \cup st.sigs : st' = Dies(st, [kind |-> "SIGNAL", n |-> n])

----------------------------------------------------------------------------
(* Parent side.  A fiber that runs keeps its loop until it parks. *)
Turn(f) == OneLoop => st.mid \in {"none", f}
Touch(s) == [s EXCEPT !.touched = @ \/ s.os # "live"]

(* __xproc_os_release, and xtc_osproc_destroy at the last: the channel is closed, and the
   child reaped if it can be. *)
Release(s) ==
  IF s.refs > 1 THEN [s EXCEPT !.refs = @ - 1]
  ELSE [s EXCEPT !.refs = 0, !.os = "freed", !.closed = TRUE,
                 !.child = IF @ = "zombie" /\ ~s.reaped THEN "reaped" ELSE @]

(* xtc_osproc_try_wait of fiber f: what it returns, the child's fate being st's. *)
TryWait(s) ==
  CASE s.reaped -> "cached"
    [] s.child = "zombie" -> "reap"
    [] s.child = "reaped" -> "ECHILD"
    [] OTHER -> "AGAIN"

Reaps(s, f) == [Touch(s) EXCEPT !.child = "reaped", !.mid = f]
Records(s) == [Touch(s) EXCEPT !.reaped = TRUE, !.cached = s.status, !.mid = "none"]

(* xtc_xspawn_entry: the argument is shipped; a failure destroys the handle. *)
Ship ==
  /\ st.user = "ship"
  /\ st' = IF Running(st) THEN [st EXCEPT !.user = "idle", !.chan = Append(@, 0)]
           ELSE [st EXCEPT !.user = "term"]

(* xtc_xsend *)
XSend ==
  /\ st.user = "idle" /\ st.nsent < MaxFrames
  /\ st' = [Touch(st) EXCEPT !.nsent = @ + 1,
              !.chan = IF Running(st) THEN Append(@, st.nsent + 1) ELSE @]

(* xtc_xmonitor, xtc_xlink: __xproc_ensure_shadow. *)
XMonitor ==
  /\ st.user = "idle" /\ st.shadow = "none" /\ Turn("user")
  /\ st' = [st EXCEPT !.refs = @ + 1, !.shadow = "try"]

(* xtc_xproc_destroy: __xproc_terminate_and_reap, ... *)
XDestroy == st.user = "idle" /\ st' = [st EXCEPT !.user = "term"]

(* xtc_osproc_signal, guarded by `reaped`. *)
Signal(s, n) ==
  IF s.reaped THEN Touch(s)
  ELSE [Touch(s) EXCEPT !.sigs = IF Running(s) THEN @ \cup {n} ELSE @,
                        !.stray = @ \/ s.child = "reaped"]

UserTries ==
  /\ st.user \in {"term", "term2", "kill2"} /\ Turn("user") /\ st.mid # "user"
  /\ LET r == TryWait(st)
         next == CASE st.user = "term" -> [Signal(st, 15) EXCEPT !.user = "park"]
                   [] st.user = "term2" -> [Touch(st) EXCEPT !.user = "park"]
                   [] st.user = "kill2" -> [Touch(st) EXCEPT !.user = "parkKill"]
     IN  st' = CASE r = "reap" -> [Reaps(st, "user") EXCEPT !.user = "record"]
                 [] r = "AGAIN" -> next
                 [] r = "ECHILD" /\ st.user = "term" -> [Signal(st, 15) EXCEPT !.user = "park"]
                 [] r = "ECHILD" /\ st.user = "term2" -> [Signal(st, 9) EXCEPT !.user = "parkKill"]
                 [] OTHER -> [Touch(st) EXCEPT !.user = "release"]

UserRecords == st.user = "record" /\ st' = [Records(st) EXCEPT !.user = "release"]

(* The pidfd is readable once the child has exited; two seconds pass; SIGKILL follows. *)
UserWakes ==
  /\ st.user \in {"park", "parkKill"} /\ Turn("user") /\ ~Running(st)
  /\ st' = [Touch(st) EXCEPT !.user = IF st.user = "park" THEN "term2" ELSE "kill2"]

UserTimesOut ==
  /\ st.user \in {"park", "parkKill"} /\ Turn("user")
  /\ st' = IF st.user = "park" THEN [Signal(st, 9) EXCEPT !.user = "kill2"]
           ELSE [Touch(st) EXCEPT !.user = "release"]

(* ... and the handle's reference. *)
UserReleases ==
  /\ st.user = "release" /\ Turn("user")
  /\ st' = [Release(st) EXCEPT !.user = "gone"]

(* shadow_proc: xtc_osproc_wait without a deadline, ... *)
ShadowTries ==
  /\ st.shadow = "try" /\ Turn("shadow") /\ st.mid # "shadow"
  /\ LET r == TryWait(st) IN
     st' = CASE r = "reap" -> [Reaps(st, "shadow") EXCEPT !.shadow = "record"]
             [] r = "cached" -> [Touch(st) EXCEPT !.shadow = "exit", !.heard = st.cached]
             [] r = "ECHILD" -> [Touch(st) EXCEPT !.shadow = "exit",
                                                  !.heard = [kind |-> "NOCONNECTION", n |-> 0]]
             [] OTHER -> [Touch(st) EXCEPT !.shadow = "park"]

ShadowRecords ==
  /\ st.shadow = "record"
  /\ st' = [Records(st) EXCEPT !.shadow = "exit", !.heard = st.status]

ShadowWakes ==
  /\ st.shadow = "park" /\ Turn("shadow") /\ ~Running(st)
  /\ st' = [Touch(st) EXCEPT !.shadow = "try"]

(* ... then its reference is dropped, and it exits as the child did. *)
ShadowExits ==
  /\ st.shadow = "exit" /\ Turn("shadow")
  /\ st' = [Release(st) EXCEPT !.shadow = "gone"]

XNext ==
  \/ ChildArg \/ ChildMain \/ PumpSpawns \/ PumpFrame \/ PumpIdle \/ PumpClosed
  \/ (\E r \in Codes : RootEnds(r)) \/ ChildReturns \/ ChildSignalled
  \/ Ship \/ XSend \/ XMonitor \/ XDestroy \/ UserTries \/ UserRecords \/ UserWakes \/ UserTimesOut
  \/ UserReleases \/ ShadowTries \/ ShadowRecords \/ ShadowWakes \/ ShadowExits

(* struct __xproc_os: the osproc is not used after it is freed, and it is freed when the
   handle and the shadow are both done. *)
OsprocKept ==
  /\ ~st.touched
  /\ st.user = "gone" /\ st.shadow \in {"none", "gone"} => st.os = "freed" /\ st.refs = 0

(* shadow_proc: a monitor hears what became of the child, its exit code or its signal and
   not the one for the other; with two loops the reap may be the user's and the fate lost. *)
DownTrue ==
  st.heard # NoStatus =>
    \/ st.heard = st.status /\ ~Running(st)
    \/ ~OneLoop /\ st.heard.kind = "NOCONNECTION"

(* child_pump_proc: a child that neither failed to start nor was signalled exits with its
   root's reason, unless the channel was closed first. *)
ExitTrue ==
  st.status.kind \in {"CLEAN", "EXIT"} /\ st.status.n \notin StartFailures /\ ~st.closed =>
    st.status.n = st.reason % 256

(* xtc_xproc_destroy: no child is left, nor its zombie, if SIGKILL acts in time; and no
   signal goes to a pid that was reaped. *)
NoOrphan ==
  /\ st.user = "gone" /\ Running(st) => 9 \in st.sigs
  /\ OneLoop => ~st.stray

(* xtc_xsend, the pump: the root receives frames once each, in order. *)
FramesInOrder == \A i \in 1 .. Len(st.mbox) : st.mbox[i] = i

----------------------------------------------------------------------------
(* REQUEST AND REPLY on the control channel: xtc_osproc_call, xtc_osproc_serve. *)
CallInit ==
  st = [reqs |-> <<>>, reps |-> <<>>, n |-> 0, caller |-> "idle", server |-> "recv", req |-> 0,
        got |-> 0, late |-> FALSE]

Call ==
  /\ st.caller = "idle" /\ st.n < MaxCalls
  /\ st' = IF st.server = "gone" THEN [st EXCEPT !.n = @ + 1]
           ELSE [st EXCEPT !.n = @ + 1, !.reqs = Append(@, st.n + 1), !.caller = "wait", !.got = 0]

CallReturns ==
  /\ st.caller = "wait"
  /\ \/ st.reps # <<>> /\ st' = [st EXCEPT !.caller = "idle", !.got = Head(st.reps), !.reps = Tail(@)]
     \/ st.reps = <<>> /\ st.server = "gone" /\ st' = [st EXCEPT !.caller = "idle"]

CallTimesOut ==
  /\ st.caller = "wait" /\ st.reps = <<>>
  /\ st' = [st EXCEPT !.caller = "idle", !.late = TRUE]

ServeRecv ==
  /\ st.server = "recv" /\ st.reqs # <<>>
  /\ st' = [st EXCEPT !.server = "handle", !.req = Head(st.reqs), !.reqs = Tail(@)]

ServeReply ==
  /\ st.server = "handle"
  /\ \/ st' = [st EXCEPT !.server = "recv", !.reps = Append(@, st.req)]
     \/ st' = [st EXCEPT !.server = "gone"]

CallNext == Call \/ CallReturns \/ CallTimesOut \/ ServeRecv \/ ServeReply

(* xtc_osproc_call: a reply is the call's own as long as no call timed out; the channel has
   no numbers, and the reply to one that did is the next one's. *)
ReplyPaired == st.got # 0 /\ ~st.late => st.got = st.n

----------------------------------------------------------------------------
(* XTC_LAUNCH: launcher, child, and the box they share.  mail is the launcher's other
   mail, down its child's DOWN. *)
LaunchInit ==
  st = [l |-> "start", child |-> "none", hooked |-> FALSE, kill |-> FALSE, reason |-> 0,
        finished |-> FALSE, down |-> FALSE, mail |-> 0, nmail |-> 0, refs |-> 2, freed |-> 0,
        timedOut |-> FALSE, ret |-> "none", wild |-> FALSE]

(* launch_box_put *)
BoxPut(s) ==
  [s EXCEPT !.refs = @ - 1, !.freed = IF s.refs = 1 THEN @ + 1 ELSE @, !.wild = @ \/ s.freed > 0]
BoxUse(s) == [s EXCEPT !.wild = @ \/ s.freed > 0]

LSpawns == st.l = "start" /\ st' = [st EXCEPT !.l = "wait", !.child = "new"]

(* launch_child: the hook, the function, the result; the end of the proc runs the hook and
   then sends the DOWN. *)
Ended(s, r) ==
  [BoxPut(s) EXCEPT !.child = "gone", !.reason = r, !.down = s.l # "gone", !.hooked = FALSE]
ChildStarts == st.child = "new" /\ st' = [st EXCEPT !.child = "run", !.hooked = TRUE]
FnReturns == st.child = "run" /\ st' = [BoxUse(st) EXCEPT !.finished = TRUE, !.child = "done"]
ChildEnds ==
  /\ st.child = "done"
  /\ st' = Ended(st, IF st.kill THEN 1 ELSE 0)
FnFaults == st.child = "run" /\ st' = Ended(st, 11)
FnExits == st.child = "run" /\ st' = Ended(st, 0)
FnKilled == st.child = "run" /\ st.kill /\ st' = Ended(st, 1)

OtherMail ==
  /\ st.nmail < MaxMail /\ st.l # "gone"
  /\ st' = [st EXCEPT !.mail = @ + 1, !.nmail = @ + 1]

(* The deadline: the child is killed, and its DOWN awaited without one. *)
LTimesOut ==
  /\ st.l = "wait" /\ ~st.timedOut /\ ~st.down
  /\ st' = [st EXCEPT !.timedOut = TRUE, !.kill = TRUE]

(* launch_match_down: the DOWN and no other mail; the box is read, then the guard puts it. *)
LReaps ==
  /\ st.l = "wait" /\ st.down
  /\ LET s == BoxPut(BoxUse([st EXCEPT !.down = FALSE])) IN
     st' = [s EXCEPT !.l = "done",
              !.ret = CASE st.timedOut -> "AGAIN"
                        [] ~st.finished /\ st.reason # 0 -> "ABORTED"
                        [] OTHER -> "OK"]

(* launch_guard_fire on the launcher's unwind: the child is killed with it. *)
LKilled ==
  /\ st.l = "wait"
  /\ st' = [BoxPut(st) EXCEPT !.l = "gone", !.kill = TRUE, !.down = FALSE]

LaunchNext ==
  \/ LSpawns \/ ChildStarts \/ FnReturns \/ ChildEnds \/ FnFaults \/ FnExits \/ FnKilled
  \/ OtherMail \/ LTimesOut \/ LReaps \/ LKilled

(* struct launch_box: freed once, by the last of launcher and child, and not used after. *)
BoxExact ==
  /\ ~st.wild /\ st.freed <= 1
  /\ st.l \in {"done", "gone"} /\ st.child = "gone" <=> st.freed = 1

(* xtc_launch: the child does not outlive its launcher; OK is a function that returned or
   exited with 0, in time; the launcher's mail is untouched. *)
LaunchTrue ==
  /\ st.l \in {"done", "gone"} => st.child = "gone" \/ st.kill
  /\ st.ret = "OK" => ~st.timedOut /\ (st.finished \/ st.reason = 0)
  /\ st.l # "gone" => st.mail = st.nmail
=============================================================================
