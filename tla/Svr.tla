-------------------------------- MODULE Svr --------------------------------
(***************************************************************************)
(* The servers of the orc layer: the generic server of orc/svr.c, whose    *)
(* callers are threads and procs, and the state machine of orc/fsm.c,      *)
(* which postpones events and replays them.                                *)
(***************************************************************************)
EXTENDS Naturals, Sequences, FiniteSets
LOCAL INSTANCE SequencesExt

CONSTANTS
  Threads, Procs,   \* callers, by the route of their replies
  Timed,            \* the callers whose calls have a timeout
  Aborters,         \* the callers whose calls have an abort token
  MaxCalls,         \* bound: calls, or events of a state machine
  MayKill           \* the server may be killed or fault

Callers == Threads \cup Procs
Ids == 1 .. MaxCalls
Kick == 0
CastId == MaxCalls + 1

(* st has, for the server,
     spc, mbox, cur, inflight   its step, its messages (ids of calls, Kick, CastId), the one in
                                hand, and whether its message is not yet freed
     stop_requested, cont_pending, stopped, freed
     saved                      ids of the handles xtc_svr_call_save made
   for the calls
     nid, of, linked, replied   ids given out, their callers, reply slots in the table,
                                slots filled
   for each caller
     pc, id, rc, inbox, gone    its step, call, result so far, replies by mailbox, and
                                whether it has seen the server gone
   and aborted, the tokens fired, with the history
     res, answered, early       results, ids whose reply returned XTC_OK, those of them
                                answered before the server left. *)
VARIABLE st

Init ==
  st = [spc |-> "init", mbox |-> <<>>, cur |-> 0, inflight |-> FALSE,
        stop_requested |-> FALSE, cont_pending |-> FALSE, stopped |-> FALSE, freed |-> FALSE,
        saved |-> {}, nid |-> 0, of |-> <<>>, linked |-> {}, replied |-> {},
        pc |-> [c \in Callers |-> "idle"], id |-> [c \in Callers |-> 0],
        rc |-> [c \in Callers |-> "OK"], inbox |-> [c \in Callers |-> <<>>],
        gone |-> [c \in Callers |-> FALSE], aborted |-> {},
        res |-> [i \in Ids |-> [rc |-> "none", data |-> 0]], answered |-> {}, early |-> {}]

Gone == st.spc = "gone"

----------------------------------------------------------------------------
(* __svr_call: a thread links a reply slot, a proc takes a tag, ... *)
Call(c) ==
  LET i == st.nid + 1 IN
  /\ st.pc[c] = "idle" /\ i <= MaxCalls
  /\ st' = [st EXCEPT !.nid = i, !.of = Append(@, c), !.id[c] = i, !.pc[c] = "send",
                      !.gone[c] = FALSE, !.rc[c] = "OK",
                      !.linked = IF c \in Threads THEN @ \cup {i} ELSE @]

(* The call returns. *)
Return(s, c, rc, data) ==
  [s EXCEPT !.pc[c] = "idle", !.id[c] = 0, !.rc[c] = "OK", !.gone[c] = FALSE,
            !.res[s.id[c]] = [rc |-> rc, data |-> data]]

(* ... and the request is sent. *)
Send(c) ==
  /\ st.pc[c] = "send"
  /\ st' = IF ~Gone THEN [st EXCEPT !.mbox = Append(@, st.id[c]), !.pc[c] = "wait"]
           ELSE IF c \in Threads THEN [st EXCEPT !.pc[c] = "unlink", !.rc[c] = "UNSENT"]
           ELSE Return(st, c, "UNSENT", 0)

(* __svr_wait_slot: the slot's signal, the token, the deadline, or a server that left. *)
WaitSlot(c, why) ==
  /\ c \in Threads /\ st.pc[c] = "wait"
  /\ CASE why = "OK" -> st.id[c] \in st.replied
       [] why = "AGAIN" -> c \in Timed
       [] why = "ABORTED" -> c \in st.aborted
       [] why = "NOTFOUND" -> Gone
  /\ st' = [st EXCEPT !.pc[c] = "unlink", !.rc[c] = why]

(* The slot is unlinked before its frame dies; a reply that is there wins. *)
Unlink(c) ==
  LET i == st.id[c] IN
  /\ st.pc[c] = "unlink"
  /\ st' = LET s == [st EXCEPT !.linked = @ \ {i}] IN
           IF i \in st.replied THEN Return(s, c, "OK", i) ELSE Return(s, c, st.rc[c], 0)

(* __recv_reply_for_tag: a reply to an earlier call is dropped; ... *)
TakeReply(c) ==
  /\ c \in Procs /\ st.pc[c] = "wait" /\ st.inbox[c] # <<>>
  /\ LET s == [st EXCEPT !.inbox[c] = Tail(@)] IN
     st' = IF Head(st.inbox[c]) # st.id[c] THEN s ELSE Return(s, c, "OK", Head(st.inbox[c]))

(* ... a slice ends without one, and only then is the server looked for: a reply may have
   come in between, so that one that is gone is given one slice more. *)
SliceEnds(c) ==
  /\ c \in Procs /\ st.pc[c] = "wait" /\ st.inbox[c] = <<>>
  /\ \/ st.gone[c] /\ st' = Return(st, c, "NOTFOUND", 0)
     \/ ~st.gone[c] /\ c \in Timed /\ st' = Return(st, c, "AGAIN", 0)
     \/ ~st.gone[c] /\ st' = [st EXCEPT !.pc[c] = "look"]

(* A mutant: no slice more. *)
LooksOnce(c) ==
  /\ st.pc[c] = "look"
  /\ st' = IF Gone THEN Return(st, c, "NOTFOUND", 0) ELSE [st EXCEPT !.pc[c] = "wait"]

Looks(c) == st.pc[c] = "look" /\ st' = [st EXCEPT !.pc[c] = "wait", !.gone[c] = Gone]

Aborts(c) ==
  /\ c \in Procs /\ st.pc[c] = "wait" /\ c \in st.aborted
  /\ st' = Return(st, c, "ABORTED", 0)

Abort(c) == c \in Aborters \ st.aborted /\ st' = [st EXCEPT !.aborted = @ \cup {c}]

----------------------------------------------------------------------------
(* xtc_svr_reply: into the slot, if it is still linked and empty, under the lock of its
   bucket; or by mail. *)
Reply(s, i) ==
  LET c == s.of[i]
      t == [s EXCEPT !.answered = @ \cup {i}, !.early = IF Gone THEN @ ELSE @ \cup {i}]
  IN  IF c \in Procs THEN [t EXCEPT !.inbox[c] = Append(@, i)]
      ELSE IF i \in s.linked /\ i \notin s.replied THEN [t EXCEPT !.replied = @ \cup {i}]
      ELSE s

(* xtc_svr_cast: a message that nobody answers.  One at a time. *)
Cast ==
  /\ ~Gone /\ st.cur # CastId /\ \A j \in DOMAIN st.mbox : st.mbox[j] # CastId
  /\ st' = [st EXCEPT !.mbox = Append(@, CastId)]

(* __svr_entry: the init callback, which may fail or arm a continuation; ... *)
Starts(ok, arm) ==
  /\ st.spc = "init"
  /\ st' = [st EXCEPT !.cont_pending = ok /\ arm, !.spc = IF ok THEN "cont" ELSE "exit"]

(* ... the stop is looked at before each receive, whose wait is bounded; ... *)
Recv ==
  /\ st.spc = "recv"
  /\ \/ st.stop_requested /\ st' = [st EXCEPT !.spc = "exit"]
     \/ /\ ~st.stop_requested /\ st.mbox # <<>>
        /\ st' = IF Head(st.mbox) = Kick THEN [st EXCEPT !.mbox = Tail(@)]
                 ELSE [st EXCEPT !.mbox = Tail(@), !.cur = Head(st.mbox), !.inflight = TRUE,
                                 !.spc = "handle"]

(* ... the handler replies, keeps the handle for later, or does neither; ... *)
Handle(how) ==
  /\ st.spc = "handle" /\ (st.cur = CastId => how = "none")
  /\ LET s == [st EXCEPT !.spc = "handled"] IN
     st' = CASE how = "reply" -> Reply(s, st.cur)
             [] how = "save" -> [s EXCEPT !.saved = @ \cup {st.cur}]
             [] how = "none" -> s

(* ... and returns, having armed a continuation perhaps. *)
HandlerReturns(stop, arm) ==
  /\ st.spc = "handled"
  /\ st' = [st EXCEPT !.cur = 0, !.inflight = FALSE, !.cont_pending = arm,
                      !.spc = IF stop THEN "exit" ELSE "cont"]

(* __svr_run_continue: continuations, which may arm the next, run before a receive. *)
RunContinue(arm) ==
  /\ st.spc = "cont"
  /\ st' = IF st.cont_pending /\ ~st.stop_requested THEN [st EXCEPT !.cont_pending = arm]
           ELSE [st EXCEPT !.cont_pending = FALSE, !.spc = "recv"]

(* A kill, a fault, or a handler that exits. *)
Dies ==
  /\ MayKill /\ st.spc \in {"init", "recv", "handle", "handled", "cont"}
  /\ st' = [st EXCEPT !.spc = "exit"]

(* __svr_exited, at every exit: the message in hand is freed and the joiner let go; then
   the proc leaves the table. *)
Exited ==
  /\ st.spc = "exit"
  /\ st' = [st EXCEPT !.spc = "leave", !.inflight = FALSE, !.stopped = TRUE]

Leaves == st.spc = "leave" /\ st' = [st EXCEPT !.spc = "gone", !.mbox = <<>>]

(* A handle that was saved is answered later, by any thread. *)
Deferred(i) == i \in st.saved /\ st' = Reply([st EXCEPT !.saved = @ \ {i}], i)

(* xtc_svr_stop and xtc_svr_join. *)
Stop ==
  /\ ~st.stop_requested /\ ~st.freed
  /\ st' = [st EXCEPT !.stop_requested = TRUE, !.mbox = IF Gone THEN @ ELSE Append(@, Kick)]
Join == st.stopped /\ ~st.freed /\ st' = [st EXCEPT !.freed = TRUE]

CallerRuns(c) ==
  \/ Send(c) \/ Unlink(c) \/ TakeReply(c) \/ SliceEnds(c) \/ Looks(c) \/ Aborts(c)
  \/ \E why \in {"OK", "AGAIN", "ABORTED", "NOTFOUND"} : WaitSlot(c, why)

Next ==
  \/ \E c \in Callers : Call(c) \/ CallerRuns(c) \/ Abort(c)
  \/ Cast \/ (\E ok, arm \in BOOLEAN : Starts(ok, arm))
  \/ Recv \/ (\E how \in {"reply", "save", "none"} : Handle(how))
  \/ (\E stop, arm \in BOOLEAN : HandlerReturns(stop, arm)) \/ (\E arm \in BOOLEAN : RunContinue(arm))
  \/ Dies \/ Exited \/ Leaves \/ (\E i \in Ids : Deferred(i)) \/ Stop \/ Join

----------------------------------------------------------------------------
(* The fields of server and calls have their types. *)
TypeOK ==
  /\ st.spc \in {"init", "recv", "handle", "handled", "cont", "exit", "leave", "gone"}
  /\ st.linked \subseteq Ids /\ st.replied \subseteq Ids /\ st.saved \subseteq Ids
  /\ \A c \in Callers : st.pc[c] \in {"idle", "send", "wait", "look", "unlink"}

(* __svr_call: a call that returns XTC_OK has the reply to itself, although replies to
   earlier calls that gave up arrive late. *)
OwnReply == \A i \in Ids : st.res[i].rc = "OK" => st.res[i].data = i /\ i \in st.answered

(* xtc_svr_reply: a reply that was accepted into a slot is what the call returns,
   whatever made its wait end; a slot that is gone was never written. *)
ReplyKept ==
  /\ \A i \in st.answered :
       st.of[i] \in Threads /\ st.res[i].rc # "none" => st.res[i].rc = "OK"
  /\ \A c \in Threads : st.pc[c] # "idle" => st.id[c] \in st.linked

(* __svr_gone: XTC_E_NOTFOUND is the answer to a call that the server left unanswered. *)
NotFoundTrue == \A i \in Ids : st.res[i].rc = "NOTFOUND" => i \notin st.early

(* __svr_exited: no exit leaves a message behind, the joiner frees nothing that the server
   still uses, and a continuation never waits for the next message. *)
ExitClean ==
  /\ st.spc \in {"recv", "leave", "gone"} => ~st.inflight
  /\ st.freed => st.spc \in {"leave", "gone"}
  /\ st.spc = "recv" => ~st.cont_pending

(* A call, without a timeout too, ends once the server is gone. *)
MustReturn(c) == Gone /\ st.pc[c] # "idle"
Returned(c) == st.pc[c] = "idle"

----------------------------------------------------------------------------
(***************************************************************************)
(* fsm.c.  st has                                                          *)
(*   pc, mbox, stop_requested   the machine's step and its messages        *)
(*   todo                       events to dispatch: the one received, then *)
(*                              those a transition replays                 *)
(*   pq, timer                  postponed events; a state timeout is armed *)
(*   owed                       the call that must be answered when the    *)
(*                              dispatch ends, 0 if none                   *)
(*   nid, cl, id, inbox         events so far; the caller of xtc_fsm_call  *)
(* with the history                                                        *)
(*   done, answers, res         ids handled, replies sent, results.        *)
(***************************************************************************)
FsmInit ==
  st = [pc |-> "top", mbox |-> <<>>, stop_requested |-> FALSE, todo |-> <<>>, pq |-> <<>>,
        timer |-> FALSE, owed |-> 0, nid |-> 0, cl |-> "idle", id |-> 0, inbox |-> <<>>,
        done |-> {}, answers |-> <<>>, res |-> [i \in Ids |-> [rc |-> "none", data |-> 0]]]

Event(i) == [kind |-> "E", id |-> i]
FsmRunning == st.pc # "gone"
Fresh == st.nid + 1

(* xtc_fsm_send *)
FsmSend ==
  /\ Fresh <= MaxCalls /\ FsmRunning
  /\ st' = [st EXCEPT !.nid = Fresh, !.mbox = Append(@, Event(Fresh))]

(* xtc_fsm_call: the reply with its own tag, or the deadline. *)
FsmCall ==
  /\ st.cl = "idle" /\ Fresh <= MaxCalls /\ FsmRunning
  /\ st' = [st EXCEPT !.nid = Fresh, !.cl = "wait", !.id = Fresh,
                      !.mbox = Append(@, [kind |-> "C", id |-> Fresh])]

FsmTakeReply ==
  /\ st.cl = "wait" /\ st.inbox # <<>>
  /\ LET s == [st EXCEPT !.inbox = Tail(@)] IN
     st' = IF Head(st.inbox) # st.id THEN s
           ELSE [s EXCEPT !.cl = "idle", !.id = 0,
                          !.res[st.id] = [rc |-> "OK", data |-> Head(st.inbox)]]

FsmCallTimesOut ==
  /\ st.cl = "wait" /\ Timed # {}
  /\ st' = [st EXCEPT !.cl = "idle", !.id = 0, !.res[st.id] = [rc |-> "AGAIN", data |-> 0]]

(* xtc_fsm_stop *)
FsmStop ==
  /\ ~st.stop_requested /\ FsmRunning
  /\ st' = [st EXCEPT !.stop_requested = TRUE, !.mbox = Append(@, [kind |-> "S", id |-> 0])]

(* fsm_entry: the next message, ... *)
FsmRecv ==
  /\ st.pc = "top" /\ ~st.stop_requested /\ st.mbox # <<>>
  /\ LET m == Head(st.mbox)
         s == [st EXCEPT !.mbox = Tail(@)]
     IN  st' = IF m.kind = "S" THEN [s EXCEPT !.pc = "end"]
               ELSE [s EXCEPT !.pc = "dispatch", !.todo = <<m>>,
                              !.owed = IF m.kind = "C" THEN m.id ELSE 0]

(* ... the stop, or a state timeout, which is an event of its own. *)
FsmStops == st.pc = "top" /\ st.stop_requested /\ st' = [st EXCEPT !.pc = "end"]

FsmTimesOut ==
  /\ st.pc = "top" /\ ~st.stop_requested /\ st.mbox = <<>> /\ st.timer /\ Fresh <= MaxCalls
  /\ st' = [st EXCEPT !.timer = FALSE, !.nid = Fresh, !.pc = "dispatch", !.todo = <<Event(Fresh)>>]

(* xtc_fsm_reply: once per call. *)
FsmReply(s, i) ==
  IF i = 0 THEN s
  ELSE [s EXCEPT !.answers = Append(@, i), !.inbox = Append(@, i), !.owed = 0]

(* fsm_dispatch and fsm_apply.  A transition replays what was postponed before what is
   still to be dispatched; a call is answered rather than postponed. *)
FsmDispatch(action, replies, arm) ==
  LET e == Head(st.todo)
      mine == e.kind = "C" /\ st.owed = e.id
      s == [(IF replies /\ mine THEN FsmReply(st, e.id) ELSE st) EXCEPT !.todo = Tail(@)]
      done == [s EXCEPT !.done = @ \cup {e.id}]
  IN
  /\ st.pc = "dispatch" /\ st.todo # <<>>
  /\ replies => mine
  /\ st' = CASE action = "KEEP" -> [done EXCEPT !.timer = arm]
             [] action = "NEXT" -> [done EXCEPT !.timer = arm, !.pq = <<>>, !.todo = st.pq \o @]
             [] action = "STOP" -> [done EXCEPT !.todo = <<>>, !.pc = "stopping"]
             [] action = "POSTPONE" ->
                  IF e.kind = "C" THEN [FsmReply(s, s.owed) EXCEPT !.done = @ \cup {e.id}]
                  ELSE [s EXCEPT !.pq = Append(@, e), !.timer = FALSE]

(* The dispatch is over: a call that nobody answered gets an empty reply. *)
FsmDispatched ==
  /\ (st.pc = "dispatch" /\ st.todo = <<>>) \/ st.pc = "stopping"
  /\ st' = [FsmReply(st, st.owed) EXCEPT !.pc = IF st.pc = "stopping" THEN "end" ELSE "top"]

(* The machine ends with what it had postponed. *)
FsmEnds ==
  /\ st.pc = "end"
  /\ st' = [st EXCEPT !.pc = "gone", !.pq = <<>>, !.mbox = <<>>]

FsmRuns ==
  \/ FsmRecv \/ FsmStops \/ FsmTimesOut \/ FsmDispatched \/ FsmEnds
  \/ \E action \in {"KEEP", "NEXT", "STOP", "POSTPONE"}, replies, arm \in BOOLEAN :
       FsmDispatch(action, replies, arm)

FsmNext == FsmSend \/ FsmCall \/ FsmTakeReply \/ FsmCallTimesOut \/ FsmStop \/ FsmRuns

(* fsm_apply: events are handled in the order of their arrival as far as they are not
   postponed, through replays that postpone again or change the state again: what was
   postponed is older than what is still to be dispatched, and both than the mail.  No
   event is lost or doubled while the machine runs. *)
Backlog == st.pq \o st.todo \o SelectSeq(st.mbox, LAMBDA m : m.kind # "S")
FsmInOrder ==
  /\ \A j, k \in DOMAIN Backlog : j < k => Backlog[j].id < Backlog[k].id
  /\ st.pc \in {"top", "dispatch"} =>
       st.done \cup {Backlog[j].id : j \in DOMAIN Backlog} = 1 .. st.nid
  /\ \A j \in DOMAIN Backlog : Backlog[j].id \notin st.done

(* xtc_fsm_call: every call dispatched is answered once, though it was postponed or
   stopped the machine, and the caller takes the answer to its own call. *)
FsmAnswered ==
  /\ \A j, k \in DOMAIN st.answers : st.answers[j] = st.answers[k] => j = k
  /\ \A i \in Ids : st.res[i].rc = "OK" => st.res[i].data = i
  /\ st.pc \in {"top", "end", "gone"} => st.owed = 0
=============================================================================
