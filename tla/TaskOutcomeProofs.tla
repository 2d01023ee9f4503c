------------------------- MODULE TaskOutcomeProofs -------------------------
(* What becomes of the tasks and parts of TaskDispatch, for every value of *)
(* the constants: who owns a task in a transient status, what a completed  *)
(* or running task has, how often a part is sent.                          *)
EXTENDS TaskSafetyProofs, FiniteSetTheorems

-----------------------------------------------------------------------------
(* Who changes the status of a task, and to what.                          *)

LEMMA InsertStatus ==
  ASSUME TypeInv, NEW n \in 0..MaxParts, InsertTask(n), NEW t \in Tasks
  PROVE  \/ status'[t] = status[t]
         \/ t = issued + 1 /\ issued' = t /\ status'[t] = "queued" /\ (sub'[t].pc = "probe" \/ t \in abandoned')
<1>0. /\ status \in [Tasks -> TaskStatus \cup {"none"}]
      /\ sub \in [Tasks -> Submit] /\ issued \in Nat
  BY DEF TypeInv, TypeOK
<1>1. CASE t = issued + 1
  <2>1. status'[t] = "queued" /\ issued' = t
    BY <1>0, <1>1 DEF InsertTask
  <2>2. sub' = [sub EXCEPT ![t] = StartSubmit(n)] \/ t \in abandoned'
    BY <1>1 DEF InsertTask
  <2>3. sub'[t].pc = "probe" \/ t \in abandoned'
    BY <1>0, <2>2 DEF StartSubmit
  <2> QED
    BY <1>1, <2>1, <2>3
<1>2. CASE t # issued + 1
  BY <1>0, <1>2 DEF InsertTask
<1> QED
  BY <1>1, <1>2

LEMMA RequestStatus ==
  ASSUME TypeInv, NEW r \in Slots, RequestStep(r), NEW t \in Tasks
  PROVE  \/ status'[t] = status[t]
         \/ t = issued + 1 /\ issued' = t /\ status'[t] = "queued" /\ (sub'[t].pc = "probe" \/ t \in abandoned')
         \/ /\ req[r].task = t /\ status[t] # "none"
            /\ \/ ControlWrite(r) /\ status'[t] = ControlTarget(req[r].op)
               \/ DeleteRows(r) /\ status'[t] = "none"
               \/ RestartWrite(r) /\ status'[t] = "restarting"
               \/ RestartFinish(r) /\ status'[t] = RestartOutcome(r)
<1>0. /\ status \in [Tasks -> TaskStatus \cup {"none"}] /\ req[r].task \in Tasks
      /\ sub \in [Tasks -> Submit] /\ issued \in Nat
  BY DEF TypeInv, TypeOK, Request
<1>1. CASE UNCHANGED status
  BY <1>1
<1>2. ASSUME NEW s, SetStatus(req[r].task, s)
      PROVE  status'[t] = status[t] \/ (req[r].task = t /\ status[t] # "none" /\ status'[t] = s)
  <2>1. CASE req[r].task = t
    <3>1. status'[t] = IF status[t] = "none" THEN "none" ELSE s
      BY <1>0, <1>2, <2>1 DEF SetStatus
    <3> QED
      BY <2>1, <3>1
  <2>2. CASE req[r].task # t
    BY <1>0, <1>2, <2>2 DEF SetStatus
  <2> QED
    BY <2>1, <2>2
<1>4. CASE ControlWrite(r)
  BY <1>1, <1>2, <1>4 DEF ControlWrite
<1>5. CASE DeleteRows(r)
  <2>1. CASE status' = [status EXCEPT ![req[r].task] = "none"]
    <3>1. CASE req[r].task = t
      BY <1>0, <1>5, <2>1, <3>1
    <3>2. CASE req[r].task # t
      BY <1>0, <2>1, <3>2
    <3> QED
      BY <3>1, <3>2
  <2> QED
    BY <1>1, <1>5, <2>1 DEF DeleteRows
<1>6. CASE RestartCopy(r)
  BY <1>1, <1>6, InsertStatus DEF RestartCopy
<1>7. CASE RestartWrite(r)
  BY <1>1, <1>2, <1>7 DEF RestartWrite
<1>8. CASE RestartFinish(r)
  BY <1>1, <1>2, <1>8 DEF RestartFinish
<1>9. CASE PublishControl(r) \/ ResetParts(r) \/ RepublishList(r) \/ RepublishXAdd(r) \/ RepublishMark(r)
  BY <1>1, <1>9 DEF PublishControl, ResetParts, RepublishList, RepublishXAdd, RepublishMark, db
<1> QED
  BY <1>4, <1>5, <1>6, <1>7, <1>8, <1>9 DEF RequestStep

LEMMA SubmitStatus ==
  ASSUME TypeInv, NEW u \in Tasks, SubmitStep(u), NEW t \in Tasks
  PROVE  \/ status'[t] = status[t]
         \/ /\ u = t
            /\ \/ SubmitSave(t) /\ status'[t] = IF sub[t].plan = 0 THEN "completed" ELSE "running"
               \/ SubmitFail(t) /\ status'[t] = "failed" /\ status[t] # "none"
<1>0. status \in [Tasks -> TaskStatus \cup {"none"}]
  BY DEF TypeInv, TypeOK
<1>1. CASE UNCHANGED status
  BY <1>1
<1>2. CASE SubmitSave(u)
  <2> DEFINE s == IF sub[u].plan = 0 THEN "completed" ELSE "running"
  <2>1. CASE SaveStatus(u, s)
    <3>1. CASE u = t
      <4>1. status'[t] = s
        BY <1>0, <2>1, <3>1 DEF SaveStatus
      <4> QED
        BY <1>2, <3>1, <4>1
    <3>2. CASE u # t
      BY <1>0, <2>1, <3>2 DEF SaveStatus
    <3> QED
      BY <3>1, <3>2
  <2> QED
    BY <1>1, <1>2, <2>1 DEF SubmitSave
<1>3. CASE SubmitFail(u)
  <2>1. CASE SetStatus(u, "failed")
    <3>1. CASE u = t
      <4>1. status'[t] = IF status[t] = "none" THEN "none" ELSE "failed"
        BY <1>0, <2>1, <3>1 DEF SetStatus
      <4> QED
        BY <1>3, <3>1, <4>1
    <3>2. CASE u # t
      BY <1>0, <2>1, <3>2 DEF SetStatus
    <3> QED
      BY <3>1, <3>2
  <2> QED
    BY <1>1, <1>3, <2>1 DEF SubmitFail
<1>4. CASE Probe(u) \/ SubmitRecheck(u) \/ SubmitRows(u) \/ SubmitCheck(u)
           \/ SubmitXAdd(u) \/ SubmitMark(u) \/ SubmitFinish(u)
  BY <1>1, <1>4 DEF Probe, SubmitRecheck, SubmitRows, SubmitCheck, SubmitXAdd, SubmitMark, SubmitFinish, db
<1> QED
  BY <1>2, <1>3, <1>4 DEF SubmitStep

LEMMA StatusChanges ==
  ASSUME TypeInv, [Next]_vars, NEW t \in Tasks
  PROVE  \/ status'[t] = status[t]
         \/ t = issued + 1 /\ issued' = t /\ status'[t] = "queued" /\ (sub'[t].pc = "probe" \/ t \in abandoned')
         \/ SubmitSave(t) /\ status'[t] = IF sub[t].plan = 0 THEN "completed" ELSE "running"
         \/ SubmitFail(t) /\ status'[t] = "failed" /\ status[t] # "none"
         \/ WorkerComplete(t) /\ status'[t] = "completed"
         \/ \E r \in Slots :
              /\ req[r].task = t /\ status[t] # "none"
              /\ \/ ControlWrite(r) /\ status'[t] = ControlTarget(req[r].op)
                 \/ DeleteRows(r) /\ status'[t] = "none"
                 \/ RestartWrite(r) /\ status'[t] = "restarting"
                 \/ RestartFinish(r) /\ status'[t] = RestartOutcome(r)
<1>0. /\ status \in [Tasks -> TaskStatus \cup {"none"}]
      /\ sub \in [Tasks -> Submit] /\ issued \in Nat
  BY DEF TypeInv, TypeOK
<1>1. CASE UNCHANGED status
  BY <1>1
<1>2. CASE \E u \in Tasks : SubmitStep(u)
  BY <1>2, SubmitStatus
<1>3. CASE \E r \in Slots : RequestStep(r)
  BY <1>3, RequestStatus
<1>4. ASSUME NEW u \in Tasks, WorkerComplete(u)
      PROVE  status'[t] = status[t] \/ (WorkerComplete(t) /\ status'[t] = "completed")
  <2>1. CASE u = t
    BY <1>0, <1>4, <2>1 DEF WorkerComplete, SetStatus
  <2>2. CASE u # t
    BY <1>0, <1>4, <2>2 DEF WorkerComplete, SetStatus
  <2> QED
    BY <2>1, <2>2
<1>6. CASE Create
  BY <1>6, InsertStatus DEF Create
<1>7. UNCHANGED status \/ Create \/ (\E u \in Tasks : SubmitStep(u) \/ WorkerComplete(u))
      \/ \E r \in Slots : RequestStep(r)
  BY DEF Next, Expire, WorkerScan, WorkerFail, WorkerDrop, ControlRead, DeleteRead, RestartRead, Accept, Crash, db, vars
<1> QED
  BY <1>1, <1>2, <1>3, <1>4, <1>6, <1>7

-----------------------------------------------------------------------------
(* What a step of SubmitTask does to its goroutine.                        *)

\* The goroutine gives up on an error.
GivesUp(t) == sub'[t].pc = "fail" /\ sub'[t].next = sub[t].next /\ sub'[t].plan = sub[t].plan

\* It goes on, with the batches it has found.
GoesOn(t, step, next) == sub'[t].pc = step /\ sub'[t].next = next /\ sub'[t].plan = sub[t].plan

LEMMA SubmitMoves ==
  ASSUME TypeInv, NEW t \in Tasks, SubmitStep(t)
  PROVE  /\ sub'[t].up = sub[t].up /\ sub'[t].expired = sub[t].expired
         /\ \A u \in Tasks \ {t} : sub'[u] = sub[u]
         /\ \/ /\ Probe(t) /\ sub[t].pc = "probe" /\ sub'[t].pc = "recheck"
               /\ sub'[t].plan \in AliveParts(t) /\ sub'[t].next = sub[t].next
            \/ /\ SubmitRecheck(t) /\ sub[t].pc = "recheck"
               /\ GivesUp(t) \/ ( ~sub[t].expired /\ GoesOn(t, IF TaskTerminated(t) THEN "done" ELSE "save", sub[t].next))
            \/ /\ SubmitSave(t) /\ sub[t].pc = "save"
               /\ \/ GivesUp(t)
                  \/ /\ GoesOn(t, IF sub[t].plan = 0 THEN "done" ELSE "rows", sub[t].next)
                     /\ SaveStatus(t, IF sub[t].plan = 0 THEN "completed" ELSE "running")
            \/ /\ SubmitRows(t) /\ sub[t].pc = "rows"
               /\ GivesUp(t) \/ (CreateRows(t) /\ GoesOn(t, "check", sub[t].next))
            \/ /\ SubmitCheck(t) /\ sub[t].pc = "check"
               /\ GivesUp(t) \/ GoesOn(t, IF TaskTerminated(t) THEN "done" ELSE "xadd", sub[t].next)
            \/ /\ SubmitXAdd(t) /\ sub[t].pc = "xadd"
               /\ \/ GivesUp(t) /\ XAddPartFails(t, sub[t].next)
                  \/ GoesOn(t, "mark", sub[t].next) /\ XAddPart(t, sub[t].next)
            \/ /\ SubmitMark(t) /\ sub[t].pc = "mark"
               /\ GivesUp(t) \/ GoesOn(t, "check", sub[t].next + 1)
            \/ /\ SubmitFinish(t) /\ sub[t].pc = "check" /\ sub[t].next > sub[t].plan
               /\ GoesOn(t, "done", sub[t].next)
            \/ /\ SubmitFail(t) /\ sub[t].pc = "fail" /\ GoesOn(t, "failed", sub[t].next)
               /\ SetStatus(t, "failed") \/ t \in abandoned'
<1> DEFINE Rest == /\ sub'[t].up = sub[t].up /\ sub'[t].expired = sub[t].expired
                   /\ \A u \in Tasks \ {t} : sub'[u] = sub[u]
<1>0. sub \in [Tasks -> Submit]
  BY DEF TypeInv, TypeOK
<1>1. ASSUME NEW step, sub' = [sub EXCEPT ![t].pc = step]
      PROVE  Rest /\ GoesOn(t, step, sub[t].next)
  BY <1>0, <1>1 DEF Submit, GoesOn
<1>2. ASSUME SubmitErrors(t) PROVE Rest /\ GivesUp(t)
  BY <1>1, <1>2 DEF SubmitErrors, GoesOn, GivesUp
<1>3. ASSUME NEW step, SubmitReturns(t, step) PROVE Rest /\ GoesOn(t, step, sub[t].next) /\ ~sub[t].expired
  BY <1>1, <1>3 DEF SubmitReturns
<1>4. CASE Probe(t)
  <2>1. PICK n \in AliveParts(t) : sub' = [sub EXCEPT ![t] = [@ EXCEPT !.pc = "recheck", !.plan = n]]
    BY <1>4 DEF Probe
  <2>2. Rest /\ sub'[t].pc = "recheck" /\ sub'[t].plan = n /\ sub'[t].next = sub[t].next
    BY <1>0, <2>1 DEF Submit
  <2> QED
    BY <1>4, <2>2 DEF Probe
<1>5. CASE SubmitRecheck(t)
  BY <1>2, <1>3, <1>5 DEF SubmitRecheck
<1>6. CASE SubmitSave(t)
  BY <1>2, <1>3, <1>6 DEF SubmitSave
<1>7. CASE SubmitRows(t)
  BY <1>2, <1>3, <1>7 DEF SubmitRows
<1>8. CASE SubmitCheck(t)
  BY <1>2, <1>3, <1>8 DEF SubmitCheck
<1>9. CASE SubmitXAdd(t)
  BY <1>1, <1>2, <1>9 DEF SubmitXAdd
<1>10. CASE SubmitMark(t)
  <2>1. ASSUME sub' = [sub EXCEPT ![t] = [@ EXCEPT !.pc = "check", !.next = NextPart(t)]]
        PROVE  Rest /\ GoesOn(t, "check", sub[t].next + 1)
    BY <1>0, <2>1 DEF Submit, GoesOn, NextPart
  <2> QED
    BY <1>2, <1>10, <2>1 DEF SubmitMark
<1>11. CASE SubmitFinish(t)
  BY <1>1, <1>11 DEF SubmitFinish
<1>12. CASE SubmitFail(t)
  BY <1>1, <1>12 DEF SubmitFail
<1> QED
  BY <1>4, <1>5, <1>6, <1>7, <1>8, <1>9, <1>10, <1>11, <1>12 DEF SubmitStep

\* The goroutine of a task is where it was, or the INSERT started it, a step of
\* its own moved it, its context expired, or the process ended.
Starts(t) ==
  /\ t = issued + 1 /\ issued' = t /\ status'[t] = "queued"
  /\ sub'[t].pc = "probe" /\ sub'[t].next = 1

LEMMA GoroutineChanges ==
  ASSUME TypeInv, [Next]_vars, NEW t \in Tasks
  PROVE  \/ sub'[t] = sub[t]
         \/ Starts(t)
         \/ SubmitStep(t)
         \/ /\ Expire(t) /\ sub'[t].expired /\ sub'[t].pc = sub[t].pc /\ sub'[t].up = sub[t].up
            /\ sub'[t].plan = sub[t].plan /\ sub'[t].next = sub[t].next
         \/ /\ Submitting(t) /\ t \in abandoned' /\ sub'[t].pc = "failed" /\ sub'[t].up = sub[t].up
            /\ UNCHANGED <<db, stream, control>>
<1>0. sub \in [Tasks -> Submit] /\ issued \in Nat /\ status \in [Tasks -> TaskStatus \cup {"none"}]
  BY DEF TypeInv, TypeOK
<1>1. ASSUME NEW n \in 0..MaxParts, InsertTask(n) PROVE sub'[t] = sub[t] \/ Starts(t)
  <2>1. CASE UNCHANGED sub
    BY <2>1
  <2>2. CASE sub' = [sub EXCEPT ![issued + 1] = StartSubmit(n)]
    <3>1. CASE t = issued + 1
      <4>1. issued' = t /\ status'[t] = "queued"
        BY <1>0, <1>1, <3>1 DEF InsertTask
      <4>2. sub'[t].pc = "probe" /\ sub'[t].next = 1
        BY <1>0, <2>2, <3>1 DEF StartSubmit
      <4> QED
        BY <3>1, <4>1, <4>2 DEF Starts
    <3>2. CASE t # issued + 1
      BY <1>0, <2>2, <3>2
    <3> QED
      BY <3>1, <3>2
  <2> QED
    BY <1>1, <2>1, <2>2 DEF InsertTask
<1>2. ASSUME NEW u \in Tasks, SubmitStep(u) PROVE sub'[t] = sub[t] \/ SubmitStep(t)
  BY <1>2, SubmitMoves
<1>3. ASSUME NEW u \in Tasks, Expire(u), sub'[t] # sub[t]
      PROVE  /\ Expire(t) /\ sub'[t].expired /\ sub'[t].pc = sub[t].pc /\ sub'[t].up = sub[t].up
             /\ sub'[t].plan = sub[t].plan /\ sub'[t].next = sub[t].next
  <2>1. u = t
    BY <1>0, <1>3 DEF Expire
  <2> QED
    BY <1>0, <1>3, <2>1 DEF Expire, Submit
<1>4. ASSUME Crash, sub'[t] # sub[t]
      PROVE  /\ Submitting(t) /\ t \in abandoned' /\ sub'[t].pc = "failed" /\ sub'[t].up = sub[t].up
             /\ UNCHANGED <<db, stream, control>>
  <2>1. Submitting(t) /\ sub'[t] = [sub[t] EXCEPT !.pc = "failed"]
    BY <1>4 DEF Crash
  <2>2. sub'[t].pc = "failed" /\ sub'[t].up = sub[t].up
    BY <1>0, <2>1 DEF Submit
  <2> QED
    BY <1>4, <2>1, <2>2 DEF Crash
<1>5. \/ UNCHANGED sub \/ Crash
      \/ \E n \in 0..MaxParts : InsertTask(n)
      \/ \E u \in Tasks : SubmitStep(u) \/ Expire(u)
  BY DEF Next, vars, Create, WorkerComplete, WorkerScan, WorkerFail, WorkerDrop, RequestStep, PublishControl, ControlWrite,
         DeleteRows, RestartCopy, RestartWrite, ResetParts, RepublishList, RepublishXAdd, RepublishMark,
         RestartFinish, ControlRead, DeleteRead, RestartRead, Accept
<1> QED
  BY <1>1, <1>2, <1>3, <1>4, <1>5

-----------------------------------------------------------------------------
(* What a step does to a request.                                          *)

\* The request goes on to another step, for the same task.
Moves(r, from, to) ==
  req[r].pc = from /\ req'[r].pc = to /\ req'[r].task = req[r].task /\ req'[r].op = req[r].op

\* The last step of a request, or of the goroutine it started.
Ends(r) ==
  /\ req'[r] = IdleReq
  /\ \/ PublishControl(r) /\ used'.faults = used.faults + 1
     \/ ControlWrite(r) \/ DeleteRows(r) \/ RestartCopy(r)
     \/ RestartWrite(r) /\ (UNCHANGED status \/ req[r].task \in abandoned')
     \/ ResetParts(r) /\ req[r].task \in abandoned'
     \/ RestartFinish(r) /\ (SetStatus(req[r].task, RestartOutcome(r)) \/ req[r].task \in abandoned')

LEMMA RequestMoves ==
  ASSUME TypeInv, NEW r \in Slots, RequestStep(r)
  PROVE  /\ \A q \in Slots \ {r} : req'[q] = req[q]
         /\ \/ Ends(r)
            \/ /\ PublishControl(r) /\ Moves(r, "publish", "write")
               /\ \/ Announce(req[r].task, req[r].op)
                  \/ AnnounceTwice(req[r].task, req[r].op) /\ used'.faults = used.faults + 1
            \/ RestartWrite(r) /\ Moves(r, "restarting", "reset")
            \/ ResetParts(r) /\ Moves(r, "reset", "list")
            \/ RepublishList(r) /\ Moves(r, "list", "repub")
            \/ /\ RepublishXAdd(r) /\ Moves(r, "repub", "remark") /\ req'[r].todo = req[r].todo
               /\ req'[r].cur \in req[r].todo /\ XAddPart(req[r].task, req'[r].cur)
            \/ /\ RepublishMark(r) /\ Moves(r, "remark", "repub")
               /\ req'[r].todo = req[r].todo \ {req[r].cur}
            \/ /\ RepublishList(r) /\ Moves(r, "list", "refail")
            \/ /\ RepublishMark(r) /\ Moves(r, "remark", "refail")
            \/ /\ RepublishXAdd(r) /\ Moves(r, "repub", "refail") /\ used'.faults = used.faults + 1
               /\ \E p \in req[r].todo : XAddPartFails(req[r].task, p)
<1> DEFINE Rest == \A q \in Slots \ {r} : req'[q] = req[q]
<1>0. req \in [Slots -> Request] /\ used \in [faults : Nat, crashes : Nat, requests : Nat, restarts : Nat]
  BY DEF TypeInv, TypeOK
<1>1. ASSUME Finish(r) PROVE Rest /\ req'[r] = IdleReq
  BY <1>0, <1>1 DEF Finish
<1>2. ASSUME NEW step, Goto(r, step) PROVE Rest /\ Moves(r, req[r].pc, step)
  BY <1>0, <1>2 DEF Goto, Moves, Request
<1>3. ASSUME Fails PROVE used'.faults = used.faults + 1
  BY <1>0, <1>3 DEF Fails
<1>4. CASE PublishControl(r)
  BY <1>1, <1>2, <1>3, <1>4 DEF PublishControl, Ends
<1>5. CASE ControlWrite(r) \/ DeleteRows(r) \/ RestartCopy(r)
  BY <1>1, <1>5 DEF ControlWrite, DeleteRows, RestartCopy, Ends
<1>6. CASE RestartWrite(r)
  BY <1>1, <1>2, <1>6 DEF RestartWrite, Ends
<1>7. CASE ResetParts(r)
  BY <1>1, <1>2, <1>7 DEF ResetParts, Ends
<1>8. CASE RestartFinish(r)
  BY <1>1, <1>8 DEF RestartFinish, Ends
<1>9. CASE RepublishList(r)
  <2>1. ASSUME req[r].pc = "list", req' = [req EXCEPT ![r] = [@ EXCEPT !.pc = "repub", !.todo = Rows(req[r].task)]]
        PROVE  Rest /\ Moves(r, "list", "repub")
    BY <1>0, <2>1 DEF Moves, Request
  <2> QED
    BY <1>2, <1>9, <2>1 DEF RepublishList
<1>10. CASE RepublishXAdd(r)
  <2>1. ASSUME NEW p, req[r].pc = "repub", req' = [req EXCEPT ![r] = [@ EXCEPT !.pc = "remark", !.cur = p]]
        PROVE  Rest /\ Moves(r, "repub", "remark") /\ req'[r].todo = req[r].todo /\ req'[r].cur = p
    BY <1>0, <2>1 DEF Moves, Request
  <2>2. PICK p \in req[r].todo :
           \/ /\ XAddPart(req[r].task, p)
              /\ req' = [req EXCEPT ![r] = [@ EXCEPT !.pc = "remark", !.cur = p]]
           \/ XAddPartFails(req[r].task, p) /\ Fails /\ Goto(r, "refail")
    BY <1>10 DEF RepublishXAdd
  <2>3. req[r].pc = "repub"
    BY <1>10 DEF RepublishXAdd
  <2> QED
    BY <1>2, <1>3, <1>10, <2>1, <2>2, <2>3
<1>11. CASE RepublishMark(r)
  <2>1. ASSUME req[r].pc = "remark", PartDone(r)
        PROVE  Rest /\ Moves(r, "remark", "repub") /\ req'[r].todo = req[r].todo \ {req[r].cur}
    BY <1>0, <2>1 DEF PartDone, Moves, Request
  <2> QED
    BY <1>2, <1>11, <2>1 DEF RepublishMark
<1> QED
  BY <1>4, <1>5, <1>6, <1>7, <1>8, <1>9, <1>10, <1>11 DEF RequestStep

\* An idle slot accepts a request for task t.
Begins(r, t) ==
  /\ req[r].pc = "idle" /\ UNCHANGED <<db, stream, control, sub, abandoned>>
  /\ req'[r].task = t /\ req'[r].todo = {}
  /\ \/ /\ \E op \in ControlOps : ControlRead(r, t, op) /\ req'[r].pc = "publish"
     \/ DeleteRead(r, t) /\ req'[r].pc = "delete"
     \/ /\ RestartRead(r, t) /\ used'.restarts = used.restarts + 1
        /\ \/ status[t] = "terminated" /\ req'[r].pc = "copy"
           \/ status[t] \in {"completed", "failed"} /\ req'[r].pc = "restarting"

LEMMA SlotChanges ==
  ASSUME TypeInv, [Next]_vars, NEW r \in Slots
  PROVE  \/ req'[r] = req[r]
         \/ RequestStep(r)
         \/ Crash /\ req'[r] = IdleReq
         \/ \E t \in Tasks : Begins(r, t)
<1>0. req \in [Slots -> Request] /\ used \in [faults : Nat, crashes : Nat, requests : Nat, restarts : Nat]
  BY DEF TypeInv, TypeOK
<1>1. ASSUME NEW q \in Slots, RequestStep(q) PROVE req'[r] = req[r] \/ RequestStep(r)
  BY <1>1, RequestMoves
<1>2. CASE Crash
  BY <1>2 DEF Crash
<1>3. ASSUME NEW q \in Slots, NEW t \in Tasks, NEW op, NEW step, Accept(q, t, op, step)
      PROVE  \/ req'[r] = req[r]
             \/ /\ q = r /\ req[r].pc = "idle" /\ UNCHANGED <<db, stream, control, sub, abandoned>>
                /\ req'[r].task = t /\ req'[r].todo = {} /\ req'[r].pc = step
                /\ op = "restart" => used'.restarts = used.restarts + 1
  <2>1. CASE q = r
    <3>1. req'[r] = [IdleReq EXCEPT !.op = op, !.task = t, !.pc = step]
      BY <1>0, <1>3, <2>1 DEF Accept
    <3>2. req'[r].task = t /\ req'[r].todo = {} /\ req'[r].pc = step
      BY <3>1 DEF IdleReq
    <3>3. op = "restart" => used'.restarts = used.restarts + 1
      BY <1>0, <1>3 DEF Accept
    <3> QED
      BY <1>3, <2>1, <3>2, <3>3 DEF Accept
  <2>2. CASE q # r
    BY <1>0, <1>3, <2>2 DEF Accept
  <2> QED
    BY <2>1, <2>2
<1>4. ASSUME NEW q \in Slots, NEW t \in Tasks,
             (\E op \in Ops : ControlRead(q, t, op)) \/ DeleteRead(q, t) \/ RestartRead(q, t)
      PROVE  req'[r] = req[r] \/ Begins(r, t)
  <2>1. ASSUME NEW op \in Ops, ControlRead(q, t, op) PROVE req'[r] = req[r] \/ Begins(r, t)
    BY <1>3, <2>1 DEF ControlRead, Begins
  <2>2. CASE DeleteRead(q, t)
    BY <1>3, <2>2 DEF DeleteRead, Begins
  <2>3. CASE RestartRead(q, t)
    BY <1>3, <2>3 DEF RestartRead, Begins
  <2> QED
    BY <1>4, <2>1, <2>2, <2>3
<1>5. UNCHANGED req \/ Crash \/ (\E q \in Slots : RequestStep(q))
       \/ (\E q \in Slots, t \in Tasks :
             (\E op \in Ops : ControlRead(q, t, op)) \/ DeleteRead(q, t) \/ RestartRead(q, t))
  BY DEF Next, vars, Create, SubmitStep, Probe, SubmitRecheck, SubmitSave, SubmitRows, SubmitCheck,
         SubmitXAdd, SubmitMark, SubmitFinish, SubmitFail, Expire, WorkerComplete, WorkerScan, WorkerFail, WorkerDrop
<1> QED
  BY <1>1, <1>2, <1>4, <1>5

\* The bounds are only spent, and who has given up on a task has done so for good.
LEMMA BoundsGrow ==
  ASSUME TypeInv, [Next]_vars
  PROVE  /\ used'.faults >= used.faults /\ used'.restarts >= used.restarts
         /\ used'.crashes >= used.crashes /\ abandoned \subseteq abandoned'
<1>0. used \in [faults : Nat, crashes : Nat, requests : Nat, restarts : Nat]
  BY DEF TypeInv, TypeOK
<1> DEFINE Grows == used'.faults >= used.faults /\ used'.restarts >= used.restarts /\ used'.crashes >= used.crashes
<1>1. ASSUME UNCHANGED used PROVE Grows
  BY <1>0, <1>1
<1>2. ASSUME Fails PROVE Grows
  BY <1>0, <1>2 DEF Fails
<1>3. ASSUME NEW r \in Slots, NEW t \in Tasks, NEW op, NEW step, Accept(r, t, op, step)
      PROVE Grows /\ UNCHANGED abandoned
  BY <1>0, <1>3 DEF Accept
<1>4. ASSUME Crash PROVE Grows /\ abandoned \subseteq abandoned'
  BY <1>0, <1>4 DEF Crash
<1>5. ASSUME NEW t \in Tasks, SubmitStep(t) PROVE Grows
  BY <1>1, <1>2, <1>5 DEF SubmitStep, Probe, SubmitRecheck, SubmitSave, SubmitRows, SubmitCheck, SubmitXAdd,
     SubmitMark, SubmitFinish, SubmitFail, SubmitErrors, SubmitReturns, XAddPart, Resends, Succeeds
<1>6. ASSUME NEW r \in Slots, RequestStep(r) PROVE Grows
  BY <1>1, <1>2, <1>6 DEF RequestStep, PublishControl, ControlWrite, DeleteRows, RestartCopy, RestartWrite,
     ResetParts, RepublishList, RepublishXAdd, RepublishMark, RestartFinish, XAddPart, Resends, Succeeds, InsertTask
<1>7. CASE Create
  BY <1>1, <1>2, <1>7 DEF Create, InsertTask, Succeeds
<1>8. Grows
  BY <1>1, <1>2, <1>3, <1>4, <1>5, <1>6, <1>7 DEF Next, vars, Expire, WorkerComplete, WorkerScan, WorkerFail, WorkerDrop,
     ControlRead, DeleteRead, RestartRead
<1>9. abandoned \subseteq abandoned'
  BY <1>4 DEF Next, vars, Create, InsertTask, SubmitStep, Probe, SubmitRecheck, SubmitSave, SubmitRows, SubmitCheck,
     SubmitXAdd, SubmitMark, SubmitFinish, SubmitFail, Expire, WorkerComplete, WorkerScan, WorkerFail, WorkerDrop,
     RequestStep, PublishControl, ControlWrite, DeleteRows, RestartCopy, RestartWrite, ResetParts,
     RepublishList, RepublishXAdd, RepublishMark, RestartFinish, ControlRead, DeleteRead, RestartRead, Accept
<1> QED
  BY <1>8, <1>9

-----------------------------------------------------------------------------
(* A task in a transient status has an owner.                              *)

OwnedInv == QueuedEarly /\ TransientIsOwned

LEMMA QueuedInductive ==
  ASSUME TypeInv, QueuedEarly, [Next]_vars, NEW t \in Tasks, t \notin abandoned', status'[t] = "queued"
  PROVE  sub'[t].pc \in {"probe", "recheck", "save", "fail"}
<1>0. t \notin abandoned /\ status \in [Tasks -> TaskStatus \cup {"none"}] /\ sub \in [Tasks -> Submit]
  BY BoundsGrow DEF TypeInv, TypeOK
<1>1. CASE status[t] # "queued"
  <2>1. ASSUME NEW r \in Slots, req[r].task = t, RestartFinish(r) PROVE RestartOutcome(r) # "queued"
    BY DEF RestartOutcome
  <2>2. ASSUME NEW r \in Slots, ControlWrite(r) PROVE ControlTarget(req[r].op) # "queued"
    BY <2>2 DEF ControlWrite, TypeInv, ControlShape, ControlOps, ControlTarget
  <2>3. sub'[t].pc = "probe"
    BY <1>1, <2>1, <2>2, StatusChanges
  <2> QED
    BY <2>3
<1>2. CASE status[t] = "queued"
  <2>1. sub[t].pc \in {"probe", "recheck", "save", "fail"}
    BY <1>0, <1>2 DEF QueuedEarly
  <2>2. CASE SubmitStep(t)
    <3>1. CASE SubmitRecheck(t) /\ GoesOn(t, IF TaskTerminated(t) THEN "done" ELSE "save", sub[t].next)
      BY <1>2, <3>1 DEF GoesOn, TaskTerminated
    <3>2. ~SaveStatus(t, IF sub[t].plan = 0 THEN "completed" ELSE "running")
      BY <1>0 DEF SaveStatus
    <3>3. ~SetStatus(t, "failed")
      BY <1>0, <1>2 DEF SetStatus
    <3> QED
      BY <2>1, <2>2, <3>1, <3>2, <3>3, SubmitMoves DEF GivesUp
  <2> QED
    BY <2>1, <2>2, GoroutineChanges DEF Starts
<1> QED
  BY <1>1, <1>2

LEMMA RestartingInductive ==
  ASSUME TypeInv, TransientIsOwned, [Next]_vars, NEW t \in Tasks, t \notin abandoned', status'[t] = "restarting"
  PROVE  \E r \in Slots : Restarting(r)' /\ req'[r].task = t
<1>0. t \notin abandoned /\ status \in [Tasks -> TaskStatus \cup {"none"}]
  BY BoundsGrow DEF TypeInv, TypeOK
<1>1. ASSUME NEW r \in Slots, req[r].task = t, RestartFinish(r) PROVE RestartOutcome(r) # "restarting"
  BY DEF RestartOutcome
<1>2. CASE status[t] # "restarting"
  <2>2. ASSUME NEW r \in Slots, ControlWrite(r) PROVE ControlTarget(req[r].op) # "restarting"
    BY <2>2 DEF ControlWrite, TypeInv, ControlShape, ControlOps, ControlTarget
  <2>3. PICK r \in Slots : req[r].task = t /\ RestartWrite(r)
    BY <1>1, <1>2, <2>2, StatusChanges
  <2>4. RequestStep(r) /\ req[r].pc = "restarting"
    BY <2>3 DEF RequestStep, RestartWrite
  <2>5. ~Ends(r)
    BY <1>2, <2>3, <2>4 DEF Ends, PublishControl, ControlWrite, DeleteRows, RestartCopy, ResetParts, RestartFinish
  <2>6. req'[r].pc = "reset" /\ req'[r].task = t
    BY <2>3, <2>4, <2>5, RequestMoves DEF Moves
  <2> QED
    BY <2>6 DEF Restarting, RestartSteps
<1>3. CASE status[t] = "restarting"
  <2>1. PICK r \in Slots : Restarting(r) /\ req[r].task = t
    BY <1>0, <1>3 DEF TransientIsOwned
  <2>2. req[r].pc \in {"reset", "list", "repub", "remark", "refail"}
    BY <2>1 DEF Restarting, RestartSteps
  <2>3. CASE RequestStep(r)
    <3>1. ~SetStatus(t, RestartOutcome(r)) \/ ~RestartFinish(r)
      BY <1>0, <1>1, <1>3, <2>1 DEF SetStatus
    <3>2. ~Ends(r)
      BY <2>1, <2>2, <3>1 DEF Ends, PublishControl, ControlWrite, DeleteRows, RestartCopy, RestartWrite
    <3>3. req'[r].task = t /\ req'[r].pc \in {"list", "repub", "remark", "refail"}
      BY <2>1, <2>2, <2>3, <3>2, RequestMoves DEF Moves
    <3> QED
      BY <3>3 DEF Restarting, RestartSteps
  <2>4. ~Crash
    BY <2>1 DEF Crash
  <2>5. CASE req'[r] = req[r]
    BY <2>1, <2>5 DEF Restarting
  <2> QED
    BY <2>2, <2>3, <2>4, <2>5, SlotChanges DEF Begins
<1> QED
  BY <1>2, <1>3

LEMMA OwnedInductive == TypeInv /\ OwnedInv /\ [Next]_vars => OwnedInv'
<1> SUFFICES ASSUME TypeInv, OwnedInv, [Next]_vars PROVE OwnedInv'
  OBVIOUS
<1>1. ASSUME NEW t \in Tasks, t \notin abandoned', status'[t] = "queued"
      PROVE  sub'[t].pc \in {"probe", "recheck", "save", "fail"} /\ sub'[t].pc \in SubmitSteps
  BY <1>1, QueuedInductive DEF OwnedInv, SubmitSteps
<1>2. ASSUME NEW t \in Tasks, t \notin abandoned', status'[t] = "restarting"
      PROVE  \E r \in Slots : Restarting(r)' /\ req'[r].task = t
  BY <1>2, RestartingInductive DEF OwnedInv
<1> QED
  BY <1>1, <1>2 DEF OwnedInv, QueuedEarly, TransientIsOwned, Submitting

\* SubmitTask, its goroutine and the restart goroutine write a last status on
\* every path: a task is queued or restarting only while one of them is under
\* way, unless it has crashed or could not write.
THEOREM TransientOwned == Spec => []TransientIsOwned
<1>1. Init => OwnedInv
  BY DEF Init, OwnedInv, QueuedEarly, TransientIsOwned
<1> QED
  BY <1>1, OwnedInductive, Typed, PTL DEF Spec, OwnedInv
-----------------------------------------------------------------------------
(* A completed task has its results.                                       *)

CompletedInv ==
  RecordInv /\ PlanIsUp /\ RowsTogether /\ CompletedStored /\ RestartCounted /\ CompletedHasResults

\* The rows of a task stay, or SubmitTask creates them, or they all go.
LEMMA RowsMove ==
  ASSUME TypeInv, [Next]_vars, NEW t \in Tasks
  PROVE  \/ \A p \in Parts : partStatus'[t][p] # "none" <=> partStatus[t][p] # "none"
         \/ SubmitRows(t) /\ CreateRows(t)
         \/ \A p \in Parts : partStatus'[t][p] = "none"
<1> DEFINE Kept == \A p \in Parts : partStatus'[t][p] # "none" <=> partStatus[t][p] # "none"
<1>0. partStatus \in [Tasks -> [Parts -> PartStatus]]
  BY DEF TypeInv, TypeOK
<1>1. ASSUME UNCHANGED partStatus PROVE Kept
  BY <1>1
<1>2. ASSUME NEW u \in Tasks, SubmitRows(u) PROVE Kept \/ (SubmitRows(t) /\ CreateRows(t))
  <2>1. CASE CreateRows(u) /\ u = t
    BY <1>2, <2>1
  <2>2. CASE CreateRows(u) /\ u # t
    BY <1>0, <2>2 DEF CreateRows
  <2> QED
    BY <1>1, <1>2, <2>1, <2>2 DEF SubmitRows
<1>3. ASSUME NEW u \in Tasks, SubmitStep(u), ~SubmitRows(u) PROVE Kept
  <2>1. CASE SubmitMark(u)
    <3>1. sub[u].next \in Parts
      BY <2>1, SubmitPartType DEF SubmitMark
    <3> QED
      BY <1>1, <2>1, <3>1, MarkKeepsRows DEF SubmitMark
  <2>2. CASE Probe(u) \/ SubmitRecheck(u) \/ SubmitSave(u) \/ SubmitCheck(u)
             \/ SubmitXAdd(u) \/ SubmitFinish(u) \/ SubmitFail(u)
    BY <1>1, <2>2 DEF Probe, SubmitRecheck, SubmitSave, SubmitCheck, SubmitXAdd, SubmitFinish, SubmitFail, db, parts
  <2> QED
    BY <1>3, <2>1, <2>2 DEF SubmitStep
<1>4. ASSUME NEW r \in Slots, DeleteRows(r) PROVE Kept \/ \A p \in Parts : partStatus'[t][p] = "none"
  <2>0. req[r].task \in Tasks
    BY DEF TypeInv, TypeOK, Request
  <2>1. CASE partStatus' = [partStatus EXCEPT ![req[r].task] = [q \in Parts |-> "none"]]
    <3>1. CASE req[r].task = t
      BY <1>0, <2>1, <3>1
    <3>2. CASE req[r].task # t
      BY <1>0, <2>1, <3>2
    <3> QED
      BY <3>1, <3>2
  <2> QED
    BY <1>1, <1>4, <2>1 DEF DeleteRows, parts
<1>5. ASSUME NEW r \in Slots, RequestStep(r), ~DeleteRows(r) PROVE Kept
  <2>0. req[r].task \in Tasks /\ req[r].cur \in Parts
    BY DEF TypeInv, TypeOK, Request
  <2>2. CASE ResetParts(r)
    <3>1. CASE ResetRows(req[r].task)
      BY <1>0, <2>0, <3>1 DEF ResetRows, Rows
    <3> QED
      BY <1>1, <2>2, <3>1 DEF ResetParts, parts
  <2>3. CASE RepublishMark(r)
    BY <1>1, <2>0, <2>3, MarkKeepsRows DEF RepublishMark
  <2>4. CASE PublishControl(r) \/ ControlWrite(r) \/ RestartCopy(r) \/ RestartWrite(r)
             \/ RepublishList(r) \/ RepublishXAdd(r) \/ RestartFinish(r)
    BY <1>1, <2>4 DEF PublishControl, ControlWrite, RestartCopy, RestartWrite, RepublishList, RepublishXAdd,
       RestartFinish, db, parts
  <2> QED
    BY <1>5, <2>2, <2>3, <2>4 DEF RequestStep
<1>6. ASSUME NEW u \in Tasks, NEW q \in Parts, WorkerScan(u, q) \/ WorkerFail(u, q) PROVE Kept
  <2>2. CASE /\ partStatus[u][q] # "none"
             /\ \E s \in {"completed", "failed"} : partStatus' = [partStatus EXCEPT ![u][q] = s]
    <3> SUFFICES ASSUME NEW p \in Parts PROVE partStatus'[t][p] # "none" <=> partStatus[t][p] # "none"
      OBVIOUS
    <3>1. CASE u = t /\ q = p
      BY <1>0, <2>2, <3>1
    <3>2. CASE ~(u = t /\ q = p)
      <4>1. partStatus'[t][p] = partStatus[t][p]
        BY <1>0, <2>2, <3>2
      <4> QED
        BY <4>1
    <3> QED
      BY <3>1, <3>2
  <2> QED
    BY <1>1, <1>6, <2>2 DEF WorkerScan, WorkerFail
<1>7. \/ UNCHANGED partStatus
      \/ \E u \in Tasks : SubmitStep(u)
      \/ \E r \in Slots : RequestStep(r)
      \/ \E u \in Tasks, q \in Parts : WorkerScan(u, q) \/ WorkerFail(u, q)
  BY DEF Next, vars, db, parts, Create, Expire, WorkerComplete, WorkerDrop, ControlRead, DeleteRead,
         RestartRead, Accept, Crash
<1> QED
  BY <1>1, <1>2, <1>3, <1>4, <1>5, <1>6, <1>7

\* Results are lost in a deletion or in the reset of a restart.
LEMMA ResultsKept ==
  ASSUME TypeInv, [Next]_vars, NEW t \in Tasks
  PROVE  \/ results[t] \subseteq results'[t]
         \/ /\ status'[t] = "none" \/ \E r \in Slots : ResetParts(r)
            /\ \A p \in Parts : partStatus'[t][p] # "completed"
<1>0. /\ results \in [Tasks -> SUBSET Parts] /\ status \in [Tasks -> TaskStatus \cup {"none"}]
      /\ partStatus \in [Tasks -> [Parts -> PartStatus]]
  BY DEF TypeInv, TypeOK
<1>1. CASE UNCHANGED results
  BY <1>1
<1>2. ASSUME NEW r \in Slots, DeleteRows(r)
      PROVE  \/ results[t] \subseteq results'[t]
             \/ status'[t] = "none" /\ \A p \in Parts : partStatus'[t][p] # "completed"
  <2>0. req[r].task \in Tasks
    BY DEF TypeInv, TypeOK, Request
  <2>1. CASE /\ status' = [status EXCEPT ![req[r].task] = "none"]
             /\ partStatus' = [partStatus EXCEPT ![req[r].task] = [p \in Parts |-> "none"]]
             /\ results' = [results EXCEPT ![req[r].task] = {}]
    <3>1. CASE req[r].task = t
      BY <1>0, <2>0, <2>1, <3>1
    <3>2. CASE req[r].task # t
      BY <1>0, <2>1, <3>2
    <3> QED
      BY <3>1, <3>2
  <2> QED
    BY <1>1, <1>2, <2>1 DEF DeleteRows, parts
<1>3. ASSUME NEW r \in Slots, ResetParts(r)
      PROVE  results[t] \subseteq results'[t] \/ \A p \in Parts : partStatus'[t][p] # "completed"
  <2>0. req[r].task \in Tasks
    BY DEF TypeInv, TypeOK, Request
  <2>1. CASE ResetRows(req[r].task)
    <3>1. CASE req[r].task = t
      BY <1>0, <2>0, <2>1, <3>1 DEF ResetRows
    <3>2. CASE req[r].task # t
      BY <1>0, <2>1, <3>2 DEF ResetRows
    <3> QED
      BY <3>1, <3>2
  <2> QED
    BY <1>1, <1>3, <2>1 DEF ResetParts, parts
<1>4. ASSUME NEW u \in Tasks, NEW q \in Parts, WorkerScan(u, q) PROVE results[t] \subseteq results'[t]
  <2>1. results' = [results EXCEPT ![u] = results[u] \cup {q}]
    BY <1>4 DEF WorkerScan
  <2> QED
    BY <1>0, <2>1
<1>5. \/ UNCHANGED results
      \/ \E r \in Slots : DeleteRows(r) \/ ResetParts(r)
      \/ \E u \in Tasks, q \in Parts : WorkerScan(u, q)
  BY DEF Next, vars, db, parts, Create, SubmitStep, Probe, SubmitRecheck, SubmitSave, SubmitRows, SubmitCheck,
         SubmitXAdd, SubmitMark, SubmitFinish, SubmitFail, Expire, WorkerComplete, WorkerFail, WorkerDrop, RequestStep,
         PublishControl, ControlWrite, RestartCopy, RestartWrite, RepublishList, RepublishXAdd, RepublishMark,
         RestartFinish, ControlRead, DeleteRead, RestartRead, Accept, Crash
<1> QED
  BY <1>1, <1>2, <1>3, <1>4, <1>5

\* Only a worker that has scanned a part completes its row.
LEMMA PartCompletes ==
  ASSUME TypeInv, [Next]_vars, NEW t \in Tasks, NEW p \in Parts, partStatus'[t][p] = "completed"
  PROVE  partStatus[t][p] = "completed" \/ WorkerScan(t, p)
<1>0. partStatus \in [Tasks -> [Parts -> PartStatus]]
  BY DEF TypeInv, TypeOK
<1>1. CASE UNCHANGED partStatus
  BY <1>1
<1>2. ASSUME NEW u \in Tasks, NEW q \in Parts, MarkRunning(u, q) PROVE partStatus[t][p] = "completed"
  BY <1>0, <1>2 DEF MarkRunning
<1>3. ASSUME NEW u \in Tasks, SubmitStep(u) PROVE partStatus[t][p] = "completed"
  <2>1. CASE SubmitRows(u)
    BY <1>0, <2>1 DEF SubmitRows, CreateRows, NewPart
  <2>2. CASE SubmitMark(u)
    <3>1. sub[u].next \in Parts
      BY <2>2, SubmitPartType DEF SubmitMark
    <3> QED
      BY <1>1, <1>2, <2>2, <3>1 DEF SubmitMark
  <2>3. CASE Probe(u) \/ SubmitRecheck(u) \/ SubmitSave(u) \/ SubmitCheck(u)
             \/ SubmitXAdd(u) \/ SubmitFinish(u) \/ SubmitFail(u)
    BY <1>1, <2>3 DEF Probe, SubmitRecheck, SubmitSave, SubmitCheck, SubmitXAdd, SubmitFinish, SubmitFail, db, parts
  <2> QED
    BY <1>3, <2>1, <2>2, <2>3 DEF SubmitStep
<1>4. ASSUME NEW r \in Slots, RequestStep(r) PROVE partStatus[t][p] = "completed"
  <2>0. req[r].task \in Tasks /\ req[r].cur \in Parts
    BY DEF TypeInv, TypeOK, Request
  <2>1. CASE DeleteRows(r)
    BY <1>0, <1>1, <2>0, <2>1 DEF DeleteRows, parts
  <2>2. CASE ResetParts(r)
    BY <1>0, <1>1, <2>0, <2>2 DEF ResetParts, ResetRows, parts
  <2>3. CASE RepublishMark(r)
    BY <1>1, <1>2, <2>0, <2>3 DEF RepublishMark
  <2>4. CASE PublishControl(r) \/ ControlWrite(r) \/ RestartCopy(r) \/ RestartWrite(r)
             \/ RepublishList(r) \/ RepublishXAdd(r) \/ RestartFinish(r)
    BY <1>1, <2>4 DEF PublishControl, ControlWrite, RestartCopy, RestartWrite, RepublishList, RepublishXAdd,
       RestartFinish, db, parts
  <2> QED
    BY <1>4, <2>1, <2>2, <2>3, <2>4 DEF RequestStep
<1>5. ASSUME NEW u \in Tasks, NEW q \in Parts, WorkerScan(u, q), ~WorkerScan(t, p)
      PROVE  partStatus[t][p] = "completed"
  <2>1. ~(u = t /\ q = p)
    BY <1>5
  <2>2. UNCHANGED partStatus \/ partStatus' = [partStatus EXCEPT ![u][q] = "completed"]
    BY <1>5 DEF WorkerScan
  <2>3. partStatus'[t][p] = partStatus[t][p]
    BY <1>0, <2>1, <2>2
  <2> QED
    BY <2>3
<1>6. ASSUME NEW u \in Tasks, NEW q \in Parts, WorkerFail(u, q) PROVE partStatus[t][p] = "completed"
  <2>1. UNCHANGED partStatus \/ partStatus' = [partStatus EXCEPT ![u][q] = "failed"]
    BY <1>6 DEF WorkerFail
  <2> QED
    BY <1>0, <2>1
<1>7. \/ UNCHANGED partStatus
      \/ \E u \in Tasks : SubmitStep(u)
      \/ \E r \in Slots : RequestStep(r)
      \/ \E u \in Tasks, q \in Parts : WorkerScan(u, q) \/ WorkerFail(u, q)
  BY DEF Next, vars, db, parts, Create, Expire, WorkerComplete, WorkerDrop, ControlRead, DeleteRead,
         RestartRead, Accept, Crash
<1> QED
  BY <1>1, <1>3, <1>4, <1>5, <1>6, <1>7

LEMMA PlanInductive == ASSUME TypeInv, PlanIsUp, [Next]_vars PROVE PlanIsUp'
<1> DEFINE Safe(g) == g.pc \in {"none", "probe", "fail", "failed"} \/ (g.pc = "recheck" /\ g.expired) \/ g.plan = g.up
<1> SUFFICES ASSUME NEW t \in Tasks PROVE Safe(sub'[t])
  BY DEF PlanIsUp
<1>0. Safe(sub[t])
  BY DEF PlanIsUp
<1>1. CASE SubmitStep(t)
  BY <1>0, <1>1, SubmitMoves DEF AliveParts, GivesUp, GoesOn
<1> QED
  BY <1>0, <1>1, GoroutineChanges DEF Starts, Expire

LEMMA RestartInductive == ASSUME TypeInv, RestartCounted, [Next]_vars PROVE RestartCounted'
<1> SUFFICES ASSUME NEW r \in Slots, req'[r].pc \in RestartSteps PROVE used'.restarts > 0
  BY DEF RestartCounted
<1>0. used.restarts \in Nat /\ used'.restarts \in Nat /\ used'.restarts >= used.restarts
  <2>1. used \in [faults : Nat, crashes : Nat, requests : Nat, restarts : Nat]
    BY DEF TypeInv, TypeOK
  <2>2. used' \in [faults : Nat, crashes : Nat, requests : Nat, restarts : Nat]
    BY NextType DEF TypeOK
  <2>3. used'.restarts >= used.restarts
    BY BoundsGrow
  <2> QED
    BY <2>1, <2>2, <2>3
<1>1. CASE req[r].pc \in RestartSteps
  BY <1>0, <1>1 DEF RestartCounted
<1>2. CASE req[r].pc \notin RestartSteps
  <2>1. ~RequestStep(r)
    BY <1>2, RequestMoves DEF RestartSteps, Ends, Moves, IdleReq
  <2>2. used'.restarts = used.restarts + 1
    BY <1>2, <2>1, SlotChanges DEF Begins, RestartSteps, IdleReq
  <2> QED
    BY <1>0, <2>2
<1> QED
  BY <1>1, <1>2

LEMMA UpStays ==
  ASSUME TypeInv, [Next]_vars, NEW t \in Tasks
  PROVE  sub'[t].up = sub[t].up \/ Starts(t)
BY GoroutineChanges, SubmitMoves

LEMMA RowsInductive == ASSUME TypeInv, RecordInv, PlanIsUp, RowsTogether, [Next]_vars PROVE RowsTogether'
<1> SUFFICES ASSUME NEW t \in Tasks, NEW q \in Parts, partStatus'[t][q] # "none", NEW p \in 1..sub'[t].up
             PROVE  partStatus'[t][p] # "none"
  BY DEF RowsTogether
<1>0. /\ partStatus \in [Tasks -> [Parts -> PartStatus]] /\ sub[t].up \in 0..MaxParts
      /\ issued \in Nat /\ sub'[t].up \in 0..MaxParts
  <2>1. sub \in [Tasks -> Submit] /\ issued \in 0..MaxTasks
    BY DEF TypeInv, TypeOK
  <2>2. sub' \in [Tasks -> Submit]
    <3>1. TypeOK'
      BY NextType
    <3> QED
      BY <3>1 DEF TypeOK
  <2>3. partStatus \in [Tasks -> [Parts -> PartStatus]]
    BY DEF TypeInv, TypeOK
  <2>4. sub[t] \in Submit /\ sub'[t] \in Submit
    BY <2>1, <2>2
  <2> QED
    BY <2>1, <2>3, <2>4 DEF Submit
<1>1. p \in Parts
  BY <1>0, ConstantTypes DEF Parts
<1>2. CASE Starts(t)
  <2>1. BeforeRows(t) /\ ~SubmitRows(t)
    BY <1>0, <1>2 DEF Starts, RecordInv, FreshTask, BeforeRows, SubmitRows
  <2> QED
    BY <2>1, RowChanges DEF RecordInv, FreshTask
<1>3. CASE SubmitRows(t) /\ CreateRows(t)
  <2>1. sub[t].plan = sub[t].up /\ sub'[t].up = sub[t].up
    BY <1>3, UpStays, SubmitMoves DEF PlanIsUp, SubmitRows, SubmitStep
  <2> QED
    BY <1>0, <1>1, <1>3, <2>1 DEF CreateRows, NewParts, NewPart
<1>4. CASE sub'[t].up = sub[t].up
  BY <1>1, <1>3, <1>4, RowsMove DEF RowsTogether
<1> QED
  BY <1>2, <1>4, UpStays

LEMMA StoredInductive == ASSUME TypeInv, CompletedStored, [Next]_vars PROVE CompletedStored'
<1> SUFFICES ASSUME NEW t \in Tasks, NEW p \in Parts, partStatus'[t][p] = "completed" PROVE p \in results'[t]
  BY DEF CompletedStored
<1>0. results \in [Tasks -> SUBSET Parts]
  BY DEF TypeInv, TypeOK
<1>1. CASE WorkerScan(t, p)
  BY <1>0, <1>1 DEF WorkerScan
<1>2. CASE partStatus[t][p] = "completed"
  BY <1>2, ResultsKept DEF CompletedStored
<1> QED
  BY <1>1, <1>2, PartCompletes

LEMMA ResultsInductive == ASSUME TypeInv, CompletedInv, [Next]_vars PROVE CompletedHasResults'
<1> SUFFICES ASSUME NEW t \in Tasks, status'[t] = "completed", used'.restarts = 0, NEW p \in 1..sub'[t].up
             PROVE  p \in results'[t]
  BY DEF CompletedHasResults
<1>0. /\ partStatus \in [Tasks -> [Parts -> PartStatus]] /\ sub[t].up \in 0..MaxParts
      /\ status \in [Tasks -> TaskStatus \cup {"none"}]
      /\ used.restarts \in Nat /\ used'.restarts >= used.restarts
  BY BoundsGrow DEF TypeInv, TypeOK, Submit
<1>1. used.restarts = 0 /\ \A r \in Slots : req[r].pc \notin RestartSteps
  <2>1. used.restarts = 0
    BY <1>0
  <2> QED
    BY <2>1 DEF CompletedInv, RestartCounted
<1>2. sub'[t].up = sub[t].up
  BY UpStays DEF Starts
<1>3. p \in Parts /\ p \in 1..sub[t].up
  BY <1>0, <1>2, ConstantTypes DEF Parts
<1>4. results[t] \subseteq results'[t]
  BY <1>1, ResultsKept DEF ResetParts, RestartSteps
<1>5. CASE status'[t] = status[t]
  BY <1>1, <1>3, <1>4, <1>5 DEF CompletedInv, CompletedHasResults
<1>6. CASE WorkerComplete(t)
  <2>1. partStatus[t][p] = "completed"
    BY <1>3, <1>6 DEF WorkerComplete, CompletedInv, RowsTogether
  <2> QED
    BY <1>3, <1>4, <2>1 DEF CompletedInv, CompletedStored
<1>7. CASE SubmitSave(t) /\ sub[t].plan = 0
  <2>1. sub[t].up = 0
    BY <1>7 DEF SubmitSave, CompletedInv, PlanIsUp
  <2> QED
    BY <1>3, <2>1
<1>8. ASSUME NEW r \in Slots, ControlWrite(r) PROVE ControlTarget(req[r].op) # "completed"
  BY <1>8 DEF ControlWrite, TypeInv, ControlShape, ControlOps, ControlTarget
<1>9. ASSUME NEW r \in Slots PROVE ~RestartFinish(r)
  BY <1>1, <1>9 DEF RestartFinish, RestartSteps
<1> QED
  BY <1>5, <1>6, <1>7, <1>8, <1>9, StatusChanges

\* SubmitTask completes a task with nothing to scan only when a whole probe found
\* no host, and rows are completed only with their results: as long as nothing
\* was restarted, a completed task lacks the results of no batch of its hosts.
THEOREM CompletedIsScanned == Spec => []CompletedHasResults
<1>1. Init => CompletedInv
  BY DEF Init, CompletedInv, RecordInv, SentIsRecorded, FreshTask, SenderRecorded, BeforeRows, NoSubmit, IdleReq,
         PlanIsUp, RowsTogether, CompletedStored, RestartCounted, CompletedHasResults, RestartSteps
<1>2. TypeInv /\ TypeInv' /\ CompletedInv /\ [Next]_vars => CompletedInv'
  BY RecordInductive, PlanInductive, RowsInductive, StoredInductive, RestartInductive, ResultsInductive
     DEF CompletedInv
<1> QED
  BY <1>1, <1>2, Typed, PTL DEF Spec, CompletedInv
-----------------------------------------------------------------------------
(* A running or paused task has all its parts on the stream.               *)

DispatchedInv == CompletedInv /\ RunningInv /\ SentBefore /\ DoneDispatched /\ TerminatedAlone

LEMMA SentBeforeInductive ==
  ASSUME TypeInv, TypeInv', RecordInv, RunningInv, SentBefore, [Next]_vars PROVE SentBefore'
<1>0. sub \in [Tasks -> Submit] /\ issued \in Nat
  BY DEF TypeInv, TypeOK
<1>a. ASSUME NEW t \in Tasks PROVE 1..sub[t].plan \subseteq Parts /\ sub[t].next \in Nat
  BY <1>0, ConstantTypes DEF Parts, Submit
<1>1. ASSUME NEW t \in Tasks, BeforeRows(t)' PROVE sub'[t].next = 1
  <2>1. CASE SubmitStep(t)
    <3>1. BeforeRows(t)
      BY <1>1, <2>1, SubmitGoesOn
    <3> QED
      BY <1>1, <2>1, <3>1, SubmitMoves DEF SentBefore, BeforeRows, GivesUp, GoesOn
  <2> QED
    BY <1>1, <2>1, GoroutineChanges DEF SentBefore, BeforeRows, Starts
<1>2. ASSUME NEW t \in Tasks, sub'[t].pc \in Sending, NEW p \in 1..sub'[t].plan, p < sub'[t].next
      PROVE  sent'[t][p] > 0
  <2>1. CASE sub[t].pc \in Sending /\ sub'[t].plan = sub[t].plan /\ p < sub[t].next
    <3>1. sent[t][p] > 0 /\ p \in Parts
      BY <1>2, <1>a, <2>1 DEF SentBefore, Sending
    <3> QED
      BY <3>1, SentStays
  <2>2. CASE sub[t].pc = "mark" /\ sub'[t].plan = sub[t].plan /\ p = sub[t].next
    <3>1. sent[t][p] > 0 /\ p \in Parts
      BY <1>2, <1>a, <2>2 DEF RunningInv, MarkerSent
    <3> QED
      BY <3>1, SentStays
  <2>3. CASE SubmitStep(t)
    <3>1. sub'[t].plan = sub[t].plan
      BY <1>2, <2>3, SubmitGoesOn
    <3>2. CASE sub[t].pc = "rows"
      <4>1. sub'[t].next = 1
        BY <1>2, <2>3, <3>2, SubmitMoves DEF SentBefore, BeforeRows, GivesUp, GoesOn, Sending
      <4> QED
        BY <1>2, <4>1
    <3>3. CASE sub[t].pc \in {"check", "xadd"}
      <4>1. sub'[t].next = sub[t].next
        BY <1>2, <2>3, <3>3, SubmitMoves DEF GivesUp, GoesOn, Sending
      <4> QED
        BY <1>2, <2>1, <3>1, <3>3, <4>1 DEF Sending
    <3>4. CASE sub[t].pc = "mark"
      <4>1. sub'[t].next = sub[t].next + 1
        BY <1>2, <2>3, <3>4, SubmitMoves DEF GivesUp, GoesOn, Sending
      <4>2. p < sub[t].next \/ p = sub[t].next
        BY <1>2, <1>a, <4>1
      <4> QED
        BY <2>1, <2>2, <3>1, <3>4, <4>2 DEF Sending
    <3>5. sub[t].pc \in {"rows", "check", "xadd", "mark"}
      BY <1>2, <2>3, SubmitMoves DEF GivesUp, GoesOn, Sending
    <3> QED
      BY <3>2, <3>3, <3>4, <3>5
  <2> QED
    BY <1>2, <2>1, <2>3, GoroutineChanges DEF Starts, Sending
<1> QED
  BY <1>1, <1>2 DEF SentBefore, Sending

LEMMA TerminatedStays ==
  ASSUME TypeInv, RecordInv, TerminatedAlone, [Next]_vars, NEW t \in Tasks,
         status[t] = "terminated", sub[t].pc = "done"
  PROVE  status'[t] \in {"terminated", "none"}
<1>1. t # issued + 1
  <2>1. issued \in Nat /\ t \in Nat
    BY DEF TypeInv, TypeOK, Tasks
  <2>2. ~(t > issued)
    BY DEF RecordInv, FreshTask
  <2> QED
    BY <2>1, <2>2
<1>2. ~SubmitSave(t) /\ ~SubmitFail(t) /\ ~WorkerComplete(t)
  BY DEF SubmitSave, SubmitFail, WorkerComplete
<1>3. ASSUME NEW r \in Slots, req[r].task = t PROVE ~ControlWrite(r) /\ ~RestartWrite(r) /\ ~RestartFinish(r)
  <2>1. req[r].pc \in {"idle", "delete", "copy"}
    BY <1>3 DEF TerminatedAlone
  <2> QED
    BY <2>1 DEF ControlWrite, RestartWrite, RestartFinish
<1> QED
  BY <1>1, <1>2, <1>3, StatusChanges

LEMMA DoneInductive ==
  ASSUME TypeInv, TypeInv', DispatchedInv, [Next]_vars PROVE DoneDispatched'
<1> DEFINE Dispatched(t) == \A p \in 1..sub[t].up : sent[t][p] > 0 /\ partStatus[t][p] # "none"
<1> SUFFICES ASSUME NEW t \in Tasks, sub'[t].pc = "done"
             PROVE  status'[t] \in {"terminated", "none"}
                    \/ \A p \in 1..sub'[t].up : sent'[t][p] > 0 /\ partStatus'[t][p] # "none"
  BY DEF DoneDispatched
<1>0. sub \in [Tasks -> Submit] /\ issued \in Nat
  BY DEF TypeInv, TypeOK
<1>a. 1..sub[t].up \subseteq Parts /\ sub[t].next \in Nat /\ sub[t].plan \in Nat
  BY <1>0, ConstantTypes DEF Parts, Submit
<1>b. sub'[t].up = sub[t].up
  BY UpStays DEF Starts
<1>1. CASE sub[t].pc = "done"
  <2>1. CASE status[t] = "terminated"
    BY <1>1, <2>1, TerminatedStays DEF DispatchedInv, CompletedInv
  <2>2. CASE status[t] = "none"
    <3>1. ~SubmitSave(t) /\ ~(t > issued)
      BY <1>1 DEF SubmitSave, DispatchedInv, CompletedInv, RecordInv, FreshTask
    <3> QED
      BY <2>2, <3>1, GoneStays
  <2>3. CASE Dispatched(t) /\ status'[t] # "none"
    BY <1>a, <1>b, <2>3, SentStays, RowChanges
  <2> QED
    BY <1>1, <2>1, <2>2, <2>3 DEF DispatchedInv, DoneDispatched
<1>2. CASE SubmitStep(t) /\ sub[t].pc # "done"
  <2>1. \/ sub[t].pc \in {"recheck", "check"} /\ TaskTerminated(t) /\ UNCHANGED status
        \/ sub[t].pc = "save" /\ sub[t].plan = 0
        \/ SubmitFinish(t) /\ sub[t].pc = "check" /\ sub[t].next > sub[t].plan
    BY <1>2, SubmitMoves DEF GivesUp, GoesOn, SubmitRecheck, SubmitCheck, db
  <2>2. CASE sub[t].pc = "save" /\ sub[t].plan = 0
    <3>1. sub[t].up = 0
      BY <2>2 DEF DispatchedInv, CompletedInv, PlanIsUp
    <3> QED
      BY <1>b, <3>1
  <2>3. CASE SubmitFinish(t) /\ sub[t].pc = "check" /\ sub[t].next > sub[t].plan
    <3>1. sub[t].plan = sub[t].up
      BY <2>3 DEF DispatchedInv, CompletedInv, PlanIsUp
    <3>2. UNCHANGED <<status, partStatus, sent>>
      BY <2>3 DEF SubmitFinish, db, stream
    <3>3. status[t] = "none" \/ \A p \in 1..sub[t].up : partStatus[t][p] # "none"
      BY <2>3, <3>1 DEF DispatchedInv, CompletedInv, RecordInv, SenderRecorded
    <3>4. \A p \in 1..sub[t].up : sent[t][p] > 0
      BY <1>a, <2>3, <3>1 DEF DispatchedInv, SentBefore
    <3> QED
      BY <1>b, <3>2, <3>3, <3>4
  <2> QED
    BY <2>1, <2>2, <2>3 DEF TaskTerminated
<1> QED
  BY <1>1, <1>2, GoroutineChanges DEF Starts

LEMMA AloneInductive ==
  ASSUME OneAtATime, TypeInv, TerminatedAlone, [Next]_vars PROVE TerminatedAlone'
<1> DEFINE Harmless == {"idle", "delete", "copy"}
<1> SUFFICES ASSUME NEW t \in Tasks, NEW r \in Slots, status'[t] = "terminated", req'[r].task = t
             PROVE  req'[r].pc \in Harmless
  BY DEF TerminatedAlone
<1>1. CASE req'[r] = IdleReq
  BY <1>1 DEF IdleReq
<1>2. CASE status[t] = "terminated"
  <2>1. CASE RequestStep(r) /\ ~Ends(r)
    <3>1. req[r].task = t /\ req[r].pc \notin Harmless
      BY <2>1, RequestMoves DEF Moves
    <3> QED
      BY <1>2, <3>1 DEF TerminatedAlone
  <2>2. ASSUME NEW u \in Tasks, Begins(r, u) PROVE req'[r].pc \in Harmless
    <3>1. u = t
      BY <2>2 DEF Begins
    <3>2. ~\E op \in ControlOps : ControlRead(r, t, op)
      BY <1>2 DEF ControlRead, ControlAllowed, ControlOps
    <3> QED
      BY <1>2, <2>2, <3>1, <3>2 DEF Begins
  <2> QED
    BY <1>1, <1>2, <2>1, <2>2, SlotChanges DEF TerminatedAlone, Ends
<1>3. CASE status[t] # "terminated"
  <2>1. PICK q \in Slots : ControlWrite(q)
    BY <1>3, HaltedByControl DEF Halted
  <2>2. req' = [req EXCEPT ![r] = IdleReq]
    BY <2>1 DEF OneAtATime, ControlWrite, Finish
  <2> QED
    BY <1>1, <2>2 DEF TypeInv, TypeOK
<1> QED
  BY <1>2, <1>3

\* SubmitTask returns without an error only when it has sent every batch or found
\* the task terminated: with one request at a time, a running or paused task it
\* has finished with has all its parts recorded and on the stream.
THEOREM RunningDispatched == ASSUME OneAtATime PROVE Spec => []RunningIsDispatched
<1>1. Init => DispatchedInv
  BY DEF Init, DispatchedInv, CompletedInv, RecordInv, SentIsRecorded, FreshTask, SenderRecorded, BeforeRows,
         NoSubmit, IdleReq, PlanIsUp, RowsTogether, CompletedStored, RestartCounted, CompletedHasResults,
         RestartSteps, RunningInv, RunningWasSent, MarkerSent, SentBefore, DoneDispatched, TerminatedAlone
<1>2. TypeInv /\ TypeInv' /\ CompletedInv /\ [Next]_vars => CompletedInv'
  BY RecordInductive, PlanInductive, RowsInductive, StoredInductive, RestartInductive, ResultsInductive
     DEF CompletedInv
<1>3. TypeInv /\ TypeInv' /\ DispatchedInv /\ [Next]_vars => DispatchedInv'
  BY <1>2, RunningInductive, SentBeforeInductive, DoneInductive, AloneInductive DEF DispatchedInv, CompletedInv
<1>4. DispatchedInv => RunningIsDispatched
  BY DEF DispatchedInv, DoneDispatched, RunningIsDispatched
<1> QED
  BY <1>1, <1>3, <1>4, Typed, PTL DEF Spec
-----------------------------------------------------------------------------
(* The last message of a task is the one of its status.                    *)

AgreeInv == WriterSaidLast /\ ControlAgrees

NoTrouble == used.faults = 0 /\ used.crashes = 0

LEMMA ControlChanges ==
  ASSUME TypeInv, [Next]_vars
  PROVE  UNCHANGED control \/ \E r \in Slots : PublishControl(r)
BY DEF Next, vars, Create, SubmitStep, Probe, SubmitRecheck, SubmitSave, SubmitRows, SubmitCheck,
       SubmitXAdd, SubmitMark, SubmitFinish, SubmitFail, Expire, WorkerComplete, WorkerScan, WorkerFail, WorkerDrop,
       RequestStep, ControlWrite, DeleteRows, RestartCopy, RestartWrite, ResetParts, RepublishList,
       RepublishXAdd, RepublishMark, RestartFinish, ControlRead, DeleteRead, RestartRead, Accept, Crash

LEMMA AnnounceLast ==
  ASSUME TypeInv, NEW u \in Tasks, NEW said \in ControlOps, Announce(u, said)
  PROVE  control'[u] # <<>> /\ control'[u][Len(control'[u])] = said
<1>1. control[u] \in Seq(ControlOps) /\ control'[u] = Append(control[u], said)
  BY DEF Announce, TypeInv, TypeOK
<1>2. Len(control'[u]) = Len(control[u]) + 1 /\ control'[u][Len(control[u]) + 1] = said
  BY <1>1
<1>3. control'[u] # <<>>
  BY <1>1, <1>2
<1> QED
  BY <1>2, <1>3

LEMMA NoTroubleBefore == ASSUME TypeInv, TypeInv', [Next]_vars, NoTrouble' PROVE NoTrouble
<1>1. /\ used.faults \in Nat /\ used.crashes \in Nat
      /\ used'.faults = 0 /\ used'.crashes = 0
  BY DEF NoTrouble, TypeInv, TypeOK
<1> QED
  BY <1>1, BoundsGrow DEF NoTrouble

\* Without failing calls a request that publishes goes on to write.
LEMMA PublishSays ==
  ASSUME TypeInv, TypeInv', [Next]_vars, NoTrouble', NEW r \in Slots, PublishControl(r)
  PROVE  Announce(req[r].task, req[r].op) /\ req'[r].pc = "write"
         /\ req'[r].task = req[r].task /\ req'[r].op = req[r].op
<1>1. used.faults = 0 /\ used'.faults = 0
  BY NoTroubleBefore DEF NoTrouble
<1>2. used'.faults # used.faults + 1
  BY <1>1
<1>3. RequestStep(r) /\ req[r].pc = "publish"
  BY DEF RequestStep, PublishControl
<1>4. ~Ends(r)
  BY <1>2, <1>3 DEF Ends, ControlWrite, DeleteRows, RestartCopy, RestartWrite, ResetParts, RestartFinish
<1> QED
  BY <1>2, <1>3, <1>4, RequestMoves DEF Moves

LEMMA SaidInductive ==
  ASSUME OneAtATime, TypeInv, TypeInv', WriterSaidLast, [Next]_vars PROVE WriterSaidLast'
<1> SUFFICES ASSUME NEW r \in Slots, req'[r].pc = "write", NoTrouble'
             PROVE  control'[req'[r].task] # <<>>
                    /\ control'[req'[r].task][Len(control'[req'[r].task])] = req'[r].op
  BY DEF WriterSaidLast, LastSaid, NoTrouble
<1>1. req[r].task \in Tasks
  BY DEF TypeInv, TypeOK, Request
<1>2. CASE PublishControl(r)
  <2>1. req[r].op \in ControlOps
    BY <1>2 DEF PublishControl, TypeInv, ControlShape
  <2> QED
    BY <1>1, <1>2, <2>1, PublishSays, AnnounceLast
<1>3. CASE ~PublishControl(r)
  <2>1. req'[r] = req[r]
    BY <1>3, WriterStays
  <2>2. UNCHANGED control
    BY <1>3, ControlChanges DEF OneAtATime
  <2> QED
    BY <2>1, <2>2, NoTroubleBefore DEF WriterSaidLast, LastSaid, NoTrouble
<1> QED
  BY <1>2, <1>3

LEMMA AgreeInductive ==
  ASSUME OneAtATime, TypeInv, TypeInv', AgreeInv, [Next]_vars PROVE ControlAgrees'
<1> SUFFICES ASSUME NEW t \in Tasks, NEW op \in ControlOps, NoTrouble', status'[t] \in Halted,
                    status'[t] = ControlTarget(op),
                    \A r \in Slots : req'[r].pc = "write" => req'[r].task # t
             PROVE  control'[t] # <<>> /\ control'[t][Len(control'[t])] = op
  BY DEF ControlAgrees, NoTrouble, Halted
<1>0. /\ NoTrouble /\ req \in [Slots -> Request] /\ control \in [Tasks -> Seq(ControlOps)]
      /\ status \in [Tasks -> TaskStatus \cup {"none"}]
  BY NoTroubleBefore DEF TypeInv, TypeOK
<1>1. ASSUME NEW r \in Slots, ControlWrite(r), req[r].task = t
      PROVE  control'[t] # <<>> /\ control'[t][Len(control'[t])] = op
  <2>1. UNCHANGED control /\ req[r].pc = "write"
    BY <1>1 DEF ControlWrite
  <2>2. ~Fails
    BY <1>0 DEF Fails, NoTrouble, TypeInv, TypeOK
  <2>3. SetStatus(t, ControlTarget(req[r].op))
    BY <1>1, <2>2 DEF ControlWrite
  <2>4. status'[t] = ControlTarget(req[r].op)
    BY <1>0, <2>3 DEF SetStatus, Halted
  <2>5. req[r].op = op
    BY <2>1, <2>4 DEF TypeInv, ControlShape, ControlOps, ControlTarget
  <2> QED
    BY <1>0, <1>1, <2>1, <2>5 DEF AgreeInv, WriterSaidLast, LastSaid, NoTrouble
<1>2. ASSUME \A r \in Slots : ~(ControlWrite(r) /\ req[r].task = t)
      PROVE  control'[t] # <<>> /\ control'[t][Len(control'[t])] = op
  <2>1. status'[t] = status[t]
    <3>1. CASE \A r \in Slots : ~ControlWrite(r)
      BY <3>1, HaltedByControl
    <3>2. ASSUME NEW r \in Slots, ControlWrite(r) PROVE status'[t] = status[t]
      <4>1. req[r].task # t
        BY <1>2, <3>2
      <4> QED
        BY <1>0, <3>2, <4>1 DEF ControlWrite, SetStatus
    <3> QED
      BY <3>1, <3>2
  <2>2. ASSUME NEW r \in Slots PROVE ~(req[r].pc = "write" /\ req[r].task = t)
    <3>1. ~Crash
      BY <1>0 DEF Crash, NoTrouble, TypeInv, TypeOK
    <3>2. CASE RequestStep(r) /\ req[r].pc = "write"
      BY <1>2, <2>2, <3>2 DEF RequestStep, PublishControl, DeleteRows, RestartCopy, RestartWrite, ResetParts,
         RepublishList, RepublishXAdd, RepublishMark, RestartFinish
    <3> QED
      BY <3>1, <3>2, SlotChanges DEF Begins
  <2>3. control[t] # <<>> /\ control[t][Len(control[t])] = op
    BY <1>0, <2>1, <2>2 DEF AgreeInv, ControlAgrees, NoTrouble, Halted
  <2>4. ASSUME NEW r \in Slots, PublishControl(r) PROVE control'[t] = control[t]
    <3>1. Announce(req[r].task, req[r].op) /\ req[r].task # t
      BY <2>4, PublishSays
    <3> QED
      BY <1>0, <3>1 DEF Announce
  <2> QED
    BY <2>3, <2>4, ControlChanges
<1> QED
  BY <1>1, <1>2

\* control() reads the status, publishes and writes: with one request at a time
\* and no failing call the pods' last word on a paused or terminated task is its
\* status.
THEOREM ControlInAgreement == ASSUME OneAtATime PROVE Spec => []ControlAgrees
<1>1. Init => AgreeInv
  BY DEF Init, AgreeInv, WriterSaidLast, ControlAgrees, IdleReq
<1>2. TypeInv /\ TypeInv' /\ AgreeInv /\ [Next]_vars => AgreeInv'
  BY SaidInductive, AgreeInductive DEF AgreeInv
<1> QED
  BY <1>1, <1>2, Typed, PTL DEF Spec, AgreeInv
-----------------------------------------------------------------------------
(* How often a part is sent.                                               *)

\* An XADD adds one entry, or one more when its reply was lost.
OnceMore(t, p) == sent'[t][p] <= sent[t][p] + 1 + (used'.faults - used.faults)

LEMMA EntersOnce ==
  ASSUME TypeInv, [Next]_vars, NEW u \in Tasks, NEW q \in Parts, XAddPart(u, q) \/ XAddPartFails(u, q),
         NEW t \in Tasks, NEW p \in Parts
  PROVE  sent'[t][p] = sent[t][p] \/ (u = t /\ q = p /\ OnceMore(t, p))
<1>0. /\ sent \in [Tasks -> [Parts -> Nat]] /\ used.faults \in Nat /\ used'.faults \in Nat
      /\ used \in [faults : Nat, crashes : Nat, requests : Nat, restarts : Nat]
  <2>1. /\ used \in [faults : Nat, crashes : Nat, requests : Nat, restarts : Nat]
        /\ sent \in [Tasks -> [Parts -> Nat]]
    BY DEF TypeInv, TypeOK
  <2>2. used' \in [faults : Nat, crashes : Nat, requests : Nat, restarts : Nat]
    BY NextType DEF TypeOK
  <2> QED
    BY <2>1, <2>2
<1>1. used'.faults >= used.faults
  BY BoundsGrow
<1>2. ASSUME NEW n \in 1..2, AddEntries(u, q, n)
      PROVE  sent'[t][p] = sent[t][p] \/ (u = t /\ q = p /\ sent'[t][p] = sent[t][p] + n)
  BY <1>0, <1>2 DEF AddEntries
<1>3. ASSUME NEW n \in 1..2, AddEntries(u, q, n), Resends(n) PROVE n <= 1 + (used'.faults - used.faults)
  BY <1>0, <1>1, <1>3 DEF Resends, Fails
<1>4. CASE XAddPart(u, q)
  <2>1. PICK n \in 1..2 : AddEntries(u, q, n) /\ Resends(n)
    BY <1>4 DEF XAddPart
  <2>2. n <= 1 + (used'.faults - used.faults)
    BY <1>3, <2>1
  <2>3. sent[t][p] \in Nat /\ n \in Nat
    BY <1>0
  <2> QED
    BY <1>0, <1>2, <2>1, <2>2, <2>3 DEF OnceMore
<1>5. CASE XAddPartFails(u, q)
  <2>1. CASE AddEntries(u, q, 1)
    <3>1. sent[t][p] \in Nat
      BY <1>0
    <3> QED
      BY <1>0, <1>1, <1>2, <2>1, <3>1 DEF OnceMore
  <2> QED
    BY <1>5, <2>1 DEF XAddPartFails
<1> QED
  BY <1>4, <1>5

LEMMA SentGrows ==
  ASSUME TypeInv, [Next]_vars, NEW t \in Tasks, NEW p \in Parts
  PROVE  \/ sent'[t][p] = sent[t][p]
         \/ SubmitXAdd(t) /\ sub[t].next = p /\ OnceMore(t, p)
         \/ \E r \in Slots : /\ RepublishXAdd(r) /\ req[r].task = t /\ p \in req[r].todo /\ OnceMore(t, p)
                            /\ req[r].pc = "repub"
                            /\ \/ req'[r].pc = "remark" /\ req'[r].cur = p
                               \/ req'[r].pc = "refail"
<1>1. ASSUME NEW u \in Tasks, SubmitXAdd(u)
      PROVE  sent'[t][p] = sent[t][p] \/ (SubmitXAdd(t) /\ sub[t].next = p /\ OnceMore(t, p))
  <2>1. sub[u].next \in Parts
    BY <1>1, SubmitPartType DEF SubmitXAdd
  <2>2. XAddPart(u, sub[u].next) \/ XAddPartFails(u, sub[u].next)
    BY <1>1 DEF SubmitXAdd
  <2>3. sent'[t][p] = sent[t][p] \/ (u = t /\ sub[u].next = p /\ OnceMore(t, p))
    BY <2>1, <2>2, EntersOnce
  <2> QED
    BY <1>1, <2>3
<1>2. ASSUME NEW r \in Slots, RepublishXAdd(r)
      PROVE  \/ sent'[t][p] = sent[t][p]
             \/ /\ RepublishXAdd(r) /\ req[r].task = t /\ p \in req[r].todo /\ OnceMore(t, p)
                /\ req[r].pc = "repub"
                /\ \/ req'[r].pc = "remark" /\ req'[r].cur = p
                   \/ req'[r].pc = "refail"
  <2>0. req[r].task \in Tasks /\ req[r].todo \subseteq Parts
    BY DEF TypeInv, TypeOK, Request
  <2>1. RequestStep(r) /\ req[r].pc = "repub"
    BY <1>2 DEF RequestStep, RepublishXAdd
  <2>2. ~Ends(r) \/ UNCHANGED sent
    BY <2>1 DEF Ends, PublishControl, ControlWrite, DeleteRows, RestartCopy, RestartWrite, ResetParts,
       RestartFinish, stream
  <2>3. CASE /\ req'[r].pc = "remark" /\ req'[r].cur \in req[r].todo
             /\ XAddPart(req[r].task, req'[r].cur)
    <3> DEFINE c == req'[r].cur
    <3>1. c \in Parts /\ c \in req[r].todo /\ XAddPart(req[r].task, c)
      BY <2>0, <2>3
    <3>2. sent'[t][p] = sent[t][p] \/ (req[r].task = t /\ c = p /\ OnceMore(t, p))
      <4> HIDE DEF c
      <4> QED
        BY <2>0, <3>1, EntersOnce
    <3> QED
      BY <1>2, <2>1, <2>3, <3>1, <3>2
  <2>4. ASSUME NEW q \in req[r].todo, req'[r].pc = "refail", XAddPartFails(req[r].task, q)
        PROVE  sent'[t][p] = sent[t][p] \/ (req[r].task = t /\ p \in req[r].todo /\ OnceMore(t, p))
    <3>1. q \in Parts
      BY <2>0
    <3> QED
      BY <2>0, <2>4, <3>1, EntersOnce
  <2>5. \/ UNCHANGED sent
        \/ /\ req'[r].pc = "remark" /\ req'[r].cur \in req[r].todo
           /\ XAddPart(req[r].task, req'[r].cur)
        \/ req'[r].pc = "refail" /\ \E q \in req[r].todo : XAddPartFails(req[r].task, q)
    BY <2>1, <2>2, RequestMoves DEF Moves
  <2> QED
    BY <1>2, <2>1, <2>3, <2>4, <2>5
<1> QED
  BY <1>1, <1>2, SentChanges

LEMMA SubmitOwesLess ==
  ASSUME TypeInv, TypeInv', [Next]_vars, NEW t \in Tasks, NEW p \in Parts, SubmitOwes(t, p)'
  PROVE  SubmitOwes(t, p)
<1>0. /\ issued \in Nat /\ issued' \in Nat /\ t \in Nat /\ p \in Nat
      /\ sub[t].next \in Nat /\ issued' >= issued
  <2>1. sub[t].next \in 1..MaxParts + 1
    BY DEF TypeInv, TypeOK, Submit
  <2>2. issued \in Nat /\ issued' \in Nat /\ t \in Nat /\ p \in Nat
    BY DEF TypeInv, TypeOK, Tasks, Parts
  <2> QED
    BY <2>1, <2>2, SubmitChanges, ConstantTypes
<1>1. CASE t > issued'
  BY <1>0, <1>1 DEF SubmitOwes
<1>2. CASE Starts(t)
  BY <1>0, <1>2 DEF SubmitOwes, Starts
<1>3. CASE SubmitStep(t) /\ ~(t > issued')
  BY <1>0, <1>3, SubmitMoves DEF SubmitOwes, GivesUp, GoesOn
<1> QED
  BY <1>1, <1>2, <1>3, GoroutineChanges DEF SubmitOwes

LEMMA OwingLess ==
  ASSUME TypeInv, [Next]_vars, NEW t \in Tasks, NEW p \in Parts, NEW r \in Slots, r \in Owing(t, p)'
  PROVE  \/ r \in Owing(t, p)
         \/ /\ RestartRead(r, t) /\ used'.restarts = used.restarts + 1
            /\ \A q \in Slots \ {r} : req'[q] = req[q]
<1>0. req'[r].pc # "idle" /\ req'[r].pc \notin {"write", "refail", "publish", "delete", "copy"}
  BY DEF Owing
<1>1. CASE RequestStep(r)
  <2>1. ~Ends(r)
    BY <1>0 DEF Ends, IdleReq
  <2> QED
    BY <1>0, <1>1, <2>1, RequestMoves DEF Owing, Moves
<1>2. ASSUME NEW u \in Tasks, Begins(r, u)
      PROVE  /\ RestartRead(r, t) /\ used'.restarts = used.restarts + 1
             /\ \A q \in Slots \ {r} : req'[q] = req[q]
  <2>1. u = t
    BY <1>2 DEF Begins, Owing
  <2>2. RestartRead(r, t) /\ used'.restarts = used.restarts + 1
    BY <1>0, <1>2, <2>1 DEF Begins
  <2>3. \A q \in Slots \ {r} : req'[q] = req[q]
    BY <2>2 DEF RestartRead, Accept, TypeInv, TypeOK
  <2> QED
    BY <2>2, <2>3
<1>3. CASE req'[r] = req[r]
  BY <1>3 DEF Owing
<1> QED
  BY <1>0, <1>1, <1>2, <1>3, SlotChanges DEF IdleReq

LEMMA OwingFinite ==
  ASSUME NEW t \in Tasks, NEW p \in Parts
  PROVE  IsFiniteSet(Owing(t, p)) /\ IsFiniteSet(Owing(t, p)')
         /\ Cardinality(Owing(t, p)) \in Nat /\ Cardinality(Owing(t, p)') \in Nat
<1>1. Owing(t, p) \subseteq Slots /\ Owing(t, p)' \subseteq Slots
  BY DEF Owing
<1>2. IsFiniteSet(Owing(t, p)) /\ IsFiniteSet(Owing(t, p)')
  BY <1>1, SlotsAssumption, FS_Subset
<1> QED
  BY <1>2, FS_CardinalityType

LEMMA OwingCount ==
  ASSUME TypeInv, TypeInv', [Next]_vars, NEW t \in Tasks, NEW p \in Parts
  PROVE  Cardinality(Owing(t, p)') <= Cardinality(Owing(t, p)) + (used'.restarts - used.restarts)
<1>0. /\ used.restarts \in Nat /\ used'.restarts \in Nat /\ used'.restarts >= used.restarts
  BY BoundsGrow DEF TypeInv, TypeOK
<1>1. CASE Owing(t, p)' \subseteq Owing(t, p)
  <2>1. Cardinality(Owing(t, p)') <= Cardinality(Owing(t, p))
    BY <1>1, OwingFinite, FS_Subset
  <2> QED
    BY <1>0, <2>1, OwingFinite
<1>2. ASSUME NEW r \in Slots, r \in Owing(t, p)', r \notin Owing(t, p)
      PROVE  Cardinality(Owing(t, p)') <= Cardinality(Owing(t, p)) + (used'.restarts - used.restarts)
  <2>1. used'.restarts = used.restarts + 1 /\ \A q \in Slots \ {r} : req'[q] = req[q]
    BY <1>2, OwingLess
  <2>2. Owing(t, p)' \subseteq Owing(t, p) \cup {r}
    BY <2>1 DEF Owing
  <2>3. /\ IsFiniteSet(Owing(t, p) \cup {r})
        /\ Cardinality(Owing(t, p) \cup {r}) = Cardinality(Owing(t, p)) + 1
    BY <1>2, OwingFinite, FS_AddElement
  <2>4. Cardinality(Owing(t, p)') <= Cardinality(Owing(t, p) \cup {r})
    BY <2>2, <2>3, FS_Subset
  <2> QED
    BY <1>0, <2>1, <2>3, <2>4, OwingFinite
<1>3. Owing(t, p)' \subseteq Slots
  BY DEF Owing
<1> QED
  BY <1>1, <1>2, <1>3

LEMMA OwedInductive ==
  ASSUME TypeInv, TypeInv', RecordInv, SentAndOwed, [Next]_vars PROVE SentAndOwed'
<1> SUFFICES ASSUME NEW t \in Tasks, NEW p \in Parts
             PROVE  sent'[t][p] + Owed(t, p)' <= 1 + used'.restarts + used'.faults
  BY DEF SentAndOwed
<1> DEFINE c == Cardinality(Owing(t, p))
           d == Cardinality(Owing(t, p)')
           a == IF SubmitOwes(t, p) THEN 1 ELSE 0
           b == IF SubmitOwes(t, p)' THEN 1 ELSE 0
<1>0. /\ used.restarts \in Nat /\ used'.restarts \in Nat /\ used'.restarts >= used.restarts
      /\ used.faults \in Nat /\ used'.faults \in Nat /\ used'.faults >= used.faults
      /\ sent[t][p] \in Nat /\ sent'[t][p] \in Nat
  BY BoundsGrow DEF TypeInv, TypeOK
<1>1. /\ c \in Nat /\ d \in Nat /\ a \in Nat /\ b \in Nat
      /\ d <= c + (used'.restarts - used.restarts) /\ b <= a
  BY OwingFinite, OwingCount, SubmitOwesLess
<1>2. sent[t][p] + (c + a) <= 1 + used.restarts + used.faults
  BY DEF SentAndOwed, Owed
<1>3. Owed(t, p)' = d + b
  BY DEF Owed
<1> SUFFICES sent'[t][p] + (d + b) <= 1 + used'.restarts + used'.faults
  BY <1>3
<1>4. CASE sent'[t][p] = sent[t][p]
  <2> HIDE DEF a, b, c, d
  <2> QED
    BY <1>0, <1>1, <1>2, <1>4
<1>5. CASE SubmitXAdd(t) /\ sub[t].next = p /\ OnceMore(t, p)
  <2>1. SubmitOwes(t, p)
    <3>1. p >= sub[t].next
      BY <1>5 DEF Parts
    <3> QED
      BY <1>5, <3>1 DEF SubmitOwes, SubmitXAdd
  <2>2. ~SubmitOwes(t, p)'
    <3>1. SubmitStep(t) /\ sub[t].pc = "xadd" /\ issued' = issued
      BY <1>5 DEF SubmitStep, SubmitXAdd, db
    <3>2. sub'[t].pc \in {"mark", "fail"} /\ sub'[t].next = p
      BY <1>5, <3>1, SubmitMoves DEF GivesUp, GoesOn
    <3>3. ~(p > p)
      BY DEF Parts
    <3>4. ~(t > issued')
      BY <3>1 DEF RecordInv, FreshTask
    <3> QED
      BY <3>2, <3>3, <3>4 DEF SubmitOwes
  <2>3. a = 1 /\ b = 0
    BY <2>1, <2>2
  <2> HIDE DEF a, b, c, d
  <2> QED
    BY <1>0, <1>1, <1>2, <1>5, <2>3 DEF OnceMore
<1>6. ASSUME NEW r \in Slots, RepublishXAdd(r), req[r].task = t, p \in req[r].todo, OnceMore(t, p),
             req[r].pc = "repub", (req'[r].pc = "remark" /\ req'[r].cur = p) \/ req'[r].pc = "refail"
      PROVE  sent'[t][p] + (d + b) <= 1 + used'.restarts + used'.faults
  <2>1. r \in Owing(t, p) /\ r \notin Owing(t, p)'
    BY <1>6 DEF Owing
  <2>2. \A q \in Slots : q \in Owing(t, p)' => q \in Owing(t, p)
    <3>1. ASSUME NEW q \in Slots PROVE ~RestartRead(q, t)
      <4>1. req'[r] # req[r]
        BY <1>6
      <4>2. CASE q = r
        BY <1>6, <4>2 DEF RestartRead, Accept
      <4>3. CASE q # r
        BY <4>1, <4>3 DEF RestartRead, Accept, TypeInv, TypeOK
      <4> QED
        BY <4>2, <4>3
    <3> QED
      BY <3>1, OwingLess
  <2>3. Owing(t, p)' \subseteq Owing(t, p) \ {r}
    BY <2>1, <2>2 DEF Owing
  <2>4. IsFiniteSet(Owing(t, p) \ {r}) /\ Cardinality(Owing(t, p) \ {r}) = c - 1
    BY <2>1, OwingFinite, FS_RemoveElement
  <2>5. d <= c - 1
    BY <2>3, <2>4, FS_Subset
  <2> HIDE DEF a, b, c, d
  <2> QED
    BY <1>0, <1>1, <1>2, <1>6, <2>5 DEF OnceMore
<1> QED
  BY <1>4, <1>5, <1>6, SentGrows

\* The loops and error paths of SubmitTask and republishParts, however they run
\* into each other, queue a part once, and once again for each restart and each
\* lost reply of Redis.
THEOREM SentOncePerRestart == Spec => []SentOnce
<1>1. Init => SentAndOwed
  <2> SUFFICES ASSUME Init, NEW t \in Tasks, NEW p \in Parts
               PROVE  sent[t][p] + Owed(t, p) <= 1 + used.restarts + used.faults
    BY DEF SentAndOwed
  <2>1. Owing(t, p) = {}
    BY DEF Init, IdleReq, Owing
  <2>2. Cardinality(Owing(t, p)) = 0
    BY <2>1, FS_EmptySet
  <2>3. Owed(t, p) \in {0, 1}
    BY <2>2 DEF Owed
  <2> QED
    BY <2>3 DEF Init
<1>2. Init => RecordInv
  BY DEF Init, RecordInv, SentIsRecorded, FreshTask, SenderRecorded, BeforeRows, NoSubmit, IdleReq
<1>3. TypeInv /\ TypeInv' /\ RecordInv /\ SentAndOwed /\ [Next]_vars => SentAndOwed'
  BY OwedInductive
<1>4. TypeInv /\ SentAndOwed => SentOnce
  <2> SUFFICES ASSUME TypeInv, SentAndOwed, NEW t \in Tasks, NEW p \in Parts
               PROVE  sent[t][p] <= 1 + used.restarts + used.faults
    BY DEF SentOnce
  <2>1. Owed(t, p) \in Nat
    BY OwingFinite DEF Owed
  <2>2. sent[t][p] + Owed(t, p) <= 1 + used.restarts + used.faults
    BY DEF SentAndOwed
  <2>3. sent[t][p] \in Nat /\ used.restarts \in Nat /\ used.faults \in Nat
    BY DEF TypeInv, TypeOK
  <2> QED
    BY <2>1, <2>2, <2>3
<1> QED
  BY <1>1, <1>2, <1>3, <1>4, RecordInductive, Typed, PTL DEF Spec
=============================================================================
