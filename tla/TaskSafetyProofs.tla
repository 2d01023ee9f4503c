-------------------------- MODULE TaskSafetyProofs --------------------------
(* The safety of TaskDispatch for every value of the constants: the pods   *)
(* are told before a row says so, a part runs only after it was sent, and  *)
(* is sent only when it is recorded; with these, handlers, goroutines and  *)
(* workers implement the ledger of PartLedger.                             *)
EXTENDS TaskDispatchProofs

LEMMA Typed == Spec => []TypeInv
<1>1. Init => TypeInv
  BY InitType DEF TypeInv, LoopBound, ControlShape, Init, NoSubmit, IdleReq
<1>2. TypeInv /\ [Next]_vars => TypeInv'
  BY NextType, NextLoopBound, NextControlShape DEF TypeInv
<1> QED
  BY <1>1, <1>2, PTL DEF Spec

-----------------------------------------------------------------------------
(* The control stream only grows.                                          *)

LEMMA AnnounceGrows ==
  ASSUME TypeInv, NEW u \in Tasks, NEW said \in ControlOps, Announce(u, said)
  PROVE  /\ Announced(u, said)'
         /\ \A t \in Tasks, op \in ControlOps : Announced(t, op) => Announced(t, op)'
<1>1. control \in [Tasks -> Seq(ControlOps)]
  BY DEF TypeInv, TypeOK
<1>2. control' = [control EXCEPT ![u] = Append(@, said)] /\ control[u] \in Seq(ControlOps)
  BY <1>1 DEF Announce
<1>3. /\ DOMAIN control'[u] = 1..Len(control[u]) + 1
      /\ control'[u][Len(control[u]) + 1] = said
      /\ \A i \in DOMAIN control[u] : i \in DOMAIN control'[u] /\ control'[u][i] = control[u][i]
  BY <1>1, <1>2
<1>4. \E i \in DOMAIN control'[u] : control'[u][i] = said
  BY <1>2, <1>3
<1>5. ASSUME NEW t \in Tasks, NEW op \in ControlOps, Announced(t, op)
      PROVE  \E i \in DOMAIN control'[t] : control'[t][i] = op
  BY <1>1, <1>2, <1>3, <1>5 DEF Announced
<1> QED
  BY <1>4, <1>5 DEF Announced

LEMMA AnnounceTwiceGrows ==
  ASSUME TypeInv, NEW u \in Tasks, NEW said \in ControlOps, AnnounceTwice(u, said)
  PROVE  /\ Announced(u, said)'
         /\ \A t \in Tasks, op \in ControlOps : Announced(t, op) => Announced(t, op)'
<1>1. control \in [Tasks -> Seq(ControlOps)]
  BY DEF TypeInv, TypeOK
<1>2. control' = [control EXCEPT ![u] = Append(Append(@, said), said)] /\ control[u] \in Seq(ControlOps)
  BY <1>1 DEF AnnounceTwice
<1>3. /\ DOMAIN control'[u] = 1..Len(control[u]) + 2
      /\ control'[u][Len(control[u]) + 1] = said
      /\ \A i \in DOMAIN control[u] : i \in DOMAIN control'[u] /\ control'[u][i] = control[u][i]
  BY <1>1, <1>2
<1>4. \E i \in DOMAIN control'[u] : control'[u][i] = said
  BY <1>2, <1>3
<1>5. ASSUME NEW t \in Tasks, NEW op \in ControlOps, Announced(t, op)
      PROVE  \E i \in DOMAIN control'[t] : control'[t][i] = op
  BY <1>1, <1>2, <1>3, <1>5 DEF Announced
<1> QED
  BY <1>4, <1>5 DEF Announced

\* What PublishControl leaves on the stream when the request goes on to write.
Published(t, op) == Announce(t, op) \/ AnnounceTwice(t, op)

LEMMA AnnouncedStays ==
  ASSUME TypeInv, [Next]_vars, NEW t \in Tasks, NEW op \in ControlOps, Announced(t, op)
  PROVE  Announced(t, op)'
<1>1. CASE UNCHANGED control
  BY <1>1 DEF Announced
<1>2. ASSUME NEW r \in Slots, PublishControl(r) PROVE Announced(t, op)'
  <2>1. req[r].task \in Tasks /\ req[r].op \in ControlOps
    BY <1>2 DEF PublishControl, TypeInv, TypeOK, Request, ControlShape
  <2>2. CASE Published(req[r].task, req[r].op)
    BY <2>1, <2>2, AnnounceGrows, AnnounceTwiceGrows DEF Published
  <2> QED
    BY <1>1, <1>2, <2>2 DEF PublishControl, Published
<1>3. UNCHANGED control \/ \E r \in Slots : PublishControl(r)
  BY DEF Next, vars, Create, SubmitStep, Probe, SubmitRecheck, SubmitSave, SubmitRows, SubmitCheck,
         SubmitXAdd, SubmitMark, SubmitFinish, SubmitFail, Expire, WorkerComplete, WorkerScan, WorkerFail, WorkerDrop,
         RequestStep, ControlWrite, DeleteRows, RestartCopy, RestartWrite, ResetParts, RepublishList,
         RepublishXAdd, RepublishMark, RestartFinish, ControlRead, DeleteRead, RestartRead, Accept, Crash
<1> QED
  BY <1>1, <1>2, <1>3

-----------------------------------------------------------------------------
(* Pods are told first.                                                    *)

AnnounceInv == StatusAnnounced /\ WriterAnnounced

\* A step other than ControlWrite makes no task paused or terminated.
Halted == {"paused", "terminated"}

LEMMA HaltedByControl ==
  ASSUME TypeInv, [Next]_vars, \A r \in Slots : ~ControlWrite(r),
         NEW t \in Tasks, status'[t] \in Halted
  PROVE  status'[t] = status[t]
<1> USE DEF Halted
<1>0. status \in [Tasks -> TaskStatus \cup {"none"}]
  BY DEF TypeInv, TypeOK
<1>1. CASE UNCHANGED status
  BY <1>1
<1>2. ASSUME NEW u \in Tasks, NEW s, s \notin Halted, SetStatus(u, s) \/ SaveStatus(u, s)
      PROVE  status'[t] = status[t]
  BY <1>0, <1>2 DEF SetStatus, SaveStatus
<1>3. ASSUME NEW n \in 0..MaxParts, InsertTask(n) PROVE status'[t] = status[t]
  BY <1>0, <1>3 DEF InsertTask
<1>4. ASSUME NEW u \in Tasks, SubmitStep(u) PROVE status'[t] = status[t]
  <2>1. CASE SubmitSave(u)
    BY <1>1, <1>2, <2>1 DEF SubmitSave
  <2>2. CASE SubmitFail(u)
    BY <1>1, <1>2, <2>2 DEF SubmitFail
  <2>3. CASE Probe(u) \/ SubmitRecheck(u) \/ SubmitRows(u) \/ SubmitCheck(u)
             \/ SubmitXAdd(u) \/ SubmitMark(u) \/ SubmitFinish(u)
    BY <1>1, <2>3 DEF Probe, SubmitRecheck, SubmitRows, SubmitCheck, SubmitXAdd, SubmitMark, SubmitFinish, db
  <2> QED
    BY <1>4, <2>1, <2>2, <2>3 DEF SubmitStep
<1>5. ASSUME NEW r \in Slots, RequestStep(r) PROVE status'[t] = status[t]
  <2>0. req[r].task \in Tasks
    BY DEF TypeInv, TypeOK, Request
  <2>1. CASE DeleteRows(r)
    BY <1>0, <2>0, <2>1 DEF DeleteRows
  <2>2. CASE RestartCopy(r)
    BY <1>1, <1>3, <2>2 DEF RestartCopy
  <2>3. CASE RestartWrite(r)
    BY <1>1, <1>2, <2>0, <2>3 DEF RestartWrite
  <2>4. CASE RestartFinish(r)
    <3>1. RestartOutcome(r) \notin Halted
      BY DEF RestartOutcome
    <3> QED
      BY <1>1, <1>2, <2>0, <2>4, <3>1 DEF RestartFinish
  <2>5. CASE PublishControl(r) \/ ResetParts(r) \/ RepublishList(r) \/ RepublishXAdd(r) \/ RepublishMark(r)
    BY <1>1, <2>5 DEF PublishControl, ResetParts, RepublishList, RepublishXAdd, RepublishMark, db
  <2> QED
    BY <1>5, <2>1, <2>2, <2>3, <2>4, <2>5 DEF RequestStep
<1>6. CASE \E u \in Tasks : WorkerComplete(u)
  BY <1>2, <1>6 DEF WorkerComplete
<1>7. CASE Create
  BY <1>3, <1>7 DEF Create
<1>8. CASE \/ \E u \in Tasks : Expire(u)
           \/ \E u \in Tasks, p \in Parts : WorkerScan(u, p) \/ WorkerFail(u, p) \/ WorkerDrop(u, p)
           \/ \E r \in Slots, u \in Tasks, op \in Ops : ControlRead(r, u, op)
           \/ \E r \in Slots, u \in Tasks : DeleteRead(r, u) \/ RestartRead(r, u)
           \/ Crash \/ UNCHANGED vars
  BY <1>1, <1>8 DEF Expire, WorkerScan, WorkerFail, WorkerDrop, ControlRead, DeleteRead, RestartRead, Accept, Crash, db, vars
<1> QED
  BY <1>4, <1>5, <1>6, <1>7, <1>8 DEF Next

LEMMA WriterStays ==
  ASSUME TypeInv, [Next]_vars, NEW r \in Slots, req'[r].pc = "write"
  PROVE  \/ req'[r] = req[r]
         \/ PublishControl(r) /\ Published(req[r].task, req[r].op)
            /\ req'[r].task = req[r].task /\ req'[r].op = req[r].op
<1>0. req \in [Slots -> Request]
  BY DEF TypeInv, TypeOK
<1>1. CASE UNCHANGED req
  BY <1>1
<1>2. ASSUME NEW q \in Slots, NEW v, req' = [req EXCEPT ![q] = v], v.pc # "write"
      PROVE  req'[r] = req[r]
  BY <1>0, <1>2
<1>3. ASSUME NEW q \in Slots, Finish(q) PROVE req'[r] = req[r]
  BY <1>0, <1>3 DEF Finish, IdleReq
<1>4. ASSUME NEW q \in Slots, NEW step, Goto(q, step), step # "write" PROVE req'[r] = req[r]
  BY <1>0, <1>4 DEF Goto, Request
<1>5. ASSUME NEW q \in Slots, NEW u \in Tasks, NEW op, NEW step, Accept(q, u, op, step), step # "write"
      PROVE  req'[r] = req[r]
  BY <1>0, <1>5 DEF Accept, IdleReq
<1>6. ASSUME NEW q \in Slots, PublishControl(q)
      PROVE  \/ req'[r] = req[r]
             \/ PublishControl(r) /\ Published(req[r].task, req[r].op)
                /\ req'[r].task = req[r].task /\ req'[r].op = req[r].op
  <2>1. CASE Published(req[q].task, req[q].op) /\ Goto(q, "write")
    <3>1. CASE q = r
      BY <1>0, <1>6, <2>1, <3>1 DEF Goto, Request
    <3>2. CASE q # r
      BY <1>0, <2>1, <3>2 DEF Goto
    <3> QED
      BY <3>1, <3>2
  <2> QED
    BY <1>3, <1>6, <2>1 DEF PublishControl, Published
<1>7. ASSUME NEW q \in Slots, RequestStep(q), ~PublishControl(q) PROVE req'[r] = req[r]
  <2>1. CASE ControlWrite(q) \/ DeleteRows(q) \/ RestartCopy(q) \/ RestartFinish(q)
    BY <1>3, <2>1 DEF ControlWrite, DeleteRows, RestartCopy, RestartFinish
  <2>2. CASE RestartWrite(q) \/ ResetParts(q)
    BY <1>3, <1>4, <2>2 DEF RestartWrite, ResetParts
  <2>3. CASE RepublishList(q)
    BY <1>0, <1>4, <2>3 DEF RepublishList, Request
  <2>4. CASE RepublishXAdd(q)
    BY <1>0, <1>4, <2>4 DEF RepublishXAdd, Request
  <2>5. CASE RepublishMark(q)
    BY <1>0, <1>4, <2>5 DEF RepublishMark, PartDone, Request
  <2> QED
    BY <1>7, <2>1, <2>2, <2>3, <2>4, <2>5 DEF RequestStep
<1>8. ASSUME NEW q \in Slots, NEW u \in Tasks,
             (\E op \in Ops : ControlRead(q, u, op)) \/ DeleteRead(q, u) \/ RestartRead(q, u)
      PROVE  req'[r] = req[r]
  <2>1. CASE \E op \in Ops : ControlRead(q, u, op)
    BY <1>5, <2>1 DEF ControlRead
  <2>2. CASE DeleteRead(q, u) \/ RestartRead(q, u)
    BY <1>5, <2>2 DEF DeleteRead, RestartRead
  <2> QED
    BY <1>8, <2>1, <2>2
<1>9. CASE Crash
  BY <1>9 DEF Crash, IdleReq
<1>10. UNCHANGED req \/ Crash \/ (\E q \in Slots : RequestStep(q))
       \/ (\E q \in Slots, u \in Tasks :
             (\E op \in Ops : ControlRead(q, u, op)) \/ DeleteRead(q, u) \/ RestartRead(q, u))
  BY DEF Next, vars, Create, SubmitStep, Probe, SubmitRecheck, SubmitSave, SubmitRows, SubmitCheck,
         SubmitXAdd, SubmitMark, SubmitFinish, SubmitFail, Expire, WorkerComplete, WorkerScan, WorkerFail, WorkerDrop
<1> QED
  BY <1>1, <1>6, <1>7, <1>8, <1>9, <1>10

LEMMA AnnounceInductive == TypeInv /\ TypeInv' /\ AnnounceInv /\ [Next]_vars => AnnounceInv'
<1> SUFFICES ASSUME AnnounceInv, TypeInv, TypeInv', [Next]_vars PROVE AnnounceInv'
  OBVIOUS
<1>1. ASSUME NEW t \in Tasks, NEW op \in ControlOps, Announced(t, op) PROVE Announced(t, op)'
  BY <1>1, AnnouncedStays
<1>2. WriterAnnounced'
  <2> SUFFICES ASSUME NEW r \in Slots, req'[r].pc = "write"
               PROVE  \E i \in DOMAIN control'[req'[r].task] : control'[req'[r].task][i] = req'[r].op
    BY DEF WriterAnnounced, Announced
  <2> DEFINE u == req[r].task
  <2>0. u \in Tasks /\ (req[r].pc \in {"publish", "write"} => req[r].op \in ControlOps)
    BY DEF TypeInv, TypeOK, Request, ControlShape
  <2>1. CASE req'[r] = req[r]
    <3>1. req[r].op \in ControlOps /\ Announced(u, req[r].op)
      BY <2>0, <2>1 DEF AnnounceInv, WriterAnnounced
    <3>2. \E i \in DOMAIN control'[u] : control'[u][i] = req[r].op
      BY <1>1, <2>0, <3>1 DEF Announced
    <3> QED
      BY <2>1, <3>2
  <2>2. CASE /\ PublishControl(r) /\ Published(req[r].task, req[r].op)
             /\ req'[r].task = req[r].task /\ req'[r].op = req[r].op
    <3>1. req[r].op \in ControlOps
      BY <2>0, <2>2 DEF PublishControl
    <3>2. \E i \in DOMAIN control'[u] : control'[u][i] = req[r].op
      BY <2>0, <2>2, <3>1, AnnounceGrows, AnnounceTwiceGrows DEF Announced, Published
    <3> QED
      BY <2>2, <3>2
  <2> QED
    BY <2>1, <2>2, WriterStays
<1>3. ASSUME NEW t \in Tasks
      PROVE  /\ status'[t] = "terminated" => Announced(t, "terminate")'
             /\ status'[t] = "paused" => Announced(t, "pause")'
  <2>0. "terminate" \in ControlOps /\ "pause" \in ControlOps /\ status \in [Tasks -> TaskStatus \cup {"none"}]
    BY DEF ControlOps, TypeInv, TypeOK
  <2>1. CASE status'[t] = status[t]
    BY <1>1, <2>0, <2>1 DEF AnnounceInv, StatusAnnounced
  <2>2. CASE \A r \in Slots : ~ControlWrite(r)
    BY <2>1, <2>2, HaltedByControl DEF Halted
  <2>3. ASSUME NEW r \in Slots, ControlWrite(r), status'[t] # status[t]
        PROVE  /\ status'[t] = "terminated" => Announced(t, "terminate")'
               /\ status'[t] = "paused" => Announced(t, "pause")'
    <3>1. t = req[r].task /\ status'[t] = ControlTarget(req[r].op) /\ req[r].pc = "write"
      BY <2>0, <2>3 DEF ControlWrite, SetStatus, TypeInv, TypeOK, Request
    <3>2. req[r].op \in ControlOps /\ Announced(t, req[r].op)
      BY <3>1 DEF TypeInv, ControlShape, AnnounceInv, WriterAnnounced
    <3>3. /\ status'[t] = "terminated" => req[r].op = "terminate"
          /\ status'[t] = "paused" => req[r].op = "pause"
      BY <3>1, <3>2 DEF ControlTarget, ControlOps
    <3> QED
      BY <1>1, <2>0, <3>2, <3>3
  <2> QED
    BY <2>1, <2>2, <2>3
<1> QED
  BY <1>2, <1>3 DEF AnnounceInv, StatusAnnounced

\* control() publishes before it writes: a task shows as paused or terminated
\* only after its pods have the message.
THEOREM AnnouncedFirst == Spec => []StatusAnnounced
<1>1. Init => AnnounceInv
  BY DEF Init, AnnounceInv, StatusAnnounced, WriterAnnounced, IdleReq
<1> QED
  BY <1>1, AnnounceInductive, Typed, PTL DEF Spec, AnnounceInv

-----------------------------------------------------------------------------
(* The portscan stream only grows.                                         *)

Entered(t, p) == \E n \in 1..2 : AddEntries(t, p, n)

LEMMA SentChanges ==
  ASSUME TypeInv, [Next]_vars
  PROVE  \/ UNCHANGED sent
         \/ \E t \in Tasks : SubmitXAdd(t) /\ Entered(t, sub[t].next)
         \/ \E r \in Slots : /\ RepublishXAdd(r)
                            /\ \E p \in req[r].todo : Entered(req[r].task, p)
<1>1. ASSUME NEW t \in Tasks, SubmitXAdd(t) PROVE UNCHANGED sent \/ Entered(t, sub[t].next)
  BY <1>1 DEF SubmitXAdd, XAddPart, XAddPartFails, Entered
<1>2. ASSUME NEW r \in Slots, RepublishXAdd(r)
      PROVE  UNCHANGED sent \/ \E p \in req[r].todo : Entered(req[r].task, p)
  BY <1>2 DEF RepublishXAdd, XAddPart, XAddPartFails, Entered
<1>3. \/ UNCHANGED sent
      \/ \E t \in Tasks : SubmitXAdd(t)
      \/ \E r \in Slots : RepublishXAdd(r)
  BY DEF Next, vars, stream, Create, SubmitStep, Probe, SubmitRecheck, SubmitSave, SubmitRows, SubmitCheck,
         SubmitMark, SubmitFinish, SubmitFail, Expire, WorkerComplete, WorkerScan, WorkerFail, WorkerDrop,
         RequestStep, PublishControl, ControlWrite, DeleteRows, RestartCopy, RestartWrite, ResetParts,
         RepublishList, RepublishMark, RestartFinish, ControlRead, DeleteRead, RestartRead, Accept, Crash
<1> QED
  BY <1>1, <1>2, <1>3

LEMMA XAddGrows ==
  ASSUME TypeInv, NEW u \in Tasks, NEW q \in Parts, Entered(u, q)
  PROVE  /\ sent'[u][q] > 0
         /\ \A t \in Tasks, p \in Parts : sent[t][p] > 0 => sent'[t][p] > 0
<1>1. sent \in [Tasks -> [Parts -> Nat]]
  BY DEF TypeInv, TypeOK
<1>2. PICK n \in 1..2 : sent' = [sent EXCEPT ![u][q] = sent[u][q] + n]
  BY DEF Entered, AddEntries
<1> QED
  BY <1>1, <1>2

LEMMA SentStays ==
  ASSUME TypeInv, [Next]_vars, NEW t \in Tasks, NEW p \in Parts, sent[t][p] > 0
  PROVE  sent'[t][p] > 0
<1>1. ASSUME NEW u \in Tasks, SubmitXAdd(u), Entered(u, sub[u].next) PROVE sent'[t][p] > 0
  <2>1. sub[u].next \in Parts
    BY <1>1, SubmitPartType DEF SubmitXAdd
  <2> QED
    BY <1>1, <2>1, XAddGrows
<1>2. ASSUME NEW r \in Slots, NEW q \in req[r].todo, Entered(req[r].task, q) PROVE sent'[t][p] > 0
  <2>1. req[r].task \in Tasks /\ q \in Parts
    BY DEF TypeInv, TypeOK, Request
  <2> QED
    BY <1>2, <2>1, XAddGrows
<1> QED
  BY <1>1, <1>2, SentChanges

-----------------------------------------------------------------------------
(* A part runs only after it was sent.                                     *)

RunningInv == RunningWasSent /\ MarkerSent
Ran == {"running", "completed", "failed"}

LEMMA RanChanges ==
  ASSUME TypeInv, [Next]_vars, NEW t \in Tasks, NEW p \in Parts, partStatus'[t][p] \in Ran
  PROVE  \/ partStatus[t][p] \in Ran
         \/ SubmitMark(t) /\ sub[t].next = p
         \/ \E r \in Slots : RepublishMark(r) /\ req[r].task = t /\ req[r].cur = p
         \/ WorkerScan(t, p) \/ WorkerFail(t, p)
<1> USE DEF Ran
<1>0. partStatus \in [Tasks -> [Parts -> PartStatus]]
  BY DEF TypeInv, TypeOK
<1>1. ASSUME UNCHANGED partStatus PROVE partStatus[t][p] \in Ran
  BY <1>1
<1>2. ASSUME NEW u \in Tasks, NEW q \in Parts, MarkRunning(u, q)
      PROVE  partStatus[t][p] \in Ran \/ (u = t /\ q = p)
  BY <1>0, <1>2 DEF MarkRunning
<1>3. ASSUME NEW u \in Tasks, SubmitStep(u)
      PROVE  partStatus[t][p] \in Ran \/ (SubmitMark(t) /\ sub[t].next = p)
  <2>1. CASE SubmitRows(u)
    <3>1. CASE CreateRows(u)
      BY <1>0, <3>1 DEF CreateRows, NewPart
    <3> QED
      BY <1>1, <2>1, <3>1 DEF SubmitRows
  <2>2. CASE SubmitMark(u)
    <3>1. sub[u].next \in Parts
      BY <2>2, SubmitPartType DEF SubmitMark
    <3> QED
      BY <1>1, <1>2, <2>2, <3>1 DEF SubmitMark
  <2>3. CASE Probe(u) \/ SubmitRecheck(u) \/ SubmitSave(u) \/ SubmitCheck(u)
             \/ SubmitXAdd(u) \/ SubmitFinish(u) \/ SubmitFail(u)
    BY <1>1, <2>3 DEF Probe, SubmitRecheck, SubmitSave, SubmitCheck, SubmitXAdd, SubmitFinish, SubmitFail, db, parts
  <2> QED
    BY <1>3, <2>1, <2>2, <2>3 DEF SubmitStep
<1>4. ASSUME NEW r \in Slots, RequestStep(r)
      PROVE  partStatus[t][p] \in Ran \/ (RepublishMark(r) /\ req[r].task = t /\ req[r].cur = p)
  <2>0. req[r].task \in Tasks /\ req[r].cur \in Parts
    BY DEF TypeInv, TypeOK, Request
  <2>1. CASE DeleteRows(r)
    BY <1>0, <1>1, <2>0, <2>1 DEF DeleteRows, parts
  <2>2. CASE ResetParts(r)
    <3>1. CASE ResetRows(req[r].task)
      BY <1>0, <2>0, <3>1 DEF ResetRows
    <3> QED
      BY <1>1, <2>2, <3>1 DEF ResetParts, parts
  <2>3. CASE RepublishMark(r)
    BY <1>1, <1>2, <2>0, <2>3 DEF RepublishMark
  <2>4. CASE PublishControl(r) \/ ControlWrite(r) \/ RestartCopy(r) \/ RestartWrite(r)
             \/ RepublishList(r) \/ RepublishXAdd(r) \/ RestartFinish(r)
    BY <1>1, <2>4 DEF PublishControl, ControlWrite, RestartCopy, RestartWrite, RepublishList, RepublishXAdd,
       RestartFinish, db, parts
  <2> QED
    BY <1>4, <2>1, <2>2, <2>3, <2>4 DEF RequestStep
<1>5. ASSUME NEW u \in Tasks, NEW q \in Parts, WorkerScan(u, q) \/ WorkerFail(u, q)
      PROVE  partStatus[t][p] \in Ran \/ WorkerScan(t, p) \/ WorkerFail(t, p)
  <2>1. CASE u = t /\ q = p
    BY <1>5, <2>1
  <2>2. CASE ~(u = t /\ q = p)
    <3>1. UNCHANGED partStatus \/ \E s \in Ran : partStatus' = [partStatus EXCEPT ![u][q] = s]
      BY <1>5 DEF WorkerScan, WorkerFail
    <3>2. partStatus'[t][p] = partStatus[t][p]
      BY <1>0, <2>2, <3>1
    <3> QED
      BY <3>2
  <2> QED
    BY <2>1, <2>2
<1>6. \/ UNCHANGED partStatus
      \/ \E u \in Tasks : SubmitStep(u)
      \/ \E r \in Slots : RequestStep(r)
      \/ \E u \in Tasks, q \in Parts : WorkerScan(u, q) \/ WorkerFail(u, q)
  BY DEF Next, vars, db, parts, Create, Expire, WorkerComplete, WorkerDrop, ControlRead, DeleteRead,
         RestartRead, Accept, Crash
<1> QED
  BY <1>1, <1>3, <1>4, <1>5, <1>6

LEMMA SubmitMarkerStays ==
  ASSUME TypeInv, [Next]_vars, NEW t \in Tasks, sub'[t].pc = "mark"
  PROVE  /\ sub'[t].next = sub[t].next
         /\ sub[t].pc = "mark" \/ (SubmitXAdd(t) /\ Entered(t, sub[t].next))
<1>0. sub \in [Tasks -> Submit]
  BY DEF TypeInv, TypeOK
<1>1. CASE UNCHANGED sub
  BY <1>1
<1>2. ASSUME NEW u \in Tasks, NEW v, sub' = [sub EXCEPT ![u] = v], v.pc # "mark"
      PROVE  sub'[t] = sub[t]
  BY <1>0, <1>2
<1>3. ASSUME NEW u \in Tasks, NEW step, sub' = [sub EXCEPT ![u].pc = step], step # "mark"
      PROVE  sub'[t] = sub[t]
  BY <1>0, <1>3 DEF Submit
<1>4. ASSUME NEW u \in Tasks, SubmitErrors(u) PROVE sub'[t] = sub[t]
  BY <1>3, <1>4 DEF SubmitErrors
<1>5. ASSUME NEW u \in Tasks, NEW step, SubmitReturns(u, step), step # "mark" PROVE sub'[t] = sub[t]
  BY <1>3, <1>5 DEF SubmitReturns
<1>6. ASSUME NEW n \in 0..MaxParts, InsertTask(n) PROVE sub'[t] = sub[t]
  <2>1. CASE UNCHANGED sub
    BY <2>1
  <2>2. CASE sub' = [sub EXCEPT ![issued + 1] = StartSubmit(n)]
    BY <1>0, <2>2 DEF StartSubmit
  <2> QED
    BY <1>6, <2>1, <2>2 DEF InsertTask
<1>7. ASSUME NEW u \in Tasks, SubmitXAdd(u)
      PROVE  /\ sub'[t].next = sub[t].next
             /\ sub[t].pc = "mark" \/ (SubmitXAdd(t) /\ Entered(t, sub[t].next))
  <2>1. CASE Entered(u, sub[u].next) /\ sub' = [sub EXCEPT ![u].pc = "mark"]
    <3>1. CASE u = t
      BY <1>0, <1>7, <2>1, <3>1 DEF Submit
    <3>2. CASE u # t
      BY <1>0, <2>1, <3>2
    <3> QED
      BY <3>1, <3>2
  <2> QED
    BY <1>4, <1>7, <2>1 DEF SubmitXAdd, XAddPart, Entered
<1>8. ASSUME NEW u \in Tasks, SubmitStep(u), ~SubmitXAdd(u) PROVE sub'[t] = sub[t]
  <2>1. CASE SubmitRecheck(u) \/ SubmitSave(u) \/ SubmitRows(u) \/ SubmitCheck(u)
    BY <1>4, <1>5, <2>1 DEF SubmitRecheck, SubmitSave, SubmitRows, SubmitCheck
  <2>2. CASE SubmitFinish(u) \/ SubmitFail(u)
    BY <1>3, <2>2 DEF SubmitFinish, SubmitFail
  <2>3. CASE SubmitMark(u)
    <3>1. CASE sub' = [sub EXCEPT ![u] = [@ EXCEPT !.pc = "check", !.next = sub[u].next + 1]]
      BY <1>0, <3>1 DEF Submit
    <3> QED
      BY <1>4, <2>3, <3>1 DEF SubmitMark, NextPart
  <2>4. CASE Probe(u)
    BY <1>0, <2>4 DEF Probe, Submit
  <2> QED
    BY <1>8, <2>1, <2>2, <2>3, <2>4 DEF SubmitStep
<1>9. ASSUME NEW u \in Tasks, Expire(u) PROVE sub'[t].pc = sub[t].pc /\ sub'[t].next = sub[t].next
  BY <1>0, <1>9 DEF Expire, Submit
<1>10. CASE Crash
  BY <1>0, <1>10 DEF Crash, Submit
<1>11. ASSUME NEW r \in Slots, RestartCopy(r) PROVE sub'[t] = sub[t]
  BY <1>1, <1>6, <1>11 DEF RestartCopy
<1>12. CASE Create
  BY <1>6, <1>12 DEF Create
<1>13. \/ UNCHANGED sub \/ Create \/ Crash
       \/ \E u \in Tasks : SubmitStep(u) \/ Expire(u)
       \/ \E r \in Slots : RestartCopy(r)
  BY DEF Next, vars, WorkerComplete, WorkerScan, WorkerFail, WorkerDrop, RequestStep, PublishControl, ControlWrite,
         DeleteRows, RestartWrite, ResetParts, RepublishList, RepublishXAdd, RepublishMark, RestartFinish,
         ControlRead, DeleteRead, RestartRead, Accept
<1> QED
  BY <1>1, <1>7, <1>8, <1>9, <1>10, <1>11, <1>12, <1>13

\* The part a restart is about to mark is the one it has just sent.
LEMMA RemarkerStays ==
  ASSUME TypeInv, [Next]_vars, NEW r \in Slots, req'[r].pc = "remark"
  PROVE  \/ req'[r] = req[r]
         \/ RepublishXAdd(r) /\ Entered(req[r].task, req'[r].cur) /\ req'[r].task = req[r].task
            /\ req'[r].cur \in Parts
<1>0. req \in [Slots -> Request]
  BY DEF TypeInv, TypeOK
<1>1. CASE UNCHANGED req
  BY <1>1
<1>3. ASSUME NEW q \in Slots, Finish(q) PROVE req'[r] = req[r]
  BY <1>0, <1>3 DEF Finish, IdleReq
<1>4. ASSUME NEW q \in Slots, NEW step, Goto(q, step), step # "remark" PROVE req'[r] = req[r]
  BY <1>0, <1>4 DEF Goto, Request
<1>5. ASSUME NEW q \in Slots, NEW u \in Tasks, NEW op, NEW step, Accept(q, u, op, step), step # "remark"
      PROVE  req'[r] = req[r]
  BY <1>0, <1>5 DEF Accept, IdleReq
<1>6. ASSUME NEW q \in Slots, RepublishXAdd(q)
      PROVE  \/ req'[r] = req[r]
             \/ RepublishXAdd(r) /\ Entered(req[r].task, req'[r].cur) /\ req'[r].task = req[r].task
                /\ req'[r].cur \in Parts
  <2>1. ASSUME NEW p \in req[q].todo, Entered(req[q].task, p),
               req' = [req EXCEPT ![q] = [@ EXCEPT !.pc = "remark", !.cur = p]]
        PROVE  \/ req'[r] = req[r]
               \/ RepublishXAdd(r) /\ Entered(req[r].task, req'[r].cur) /\ req'[r].task = req[r].task
                  /\ req'[r].cur \in Parts
    <3>1. CASE q = r
      <4>1. req'[r].cur = p /\ req'[r].task = req[r].task /\ p \in Parts
        BY <1>0, <2>1, <3>1 DEF Request
      <4> QED
        BY <1>6, <2>1, <3>1, <4>1
    <3>2. CASE q # r
      BY <1>0, <2>1, <3>2
    <3> QED
      BY <3>1, <3>2
  <2> QED
    BY <1>4, <1>6, <2>1 DEF RepublishXAdd, XAddPart, Entered
<1>7. ASSUME NEW q \in Slots, RequestStep(q), ~RepublishXAdd(q) PROVE req'[r] = req[r]
  <2>1. CASE PublishControl(q) \/ ControlWrite(q) \/ DeleteRows(q) \/ RestartCopy(q) \/ RestartFinish(q)
    BY <1>3, <1>4, <2>1 DEF PublishControl, ControlWrite, DeleteRows, RestartCopy, RestartFinish
  <2>2. CASE RestartWrite(q) \/ ResetParts(q)
    BY <1>3, <1>4, <2>2 DEF RestartWrite, ResetParts
  <2>3. CASE RepublishList(q)
    BY <1>0, <1>4, <2>3 DEF RepublishList, Request
  <2>5. CASE RepublishMark(q)
    BY <1>0, <1>4, <2>5 DEF RepublishMark, PartDone, Request
  <2> QED
    BY <1>7, <2>1, <2>2, <2>3, <2>5 DEF RequestStep
<1>8. ASSUME NEW q \in Slots, NEW u \in Tasks,
             (\E op \in Ops : ControlRead(q, u, op)) \/ DeleteRead(q, u) \/ RestartRead(q, u)
      PROVE  req'[r] = req[r]
  <2>1. CASE \E op \in Ops : ControlRead(q, u, op)
    BY <1>5, <2>1 DEF ControlRead
  <2>2. CASE DeleteRead(q, u) \/ RestartRead(q, u)
    BY <1>5, <2>2 DEF DeleteRead, RestartRead
  <2> QED
    BY <1>8, <2>1, <2>2
<1>9. CASE Crash
  BY <1>9 DEF Crash, IdleReq
<1>10. UNCHANGED req \/ Crash \/ (\E q \in Slots : RequestStep(q))
       \/ (\E q \in Slots, u \in Tasks :
             (\E op \in Ops : ControlRead(q, u, op)) \/ DeleteRead(q, u) \/ RestartRead(q, u))
  BY DEF Next, vars, Create, SubmitStep, Probe, SubmitRecheck, SubmitSave, SubmitRows, SubmitCheck,
         SubmitXAdd, SubmitMark, SubmitFinish, SubmitFail, Expire, WorkerComplete, WorkerScan, WorkerFail, WorkerDrop
<1> QED
  BY <1>1, <1>6, <1>7, <1>8, <1>9, <1>10

LEMMA RunningInductive == TypeInv /\ TypeInv' /\ RunningInv /\ [Next]_vars => RunningInv'
<1> SUFFICES ASSUME TypeInv, TypeInv', RunningInv, [Next]_vars PROVE RunningInv'
  OBVIOUS
<1>1. ASSUME NEW t \in Tasks, NEW p \in Parts, partStatus'[t][p] \in Ran PROVE sent'[t][p] > 0
  <2>1. CASE partStatus[t][p] \in Ran
    BY <2>1, SentStays DEF RunningInv, RunningWasSent, Ran
  <2>2. CASE SubmitMark(t) /\ sub[t].next = p
    BY <2>2, SentStays DEF RunningInv, MarkerSent, SubmitMark
  <2>3. CASE \E r \in Slots : RepublishMark(r) /\ req[r].task = t /\ req[r].cur = p
    BY <2>3, SentStays DEF RunningInv, MarkerSent, RepublishMark
  <2>4. CASE WorkerScan(t, p) \/ WorkerFail(t, p)
    <3>1. taken[t][p] \in Nat /\ sent[t][p] \in Nat
      BY DEF TypeInv, TypeOK
    <3>2. sent[t][p] > 0
      BY <2>4, <3>1 DEF WorkerScan, WorkerFail
    <3> QED
      BY <3>2, SentStays
  <2> QED
    BY <1>1, <2>1, <2>2, <2>3, <2>4, RanChanges
<1>2. ASSUME NEW t \in Tasks, sub'[t].pc = "mark" PROVE sent'[t][sub'[t].next] > 0
  <2>1. CASE sub[t].pc = "mark"
    <3>1. sub[t].next \in Parts /\ sent[t][sub[t].next] > 0
      BY <2>1, SubmitPartType DEF RunningInv, MarkerSent
    <3>2. sent'[t][sub[t].next] > 0
      BY <3>1, SentStays
    <3> QED
      BY <1>2, <3>2, SubmitMarkerStays
  <2>2. CASE SubmitXAdd(t) /\ Entered(t, sub[t].next)
    <3>1. sub[t].next \in Parts
      BY <2>2, SubmitPartType DEF SubmitXAdd
    <3>2. sent'[t][sub[t].next] > 0
      BY <2>2, <3>1, XAddGrows
    <3> QED
      BY <1>2, <3>2, SubmitMarkerStays
  <2> QED
    BY <1>2, <2>1, <2>2, SubmitMarkerStays
<1>3. ASSUME NEW r \in Slots, req'[r].pc = "remark" PROVE sent'[req'[r].task][req'[r].cur] > 0
  <2>0. req[r].task \in Tasks /\ req[r].cur \in Parts
    BY DEF TypeInv, TypeOK, Request
  <2>1. CASE req'[r] = req[r]
    <3>1. sent[req[r].task][req[r].cur] > 0
      BY <1>3, <2>1 DEF RunningInv, MarkerSent
    <3>2. sent'[req[r].task][req[r].cur] > 0
      BY <2>0, <3>1, SentStays
    <3> QED
      BY <2>1, <3>2
  <2>2. CASE /\ RepublishXAdd(r) /\ Entered(req[r].task, req'[r].cur)
             /\ req'[r].task = req[r].task /\ req'[r].cur \in Parts
    <3> DEFINE c == req'[r].cur
    <3>1. sent'[req[r].task][c] > 0
      BY <2>0, <2>2, XAddGrows
    <3> QED
      BY <2>2, <3>1
  <2> QED
    BY <1>3, <2>1, <2>2, RemarkerStays
<1> QED
  BY <1>1, <1>2, <1>3 DEF RunningInv, RunningWasSent, MarkerSent, Ran

\* SubmitTask and republishParts mark a part running "XADD 成功后": no error,
\* deadline, reset or restart leaves a part shown as running that was never sent.
THEOREM RunsAfterSent == Spec => []RunningWasSent
<1>1. Init => RunningInv
  BY DEF Init, RunningInv, RunningWasSent, MarkerSent, NoSubmit, IdleReq
<1> QED
  BY <1>1, RunningInductive, Typed, PTL DEF Spec, RunningInv

-----------------------------------------------------------------------------
(* No pod is handed a part the progress table does not know.               *)

\* A part is sent only when it is recorded: what TLC checks, made inductive.
RecordInv == SentIsRecorded /\ FreshTask /\ SenderRecorded

-----------------------------------------------------------------------------
(* The rows of a task: SubmitTask writes them, only a deletion takes them  *)
(* away, and only Save brings a deleted task back.                         *)

LEMMA MarkKeepsRows ==
  ASSUME TypeInv, NEW u \in Tasks, NEW q \in Parts, MarkRunning(u, q),
         NEW t \in Tasks, NEW p \in Parts
  PROVE  partStatus'[t][p] # "none" <=> partStatus[t][p] # "none"
<1>0. partStatus \in [Tasks -> [Parts -> PartStatus]]
  BY DEF TypeInv, TypeOK
<1>1. CASE partStatus[u][q] = "none"
  BY <1>1 DEF MarkRunning
<1>2. CASE partStatus' = [partStatus EXCEPT ![u][q] = "running"] /\ partStatus[u][q] # "none"
  <2>1. CASE u = t /\ q = p
    BY <1>0, <1>2, <2>1
  <2>2. CASE ~(u = t /\ q = p)
    <3>1. partStatus'[t][p] = partStatus[t][p]
      BY <1>0, <1>2, <2>2
    <3> QED
      BY <3>1
  <2> QED
    BY <2>1, <2>2
<1> QED
  BY <1>1, <1>2 DEF MarkRunning

LEMMA RowChanges ==
  ASSUME TypeInv, [Next]_vars, NEW t \in Tasks, NEW p \in Parts
  PROVE  /\ partStatus[t][p] # "none" => partStatus'[t][p] # "none" \/ status'[t] = "none"
         /\ partStatus'[t][p] # "none" => partStatus[t][p] # "none" \/ SubmitRows(t)
<1> DEFINE Kept == partStatus'[t][p] # "none" <=> partStatus[t][p] # "none"
<1>0. partStatus \in [Tasks -> [Parts -> PartStatus]] /\ status \in [Tasks -> TaskStatus \cup {"none"}]
  BY DEF TypeInv, TypeOK
<1>1. ASSUME UNCHANGED partStatus PROVE Kept
  BY <1>1
<1>2. ASSUME NEW u \in Tasks, SubmitRows(u)
      PROVE  /\ partStatus[t][p] # "none" => partStatus'[t][p] # "none"
             /\ partStatus'[t][p] # "none" => partStatus[t][p] # "none" \/ SubmitRows(t)
  <2>1. CASE UNCHANGED partStatus
    BY <2>1
  <2>2. CASE CreateRows(u) /\ u = t
    BY <1>0, <1>2, <2>2 DEF CreateRows, NewPart
  <2>3. CASE CreateRows(u) /\ u # t
    BY <1>0, <2>3 DEF CreateRows
  <2> QED
    BY <1>2, <2>1, <2>2, <2>3 DEF SubmitRows
<1>3. ASSUME NEW u \in Tasks, SubmitStep(u), ~SubmitRows(u) PROVE Kept
  <2>1. CASE SubmitMark(u)
    <3>1. sub[u].next \in Parts
      BY <2>1, SubmitPartType DEF SubmitMark
    <3> QED
      BY <1>1, <2>1, <3>1, MarkKeepsRows DEF SubmitMark
  <2>2. CASE Probe(u) \/ SubmitRecheck(u) \/ SubmitSave(u) \/ SubmitCheck(u)
             \/ SubmitXAdd(u) \/ SubmitFinish(u) \/ SubmitFail(u)
    BY <1>1, <2>2 DEF Probe, SubmitRecheck, SubmitSave, SubmitCheck, SubmitXAdd, SubmitFinish, SubmitFail, db, parts
  <2> QED
    BY <1>3, <2>1, <2>2 DEF SubmitStep
<1>4. ASSUME NEW r \in Slots, DeleteRows(r)
      PROVE  /\ partStatus[t][p] # "none" => partStatus'[t][p] # "none" \/ status'[t] = "none"
             /\ partStatus'[t][p] # "none" => partStatus[t][p] # "none"
  <2>0. req[r].task \in Tasks
    BY DEF TypeInv, TypeOK, Request
  <2>1. CASE UNCHANGED partStatus
    BY <2>1
  <2>2. CASE /\ status' = [status EXCEPT ![req[r].task] = "none"]
             /\ partStatus' = [partStatus EXCEPT ![req[r].task] = [q \in Parts |-> "none"]]
    BY <1>0, <2>0, <2>2
  <2> QED
    BY <1>4, <2>1, <2>2 DEF DeleteRows, parts
<1>5. ASSUME NEW r \in Slots, RequestStep(r), ~DeleteRows(r) PROVE Kept
  <2>0. req[r].task \in Tasks /\ req[r].cur \in Parts
    BY DEF TypeInv, TypeOK, Request
  <2>2. CASE ResetParts(r)
    <3>1. CASE ResetRows(req[r].task)
      BY <1>0, <2>0, <3>1 DEF ResetRows, Rows
    <3> QED
      BY <1>1, <2>2, <3>1 DEF ResetParts, parts
  <2>3. CASE RepublishMark(r)
    BY <1>1, <2>0, <2>3, MarkKeepsRows DEF RepublishMark
  <2>4. CASE PublishControl(r) \/ ControlWrite(r) \/ RestartCopy(r) \/ RestartWrite(r)
             \/ RepublishList(r) \/ RepublishXAdd(r) \/ RestartFinish(r)
    BY <1>1, <2>4 DEF PublishControl, ControlWrite, RestartCopy, RestartWrite, RepublishList, RepublishXAdd,
       RestartFinish, db, parts
  <2> QED
    BY <1>5, <2>2, <2>3, <2>4 DEF RequestStep
<1>6. ASSUME NEW u \in Tasks, NEW q \in Parts, WorkerScan(u, q) \/ WorkerFail(u, q) PROVE Kept
  <2>1. CASE UNCHANGED partStatus
    BY <2>1
  <2>2. CASE /\ partStatus[u][q] # "none"
             /\ \E s \in {"completed", "failed"} : partStatus' = [partStatus EXCEPT ![u][q] = s]
    <3>1. CASE u = t /\ q = p
      BY <1>0, <2>2, <3>1
    <3>2. CASE ~(u = t /\ q = p)
      <4>1. partStatus'[t][p] = partStatus[t][p]
        BY <1>0, <2>2, <3>2
      <4> QED
        BY <4>1
    <3> QED
      BY <3>1, <3>2
  <2> QED
    BY <1>6, <2>1, <2>2 DEF WorkerScan, WorkerFail
<1>7. \/ UNCHANGED partStatus
      \/ \E u \in Tasks : SubmitStep(u)
      \/ \E r \in Slots : RequestStep(r)
      \/ \E u \in Tasks, q \in Parts : WorkerScan(u, q) \/ WorkerFail(u, q)
  BY DEF Next, vars, db, parts, Create, Expire, WorkerComplete, WorkerDrop, ControlRead, DeleteRead,
         RestartRead, Accept, Crash
<1> QED
  BY <1>1, <1>2, <1>3, <1>4, <1>5, <1>6, <1>7

\* A task without a row gets one from its INSERT or from SubmitTask's Save.
LEMMA GoneStays ==
  ASSUME TypeInv, [Next]_vars, NEW t \in Tasks, status[t] = "none"
  PROVE  status'[t] = "none" \/ SubmitSave(t) \/ t > issued
<1>0. status \in [Tasks -> TaskStatus \cup {"none"}] /\ issued \in Nat
  BY DEF TypeInv, TypeOK
<1>1. CASE UNCHANGED status
  BY <1>1
<1>2. ASSUME NEW u \in Tasks, NEW s, SetStatus(u, s) PROVE status'[t] = "none"
  BY <1>0, <1>2 DEF SetStatus
<1>3. ASSUME NEW n \in 0..MaxParts, InsertTask(n) PROVE status'[t] = "none" \/ t > issued
  BY <1>0, <1>3 DEF InsertTask
<1>4. ASSUME NEW u \in Tasks, SubmitStep(u) PROVE status'[t] = "none" \/ SubmitSave(t)
  <2>1. CASE SubmitSave(u)
    <3>1. CASE u = t
      BY <2>1, <3>1
    <3>2. CASE u # t
      BY <1>0, <2>1, <3>2 DEF SubmitSave, SaveStatus
    <3> QED
      BY <3>1, <3>2
  <2>2. CASE SubmitFail(u)
    BY <1>1, <1>2, <2>2 DEF SubmitFail
  <2>3. CASE Probe(u) \/ SubmitRecheck(u) \/ SubmitRows(u) \/ SubmitCheck(u)
             \/ SubmitXAdd(u) \/ SubmitMark(u) \/ SubmitFinish(u)
    BY <1>1, <2>3 DEF Probe, SubmitRecheck, SubmitRows, SubmitCheck, SubmitXAdd, SubmitMark, SubmitFinish, db
  <2> QED
    BY <1>4, <2>1, <2>2, <2>3 DEF SubmitStep
<1>5. ASSUME NEW r \in Slots, RequestStep(r) PROVE status'[t] = "none" \/ t > issued
  <2>0. req[r].task \in Tasks
    BY DEF TypeInv, TypeOK, Request
  <2>1. CASE DeleteRows(r)
    BY <1>0, <1>1, <2>0, <2>1 DEF DeleteRows
  <2>2. CASE RestartCopy(r)
    BY <1>1, <1>3, <2>2 DEF RestartCopy
  <2>3. CASE ControlWrite(r) \/ RestartWrite(r) \/ RestartFinish(r)
    BY <1>1, <1>2, <2>0, <2>3 DEF ControlWrite, RestartWrite, RestartFinish
  <2>4. CASE PublishControl(r) \/ ResetParts(r) \/ RepublishList(r) \/ RepublishXAdd(r) \/ RepublishMark(r)
    BY <1>1, <2>4 DEF PublishControl, ResetParts, RepublishList, RepublishXAdd, RepublishMark, db
  <2> QED
    BY <1>5, <2>1, <2>2, <2>3, <2>4 DEF RequestStep
<1>6. CASE \E u \in Tasks : WorkerComplete(u)
  BY <1>2, <1>6 DEF WorkerComplete
<1>7. CASE Create
  BY <1>3, <1>7 DEF Create
<1>8. CASE \/ \E u \in Tasks : Expire(u)
           \/ \E u \in Tasks, p \in Parts : WorkerScan(u, p) \/ WorkerFail(u, p) \/ WorkerDrop(u, p)
           \/ \E r \in Slots, u \in Tasks, op \in Ops : ControlRead(r, u, op)
           \/ \E r \in Slots, u \in Tasks : DeleteRead(r, u) \/ RestartRead(r, u)
           \/ Crash \/ UNCHANGED vars
  BY <1>1, <1>8 DEF Expire, WorkerScan, WorkerFail, WorkerDrop, ControlRead, DeleteRead, RestartRead, Accept, Crash, db, vars
<1> QED
  BY <1>4, <1>5, <1>6, <1>7, <1>8 DEF Next

-----------------------------------------------------------------------------
(* What the goroutine of a task and a restart are about to do.             *)

Sending == {"check", "xadd", "mark"}

LEMMA SubmitChanges ==
  ASSUME TypeInv, [Next]_vars, NEW t \in Tasks
  PROVE  /\ issued' >= issued
         /\ \/ sub'[t].pc = sub[t].pc /\ sub'[t].plan = sub[t].plan
            \/ t > issued /\ t <= issued' /\ sub'[t].pc = "probe"
            \/ SubmitStep(t)
            \/ (sub[t].pc # "none" /\ sub'[t].pc = "failed")
<1> DEFINE Same == sub'[t].pc = sub[t].pc /\ sub'[t].plan = sub[t].plan
<1>0. sub \in [Tasks -> Submit] /\ issued \in Nat
  BY DEF TypeInv, TypeOK
<1>1. CASE UNCHANGED <<sub, issued>>
  BY <1>0, <1>1
<1>2. ASSUME NEW n \in 0..MaxParts, InsertTask(n)
      PROVE  issued' >= issued /\ (Same \/ (t > issued /\ t <= issued' /\ sub'[t].pc = "probe"))
  <2>1. CASE UNCHANGED sub
    BY <1>0, <1>2, <2>1 DEF InsertTask
  <2>2. CASE sub' = [sub EXCEPT ![issued + 1] = StartSubmit(n)]
    <3>1. CASE t = issued + 1
      BY <1>0, <1>2, <2>2, <3>1 DEF InsertTask, StartSubmit
    <3>2. CASE t # issued + 1
      BY <1>0, <1>2, <2>2, <3>2 DEF InsertTask
    <3> QED
      BY <3>1, <3>2
  <2> QED
    BY <1>2, <2>1, <2>2 DEF InsertTask
<1>3. ASSUME NEW u \in Tasks, SubmitStep(u) PROVE issued' = issued /\ (u # t => sub'[t] = sub[t])
  <2>1. issued' = issued
    BY <1>3 DEF SubmitStep, Probe, SubmitRecheck, SubmitSave, SubmitRows, SubmitCheck, SubmitXAdd,
       SubmitMark, SubmitFinish, SubmitFail, db
  <2>2. \E v : sub' = [sub EXCEPT ![u] = v]
    BY <1>3 DEF SubmitStep, Probe, SubmitRecheck, SubmitSave, SubmitRows, SubmitCheck, SubmitXAdd,
       SubmitMark, SubmitFinish, SubmitFail, SubmitErrors, SubmitReturns
  <2> QED
    BY <1>0, <2>1, <2>2
<1>4. ASSUME NEW u \in Tasks, Expire(u) PROVE Same /\ issued' = issued
  BY <1>0, <1>4 DEF Expire, Submit, db
<1>5. CASE Crash
  <2>1. issued' = issued
    BY <1>5 DEF Crash, db
  <2>2. sub'[t] = sub[t] \/ (sub[t].pc # "none" /\ sub'[t] = [sub[t] EXCEPT !.pc = "failed"])
    BY <1>5 DEF Crash, Submitting, SubmitSteps
  <2>3. Same \/ (sub[t].pc # "none" /\ sub'[t].pc = "failed")
    BY <1>0, <2>2 DEF Submit
  <2> QED
    BY <1>0, <2>1, <2>3
<1>6. ASSUME NEW r \in Slots, RestartCopy(r)
      PROVE  issued' >= issued /\ (Same \/ (t > issued /\ t <= issued' /\ sub'[t].pc = "probe"))
  BY <1>0, <1>2, <1>6 DEF RestartCopy
<1>7. CASE Create
  BY <1>2, <1>7 DEF Create
<1>8. \/ UNCHANGED <<sub, issued>> \/ Create \/ Crash
      \/ \E u \in Tasks : SubmitStep(u) \/ Expire(u)
      \/ \E r \in Slots : RestartCopy(r)
  BY DEF Next, vars, db, WorkerComplete, WorkerScan, WorkerFail, WorkerDrop, RequestStep, PublishControl, ControlWrite,
         DeleteRows, RestartWrite, ResetParts, RepublishList, RepublishXAdd, RepublishMark, RestartFinish,
         ControlRead, DeleteRead, RestartRead, Accept
<1>9. ASSUME NEW u \in Tasks, SubmitStep(u) PROVE issued' >= issued /\ (Same \/ SubmitStep(t))
  BY <1>0, <1>3, <1>9
<1> QED
  BY <1>0, <1>1, <1>4, <1>5, <1>6, <1>7, <1>8, <1>9

LEMMA SubmitGoesOn ==
  ASSUME TypeInv, NEW t \in Tasks, SubmitStep(t)
  PROVE  /\ sub[t].pc # "none" /\ sub'[t].pc # "none"
         /\ BeforeRows(t)' => BeforeRows(t) /\ ~SubmitRows(t)
         /\ sub'[t].pc \in Sending =>
              sub'[t].plan = sub[t].plan /\ (sub[t].pc \in Sending \/ CreateRows(t))
         /\ SubmitSave(t) => sub'[t].pc \notin Sending
<1> USE DEF BeforeRows, Sending
<1>0. sub \in [Tasks -> Submit]
  BY DEF TypeInv, TypeOK
<1>1. ASSUME NEW step, sub' = [sub EXCEPT ![t].pc = step]
      PROVE  sub'[t].pc = step /\ sub'[t].plan = sub[t].plan
  BY <1>0, <1>1 DEF Submit
<1>2. ASSUME SubmitErrors(t) PROVE sub'[t].pc = "fail"
  BY <1>1, <1>2 DEF SubmitErrors
<1>3. ASSUME NEW step, SubmitReturns(t, step) PROVE sub'[t].pc = step /\ sub'[t].plan = sub[t].plan
  BY <1>1, <1>3 DEF SubmitReturns
<1>4. CASE Probe(t)
  <2>1. sub[t].pc = "probe" /\ sub'[t].pc = "recheck"
    BY <1>0, <1>4 DEF Probe, Submit
  <2> QED
    BY <2>1 DEF SubmitRows, SubmitSave
<1>5. CASE SubmitRecheck(t)
  <2>1. sub[t].pc = "recheck" /\ sub'[t].pc \in {"done", "save", "fail"}
    BY <1>2, <1>3, <1>5 DEF SubmitRecheck
  <2> QED
    BY <2>1 DEF SubmitRows, SubmitSave
<1>6. CASE SubmitSave(t)
  <2>1. sub[t].pc = "save" /\ sub'[t].pc \in {"done", "rows", "fail"}
    BY <1>2, <1>3, <1>6 DEF SubmitSave
  <2> QED
    BY <2>1 DEF SubmitRows
<1>7. CASE SubmitRows(t)
  <2>1. sub[t].pc = "rows"
    BY <1>7 DEF SubmitRows
  <2>2. \/ CreateRows(t) /\ sub'[t].pc = "check" /\ sub'[t].plan = sub[t].plan
        \/ sub'[t].pc = "fail"
    BY <1>2, <1>3, <1>7 DEF SubmitRows
  <2> QED
    BY <2>1, <2>2 DEF SubmitSave
<1>8. CASE SubmitCheck(t)
  <2>1. /\ sub[t].pc = "check"
        /\ \/ sub'[t].pc \in {"done", "xadd"} /\ sub'[t].plan = sub[t].plan
           \/ sub'[t].pc = "fail"
    BY <1>2, <1>3, <1>8 DEF SubmitCheck
  <2> QED
    BY <2>1 DEF SubmitRows, SubmitSave
<1>9. CASE SubmitXAdd(t)
  <2>1. /\ sub[t].pc = "xadd"
        /\ \/ sub'[t].pc = "mark" /\ sub'[t].plan = sub[t].plan
           \/ sub'[t].pc = "fail"
    BY <1>1, <1>2, <1>9 DEF SubmitXAdd
  <2> QED
    BY <2>1 DEF SubmitRows, SubmitSave
<1>10. CASE SubmitMark(t)
  <2>1. ASSUME sub' = [sub EXCEPT ![t] = [@ EXCEPT !.pc = "check", !.next = NextPart(t)]]
        PROVE  sub'[t].pc = "check" /\ sub'[t].plan = sub[t].plan
    BY <1>0, <2>1 DEF Submit
  <2>2. /\ sub[t].pc = "mark"
        /\ \/ sub'[t].pc = "check" /\ sub'[t].plan = sub[t].plan
           \/ sub'[t].pc = "fail"
    BY <1>2, <1>10, <2>1 DEF SubmitMark
  <2> QED
    BY <2>2 DEF SubmitRows, SubmitSave
<1>11. CASE SubmitFinish(t) \/ SubmitFail(t)
  <2>1. sub[t].pc \in {"check", "fail"} /\ sub'[t].pc \in {"done", "failed"}
    BY <1>1, <1>11 DEF SubmitFinish, SubmitFail
  <2> QED
    BY <2>1 DEF SubmitRows, SubmitSave
<1> QED
  BY <1>4, <1>5, <1>6, <1>7, <1>8, <1>9, <1>10, <1>11 DEF SubmitStep

\* What a restart still has to send: what it had, or the rows it has just read.
LEMMA TodoChanges ==
  ASSUME TypeInv, [Next]_vars, NEW r \in Slots, NEW p \in req'[r].todo
  PROVE  /\ req'[r].task = req[r].task
         /\ p \in req[r].todo \/ (UNCHANGED db /\ p \in Rows(req[r].task))
<1> DEFINE Old == req'[r].task = req[r].task /\ p \in req[r].todo
<1>0. req \in [Slots -> Request]
  BY DEF TypeInv, TypeOK
<1>1. ASSUME UNCHANGED req PROVE Old
  BY <1>1
<1>3. ASSUME NEW q \in Slots, Finish(q) PROVE Old
  BY <1>0, <1>3 DEF Finish, IdleReq
<1>4. ASSUME NEW q \in Slots, NEW step, Goto(q, step) PROVE Old
  BY <1>0, <1>4 DEF Goto, Request
<1>5. ASSUME NEW q \in Slots, NEW u \in Tasks, NEW op, NEW step, Accept(q, u, op, step) PROVE Old
  BY <1>0, <1>5 DEF Accept, IdleReq
<1>6. ASSUME NEW q \in Slots, RepublishList(q)
      PROVE  Old \/ (req'[r].task = req[r].task /\ UNCHANGED db /\ p \in Rows(req[r].task))
  <2>1. CASE req' = [req EXCEPT ![q] = [@ EXCEPT !.pc = "repub", !.todo = Rows(req[q].task)]]
    <3>1. CASE q = r
      <4>1. req'[r].task = req[r].task /\ req'[r].todo = Rows(req[r].task)
        BY <1>0, <2>1, <3>1 DEF Request
      <4> QED
        BY <1>6, <4>1 DEF RepublishList
    <3>2. CASE q # r
      BY <1>0, <2>1, <3>2
    <3> QED
      BY <3>1, <3>2
  <2> QED
    BY <1>4, <1>6, <2>1 DEF RepublishList
<1>7. ASSUME NEW q \in Slots, RequestStep(q), ~RepublishList(q) PROVE Old
  <2>1. CASE PublishControl(q) \/ ControlWrite(q) \/ DeleteRows(q) \/ RestartCopy(q) \/ RestartFinish(q)
    BY <1>3, <1>4, <2>1 DEF PublishControl, ControlWrite, DeleteRows, RestartCopy, RestartFinish
  <2>2. CASE RestartWrite(q) \/ ResetParts(q)
    BY <1>3, <1>4, <2>2 DEF RestartWrite, ResetParts
  <2>3. CASE RepublishXAdd(q)
    <3>1. ASSUME NEW c, req' = [req EXCEPT ![q] = [@ EXCEPT !.pc = "remark", !.cur = c]] PROVE Old
      BY <1>0, <3>1 DEF Request
    <3> QED
      BY <1>4, <2>3, <3>1 DEF RepublishXAdd
  <2>4. CASE RepublishMark(q)
    <3>1. CASE PartDone(q)
      BY <1>0, <3>1 DEF PartDone, Request
    <3> QED
      BY <1>4, <2>4, <3>1 DEF RepublishMark
  <2> QED
    BY <1>7, <2>1, <2>2, <2>3, <2>4 DEF RequestStep
<1>8. ASSUME NEW q \in Slots, NEW u \in Tasks,
             (\E op \in Ops : ControlRead(q, u, op)) \/ DeleteRead(q, u) \/ RestartRead(q, u)
      PROVE  Old
  <2>1. CASE \E op \in Ops : ControlRead(q, u, op)
    BY <1>5, <2>1 DEF ControlRead
  <2>2. CASE DeleteRead(q, u) \/ RestartRead(q, u)
    BY <1>5, <2>2 DEF DeleteRead, RestartRead
  <2> QED
    BY <1>8, <2>1, <2>2
<1>9. CASE Crash
  BY <1>9 DEF Crash, IdleReq
<1>10. UNCHANGED req \/ Crash \/ (\E q \in Slots : RequestStep(q))
       \/ (\E q \in Slots, u \in Tasks :
             (\E op \in Ops : ControlRead(q, u, op)) \/ DeleteRead(q, u) \/ RestartRead(q, u))
  BY DEF Next, vars, Create, SubmitStep, Probe, SubmitRecheck, SubmitSave, SubmitRows, SubmitCheck,
         SubmitXAdd, SubmitMark, SubmitFinish, SubmitFail, Expire, WorkerComplete, WorkerScan, WorkerFail, WorkerDrop
<1> QED
  BY <1>1, <1>6, <1>7, <1>8, <1>9, <1>10

-----------------------------------------------------------------------------
(* A part is sent only when it is recorded.                                *)

\* Whose entry a step has put on the stream.
LEMMA NewlySent ==
  ASSUME TypeInv, [Next]_vars, NEW t \in Tasks, NEW p \in Parts, ~(sent[t][p] > 0), sent'[t][p] > 0
  PROVE  /\ UNCHANGED db
         /\ \/ sub[t].pc = "xadd" /\ p \in 1..sub[t].plan
            \/ \E r \in Slots : req[r].task = t /\ p \in req[r].todo
<1>0. sent \in [Tasks -> [Parts -> Nat]]
  BY DEF TypeInv, TypeOK
<1>1. ASSUME NEW u \in Tasks, NEW q \in Parts, Entered(u, q) PROVE u = t /\ q = p
  BY <1>0, <1>1 DEF Entered, AddEntries
<1>2. ASSUME NEW u \in Tasks, SubmitXAdd(u), Entered(u, sub[u].next)
      PROVE  UNCHANGED db /\ sub[t].pc = "xadd" /\ p \in 1..sub[t].plan
  <2>1. sub[u].pc = "xadd" /\ sub[u].next \in Parts /\ sub[u].next \in 1..sub[u].plan
    BY <1>2, SubmitPartType DEF SubmitXAdd, TypeInv, LoopBound
  <2>2. u = t /\ sub[u].next = p
    BY <1>1, <1>2, <2>1
  <2> QED
    BY <1>2, <2>1, <2>2 DEF SubmitXAdd
<1>3. ASSUME NEW r \in Slots, RepublishXAdd(r), NEW q \in req[r].todo, Entered(req[r].task, q)
      PROVE  UNCHANGED db /\ req[r].task = t /\ p \in req[r].todo
  <2>1. req[r].task \in Tasks /\ q \in Parts
    BY DEF TypeInv, TypeOK, Request
  <2>2. req[r].task = t /\ q = p
    BY <1>1, <1>3, <2>1
  <2> QED
    BY <1>3, <2>2 DEF RepublishXAdd
<1> QED
  BY <1>2, <1>3, SentChanges

LEMMA RecordInductive == TypeInv /\ TypeInv' /\ RecordInv /\ [Next]_vars => RecordInv'
<1> SUFFICES ASSUME TypeInv, TypeInv', RecordInv, [Next]_vars PROVE RecordInv'
  OBVIOUS
<1>a. /\ issued \in Nat /\ issued' \in Nat /\ sent \in [Tasks -> [Parts -> Nat]]
      /\ sent' \in [Tasks -> [Parts -> Nat]]
  BY DEF TypeInv, TypeOK
<1>b. ASSUME NEW r \in Slots PROVE req[r].task \in Tasks /\ req[r].todo \subseteq Parts
  BY DEF TypeInv, TypeOK, Request
<1>c. ASSUME NEW t \in Tasks PROVE 1..sub[t].plan \subseteq Parts
  <2>1. sub[t].plan \in 0..MaxParts
    BY DEF TypeInv, TypeOK, Submit
  <2> QED
    BY <2>1, ConstantTypes DEF Parts
\* A deleted task that is saved again, or a new one, has nothing to send.
<1>d. ASSUME NEW t \in Tasks, status[t] = "none", ~BeforeRows(t) PROVE status'[t] = "none"
  BY <1>d, GoneStays DEF RecordInv, FreshTask, BeforeRows, SubmitSave
<1>e. ASSUME NEW t \in Tasks, NEW p \in Parts, ~BeforeRows(t),
             status[t] = "none" \/ partStatus[t][p] # "none"
      PROVE  status'[t] = "none" \/ partStatus'[t][p] # "none"
  BY <1>d, <1>e, RowChanges
<1>1. ASSUME NEW t \in Tasks, NEW p \in Parts, sent'[t][p] > 0
      PROVE  partStatus'[t][p] # "none" \/ status'[t] = "none"
  <2>1. CASE sent[t][p] > 0
    <3>1. ~BeforeRows(t)
      BY <2>1 DEF RecordInv, FreshTask
    <3> QED
      BY <1>e, <2>1, <3>1 DEF RecordInv, SentIsRecorded
  <2>2. CASE ~(sent[t][p] > 0)
    <3>1. UNCHANGED <<status, partStatus>>
      BY <1>1, <2>2, NewlySent DEF db
    <3>2. CASE sub[t].pc = "xadd" /\ p \in 1..sub[t].plan
      BY <3>1, <3>2 DEF RecordInv, SenderRecorded
    <3>3. CASE \E r \in Slots : req[r].task = t /\ p \in req[r].todo
      BY <3>1, <3>3 DEF RecordInv, SenderRecorded
    <3> QED
      BY <1>1, <2>2, <3>2, <3>3, NewlySent
  <2> QED
    BY <2>1, <2>2
<1>2. ASSUME NEW t \in Tasks, t > issued' PROVE sub'[t].pc = "none"
  <2>1. t > issued /\ sub[t].pc = "none"
    BY <1>a, <1>2, SubmitChanges DEF RecordInv, FreshTask, Tasks
  <2>2. ~SubmitStep(t)
    BY <2>1, SubmitGoesOn
  <2> QED
    BY <1>a, <1>2, <2>1, <2>2, SubmitChanges DEF Tasks
<1>3. ASSUME NEW t \in Tasks, BeforeRows(t)'
      PROVE  /\ \A p \in Parts : partStatus'[t][p] = "none" /\ sent'[t][p] = 0
             /\ \A r \in Slots : req'[r].task = t => req'[r].todo = {}
  <2>1. BeforeRows(t)
    BY <1>3, SubmitChanges, SubmitGoesOn DEF RecordInv, FreshTask, BeforeRows
  <2>2. ~SubmitRows(t)
    BY <1>3, SubmitGoesOn DEF SubmitStep
  <2>3. /\ \A p \in Parts : partStatus[t][p] = "none" /\ sent[t][p] = 0
        /\ \A r \in Slots : req[r].task = t => req[r].todo = {}
    BY <2>1 DEF RecordInv, FreshTask
  <2>4. ASSUME NEW p \in Parts PROVE partStatus'[t][p] = "none"
    BY <2>2, <2>3, RowChanges
  <2>5. ASSUME NEW p \in Parts PROVE sent'[t][p] = 0
    <3>1. ~(sent[t][p] > 0) /\ sub[t].pc # "xadd"
      BY <2>1, <2>3 DEF BeforeRows
    <3>2. ~(sent'[t][p] > 0)
      BY <2>3, <3>1, NewlySent
    <3> QED
      BY <1>a, <3>2
  <2>6. ASSUME NEW r \in Slots, req'[r].task = t, NEW p \in req'[r].todo PROVE FALSE
    <3>1. req[r].task = t /\ (p \in req[r].todo \/ p \in Rows(t))
      BY <2>6, TodoChanges
    <3> QED
      BY <2>3, <3>1 DEF Rows
  <2> QED
    BY <2>4, <2>5, <2>6
<1>4. ASSUME NEW t \in Tasks, sub'[t].pc \in Sending, NEW p \in 1..sub'[t].plan
      PROVE  status'[t] = "none" \/ partStatus'[t][p] # "none"
  <2>1. sub'[t].plan = sub[t].plan /\ (sub[t].pc \in Sending \/ (SubmitStep(t) /\ CreateRows(t)))
    <3>1. CASE SubmitStep(t)
      BY <1>4, <3>1, SubmitGoesOn
    <3>2. CASE ~SubmitStep(t)
      BY <1>4, <3>2, SubmitChanges DEF Sending
    <3> QED
      BY <3>1, <3>2
  <2>2. p \in 1..sub[t].plan /\ p \in Parts
    BY <1>4, <1>c, <2>1
  <2>3. CASE sub[t].pc \in Sending
    <3>1. ~BeforeRows(t) /\ (status[t] = "none" \/ partStatus[t][p] # "none")
      BY <2>2, <2>3 DEF RecordInv, SenderRecorded, Sending, BeforeRows
    <3> QED
      BY <1>e, <2>2, <3>1
  <2>4. CASE CreateRows(t)
    <3>1. partStatus \in [Tasks -> [Parts -> PartStatus]]
      BY DEF TypeInv, TypeOK
    <3> QED
      BY <2>2, <2>4, <3>1 DEF CreateRows, NewParts, NewPart
  <2> QED
    BY <2>1, <2>3, <2>4
<1>5. ASSUME NEW r \in Slots, NEW p \in req'[r].todo
      PROVE  status'[req'[r].task] = "none" \/ partStatus'[req'[r].task][p] # "none"
  <2> DEFINE t == req[r].task
  <2>0. t \in Tasks /\ req'[r].task = t
    BY <1>5, <1>b, TodoChanges
  <2>1. CASE UNCHANGED db /\ p \in Rows(t)
    BY <2>0, <2>1 DEF db, Rows
  <2>2. CASE p \in req[r].todo
    <3>1. ~BeforeRows(t)
      BY <2>0, <2>2 DEF RecordInv, FreshTask
    <3>2. p \in Parts /\ (status[t] = "none" \/ partStatus[t][p] # "none")
      BY <1>b, <2>2 DEF RecordInv, SenderRecorded
    <3> QED
      BY <1>e, <2>0, <3>1, <3>2
  <2> QED
    BY <1>5, <2>1, <2>2, TodoChanges
<1> QED
  BY <1>1, <1>2, <1>3, <1>4, <1>5 DEF RecordInv, SentIsRecorded, FreshTask, SenderRecorded, Sending

\* SubmitTask records a part before it sends it and republishParts sends what
\* it reads in the table: no pod gets a part without its row, unless the task
\* was deleted, whatever requests, errors and restarts come in between.
THEOREM SentAfterRecorded == Spec => []SentIsRecorded
<1>1. Init => RecordInv
  BY DEF Init, RecordInv, SentIsRecorded, FreshTask, SenderRecorded, BeforeRows, NoSubmit, IdleReq
<1> QED
  BY <1>1, RecordInductive, Typed, PTL DEF Spec, RecordInv

-----------------------------------------------------------------------------
(* The refinement of PartLedger.                                           *)

LedgerInv == RunningInv /\ RecordInv

Live == [t \in Tasks |-> status[t] # "none"]

\* Tasks exist or not as before.
SameLive == \A t \in Tasks : status'[t] = "none" <=> status[t] = "none"

LEMMA LiveKept == ASSUME SameLive PROVE Live' = Live
BY DEF SameLive, Live

LEMMA LiveSet ==
  ASSUME status \in [Tasks -> TaskStatus \cup {"none"}], NEW t \in Tasks,
         NEW s \in TaskStatus \cup {"none"}, SaveStatus(t, s)
  PROVE  /\ s # "none" => Live' = [Live EXCEPT ![t] = TRUE]
         /\ s = "none" => Live' = [Live EXCEPT ![t] = FALSE]
BY DEF SaveStatus, Live

LEMMA SetKeepsLive ==
  ASSUME status \in [Tasks -> TaskStatus \cup {"none"}], NEW t \in Tasks, NEW s \in TaskStatus, SetStatus(t, s)
  PROVE  SameLive
<1>1. s # "none"
  BY DEF TaskStatus
<1> QED
  BY <1>1 DEF SetStatus, SameLive

LEMMA LedgerStutter ==
  ASSUME SameLive, UNCHANGED <<partStatus, sent, taken, results>>
  PROVE  UNCHANGED Ledger!vars
BY LiveKept DEF Ledger!vars, Live

LEMMA LedgerOpens ==
  ASSUME TypeInv, RecordInv, NEW t \in Tasks, BeforeRows(t), NEW s \in TaskStatus, SaveStatus(t, s),
         UNCHANGED <<partStatus, sent, taken, results>>
  PROVE  Ledger!Next
<1>1. Ledger!Untouched(t)
  BY DEF RecordInv, FreshTask, Ledger!Untouched
<1>2. Live' = [Live EXCEPT ![t] = TRUE]
  BY LiveSet DEF TypeInv, TypeOK, TaskStatus
<1>3. Ledger!Open(t)
  BY <1>1, <1>2 DEF Ledger!Open, Live
<1> QED
  BY <1>3 DEF Ledger!Next

LEMMA LedgerMarks ==
  ASSUME TypeInv, NEW t \in Tasks, NEW p \in Parts, sent[t][p] > 0, MarkRunning(t, p),
         UNCHANGED <<status, sent, taken, results>>
  PROVE  Ledger!Next \/ UNCHANGED Ledger!vars
<1>1. CASE partStatus[t][p] = "none"
  BY <1>1, LedgerStutter DEF MarkRunning, SameLive
<1>2. CASE partStatus[t][p] # "none"
  <2>1. Live' = Live
    BY LiveKept DEF SameLive
  <2>2. Ledger!Mark(t, p)
    BY <1>2, <2>1 DEF MarkRunning, Ledger!Mark, Live
  <2> QED
    BY <2>2 DEF Ledger!Next
<1> QED
  BY <1>1, <1>2

LEMMA LedgerSends ==
  ASSUME TypeInv, NEW t \in Tasks, NEW p \in Parts, status[t] = "none" \/ partStatus[t][p] # "none",
         Entered(t, p), UNCHANGED <<status, partStatus, taken, results>>
  PROVE  Ledger!Next
<1>1. Live' = Live
  BY LiveKept DEF SameLive
<1>2. Ledger!Send(t, p)
  BY <1>1 DEF Entered, AddEntries, Ledger!Send, Live
<1> QED
  BY <1>2 DEF Ledger!Next

LEMMA LedgerInserts ==
  ASSUME TypeInv, RecordInv, NEW n \in 0..MaxParts, InsertTask(n),
         UNCHANGED <<partStatus, sent, taken, results>>
  PROVE  Ledger!Next
<1>1. issued + 1 \in Tasks /\ issued + 1 > issued
  BY ConstantTypes DEF InsertTask, TypeInv, TypeOK, Tasks
<1>2. BeforeRows(issued + 1)
  BY <1>1 DEF RecordInv, FreshTask, BeforeRows
<1>3. SaveStatus(issued + 1, "queued") /\ "queued" \in TaskStatus
  BY DEF InsertTask, SaveStatus, TaskStatus
<1> QED
  BY <1>1, <1>2, <1>3, LedgerOpens

LEMMA LedgerRemoves ==
  ASSUME TypeInv, NEW t \in Tasks, SaveStatus(t, "none"),
         partStatus' = [partStatus EXCEPT ![t] = [p \in Parts |-> "none"]],
         results' = [results EXCEPT ![t] = {}], UNCHANGED <<sent, taken>>
  PROVE  Ledger!Next
<1>1. Live' = [Live EXCEPT ![t] = FALSE]
  BY LiveSet DEF TypeInv, TypeOK
<1>2. Ledger!Remove(t)
  BY <1>1 DEF Ledger!Remove, Live
<1> QED
  BY <1>2 DEF Ledger!Next

LEMMA LedgerSubmit ==
  ASSUME TypeInv, LedgerInv, NEW t \in Tasks, SubmitStep(t)
  PROVE  Ledger!Next \/ UNCHANGED Ledger!vars
<1>1. CASE Probe(t) \/ SubmitRecheck(t) \/ SubmitCheck(t) \/ SubmitFinish(t)
  BY <1>1, LedgerStutter DEF Probe, SubmitRecheck, SubmitCheck, SubmitFinish, db, stream, SameLive
<1>2. CASE SubmitSave(t)
  <2>1. BeforeRows(t) /\ UNCHANGED <<partStatus, sent, taken, results>>
    BY <1>2 DEF SubmitSave, BeforeRows, parts, stream
  <2>2. CASE UNCHANGED status
    BY <2>1, <2>2, LedgerStutter DEF SameLive
  <2>3. CASE \E s \in {"completed", "running"} : SaveStatus(t, s)
    BY <2>1, <2>3, LedgerOpens DEF LedgerInv, TaskStatus
  <2> QED
    BY <1>2, <2>2, <2>3 DEF SubmitSave
<1>3. CASE SubmitRows(t)
  <2>1. UNCHANGED <<status, sent, taken, results>> /\ Live' = Live
    BY <1>3, LiveKept DEF SubmitRows, stream, SameLive
  <2>2. CASE UNCHANGED partStatus
    BY <2>1, <2>2 DEF Ledger!vars, Live
  <2>3. CASE CreateRows(t)
    <3>1. Ledger!Untouched(t)
      BY <1>3 DEF LedgerInv, RecordInv, FreshTask, BeforeRows, SubmitRows, Ledger!Untouched
    <3>2. partStatus' = [partStatus EXCEPT ![t] =
                           [p \in Parts |-> IF p \in NewParts(t) THEN "pending" ELSE "none"]]
      BY <2>3, <3>1 DEF CreateRows, NewPart, Ledger!Untouched
    <3>3. NewParts(t) \in SUBSET Parts
      <4>1. sub[t].plan \in 0..MaxParts
        BY DEF TypeInv, TypeOK, Submit
      <4> QED
        BY <4>1, ConstantTypes DEF NewParts, Parts
    <3>4. Ledger!Register(t, NewParts(t))
      BY <2>1, <3>1, <3>2 DEF Ledger!Register, Live
    <3> QED
      BY <3>3, <3>4 DEF Ledger!Next
  <2> QED
    BY <1>3, <2>2, <2>3 DEF SubmitRows
<1>4. CASE SubmitXAdd(t)
  <2>1. sub[t].next \in Parts /\ sub[t].next \in 1..sub[t].plan /\ sub[t].pc = "xadd"
    BY <1>4, SubmitPartType DEF SubmitXAdd, TypeInv, LoopBound
  <2>2. UNCHANGED <<status, partStatus, taken, results>>
    BY <1>4 DEF SubmitXAdd, db
  <2>3. CASE UNCHANGED sent
    BY <2>2, <2>3, LedgerStutter DEF SameLive
  <2>4. CASE Entered(t, sub[t].next)
    BY <2>1, <2>2, <2>4, LedgerSends DEF LedgerInv, RecordInv, SenderRecorded
  <2> QED
    BY <1>4, <2>3, <2>4 DEF SubmitXAdd, XAddPart, XAddPartFails, Entered
<1>5. CASE SubmitMark(t)
  <2>1. sub[t].next \in Parts /\ sent[t][sub[t].next] > 0
    BY <1>5, SubmitPartType DEF SubmitMark, LedgerInv, RunningInv, MarkerSent
  <2>2. UNCHANGED <<status, sent, taken, results>>
    BY <1>5 DEF SubmitMark, stream
  <2>3. CASE UNCHANGED partStatus
    BY <2>2, <2>3, LedgerStutter DEF SameLive
  <2>4. CASE MarkRunning(t, sub[t].next)
    BY <2>1, <2>2, <2>4, LedgerMarks
  <2> QED
    BY <1>5, <2>3, <2>4 DEF SubmitMark
<1>6. CASE SubmitFail(t)
  <2>1. SameLive
    BY <1>6, SetKeepsLive DEF SubmitFail, SameLive, TypeInv, TypeOK, TaskStatus
  <2> QED
    BY <1>6, <2>1, LedgerStutter DEF SubmitFail, parts, stream
<1> QED
  BY <1>1, <1>2, <1>3, <1>4, <1>5, <1>6 DEF SubmitStep

LEMMA LedgerRequest ==
  ASSUME TypeInv, LedgerInv, NEW r \in Slots, RequestStep(r)
  PROVE  Ledger!Next \/ UNCHANGED Ledger!vars
<1> DEFINE t == req[r].task
<1>0. /\ t \in Tasks /\ req[r].cur \in Parts /\ req[r].todo \subseteq Parts
      /\ status \in [Tasks -> TaskStatus \cup {"none"}]
      /\ partStatus \in [Tasks -> [Parts -> PartStatus]]
  BY DEF TypeInv, TypeOK, Request
<1>1. CASE PublishControl(r) \/ RepublishList(r)
  BY <1>1, LedgerStutter DEF PublishControl, RepublishList, db, stream, SameLive
<1>2. CASE ControlWrite(r)
  <2>1. req[r].op \in ControlOps
    BY <1>2 DEF ControlWrite, TypeInv, ControlShape
  <2>2. SameLive
    BY <1>0, <1>2, <2>1, ControlTargetType, SetKeepsLive DEF ControlWrite, SameLive
  <2> QED
    BY <1>2, <2>2, LedgerStutter DEF ControlWrite, parts, stream
<1>3. CASE DeleteRows(r)
  <2>1. UNCHANGED <<sent, taken>>
    BY <1>3 DEF DeleteRows, stream
  <2>2. CASE UNCHANGED <<status, parts>>
    BY <2>1, <2>2, LedgerStutter DEF SameLive, parts
  <2>3. CASE /\ status' = [status EXCEPT ![t] = "none"]
             /\ partStatus' = [partStatus EXCEPT ![t] = [p \in Parts |-> "none"]]
             /\ results' = [results EXCEPT ![t] = {}]
    BY <1>0, <2>1, <2>3, LedgerRemoves DEF SaveStatus
  <2> QED
    BY <1>3, <2>2, <2>3 DEF DeleteRows
<1>4. CASE RestartCopy(r)
  <2>1. UNCHANGED <<partStatus, sent, taken, results>>
    BY <1>4 DEF RestartCopy, parts, stream
  <2>2. CASE \E n \in 0..MaxParts : InsertTask(n)
    BY <2>1, <2>2, LedgerInserts DEF LedgerInv
  <2>3. CASE UNCHANGED status
    BY <2>1, <2>3, LedgerStutter DEF SameLive
  <2> QED
    BY <1>4, <2>2, <2>3 DEF RestartCopy
<1>5. CASE RestartWrite(r)
  <2>1. SameLive
    BY <1>0, <1>5, SetKeepsLive DEF RestartWrite, SameLive, TaskStatus
  <2> QED
    BY <1>5, <2>1, LedgerStutter DEF RestartWrite, parts, stream
<1>6. CASE ResetParts(r)
  <2>1. UNCHANGED <<status, sent, taken>> /\ Live' = Live
    BY <1>6, LiveKept DEF ResetParts, stream, SameLive
  <2>2. CASE UNCHANGED parts
    BY <2>1, <2>2 DEF Ledger!vars, parts, Live
  <2>3. CASE ResetRows(t)
    <3>1. partStatus' = [partStatus EXCEPT ![t] =
                           [p \in Parts |-> IF partStatus[t][p] = "none" THEN "none" ELSE "pending"]]
      BY <2>3 DEF ResetRows, Rows
    <3>2. Ledger!Reset(t)
      BY <2>1, <2>3, <3>1 DEF ResetRows, Ledger!Reset, Live
    <3>3. \E u \in Tasks : Ledger!Reset(u)
      BY <1>0, <3>2
    <3> QED
      BY <3>3 DEF Ledger!Next
  <2> QED
    BY <1>6, <2>2, <2>3 DEF ResetParts
<1>7. CASE RepublishXAdd(r)
  <2>1. UNCHANGED <<status, partStatus, taken, results>>
    BY <1>7 DEF RepublishXAdd, db
  <2>2. CASE UNCHANGED sent
    BY <2>1, <2>2, LedgerStutter DEF SameLive
  <2>3. ASSUME NEW p \in req[r].todo, Entered(t, p) PROVE Ledger!Next
    BY <1>0, <2>1, <2>3, LedgerSends DEF LedgerInv, RecordInv, SenderRecorded
  <2> QED
    BY <1>7, <2>2, <2>3 DEF RepublishXAdd, XAddPart, XAddPartFails, Entered
<1>8. CASE RepublishMark(r)
  <2>1. sent[t][req[r].cur] > 0
    BY <1>8 DEF RepublishMark, LedgerInv, RunningInv, MarkerSent
  <2>2. UNCHANGED <<status, sent, taken, results>>
    BY <1>8 DEF RepublishMark, stream
  <2>3. CASE UNCHANGED partStatus
    BY <2>2, <2>3, LedgerStutter DEF SameLive
  <2>4. CASE MarkRunning(t, req[r].cur)
    BY <1>0, <2>1, <2>2, <2>4, LedgerMarks
  <2> QED
    BY <1>8, <2>3, <2>4 DEF RepublishMark
<1>9. CASE RestartFinish(r)
  <2>1. RestartOutcome(r) \in TaskStatus
    BY DEF RestartOutcome, TaskStatus
  <2>2. SameLive
    BY <1>0, <1>9, <2>1, SetKeepsLive DEF RestartFinish, SameLive
  <2> QED
    BY <1>9, <2>2, LedgerStutter DEF RestartFinish, parts, stream
<1> QED
  BY <1>1, <1>2, <1>3, <1>4, <1>5, <1>6, <1>7, <1>8, <1>9 DEF RequestStep

LEMMA LedgerWorker ==
  ASSUME TypeInv, NEW t \in Tasks, NEW p \in Parts, WorkerScan(t, p) \/ WorkerFail(t, p) \/ WorkerDrop(t, p)
  PROVE  Ledger!Next
<1>0. Live' = Live /\ partStatus \in [Tasks -> [Parts -> PartStatus]]
  BY LiveKept DEF WorkerScan, WorkerFail, WorkerDrop, db, SameLive, TypeInv, TypeOK
<1>1. CASE WorkerScan(t, p)
  <2>1. partStatus' = [partStatus EXCEPT ![t][p] = IF @ = "none" THEN "none" ELSE "completed"]
    <3>1. CASE partStatus[t][p] = "none"
      BY <1>0, <1>1, <3>1 DEF WorkerScan
    <3>2. CASE partStatus[t][p] # "none"
      BY <1>0, <1>1, <3>2 DEF WorkerScan
    <3> QED
      BY <3>1, <3>2
  <2>2. Ledger!Complete(t, p)
    BY <1>0, <1>1, <2>1 DEF WorkerScan, Ledger!Complete, Ledger!Take, Live
  <2> QED
    BY <2>2 DEF Ledger!Next
<1>2. CASE WorkerDrop(t, p)
  <2>1. Ledger!Discard(t, p)
    BY <1>0, <1>2 DEF WorkerDrop, db, Ledger!Discard, Ledger!Take, Live
  <2> QED
    BY <2>1 DEF Ledger!Next
<1>3. CASE WorkerFail(t, p)
  <2>1. partStatus' = [partStatus EXCEPT ![t][p] = IF @ = "none" THEN "none" ELSE "failed"]
    <3>1. CASE partStatus[t][p] = "none"
      BY <1>0, <1>3, <3>1 DEF WorkerFail
    <3>2. CASE partStatus[t][p] # "none"
      BY <1>0, <1>3, <3>2 DEF WorkerFail
    <3> QED
      BY <3>1, <3>2
  <2>2. Ledger!GiveUp(t, p)
    BY <1>0, <1>3, <2>1 DEF WorkerFail, Ledger!GiveUp, Ledger!Take, Live
  <2> QED
    BY <2>2 DEF Ledger!Next
<1> QED
  BY <1>1, <1>2, <1>3

LEMMA LedgerStep ==
  ASSUME TypeInv, LedgerInv, [Next]_vars
  PROVE  Ledger!Next \/ UNCHANGED Ledger!vars
<1>1. CASE Create
  BY <1>1, LedgerInserts DEF Create, parts, stream, LedgerInv
<1>2. ASSUME NEW t \in Tasks, WorkerComplete(t) PROVE UNCHANGED Ledger!vars
  <2>1. SameLive
    BY <1>2, SetKeepsLive DEF WorkerComplete, TypeInv, TypeOK, TaskStatus
  <2> QED
    BY <1>2, <2>1, LedgerStutter DEF WorkerComplete, parts, stream
<1>3. CASE \/ \E t \in Tasks : Expire(t)
           \/ \E r \in Slots, t \in Tasks, op \in Ops : ControlRead(r, t, op)
           \/ \E r \in Slots, t \in Tasks : DeleteRead(r, t) \/ RestartRead(r, t)
           \/ Crash \/ UNCHANGED vars
  <2>1. UNCHANGED <<status, partStatus, sent, taken, results>>
    BY <1>3 DEF Expire, ControlRead, DeleteRead, RestartRead, Accept, Crash, db, stream, vars
  <2> QED
    BY <2>1, LedgerStutter DEF SameLive
<1> QED
  BY <1>1, <1>2, <1>3, LedgerSubmit, LedgerRequest, LedgerWorker DEF Next

LEMMA LedgerInit == Init => Ledger!Init
BY DEF Init, Ledger!Init

\* The progress table is a ledger of the portscan stream: for workers, every
\* interleaving of handlers, goroutines, errors and restarts is one of opening,
\* registering, sending, marking, completing, resetting and removing parts.
THEOREM LedgerRefined == Spec => ImplementsLedger
<1>1. TypeInv /\ LedgerInv /\ [Next]_vars => [Ledger!Next]_Ledger!vars
  BY LedgerStep
<1>2. Init => LedgerInv
  BY DEF Init, LedgerInv, RunningInv, RunningWasSent, MarkerSent, RecordInv, SentIsRecorded, FreshTask,
         SenderRecorded, BeforeRows, NoSubmit, IdleReq
<1>3. TypeInv /\ TypeInv' /\ LedgerInv /\ [Next]_vars => LedgerInv'
  BY RunningInductive, RecordInductive DEF LedgerInv
<1> QED
  BY <1>1, <1>2, <1>3, Typed, LedgerInit, PTL DEF Spec, ImplementsLedger, Ledger!Spec
=============================================================================
