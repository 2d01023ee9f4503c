------------------------- MODULE TaskDispatchProofs -------------------------
(* What is proved of TaskDispatch for every number of tasks, parts, slots, *)
(* requests, faults and crashes.                                           *)
EXTENDS TaskProperties, TLAPS

LEMMA ConstantTypes ==
  /\ MaxTasks \in Nat /\ MaxTasks >= 1 /\ MaxParts \in Nat /\ MaxParts >= 1
  /\ 1 \in Tasks /\ 1 \in Parts
BY BoundsAssumption DEF Tasks, Parts

LEMMA ModuleStatusTypes ==
  /\ InitModuleStatus \in [Modules -> ModStatus]
  /\ NoModuleStatus \in [Modules -> ModStatus]
BY DEF InitModuleStatus, NoModuleStatus, ModStatus

LEMMA RecordTypes ==
  /\ NoSubmit \in Submit
  /\ IdleReq \in Request
  /\ \A n \in 0..MaxParts : StartSubmit(n) \in Submit
<1>1. NoSubmit \in Submit
  BY ConstantTypes DEF NoSubmit, Submit
<1>2. IdleReq \in Request
  BY ConstantTypes DEF IdleReq, Request, RequestSteps
<1>3. ASSUME NEW n \in 0..MaxParts PROVE StartSubmit(n) \in Submit
  BY ConstantTypes DEF NoSubmit, StartSubmit, Submit, SubmitSteps
<1> QED
  BY <1>1, <1>2, <1>3

LEMMA ControlTargetType == \A op \in ControlOps : ControlTarget(op) \in TaskStatus
BY DEF ControlOps, ControlTarget, TaskStatus

LEMMA SetStatusType ==
  ASSUME status \in [Tasks -> TaskStatus \cup {"none"}],
         NEW t \in Tasks, NEW s \in TaskStatus, SetStatus(t, s) \/ SaveStatus(t, s)
  PROVE  status' \in [Tasks -> TaskStatus \cup {"none"}]
BY DEF SetStatus, SaveStatus

LEMMA InitType == Init => TypeOK
<1> SUFFICES ASSUME Init PROVE TypeOK
  OBVIOUS
<1> USE ConstantTypes, ModuleStatusTypes, RecordTypes DEF Init
<1>1. issued \in 0..MaxTasks /\ abandoned \subseteq Tasks
  OBVIOUS
<1>2. partStatus \in [Tasks -> [Parts -> PartStatus]]
  BY DEF PartStatus
<1>3. control \in [Tasks -> Seq(ControlOps)]
  OBVIOUS
<1> QED
  BY <1>1, <1>2, <1>3 DEF TypeOK

(* One lemma per kind of assignment. *)

LEMMA SubmitStepType ==
  ASSUME sub \in [Tasks -> Submit], NEW t \in Tasks,
         NEW step \in SubmitSteps \cup {"none", "done", "failed"}
  PROVE  [sub EXCEPT ![t].pc = step] \in [Tasks -> Submit]
BY DEF Submit

LEMMA RequestStepType ==
  ASSUME req \in [Slots -> Request], NEW r \in Slots,
         Finish(r) \/ \E step \in RequestSteps : Goto(r, step)
  PROVE  req' \in [Slots -> Request]
<1>1. CASE Finish(r)
  BY <1>1, RecordTypes DEF Finish
<1>2. ASSUME NEW step \in RequestSteps, Goto(r, step) PROVE req' \in [Slots -> Request]
  BY <1>2 DEF Goto, Request
<1> QED
  BY <1>1, <1>2

LEMMA CellType ==
  ASSUME NEW V, NEW f \in [Tasks -> [Parts -> V]], NEW t \in Tasks, NEW p \in Parts, NEW v \in V
  PROVE  [f EXCEPT ![t][p] = v] \in [Tasks -> [Parts -> V]]
OBVIOUS

LEMMA BoundType ==
  ASSUME used \in [faults : Nat, crashes : Nat, requests : Nat, restarts : Nat], NEW n \in Nat,
         \/ used' = [used EXCEPT !.requests = @ + 1, !.restarts = n]
         \/ used' = [used EXCEPT !.crashes = @ + 1]
  PROVE  used' \in [faults : Nat, crashes : Nat, requests : Nat, restarts : Nat]
<1>1. used.requests + 1 \in Nat /\ used.crashes + 1 \in Nat
  OBVIOUS
<1>2. [used EXCEPT !.requests = @ + 1, !.restarts = n]
        \in [faults : Nat, crashes : Nat, requests : Nat, restarts : Nat]
  BY <1>1
<1>3. [used EXCEPT !.crashes = @ + 1]
        \in [faults : Nat, crashes : Nat, requests : Nat, restarts : Nat]
  BY <1>1
<1> QED
  BY <1>2, <1>3

LEMMA FaultType ==
  ASSUME used \in [faults : Nat, crashes : Nat, requests : Nat, restarts : Nat], Succeeds \/ Fails
  PROVE  used' \in [faults : Nat, crashes : Nat, requests : Nat, restarts : Nat]
BY DEF Succeeds, Fails

LEMMA ReturnType ==
  ASSUME TypeOK, NEW t \in Tasks,
         \/ SubmitErrors(t)
         \/ \E step \in SubmitSteps \cup {"done"} : SubmitReturns(t, step)
  PROVE  /\ sub' \in [Tasks -> Submit]
         /\ used' \in [faults : Nat, crashes : Nat, requests : Nat, restarts : Nat]
<1> USE DEF TypeOK
<1>1. CASE SubmitErrors(t)
  <2>1. sub' = [sub EXCEPT ![t].pc = "fail"] /\ "fail" \in SubmitSteps
    BY <1>1 DEF SubmitErrors, SubmitSteps
  <2>2. Succeeds \/ Fails
    BY <1>1 DEF SubmitErrors, Succeeds
  <2> QED
    BY <2>1, <2>2, SubmitStepType, FaultType
<1>2. ASSUME NEW step \in SubmitSteps \cup {"done"}, SubmitReturns(t, step)
      PROVE  /\ sub' \in [Tasks -> Submit]
             /\ used' \in [faults : Nat, crashes : Nat, requests : Nat, restarts : Nat]
  BY <1>2, SubmitStepType, FaultType DEF SubmitReturns
<1> QED
  BY <1>1, <1>2

LEMMA MarkType ==
  ASSUME TypeOK, NEW t \in Tasks, NEW p \in Parts, MarkRunning(t, p)
  PROVE  /\ partStatus' \in [Tasks -> [Parts -> PartStatus]]
         /\ modStatus' \in [Tasks -> [Parts -> [Modules -> ModStatus]]]
<1>1. CASE partStatus[t][p] = "none"
  BY <1>1 DEF TypeOK, MarkRunning
<1>2. CASE partStatus[t][p] # "none"
  <2>1. partStatus' = [partStatus EXCEPT ![t][p] = "running"]
    BY <1>2 DEF MarkRunning
  <2>2. modStatus' = [modStatus EXCEPT ![t][p]["portscan"] = "running"]
    BY <1>2 DEF MarkRunning
  <2>3. modStatus[t] \in [Parts -> [Modules -> ModStatus]] /\ modStatus[t][p] \in [Modules -> ModStatus]
    BY DEF TypeOK
  <2>4. [modStatus[t][p] EXCEPT !["portscan"] = "running"] \in [Modules -> ModStatus]
    BY <2>3 DEF ModStatus
  <2> QED
    BY <2>1, <2>2, <2>3, <2>4 DEF TypeOK, PartStatus
<1> QED
  BY <1>1, <1>2

LEMMA XAddType ==
  ASSUME TypeOK, NEW t \in Tasks, NEW p \in Parts, XAddPart(t, p) \/ XAddPartFails(t, p)
  PROVE  /\ sent' \in [Tasks -> [Parts -> Nat]]
         /\ XAddPart(t, p) => used' \in [faults : Nat, crashes : Nat, requests : Nat, restarts : Nat]
<1>0. sent \in [Tasks -> [Parts -> Nat]] /\ used \in [faults : Nat, crashes : Nat, requests : Nat, restarts : Nat]
  BY DEF TypeOK
<1>1. ASSUME NEW n \in 1..2, AddEntries(t, p, n) PROVE sent' \in [Tasks -> [Parts -> Nat]]
  <2>1. sent' = [sent EXCEPT ![t][p] = sent[t][p] + n] /\ sent[t][p] + n \in Nat
    BY <1>0, <1>1 DEF AddEntries
  <2> QED
    BY <1>0, <2>1, CellType
<1>2. XAddPart(t, p) => Succeeds \/ Fails
  BY DEF XAddPart, Resends
<1> QED
  BY <1>0, <1>1, <1>2, FaultType DEF XAddPart, XAddPartFails

LEMMA InsertType ==
  ASSUME TypeOK, NEW n \in 0..MaxParts, InsertTask(n)
  PROVE  /\ issued' \in 0..MaxTasks
         /\ status' \in [Tasks -> TaskStatus \cup {"none"}]
         /\ sub' \in [Tasks -> Submit]
         /\ abandoned' \subseteq Tasks
         /\ used' \in [faults : Nat, crashes : Nat, requests : Nat, restarts : Nat]
<1> USE ConstantTypes, RecordTypes, FaultType DEF TypeOK, InsertTask
<1>1. issued' \in 0..MaxTasks /\ issued + 1 \in Tasks
  BY DEF Tasks
<1>2. status' \in [Tasks -> TaskStatus \cup {"none"}]
  BY DEF TaskStatus
<1>3. sub' \in [Tasks -> Submit]
  <2>1. StartSubmit(n) \in Submit
    OBVIOUS
  <2>2. sub' = sub \/ sub' = [sub EXCEPT ![issued + 1] = StartSubmit(n)]
    OBVIOUS
  <2> QED
    BY <2>1, <2>2, <1>1
<1>4. abandoned' \subseteq Tasks
  BY <1>1
<1>5. used' \in [faults : Nat, crashes : Nat, requests : Nat, restarts : Nat]
  <2>1. Succeeds \/ Fails
    OBVIOUS
  <2> QED
    BY <2>1
<1> QED
  BY <1>1, <1>2, <1>3, <1>4, <1>5

(* The loop of SubmitTask stays inside the batches it made, and only       *)
(* control requests publish and write.  TypeOK is inductive only together  *)
(* with these.                                                             *)
LoopBound == \A t \in Tasks : sub[t].pc \in {"xadd", "mark"} => sub[t].next \in 1..sub[t].plan
ControlShape == \A r \in Slots : req[r].pc \in {"publish", "write"} => req[r].op \in ControlOps
TypeInv == TypeOK /\ LoopBound /\ ControlShape

LEMMA SubmitPartType ==
  ASSUME TypeInv, NEW t \in Tasks, sub[t].pc \in {"xadd", "mark"}
  PROVE  sub[t].next \in Parts /\ sub[t].next + 1 \in 1..MaxParts + 1
<1>1. sub[t].next \in 1..sub[t].plan
  BY DEF TypeInv, LoopBound
<1>2. sub[t].plan \in 0..MaxParts
  BY DEF TypeInv, TypeOK, Submit
<1> QED
  BY <1>1, <1>2, ConstantTypes DEF Parts

LEMMA SubmitType == ASSUME TypeInv, NEW t \in Tasks, SubmitStep(t) PROVE TypeOK'
<1> USE ConstantTypes DEF TypeOK, TypeInv
<1>1. CASE Probe(t)
  <2>1. PICK n \in AliveParts(t) :
           sub' = [sub EXCEPT ![t] = [@ EXCEPT !.pc = "recheck", !.plan = n]]
    BY <1>1 DEF Probe
  <2>2. sub[t] \in Submit /\ n \in 0..MaxParts
    <3>1. sub[t] \in Submit /\ sub[t].up \in 0..MaxParts
      BY DEF Submit
    <3> QED
      BY <3>1 DEF AliveParts
  <2>3. [sub[t] EXCEPT !.pc = "recheck", !.plan = n] \in Submit
    BY <2>2 DEF Submit, SubmitSteps
  <2>4. sub' \in [Tasks -> Submit]
    BY <2>1, <2>3
  <2> QED
    BY <1>1, <2>4 DEF Probe, db, stream
<1>2. CASE SubmitRecheck(t)
  BY <1>2, ReturnType DEF SubmitRecheck, SubmitSteps, db, stream
<1>3. CASE SubmitSave(t)
  <2>1. status' \in [Tasks -> TaskStatus \cup {"none"}]
    BY <1>3 DEF SubmitSave, SaveStatus, TaskStatus
  <2> QED
    BY <1>3, <2>1, ReturnType DEF SubmitSave, SubmitSteps, parts, stream
<1>4. CASE SubmitRows(t)
  <2>1. ASSUME CreateRows(t)
        PROVE  /\ partStatus' \in [Tasks -> [Parts -> PartStatus]]
               /\ modStatus' \in [Tasks -> [Parts -> [Modules -> ModStatus]]]
    <3>1. [p \in Parts |-> IF p \in NewParts(t) THEN NewPart ELSE partStatus[t][p]]
            \in [Parts -> PartStatus]
      BY DEF NewPart, PartStatus
    <3>2. [p \in Parts |-> IF p \in NewParts(t) THEN InitModuleStatus ELSE modStatus[t][p]]
            \in [Parts -> [Modules -> ModStatus]]
      BY ModuleStatusTypes
    <3> QED
      BY <2>1, <3>1, <3>2 DEF CreateRows
  <2>2. /\ partStatus' \in [Tasks -> [Parts -> PartStatus]]
        /\ modStatus' \in [Tasks -> [Parts -> [Modules -> ModStatus]]]
    BY <1>4, <2>1 DEF SubmitRows
  <2> QED
    BY <1>4, <2>2, ReturnType DEF SubmitRows, SubmitSteps, stream
<1>5. CASE SubmitCheck(t)
  BY <1>5, ReturnType DEF SubmitCheck, SubmitSteps, db, stream
<1>6. CASE SubmitXAdd(t)
  <2>0. sub[t].next \in Parts
    BY <1>6, SubmitPartType DEF SubmitXAdd
  <2>1. CASE XAddPart(t, sub[t].next) /\ sub' = [sub EXCEPT ![t].pc = "mark"]
    <3>1. sub' \in [Tasks -> Submit]
      BY <2>1, SubmitStepType DEF SubmitSteps
    <3> QED
      BY <1>6, <2>0, <2>1, <3>1, XAddType DEF SubmitXAdd, db
  <2>2. CASE XAddPartFails(t, sub[t].next) /\ SubmitErrors(t)
    <3>1. sent' \in [Tasks -> [Parts -> Nat]]
      BY <2>0, <2>2, XAddType
    <3> QED
      BY <1>6, <2>2, <3>1, ReturnType DEF SubmitXAdd, db
  <2> QED
    BY <1>6, <2>1, <2>2 DEF SubmitXAdd
<1>7. CASE SubmitMark(t)
  <2>1. sub[t].next \in Parts
    BY <1>7, SubmitPartType DEF SubmitMark
  <2>2. /\ partStatus' \in [Tasks -> [Parts -> PartStatus]]
        /\ modStatus' \in [Tasks -> [Parts -> [Modules -> ModStatus]]]
    BY <1>7, <2>1, MarkType DEF SubmitMark
  <2>3. [sub[t] EXCEPT !.pc = "check", !.next = sub[t].next + 1] \in Submit
    <3>1. sub[t].next + 1 \in 1..MaxParts + 1
      BY <1>7, SubmitPartType DEF SubmitMark
    <3>2. sub[t] \in Submit
      OBVIOUS
    <3> QED
      BY <3>1, <3>2 DEF Submit, SubmitSteps
  <2>4. CASE SubmitErrors(t)
    BY <1>7, <2>2, <2>4, ReturnType DEF SubmitMark, stream
  <2>5. CASE Succeeds /\ sub' = [sub EXCEPT ![t] = [@ EXCEPT !.pc = "check", !.next = sub[t].next + 1]]
    <3>1. sub' \in [Tasks -> Submit]
      BY <2>3, <2>5
    <3> QED
      BY <1>7, <2>2, <2>5, <3>1, FaultType DEF SubmitMark, stream
  <2> QED
    BY <1>7, <2>4, <2>5 DEF SubmitMark, NextPart
<1>8. CASE SubmitFinish(t)
  BY <1>8, SubmitStepType DEF SubmitFinish, db, stream
<1>9. CASE SubmitFail(t)
  <2>1. status' \in [Tasks -> TaskStatus \cup {"none"}]
    BY <1>9 DEF SubmitFail, SetStatus, TaskStatus
  <2>2. sub' \in [Tasks -> Submit]
    BY <1>9, SubmitStepType DEF SubmitFail
  <2>3. abandoned' \subseteq Tasks
    BY <1>9 DEF SubmitFail
  <2> QED
    BY <1>9, <2>1, <2>2, <2>3, FaultType DEF SubmitFail, parts, stream
<1> QED
  BY <1>1, <1>2, <1>3, <1>4, <1>5, <1>6, <1>7, <1>8, <1>9 DEF SubmitStep

LEMMA RequestType == ASSUME TypeInv, NEW r \in Slots, RequestStep(r) PROVE TypeOK'
<1> DEFINE t == req[r].task
<1>0. /\ req \in [Slots -> Request]
      /\ req[r] \in Request
      /\ t \in Tasks
      /\ req[r].todo \subseteq Parts /\ req[r].cur \in Parts /\ req[r].dispatched \in Nat
  BY DEF TypeInv, TypeOK, Request
<1> DEFINE RequestTyped == req' \in [Slots -> Request]
<1>1. CASE PublishControl(r)
  <2>1. control' \in [Tasks -> Seq(ControlOps)]
    <3>1. req[r].op \in ControlOps /\ control \in [Tasks -> Seq(ControlOps)]
      BY <1>1 DEF PublishControl, ControlShape, TypeInv, TypeOK
    <3>2. /\ Append(control[t], req[r].op) \in Seq(ControlOps)
          /\ Append(Append(control[t], req[r].op), req[r].op) \in Seq(ControlOps)
      BY <1>0, <3>1
    <3>3. \/ control' = control
          \/ control' = [control EXCEPT ![t] = Append(@, req[r].op)]
          \/ control' = [control EXCEPT ![t] = Append(Append(@, req[r].op), req[r].op)]
      BY <1>1 DEF PublishControl, Announce, AnnounceTwice
    <3> QED
      BY <1>0, <3>1, <3>2, <3>3
  <2>2. RequestTyped
    BY <1>1, <1>0, RequestStepType DEF PublishControl, RequestSteps, TypeInv, TypeOK
  <2> QED
    BY <1>1, <2>1, <2>2, FaultType DEF PublishControl, db, stream, TypeInv, TypeOK
<1>2. CASE ControlWrite(r)
  <2>1. status' \in [Tasks -> TaskStatus \cup {"none"}]
    BY <1>0, <1>2, ControlTargetType, SetStatusType DEF ControlWrite, ControlShape, TypeInv, TypeOK
  <2> QED
    BY <1>2, <2>1, RequestStepType, FaultType DEF ControlWrite, parts, stream, TypeInv, TypeOK
<1>3. CASE DeleteRows(r)
  <2>1. status' \in [Tasks -> TaskStatus \cup {"none"}]
    BY <1>0, <1>3 DEF DeleteRows, TypeInv, TypeOK
  <2>2. partStatus' \in [Tasks -> [Parts -> PartStatus]]
    <3>1. [p \in Parts |-> "none"] \in [Parts -> PartStatus]
      BY DEF PartStatus
    <3> QED
      BY <1>0, <1>3, <3>1 DEF DeleteRows, parts, TypeInv, TypeOK
  <2>3. modStatus' \in [Tasks -> [Parts -> [Modules -> ModStatus]]]
    <3>1. [p \in Parts |-> NoModuleStatus] \in [Parts -> [Modules -> ModStatus]]
      BY ModuleStatusTypes
    <3> QED
      BY <1>0, <1>3, <3>1 DEF DeleteRows, parts, TypeInv, TypeOK
  <2>4. results' \in [Tasks -> SUBSET Parts]
    BY <1>0, <1>3 DEF DeleteRows, parts, TypeInv, TypeOK
  <2> QED
    BY <1>3, <2>1, <2>2, <2>3, <2>4, RequestStepType, FaultType DEF DeleteRows, stream, TypeInv, TypeOK
<1>4. CASE RestartCopy(r)
  <2>1. CASE \E n \in 0..MaxParts : InsertTask(n)
    BY <1>4, <2>1, InsertType, RequestStepType DEF RestartCopy, parts, stream, TypeInv, TypeOK
  <2>2. CASE Fails /\ UNCHANGED <<issued, status, sub, abandoned>>
    BY <1>4, <2>2, FaultType, RequestStepType DEF RestartCopy, parts, stream, TypeInv, TypeOK
  <2> QED
    BY <1>4, <2>1, <2>2 DEF RestartCopy, TypeInv, TypeOK
<1>5. CASE RestartWrite(r)
  <2>1. status' \in [Tasks -> TaskStatus \cup {"none"}]
    BY <1>0, <1>5, SetStatusType DEF RestartWrite, TaskStatus, TypeInv, TypeOK
  <2>2. RequestTyped
    BY <1>0, <1>5, RequestStepType DEF RestartWrite, RequestSteps, RestartSteps
  <2>3. abandoned' \subseteq Tasks
    BY <1>0, <1>5 DEF RestartWrite, TypeInv, TypeOK
  <2> QED
    BY <1>5, <2>1, <2>2, <2>3, FaultType DEF RestartWrite, parts, stream, TypeInv, TypeOK
<1>6. CASE ResetParts(r)
  <2>1. ASSUME ResetRows(t)
        PROVE  /\ partStatus' \in [Tasks -> [Parts -> PartStatus]]
               /\ modStatus' \in [Tasks -> [Parts -> [Modules -> ModStatus]]]
               /\ results' \in [Tasks -> SUBSET Parts]
    <3>1. [p \in Parts |-> IF p \in Rows(t) THEN "pending" ELSE "none"] \in [Parts -> PartStatus]
      BY DEF PartStatus
    <3>2. [p \in Parts |-> IF p \in Rows(t) THEN InitModuleStatus ELSE modStatus[t][p]]
            \in [Parts -> [Modules -> ModStatus]]
      BY <1>0, ModuleStatusTypes DEF TypeInv, TypeOK
    <3> QED
      BY <1>0, <2>1, <3>1, <3>2 DEF ResetRows, TypeInv, TypeOK
  <2>2. /\ partStatus' \in [Tasks -> [Parts -> PartStatus]]
        /\ modStatus' \in [Tasks -> [Parts -> [Modules -> ModStatus]]]
        /\ results' \in [Tasks -> SUBSET Parts]
    BY <1>6, <2>1 DEF ResetParts, parts, TypeInv, TypeOK
  <2>3. RequestTyped
    BY <1>0, <1>6, RequestStepType DEF ResetParts, RequestSteps, RestartSteps
  <2>4. abandoned' \subseteq Tasks
    BY <1>0, <1>6 DEF ResetParts, TypeInv, TypeOK
  <2> QED
    BY <1>6, <2>2, <2>3, <2>4, FaultType DEF ResetParts, stream, TypeInv, TypeOK
<1>7. CASE RepublishList(r)
  <2>1. [req[r] EXCEPT !.pc = "repub", !.todo = Rows(t)] \in Request
    BY <1>0 DEF Request, Rows, RequestSteps, RestartSteps
  <2>2. RequestTyped
    BY <1>0, <1>7, <2>1, RequestStepType DEF RepublishList, RequestSteps, RestartSteps
  <2> QED
    BY <1>7, <2>2, FaultType DEF RepublishList, db, stream, TypeInv, TypeOK
<1>8. CASE RepublishXAdd(r)
  <2>1. PICK p \in req[r].todo :
           \/ XAddPart(t, p) /\ req' = [req EXCEPT ![r] = [@ EXCEPT !.pc = "remark", !.cur = p]]
           \/ XAddPartFails(t, p) /\ Fails /\ Goto(r, "refail")
    BY <1>8 DEF RepublishXAdd
  <2>2. p \in Parts
    BY <1>0 DEF Request
  <2>3. /\ sent' \in [Tasks -> [Parts -> Nat]]
        /\ used' \in [faults : Nat, crashes : Nat, requests : Nat, restarts : Nat]
    <3>1. TypeOK
      BY DEF TypeInv
    <3>2. Fails => used' \in [faults : Nat, crashes : Nat, requests : Nat, restarts : Nat]
      BY <3>1, FaultType DEF TypeOK
    <3> QED
      BY <1>0, <2>1, <2>2, <3>1, <3>2, XAddType
  <2>4. [req[r] EXCEPT !.pc = "remark", !.cur = p] \in Request
    BY <1>0, <2>2 DEF Request, RequestSteps, RestartSteps
  <2>5. RequestTyped
    BY <1>0, <2>1, <2>4, RequestStepType DEF RequestSteps, RestartSteps
  <2> QED
    BY <1>8, <2>3, <2>5 DEF RepublishXAdd, db, TypeInv, TypeOK
<1>9. CASE RepublishMark(r)
  <2>1. req[r].cur \in Parts
    BY <1>0 DEF Request
  <2>2. /\ partStatus' \in [Tasks -> [Parts -> PartStatus]]
        /\ modStatus' \in [Tasks -> [Parts -> [Modules -> ModStatus]]]
    BY <1>0, <1>9, <2>1, MarkType DEF RepublishMark, TypeInv, TypeOK
  <2> DEFINE marked == [req[r] EXCEPT !.pc = "repub", !.todo = req[r].todo \ {req[r].cur},
                                    !.dispatched = req[r].dispatched + 1]
  <2>3. marked \in Request
    <3>1. req[r].todo \ {req[r].cur} \in SUBSET Parts /\ req[r].dispatched + 1 \in Nat
      BY <1>0
    <3>2. "repub" \in RequestSteps
      BY DEF RequestSteps, RestartSteps
    <3> QED
      BY <1>0, <3>1, <3>2 DEF Request
  <2>4. RequestTyped
    <3>1. PartDone(r) \/ Goto(r, "refail")
      BY <1>9 DEF RepublishMark
    <3>2. CASE PartDone(r)
      BY <1>0, <2>3, <3>2 DEF PartDone
    <3>3. CASE Goto(r, "refail")
      BY <1>0, <3>3, RequestStepType DEF RequestSteps, RestartSteps
    <3> QED
      BY <3>1, <3>2, <3>3
  <2> QED
    BY <1>9, <2>2, <2>4, FaultType DEF RepublishMark, stream, TypeInv, TypeOK
<1>10. CASE RestartFinish(r)
  <2>1. RestartOutcome(r) \in TaskStatus
    BY DEF RestartOutcome, TaskStatus
  <2>2. status' \in [Tasks -> TaskStatus \cup {"none"}]
    BY <1>0, <1>10, <2>1, SetStatusType DEF RestartFinish, TypeInv, TypeOK
  <2>3. abandoned' \subseteq Tasks
    BY <1>0, <1>10 DEF RestartFinish, TypeInv, TypeOK
  <2> QED
    BY <1>10, <2>2, <2>3, RequestStepType, FaultType DEF RestartFinish, parts, stream, TypeInv, TypeOK
<1> QED
  BY <1>1, <1>2, <1>3, <1>4, <1>5, <1>6, <1>7, <1>8, <1>9, <1>10 DEF RequestStep

LEMMA NextType == ASSUME TypeInv, [Next]_vars PROVE TypeOK'
<1>0. /\ sub \in [Tasks -> Submit]
      /\ req \in [Slots -> Request]
      /\ modStatus \in [Tasks -> [Parts -> [Modules -> ModStatus]]]
      /\ partStatus \in [Tasks -> [Parts -> PartStatus]]
      /\ taken \in [Tasks -> [Parts -> Nat]]
      /\ used \in [faults : Nat, crashes : Nat, requests : Nat, restarts : Nat]
  BY DEF TypeInv, TypeOK
<1>1. CASE Create
  BY <1>0, <1>1, InsertType DEF Create, parts, stream, TypeInv, TypeOK
<1>2. ASSUME NEW t \in Tasks, SubmitStep(t) PROVE TypeOK'
  BY <1>2, SubmitType
<1>3. ASSUME NEW t \in Tasks, Expire(t) PROVE TypeOK'
  <2>0. sub[t] \in Submit
    BY <1>0
  <2>1. [sub[t] EXCEPT !.expired = TRUE] \in Submit
    BY <2>0 DEF Submit
  <2>2. sub' \in [Tasks -> Submit]
    BY <1>0, <1>3, <2>1 DEF Expire
  <2> QED
    BY <1>0, <1>3, <2>2 DEF Expire, db, stream, TypeInv, TypeOK
<1>4. ASSUME NEW r \in Slots, RequestStep(r) PROVE TypeOK'
  BY <1>4, RequestType
<1>5. ASSUME NEW r \in Slots, NEW t \in Tasks, NEW op \in Ops,
             NEW step \in {"publish", "delete", "copy", "restarting"}, Accept(r, t, op, step)
      PROVE  TypeOK'
  <2>1. [IdleReq EXCEPT !.op = op, !.task = t, !.pc = step] \in Request
    BY RecordTypes DEF Request, RequestSteps, RestartSteps
  <2>2. req' \in [Slots -> Request]
    BY <1>0, <1>5, <2>1 DEF Accept
  <2>3. used' \in [faults : Nat, crashes : Nat, requests : Nat, restarts : Nat]
    <3>1. /\ used.restarts \in Nat
          /\ (IF op = "restart" THEN used.restarts + 1 ELSE used.restarts) \in Nat
      BY <1>0
    <3> QED
      BY <1>0, <1>5, <3>1, BoundType DEF Accept
  <2> QED
    BY <1>0, <1>5, <2>2, <2>3 DEF Accept, db, stream, TypeInv, TypeOK
<1>6. ASSUME NEW r \in Slots, NEW t \in Tasks, NEW op \in Ops, ControlRead(r, t, op) PROVE TypeOK'
  BY <1>0, <1>5, <1>6 DEF ControlRead, TypeInv, TypeOK
<1>7. ASSUME NEW r \in Slots, NEW t \in Tasks, DeleteRead(r, t) \/ RestartRead(r, t) PROVE TypeOK'
  BY <1>0, <1>5, <1>7 DEF DeleteRead, RestartRead, Accept, TypeInv, TypeOK
<1>8. ASSUME NEW t \in Tasks, NEW p \in Parts, WorkerScan(t, p) PROVE TypeOK'
  <2>1. partStatus' \in [Tasks -> [Parts -> PartStatus]]
    <3>1. "completed" \in PartStatus
      BY DEF PartStatus
    <3>2. \/ partStatus' = partStatus
          \/ partStatus' = [partStatus EXCEPT ![t][p] = "completed"]
      BY <1>0, <1>8 DEF WorkerScan
    <3>3. [partStatus EXCEPT ![t][p] = "completed"] \in [Tasks -> [Parts -> PartStatus]]
      BY <1>0, <3>1, CellType
    <3> QED
      BY <1>0, <3>2, <3>3
  <2>2. [m \in Modules |-> IF modStatus[t][p][m] = "NULL" THEN "NULL" ELSE "completed"]
           \in [Modules -> ModStatus]
    BY DEF ModStatus
  <2>3. modStatus' \in [Tasks -> [Parts -> [Modules -> ModStatus]]]
    <3> DEFINE finished == [m \in Modules |-> IF modStatus[t][p][m] = "NULL" THEN "NULL" ELSE "completed"]
    <3>1. modStatus' = modStatus \/ modStatus' = [modStatus EXCEPT ![t][p] = finished]
      BY <1>0, <1>8 DEF WorkerScan
    <3>2. finished \in [Modules -> ModStatus]
      BY <2>2
    <3> HIDE DEF finished
    <3>3. [modStatus EXCEPT ![t][p] = finished] \in [Tasks -> [Parts -> [Modules -> ModStatus]]]
      BY <1>0, <3>2, CellType
    <3> QED
      BY <1>0, <3>1, <3>3
  <2>4. taken' \in [Tasks -> [Parts -> Nat]]
    BY <1>0, <1>8 DEF WorkerScan
  <2>5. results' \in [Tasks -> SUBSET Parts]
    BY <1>0, <1>8 DEF WorkerScan, TypeInv, TypeOK
  <2> QED
    BY <1>0, <1>8, <2>1, <2>3, <2>4, <2>5 DEF WorkerScan, TypeInv, TypeOK
<1>13. ASSUME NEW t \in Tasks, NEW p \in Parts, WorkerFail(t, p) PROVE TypeOK'
  <2>1. partStatus' \in [Tasks -> [Parts -> PartStatus]]
    <3>1. "failed" \in PartStatus
      BY DEF PartStatus
    <3>2. \/ partStatus' = partStatus
          \/ partStatus' = [partStatus EXCEPT ![t][p] = "failed"]
      BY <1>0, <1>13 DEF WorkerFail
    <3>3. [partStatus EXCEPT ![t][p] = "failed"] \in [Tasks -> [Parts -> PartStatus]]
      BY <1>0, <3>1, CellType
    <3> QED
      BY <1>0, <3>2, <3>3
  <2>2. [m \in Modules |-> IF modStatus[t][p][m] = "NULL" THEN "NULL" ELSE "failed"]
           \in [Modules -> ModStatus]
    BY DEF ModStatus
  <2>3. modStatus' \in [Tasks -> [Parts -> [Modules -> ModStatus]]]
    <3> DEFINE gaveUp == [m \in Modules |-> IF modStatus[t][p][m] = "NULL" THEN "NULL" ELSE "failed"]
    <3>1. modStatus' = modStatus \/ modStatus' = [modStatus EXCEPT ![t][p] = gaveUp]
      BY <1>0, <1>13 DEF WorkerFail
    <3>2. gaveUp \in [Modules -> ModStatus]
      BY <2>2
    <3> HIDE DEF gaveUp
    <3>3. [modStatus EXCEPT ![t][p] = gaveUp] \in [Tasks -> [Parts -> [Modules -> ModStatus]]]
      BY <1>0, <3>2, CellType
    <3> QED
      BY <1>0, <3>1, <3>3
  <2>4. taken' \in [Tasks -> [Parts -> Nat]]
    BY <1>0, <1>13 DEF WorkerFail
  <2> QED
    BY <1>0, <1>13, FaultType, <2>1, <2>3, <2>4 DEF WorkerFail, TypeInv, TypeOK
<1>9. ASSUME NEW t \in Tasks, NEW p \in Parts, WorkerDrop(t, p) PROVE TypeOK'
  <2>1. taken' \in [Tasks -> [Parts -> Nat]]
    BY <1>0, <1>9 DEF WorkerDrop
  <2> QED
    BY <1>0, <1>9, <2>1 DEF WorkerDrop, db, TypeInv, TypeOK
<1>10. ASSUME NEW t \in Tasks, WorkerComplete(t) PROVE TypeOK'
  <2>1. status' \in [Tasks -> TaskStatus \cup {"none"}]
    BY <1>0, <1>10, SetStatusType DEF WorkerComplete, TaskStatus, TypeInv, TypeOK
  <2> QED
    BY <1>0, <1>10, <2>1 DEF WorkerComplete, parts, stream, TypeInv, TypeOK
<1>11. CASE Crash
  <2>1. \A t \in Tasks : [sub[t] EXCEPT !.pc = "failed"] \in Submit
    <3>1. \A t \in Tasks : sub[t] \in Submit
      BY <1>0
    <3> QED
      BY <3>1 DEF Submit
  <2>2. sub' \in [Tasks -> Submit]
    BY <1>0, <1>11, <2>1 DEF Crash
  <2>3. req' \in [Slots -> Request]
    BY <1>0, <1>11, RecordTypes DEF Crash
  <2>4. abandoned' \subseteq Tasks
    <3>1. \A r \in Slots : req[r].task \in Tasks
      BY <1>0 DEF Request
    <3>2. abandoned \subseteq Tasks
      BY DEF TypeInv, TypeOK
    <3> QED
      BY <1>11, <3>1, <3>2 DEF Crash
  <2> QED
    <3>1. used' \in [faults : Nat, crashes : Nat, requests : Nat, restarts : Nat]
      BY <1>0, <1>11, BoundType, 0 \in Nat DEF Crash
    <3> QED
      BY <1>0, <1>11, <2>2, <2>3, <2>4, <3>1 DEF Crash, db, stream, TypeInv, TypeOK
<1>12. CASE UNCHANGED vars
  BY <1>0, <1>12 DEF vars, TypeInv, TypeOK
<1> QED
  BY <1>1, <1>2, <1>3, <1>4, <1>6, <1>7, <1>8, <1>9, <1>10, <1>11, <1>12, <1>13 DEF Next

LEMMA NextLoopBound == ASSUME TypeInv, [Next]_vars PROVE LoopBound'
<1>0. sub \in [Tasks -> Submit] /\ issued \in 0..MaxTasks /\ LoopBound
  BY DEF TypeInv, TypeOK
<1>1. CASE UNCHANGED sub
  BY <1>0, <1>1 DEF LoopBound
<1>2. ASSUME NEW n \in 0..MaxParts, InsertTask(n) PROVE LoopBound'
  BY <1>0, <1>2, ConstantTypes DEF InsertTask, StartSubmit, LoopBound, Tasks
<1>3. ASSUME NEW t \in Tasks, SubmitStep(t) PROVE LoopBound'
  <2>1. CASE SubmitCheck(t)
    <3>1. sub[t].next \in 1..MaxParts + 1 /\ sub[t].plan \in 0..MaxParts /\ sub[t].next <= sub[t].plan
      BY <1>0, <2>1 DEF SubmitCheck, Submit
    <3>2. sub[t].next \in 1..sub[t].plan
      BY <3>1, ConstantTypes
    <3>3. \E step : sub' = [sub EXCEPT ![t].pc = step]
      BY <2>1 DEF SubmitCheck, SubmitReturns, SubmitErrors
    <3> QED
      BY <1>0, <3>2, <3>3 DEF LoopBound, Submit
  <2>2. CASE SubmitXAdd(t)
    BY <1>0, <2>2 DEF SubmitXAdd, SubmitReturns, SubmitErrors, LoopBound, Submit
  <2>3. CASE Probe(t)
    BY <1>0, <2>3 DEF Probe, LoopBound, Submit
  <2>4. CASE SubmitMark(t)
    BY <1>0, <2>4 DEF SubmitMark, SubmitErrors, LoopBound, Submit
  <2>5. CASE SubmitRecheck(t) \/ SubmitSave(t) \/ SubmitRows(t) \/ SubmitFinish(t) \/ SubmitFail(t)
    <3>1. \E step : step \notin {"xadd", "mark"} /\ sub' = [sub EXCEPT ![t].pc = step]
      BY <2>5 DEF SubmitRecheck, SubmitSave, SubmitRows, SubmitFinish, SubmitFail, SubmitReturns, SubmitErrors
    <3> QED
      BY <1>0, <3>1 DEF LoopBound, Submit
  <2> QED
    BY <1>3, <2>1, <2>2, <2>3, <2>4, <2>5 DEF SubmitStep
<1>4. ASSUME NEW t \in Tasks, Expire(t) PROVE LoopBound'
  BY <1>0, <1>4 DEF Expire, LoopBound, Submit
<1>5. CASE Crash
  BY <1>0, <1>5 DEF Crash, LoopBound, Submit
<1>6. CASE UNCHANGED vars
  BY <1>1, <1>6 DEF vars
<1>7. ASSUME NEW r \in Slots, RequestStep(r) PROVE LoopBound'
  <2>1. UNCHANGED sub \/ \E n \in 0..MaxParts : InsertTask(n)
    BY <1>7 DEF RequestStep, PublishControl, ControlWrite, DeleteRows, RestartCopy, RestartWrite,
                ResetParts, RepublishList, RepublishXAdd, RepublishMark, RestartFinish
  <2> QED
    BY <1>1, <1>2, <2>1
<1>8. ASSUME NEW r \in Slots, NEW t \in Tasks,
             (\E op \in Ops : ControlRead(r, t, op)) \/ DeleteRead(r, t) \/ RestartRead(r, t)
      PROVE  LoopBound'
  BY <1>1, <1>8 DEF ControlRead, DeleteRead, RestartRead, Accept
<1>9. ASSUME NEW t \in Tasks, NEW p \in Parts,
             WorkerScan(t, p) \/ WorkerFail(t, p) \/ WorkerDrop(t, p) \/ WorkerComplete(t)
      PROVE  LoopBound'
  BY <1>1, <1>9 DEF WorkerScan, WorkerFail, WorkerDrop, WorkerComplete
<1>10. CASE Create
  BY <1>2, <1>10 DEF Create
<1> QED
  BY <1>2, <1>3, <1>4, <1>5, <1>6, <1>7, <1>8, <1>9, <1>10, ConstantTypes DEF Next

LEMMA NextControlShape == ASSUME TypeInv, [Next]_vars PROVE ControlShape'
<1>0. req \in [Slots -> Request] /\ ControlShape
  BY DEF TypeInv, TypeOK
<1>1. CASE UNCHANGED req
  BY <1>0, <1>1 DEF ControlShape
<1>2. ASSUME NEW r \in Slots, Finish(r) PROVE ControlShape'
  BY <1>0, <1>2 DEF Finish, IdleReq, ControlShape
<1>3. ASSUME NEW r \in Slots, NEW step, Goto(r, step),
             step \in {"publish", "write"} => req[r].op \in ControlOps
      PROVE  ControlShape'
  BY <1>0, <1>3 DEF Goto, ControlShape, Request
<1>4. ASSUME NEW r \in Slots, NEW t \in Tasks, NEW op, NEW step, Accept(r, t, op, step),
             step \in {"publish", "write"} => op \in ControlOps
      PROVE  ControlShape'
  BY <1>0, <1>4 DEF Accept, IdleReq, ControlShape, Request
<1>5. ASSUME NEW r \in Slots, RequestStep(r) PROVE ControlShape'
  <2>1. CASE PublishControl(r)
    BY <1>0, <1>2, <1>3, <2>1 DEF PublishControl, ControlShape
  <2>2. CASE ControlWrite(r) \/ DeleteRows(r) \/ RestartCopy(r) \/ RestartFinish(r)
    BY <1>2, <2>2 DEF ControlWrite, DeleteRows, RestartCopy, RestartFinish
  <2>3. CASE RestartWrite(r) \/ ResetParts(r)
    BY <1>2, <1>3, <2>3 DEF RestartWrite, ResetParts
  <2>4. CASE RepublishList(r)
    BY <1>0, <1>3, <2>4 DEF RepublishList, ControlShape, Request
  <2>5. CASE RepublishXAdd(r)
    BY <1>0, <1>3, <2>5 DEF RepublishXAdd, ControlShape, Request
  <2>6. CASE RepublishMark(r)
    BY <1>0, <1>3, <2>6 DEF RepublishMark, PartDone, ControlShape, Request
  <2> QED
    BY <1>5, <2>1, <2>2, <2>3, <2>4, <2>5, <2>6 DEF RequestStep
<1>6. ASSUME NEW r \in Slots, NEW t \in Tasks,
             (\E op \in Ops : ControlRead(r, t, op)) \/ DeleteRead(r, t) \/ RestartRead(r, t)
      PROVE  ControlShape'
  <2>1. CASE \E op \in Ops : ControlRead(r, t, op)
    BY <1>4, <2>1 DEF ControlRead
  <2>2. CASE DeleteRead(r, t) \/ RestartRead(r, t)
    BY <1>4, <2>2 DEF DeleteRead, RestartRead
  <2> QED
    BY <1>6, <2>1, <2>2
<1>7. CASE Crash
  BY <1>7 DEF Crash, IdleReq, ControlShape
<1>8. ASSUME NEW t \in Tasks, NEW p \in Parts,
             \/ WorkerScan(t, p) \/ WorkerFail(t, p) \/ WorkerDrop(t, p) \/ WorkerComplete(t)
             \/ SubmitStep(t) \/ Expire(t)
      PROVE  ControlShape'
  <2>1. UNCHANGED req
    BY <1>8 DEF WorkerScan, WorkerFail, WorkerDrop, WorkerComplete, SubmitStep, Expire, Probe, SubmitRecheck, SubmitSave,
                SubmitRows, SubmitCheck, SubmitXAdd, SubmitMark, SubmitFinish, SubmitFail
  <2> QED
    BY <1>1, <2>1
<1>9. CASE Create \/ UNCHANGED vars
  BY <1>1, <1>9 DEF Create, vars
<1> QED
  BY <1>5, <1>6, <1>7, <1>8, <1>9, ConstantTypes DEF Next

\* Every reachable state has the types the schema and the handlers give it.
THEOREM TypeCorrect == Spec => []TypeOK
<1>1. Init => TypeInv
  BY InitType DEF TypeInv, LoopBound, ControlShape, Init, NoSubmit, IdleReq
<1>2. TypeInv /\ [Next]_vars => TypeInv'
  BY NextType, NextLoopBound, NextControlShape DEF TypeInv
<1> QED
  BY <1>1, <1>2, PTL DEF Spec, TypeInv
=============================================================================
