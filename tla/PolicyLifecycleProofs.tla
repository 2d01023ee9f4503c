------------------------ MODULE PolicyLifecycleProofs ------------------------
(* Proofs of the properties of PolicyLifecycle.                            *)
EXTENDS PolicyProperties, TLAPS

UsedType == [clock : Nat, faults : Nat, crashes : Nat, requests : Nat]
Shape    == TypeOK /\ RowShape /\ RequestShape

LEMMA ConstantFacts ==
  /\ "portscan" \in Modules
  /\ \A c \in Configs : c.ns \in Namespaces /\ c.mods \subseteq Modules /\ c # NoConfig
BY ModuleAssumption, ConfigAssumption, SentinelAssumption DEF Namespaces

LEMMA CallsTyped ==
  ASSUME NEW cfg \in Configs
  PROVE  /\ DeployCalls(cfg) \subseteq Call
         /\ DisableCalls(cfg) \subseteq Call
         /\ DeleteCalls(cfg) \subseteq Call
<1>1. Surplus(cfg) \subseteq Modules /\ Owned(cfg) = Modules /\ cfg.mods \subseteq Modules
  BY ConstantFacts DEF Surplus, Owned
<1>2. \A on \in SUBSET Modules : \A do \in {"group", "delstream", "configmap", "deploy", "undeploy",
        "unmap", "scale0", "scaleup"} : Steps(do, on) \subseteq Call
  BY DEF Steps, Call
<1>3. Once("control") \subseteq Call /\ Once("delkeys") \subseteq Call
  BY DEF Once, Call
<1>4. QED
  BY <1>1, <1>2, <1>3 DEF DeployCalls, DisableCalls, DeleteCalls

LEMMA RequestCalls ==
  ASSUME NEW q \in Request, WellFormed(q), q.pc = "call"
  PROVE  \A c \in q.calls : c \in Call /\ c \in Planned(q)
BY DEF WellFormed, Request

\* A request that starts, a step of it, and its end leave the shape of the others.
LEMMA RequestStep ==
  ASSUME Shape, NEW r \in Slots, NEW q \in Request, WellFormed(q),
         req' = [req EXCEPT ![r] = q]
  PROVE  req' \in [Slots -> Request] /\ RequestShape'
BY DEF Shape, TypeOK, RequestShape

LEMMA FinishStep ==
  ASSUME Shape, NEW r \in Slots, Finish(r)
  PROVE  req' \in [Slots -> Request] /\ RequestShape'
<1>1. IdleReq \in Request /\ WellFormed(IdleReq)
  BY DEF IdleReq, Request, Row, NoRow, NoConfig, WellFormed, ResourceOps
<1>2. QED
  BY <1>1, RequestStep DEF Finish

LEMMA UsedTyped ==
  ASSUME used \in UsedType, Succeeds \/ Fails \/ Counted \/ NoActiveTask
  PROVE  used' \in UsedType
<1>1. CASE Succeeds
  BY <1>1 DEF UsedType, Succeeds
<1>2. CASE Fails
  BY <1>2 DEF UsedType, Fails
<1>3. CASE Counted
  BY <1>3 DEF UsedType, Counted
<1>4. CASE used' = [used EXCEPT !.faults = @ + 1, !.requests = @ + 1]
  <2>1. used.faults + 1 \in Nat /\ used.requests + 1 \in Nat
    BY DEF UsedType
  <2>2. \A a, b \in Nat : [used EXCEPT !.faults = a, !.requests = b] \in UsedType
    BY DEF UsedType
  <2>3. QED
    BY <1>4, <2>1, <2>2
<1>5. QED
  BY <1>1, <1>2, <1>3, <1>4 DEF NoActiveTask

LEMMA AcceptStep ==
  ASSUME Shape, NEW r \in Slots, NEW q, q \in Request, WellFormed(q), Accept(r, q),
         Counted \/ NoActiveTask
  PROVE  Shape'
<1>1. req' \in [Slots -> Request] /\ RequestShape'
  BY RequestStep DEF Accept
<1>2. used' \in UsedType
  BY UsedTyped DEF Shape, TypeOK, UsedType
<1>3. settled' \in Configs \cup {NoConfig, Off, Leaving}
  BY DEF Accept, Shape, TypeOK
<1>4. TypeOK'
  BY <1>1, <1>2, <1>3 DEF Accept, Shape, TypeOK, UsedType, redis, cluster
<1>5. RowShape'
  BY DEF Accept, Shape, RowShape
<1>6. QED
  BY <1>1, <1>4, <1>5 DEF Shape

LEMMA CreateShape == ASSUME Shape, NEW r \in Slots, CreateRead(r) PROVE Shape'
<1>1. PICK cfg \in Configs :
        Accept(r, [IdleReq EXCEPT !.op = "create", !.pc = "save",
                                  !.row = [state |-> "draft", cfg |-> cfg, born |-> 0]])
  BY DEF CreateRead
<1> DEFINE q == [IdleReq EXCEPT !.op = "create", !.pc = "save",
                                !.row = [state |-> "draft", cfg |-> cfg, born |-> 0]]
<1>2. q \in Request /\ WellFormed(q)
  BY <1>1 DEF Accept, IdleReq, Request, Row, WellFormed, ResourceOps
<1>3. QED
  BY <1>1, <1>2, AcceptStep DEF CreateRead

LEMMA UpdateShape == ASSUME Shape, NEW r \in Slots, UpdateRead(r) PROVE Shape'
<1>1. PICK cfg \in Configs :
        Accept(r, [IdleReq EXCEPT !.op = "update", !.pc = "save", !.row = [row EXCEPT !.cfg = cfg]])
  BY DEF UpdateRead
<1> DEFINE q == [IdleReq EXCEPT !.op = "update", !.pc = "save", !.row = [row EXCEPT !.cfg = cfg]]
<1>2. q \in Request /\ WellFormed(q)
  BY <1>1 DEF Accept, IdleReq, Request, Row, WellFormed, ResourceOps, Shape, TypeOK, UpdateRead
<1>3. QED
  BY <1>1, <1>2, AcceptStep DEF UpdateRead

LEMMA EnableShape == ASSUME Shape, NEW r \in Slots, EnableRead(r) PROVE Shape'
<1> DEFINE q == [IdleReq EXCEPT !.op = "enable", !.pc = "call", !.row = row,
                                !.calls = DeployCalls(row.cfg)]
<1>1. row.cfg \in Configs /\ row.state # "none" /\ row \in Row
  BY DEF EnableRead, Shape, RowShape, TypeOK
<1>2. DeployCalls(row.cfg) \subseteq Call
  BY <1>1, CallsTyped
<1>3. q \in Request
  BY <1>1, <1>2 DEF EnableRead, Accept, IdleReq, Request
<1>4. WellFormed(q)
  BY <1>1 DEF WellFormed, IdleReq, ResourceOps, Planned
<1>5. QED
  BY <1>3, <1>4, AcceptStep DEF EnableRead

LEMMA ScaleShape == ASSUME Shape, NEW r \in Slots, ScaleRead(r) PROVE Shape'
<1>1. PICK m \in Modules, to \in {"scale0", "scaleup"} :
        Accept(r, [IdleReq EXCEPT !.op = "scale", !.pc = "call", !.row = row,
                                  !.calls = Steps(to, {m})])
  BY DEF ScaleRead
<1> DEFINE q == [IdleReq EXCEPT !.op = "scale", !.pc = "call", !.row = row, !.calls = Steps(to, {m})]
<1>2. row.cfg \in Configs /\ row.state # "none" /\ row \in Row
  BY DEF ScaleRead, Shape, RowShape, TypeOK
<1>3. Steps(to, {m}) \subseteq Call
  BY DEF Steps, Call
<1>4. Steps(to, {m}) \subseteq Steps("scale0", Modules) \cup Steps("scaleup", Modules)
  BY DEF Steps
<1>5. q \in Request
  BY <1>1, <1>2, <1>3 DEF Accept, IdleReq, Request
<1>6. WellFormed(q)
  BY <1>2, <1>4 DEF WellFormed, IdleReq, ResourceOps, Planned
<1>7. QED
  BY <1>1, <1>5, <1>6, AcceptStep DEF ScaleRead

LEMMA GateReadShape == ASSUME Shape, NEW r \in Slots, GateRead(r) PROVE Shape'
<1>1. PICK op \in {"disable", "delete"} : Accept(r, [IdleReq EXCEPT !.op = op, !.pc = "find"])
  BY DEF GateRead
<1> DEFINE q == [IdleReq EXCEPT !.op = op, !.pc = "find"]
<1>2. q \in Request /\ WellFormed(q)
  BY <1>1 DEF Accept, IdleReq, Request, Row, NoRow, NoConfig, WellFormed, ResourceOps
<1>3. QED
  BY <1>1, <1>2, AcceptStep DEF GateRead

LEMMA NewTaskShape == ASSUME Shape, NEW r \in Slots, NewTaskRead(r) PROVE Shape'
<1> DEFINE q == [IdleReq EXCEPT !.op = "newtask", !.pc = "save", !.row = row]
<1>1. q \in Request /\ WellFormed(q)
  BY DEF NewTaskRead, Accept, IdleReq, Request, Row, WellFormed, ResourceOps, Shape, TypeOK, RowShape
<1>2. QED
  BY <1>1, AcceptStep DEF NewTaskRead

LEMMA RestartShape ==
  ASSUME Shape, NEW r \in Slots, NEW t \in TaskIds, RestartRead(r, t) PROVE Shape'
<1> DEFINE q == [IdleReq EXCEPT !.op = "retask", !.pc = "save", !.row = row, !.task = t]
<1>1. q \in Request /\ WellFormed(q)
  BY DEF RestartRead, Accept, IdleReq, Request, Row, WellFormed, ResourceOps, Shape, TypeOK, RowShape
<1>2. QED
  BY <1>1, AcceptStep DEF RestartRead

LEMMA FindShape == ASSUME Shape, NEW r \in Slots, GateFind(r) PROVE Shape'
<1> DEFINE q == [req[r] EXCEPT !.pc = "call", !.row = row,
                   !.calls = IF req[r].op = "delete" THEN DeleteCalls(row.cfg)
                                                     ELSE DisableCalls(row.cfg)]
<1>1. used' \in UsedType
  BY UsedTyped DEF GateFind, Shape, TypeOK, UsedType
<1>2. ASSUME row.state # "none", req' = [req EXCEPT ![r] = q]
      PROVE  req' \in [Slots -> Request] /\ RequestShape'
  <2>1. row.cfg \in Configs /\ row \in Row
    BY <1>2 DEF Shape, RowShape, TypeOK
  <2>2. req[r] \in Request /\ req[r].op \in {"disable", "delete"}
    BY DEF GateFind, Shape, TypeOK, RequestShape, WellFormed
  <2>3. q.calls \subseteq Call
    BY <2>1, <2>2, CallsTyped DEF Request
  <2>4. q \in Request
    BY <2>1, <2>2, <2>3 DEF Request
  <2>5. WellFormed(q)
    BY <1>2, <2>1, <2>2 DEF WellFormed, ResourceOps, Planned, Request
  <2>6. QED
    BY <1>2, <2>4, <2>5, RequestStep
<1>3. req' \in [Slots -> Request] /\ RequestShape'
  BY <1>2, FinishStep DEF GateFind
<1>4. TypeOK'
  BY <1>1, <1>3 DEF GateFind, Shape, TypeOK, UsedType, redis, cluster
<1>5. RowShape'
  BY DEF GateFind, Shape, RowShape
<1>6. QED
  BY <1>3, <1>4, <1>5 DEF Shape

\* What the calls do to Redis and the cluster.
ResourcesTyped ==
  /\ stream \in [Modules -> {"none", "bare", "group"}]
  /\ control \in BOOLEAN
  /\ unread \subseteq TaskIds
  /\ maps \in [Namespaces -> [Modules -> Configs \cup {NoConfig}]]
  /\ pods \in [Namespaces -> [Modules -> Pods]]

LEMMA PerformTyped ==
  ASSUME ResourcesTyped, NEW c \in Call, NEW n \in Namespaces, NEW cfg \in Configs,
         Perform(c, n, cfg)
  PROVE  ResourcesTyped'
<1> USE DEF ResourcesTyped
<1>1. CASE c.do \in {"control", "delkeys"}
  BY <1>1 DEF Perform, EnsureControl, DeleteKeys, cluster
<1>2. CASE c.do \notin {"control", "delkeys"}
  <2>1. c.m \in Modules
    BY <1>2 DEF Call
  <2>2. CASE EnsureGroup(c.m)
    BY <2>1, <2>2 DEF EnsureGroup, cluster
  <2>3. CASE DeleteStream(c.m)
    BY <2>1, <2>3 DEF DeleteStream, cluster
  <2>4. CASE PutConfigMap(n, c.m, cfg)
    BY <2>1, <2>4 DEF PutConfigMap, redis
  <2>5. CASE DeleteConfigMap(n, c.m)
    BY <2>1, <2>5 DEF DeleteConfigMap, redis
  <2>6. CASE PutDeployment(n, c.m, cfg)
    <3>1. [state |-> "up", cfg |-> cfg, dying |-> pods[n][c.m].dying] \in Pods
      BY <2>1 DEF Pods
    <3>2. QED
      BY <2>1, <2>6, <3>1 DEF PutDeployment, redis
  <2>7. CASE DeleteDeployment(n, c.m)
    <3>1. NoPods \in Pods /\ (\A p \in Pods : [p EXCEPT !.dying = TRUE] \in Pods)
      BY DEF Pods, NoPods
    <3>2. pods[n][c.m] \in Pods
      BY <2>1
    <3>3. QED
      BY <2>1, <2>7, <3>1, <3>2 DEF DeleteDeployment, redis
  <2>8. ASSUME NEW to \in {"zero", "up"}, Scale(n, c.m, to)
        PROVE  ResourcesTyped'
    <3>1. \A p \in Pods : [p EXCEPT !.state = to] \in Pods
      BY <2>8 DEF Pods
    <3>2. pods[n][c.m] \in Pods
      BY <2>1
    <3>3. QED
      BY <2>1, <2>8, <3>1, <3>2 DEF Scale, redis
  <2>9. QED
    BY <1>2, <2>2, <2>3, <2>4, <2>5, <2>6, <2>7, <2>8 DEF Perform
<1>3. QED
  BY <1>1, <1>2

LEMMA AdvanceStep ==
  ASSUME Shape, NEW r \in Slots, req[r].pc = "call", NEW c, Advance(r, c)
  PROVE  req' \in [Slots -> Request] /\ RequestShape'
<1> DEFINE q == [req[r] EXCEPT !.calls = req[r].calls \ {c},
                               !.pc = IF req[r].calls = {c} THEN "save" ELSE "call"]
<1>1. req[r] \in Request /\ WellFormed(req[r])
  BY DEF Shape, TypeOK, RequestShape
<1>2. q \in Request
  BY <1>1 DEF Request
<1>3. /\ q.pc = IF req[r].calls = {c} THEN "save" ELSE "call"
      /\ q.calls = req[r].calls \ {c} /\ q.op = req[r].op /\ q.row = req[r].row
  BY <1>1 DEF Request
<1>4. req' = [req EXCEPT ![r] = q]
  BY DEF Advance
<1>5. Planned(q) = Planned(req[r])
  BY <1>3 DEF Planned
<1> HIDE DEF q
<1>6. WellFormed(q)
  <2>1. /\ req[r].op \in ResourceOps /\ req[r].calls \subseteq Planned(req[r])
        /\ req[r].row.cfg \in Configs /\ req[r].row.state # "none"
    BY <1>1 DEF WellFormed
  <2>2. q.pc \in {"call", "save"} /\ (q.pc = "save" => q.calls = {}) /\ q.calls \subseteq req[r].calls
    BY <1>3
  <2>3. q.op # "none"
    BY <2>1, <1>3 DEF ResourceOps
  <2>4. q.calls \subseteq Planned(q) /\ q.op \in ResourceOps
    BY <2>1, <2>2, <1>3, <1>5
  <2>5. q.row.cfg \in Configs /\ q.row.state # "none"
    BY <1>3, <2>1
  <2>6. q.pc # "idle" /\ q.pc # "find"
    BY <2>2
  <2>7. QED
    BY <2>2, <2>3, <2>4, <2>5, <2>6 DEF WellFormed
<1>7. QED
  BY <1>2, <1>4, <1>6, RequestStep

LEMMA CallShape == ASSUME Shape, NEW r \in Slots, MakeCall(r) PROVE Shape'
<1>1. PICK c \in req[r].calls :
        /\ req[r].pc = "call"
        /\ \/ Perform(c, req[r].row.cfg.ns, req[r].row.cfg)
           \/ UNCHANGED <<redis, cluster>>
        /\ Advance(r, c) \/ Finish(r)
        /\ Succeeds \/ Fails
        /\ UNCHANGED <<row, tasks, settled>>
  BY DEF MakeCall, AfterError
<1>2. req[r] \in Request /\ WellFormed(req[r])
  BY DEF Shape, TypeOK, RequestShape
<1>3. c \in Call /\ req[r].row.cfg \in Configs
  BY <1>1, <1>2 DEF Request, WellFormed
<1>4. req[r].row.cfg.ns \in Namespaces
  BY <1>3, ConstantFacts
<1>5. ResourcesTyped
  BY DEF Shape, TypeOK, ResourcesTyped
<1>6. ResourcesTyped'
  BY <1>1, <1>3, <1>4, <1>5, PerformTyped DEF ResourcesTyped, redis, cluster
<1>7. req' \in [Slots -> Request] /\ RequestShape'
  BY <1>1, AdvanceStep, FinishStep
<1>8. used' \in UsedType
  BY <1>1, UsedTyped DEF Shape, TypeOK, UsedType
<1>9. QED
  BY <1>1, <1>6, <1>7, <1>8 DEF Shape, TypeOK, RowShape, ResourcesTyped, UsedType

LEMMA SavedRowShape ==
  ASSUME Shape, NEW r \in Slots, req[r].pc = "save", req[r].op \in PolicyOps
  PROVE  SavedRow(r) \in Row /\ (SavedRow(r).state # "none" => SavedRow(r).cfg \in Configs)
<1>1. req[r].row \in Row /\ req[r].row.cfg \in Configs /\ row \in Row /\ used.clock \in Nat
  BY DEF Shape, TypeOK, RequestShape, WellFormed, Request
<1>2. CASE req[r].op \in {"create", "update", "scale"}
  BY <1>1, <1>2 DEF SavedRow, Row, Shape, RowShape
<1>3. CASE req[r].op \in {"enable", "disable"}
  BY <1>1, <1>3 DEF SavedRow, Row, Deployed
<1>4. CASE req[r].op = "delete"
  BY <1>4 DEF SavedRow, Row, NoRow
<1>5. QED
  BY <1>2, <1>3, <1>4 DEF PolicyOps

LEMMA SaveRowShape == ASSUME Shape, NEW r \in Slots, SaveRow(r) PROVE Shape'
<1>1. row' \in Row /\ RowShape'
  BY SavedRowShape DEF SaveRow, Shape, TypeOK, RowShape
<1>2. req' \in [Slots -> Request] /\ RequestShape'
  BY FinishStep DEF SaveRow
<1>3. used' \in UsedType
  <2>1. CASE used' = [used EXCEPT !.clock = IF req[r].op = "create" THEN @ + 1 ELSE @]
    BY <2>1 DEF Shape, TypeOK, UsedType
  <2>2. CASE Fails
    BY <2>2, UsedTyped DEF Shape, TypeOK, UsedType
  <2>3. QED
    BY <2>1, <2>2 DEF SaveRow
<1>4. settled' \in Configs \cup {NoConfig, Off, Leaving}
  <2>1. req[r].row.cfg \in Configs /\ settled \in Configs \cup {NoConfig, Off, Leaving}
    BY DEF SaveRow, Shape, TypeOK, RequestShape, WellFormed
  <2>2. QED
    BY <2>1 DEF SaveRow
<1>5. QED
  BY <1>1, <1>2, <1>3, <1>4 DEF SaveRow, Shape, TypeOK, redis, cluster, UsedType

LEMMA SaveTaskShape == ASSUME Shape, NEW r \in Slots, SaveTask(r) PROVE Shape'
<1>1. req' \in [Slots -> Request] /\ RequestShape'
  BY FinishStep DEF SaveTask
<1>2. tasks' \in [TaskIds -> Task] /\ used' \in UsedType
  <2>1. CASE \E t \in TaskIds : InsertTask(t)
    BY <2>1 DEF InsertTask, Shape, TypeOK, UsedType, Task
  <2>2. CASE \E t \in TaskIds : ReviveTask(r, t)
    BY <2>2 DEF ReviveTask, Succeeds, Shape, TypeOK, UsedType, Task
  <2>3. CASE UNCHANGED tasks /\ Fails
    BY <2>3, UsedTyped DEF Shape, TypeOK, UsedType
  <2>4. QED
    BY <2>1, <2>2, <2>3 DEF SaveTask
<1>3. QED
  BY <1>1, <1>2 DEF SaveTask, Shape, TypeOK, RowShape, redis, cluster, UsedType

LEMMA TaskShape ==
  ASSUME Shape, NEW t \in TaskIds,
         TaskSend(t) \/ TaskControl(t) \/ TaskEnd(t) \/ WorkerRead(t)
  PROVE  Shape'
<1> USE DEF Shape, TypeOK, RowShape, RequestShape
<1>1. CASE TaskSend(t)
  BY <1>1, ConstantFacts DEF TaskSend, cluster
<1>2. CASE TaskControl(t)
  BY <1>2 DEF TaskControl, cluster
<1>3. CASE TaskEnd(t)
  BY <1>3 DEF TaskEnd, redis, cluster, Task
<1>4. CASE WorkerRead(t)
  BY <1>4 DEF WorkerRead, cluster
<1>5. QED
  BY <1>1, <1>2, <1>3, <1>4

LEMMA OutsideShape ==
  ASSUME Shape, Crash \/ (\E n \in Namespaces, m \in Modules : Collect(n, m))
  PROVE  Shape'
<1>1. CASE Crash
  <2>1. IdleReq \in Request /\ WellFormed(IdleReq)
    BY DEF IdleReq, Request, Row, NoRow, NoConfig, WellFormed, ResourceOps
  <2>2. QED
    BY <1>1, <2>1 DEF Crash, Shape, TypeOK, RowShape, RequestShape, redis, cluster
<1>2. ASSUME NEW n \in Namespaces, NEW m \in Modules, Collect(n, m)
      PROVE  Shape'
  <2>1. NoPods \in Pods
    BY DEF NoPods, Pods
  <2>2. QED
    BY <1>2, <2>1 DEF Collect, Shape, TypeOK, RowShape, RequestShape, redis
<1>3. QED
  BY <1>1, <1>2

LEMMA ShapeInit == Init => Shape
<1> SUFFICES ASSUME Init PROVE Shape
  OBVIOUS
<1>1. IdleReq \in Request /\ WellFormed(IdleReq)
  BY DEF IdleReq, Request, Row, NoRow, NoConfig, WellFormed, ResourceOps
<1>2. NoPods \in Pods /\ NoTask \in Task /\ NoRow \in Row /\ NoRow.state = "none"
  BY DEF NoPods, Pods, NoTask, Task, NoRow, Row
<1>3. QED
  BY <1>1, <1>2 DEF Init, Shape, TypeOK, RowShape, RequestShape

LEMMA ShapeNext == Shape /\ [Next]_vars => Shape'
<1> SUFFICES ASSUME Shape, [Next]_vars PROVE Shape'
  OBVIOUS
<1>1. ASSUME NEW r \in Slots,
             \/ CreateRead(r) \/ UpdateRead(r) \/ EnableRead(r) \/ ScaleRead(r) \/ GateRead(r)
             \/ GateFind(r) \/ MakeCall(r) \/ SaveRow(r) \/ NewTaskRead(r) \/ SaveTask(r)
      PROVE  Shape'
  BY <1>1, CreateShape, UpdateShape, EnableShape, ScaleShape, GateReadShape, FindShape,
     CallShape, SaveRowShape, NewTaskShape, SaveTaskShape
<1>2. CASE UNCHANGED vars
  BY <1>2 DEF vars, Shape, TypeOK, RowShape, RequestShape
<1>3. QED
  BY <1>1, <1>2, RestartShape, TaskShape, OutsideShape DEF Next

\* The types of the rows, objects and requests, for any modules, configurations,
\* slots and bounds: calls go to modules the code knows, in a namespace some
\* configuration names.
THEOREM PolicyTyped == Spec => []TypeOK
<1>1. Spec => []Shape
  BY ShapeInit, ShapeNext, PTL DEF Spec
<1>2. Shape => TypeOK
  BY DEF Shape
<1>3. QED
  BY <1>1, <1>2, PTL

-----------------------------------------------------------------------------
(* The gates between policies and tasks, with one request at a time.       *)

GatesInv == RowHeld /\ GateHolds /\ ActiveTaskHasPolicy
AgesInv  == ClockAhead /\ RestartsOwn /\ TaskKeepsPolicy

LEMMA ReqAlone ==
  ASSUME OneAtATime, Shape, NEW r \in Slots, NEW q, req' = [req EXCEPT ![r] = q]
  PROVE  \A s \in Slots : req'[s] = q
BY DEF OneAtATime, Shape, TypeOK

LEMMA UsedKept ==
  ASSUME used \in UsedType, Succeeds \/ Fails \/ Counted \/ NoActiveTask
  PROVE  /\ used'.clock = used.clock
         /\ used'.faults = 0 => used.faults = 0
         /\ Fails => used'.faults # 0
<1>1. CASE Succeeds
  BY <1>1 DEF UsedType, Succeeds, Fails
<1>2. CASE Fails
  BY <1>2 DEF UsedType, Fails
<1>3. CASE Counted
  BY <1>3 DEF UsedType, Counted, Fails
<1>4. CASE used' = [used EXCEPT !.faults = @ + 1, !.requests = @ + 1]
  <2>1. used'.clock = used.clock /\ used'.faults = used.faults + 1
    BY <1>4 DEF UsedType
  <2>2. used.faults \in Nat
    BY DEF UsedType
  <2>3. used'.faults # 0
    BY <2>1, <2>2
  <2>4. QED
    BY <2>1, <2>3
<1>5. QED
  BY <1>1, <1>2, <1>3, <1>4 DEF NoActiveTask

\* A step that leaves row and tasks alone.
LEMMA GatesKept ==
  ASSUME GatesInv, UNCHANGED <<row, tasks>>, used'.faults = 0 => used.faults = 0,
         \A s \in Slots :
            /\ req'[s].pc \in {"call", "save"} /\ req'[s].op # "create"
               => row.state # "none" /\ req'[s].row.born = row.born
            /\ req'[s].op \in {"disable", "delete"} /\ used'.faults = 0 => Active = {}
  PROVE  GatesInv'
BY DEF GatesInv, RowHeld, GateHolds, ActiveTaskHasPolicy, Active

LEMMA GatesAccept ==
  ASSUME OneAtATime, Shape, GatesInv, NEW r \in Slots, NEW q, Accept(r, q),
         Counted \/ NoActiveTask,
         /\ q.pc \in {"call", "save"} /\ q.op # "create"
            => row.state # "none" /\ q.row.born = row.born
         /\ q.op \in {"disable", "delete"} => NoActiveTask
  PROVE  GatesInv'
<1>1. used'.faults = 0 => used.faults = 0
  BY UsedKept DEF Shape, TypeOK, UsedType
<1>2. ASSUME q.op \in {"disable", "delete"}, used'.faults = 0
      PROVE  Active = {}
  <2>1. CASE Active = {}
    BY <2>1
  <2>2. CASE used' = [used EXCEPT !.faults = @ + 1, !.requests = @ + 1]
    <3>1. used'.faults = used.faults + 1 /\ used.faults \in Nat
      BY <2>2 DEF Shape, TypeOK, UsedType
    <3>2. QED
      BY <3>1, <1>2
  <2>3. QED
    BY <1>2, <2>1, <2>2 DEF NoActiveTask
<1>3. \A s \in Slots : req'[s] = q
  BY ReqAlone DEF Accept
<1>4. QED
  BY <1>1, <1>2, <1>3, GatesKept DEF Accept

LEMMA GatesReads ==
  ASSUME OneAtATime, Shape, GatesInv, NEW r \in Slots,
         \/ CreateRead(r) \/ UpdateRead(r) \/ EnableRead(r) \/ ScaleRead(r) \/ GateRead(r)
         \/ NewTaskRead(r) \/ \E t \in TaskIds : RestartRead(r, t)
  PROVE  GatesInv'
<1>1. row \in Row
  BY DEF Shape, TypeOK
<1>2. CASE CreateRead(r)
  <2>1. PICK cfg \in Configs :
          Accept(r, [IdleReq EXCEPT !.op = "create", !.pc = "save",
                                    !.row = [state |-> "draft", cfg |-> cfg, born |-> 0]])
    BY <1>2 DEF CreateRead
  <2>2. QED
    BY <1>2, <2>1, GatesAccept DEF CreateRead, IdleReq
<1>3. CASE UpdateRead(r)
  <2>1. PICK cfg \in Configs :
          Accept(r, [IdleReq EXCEPT !.op = "update", !.pc = "save", !.row = [row EXCEPT !.cfg = cfg]])
    BY <1>3 DEF UpdateRead
  <2>2. [row EXCEPT !.cfg = cfg].born = row.born
    BY <1>1 DEF Row
  <2>3. QED
    BY <1>3, <2>1, <2>2, GatesAccept DEF UpdateRead, IdleReq
<1>4. CASE EnableRead(r)
  BY <1>4, GatesAccept DEF EnableRead, IdleReq
<1>5. CASE ScaleRead(r)
  <2>1. PICK m \in Modules, to \in {"scale0", "scaleup"} :
          Accept(r, [IdleReq EXCEPT !.op = "scale", !.pc = "call", !.row = row,
                                    !.calls = Steps(to, {m})])
    BY <1>5 DEF ScaleRead
  <2>2. QED
    BY <1>5, <2>1, GatesAccept DEF ScaleRead, IdleReq
<1>6. CASE GateRead(r)
  <2>1. PICK op \in {"disable", "delete"} : Accept(r, [IdleReq EXCEPT !.op = op, !.pc = "find"])
    BY <1>6 DEF GateRead
  <2>2. QED
    BY <1>6, <2>1, GatesAccept DEF GateRead, IdleReq
<1>7. CASE NewTaskRead(r)
  BY <1>7, GatesAccept DEF NewTaskRead, IdleReq
<1>8. ASSUME NEW t \in TaskIds, RestartRead(r, t)
      PROVE  GatesInv'
  BY <1>8, GatesAccept DEF RestartRead, IdleReq
<1>9. QED
  BY <1>2, <1>3, <1>4, <1>5, <1>6, <1>7, <1>8

\* The request after a step of it.
LEMMA Goes ==
  ASSUME OneAtATime, Shape, NEW r \in Slots, NEW c, Advance(r, c) \/ Finish(r)
  PROVE  \A s \in Slots :
            \/ req'[s] = IdleReq
            \/ /\ req'[s].op = req[r].op /\ req'[s].row = req[r].row
               /\ req'[s].calls = req[r].calls \ {c}
               /\ req'[s].pc = IF req[r].calls = {c} THEN "save" ELSE "call"
<1>1. CASE Finish(r)
  BY <1>1, ReqAlone DEF Finish
<1>2. CASE Advance(r, c)
  <2> DEFINE q == [req[r] EXCEPT !.calls = req[r].calls \ {c},
                                 !.pc = IF req[r].calls = {c} THEN "save" ELSE "call"]
  <2>1. \A s \in Slots : req'[s] = q
    BY <1>2, ReqAlone DEF Advance
  <2>2. req[r] \in Request
    BY DEF Shape, TypeOK
  <2>3. /\ q.op = req[r].op /\ q.row = req[r].row /\ q.calls = req[r].calls \ {c}
        /\ q.pc = IF req[r].calls = {c} THEN "save" ELSE "call"
    BY <2>2 DEF Request
  <2>4. QED
    BY <2>1, <2>3
<1>3. QED
  BY <1>1, <1>2

LEMMA GatesFind ==
  ASSUME OneAtATime, Shape, GatesInv, NEW r \in Slots, GateFind(r)
  PROVE  GatesInv'
<1> DEFINE q == [req[r] EXCEPT !.pc = "call", !.row = row,
                   !.calls = IF req[r].op = "delete" THEN DeleteCalls(row.cfg)
                                                     ELSE DisableCalls(row.cfg)]
<1>1. used'.faults = 0 => used.faults = 0
  BY UsedKept DEF GateFind, Shape, TypeOK, UsedType
<1>2. req[r] \in Request
  BY DEF Shape, TypeOK
<1>3. CASE row.state # "none" /\ req' = [req EXCEPT ![r] = q]
  <2>1. \A s \in Slots : req'[s] = q
    BY <1>3, ReqAlone
  <2>2. q.row = row /\ q.op = req[r].op
    BY <1>2 DEF Request
  <2>3. q.op \in {"disable", "delete"} /\ used'.faults = 0 => Active = {}
    BY <1>1, <2>2 DEF GatesInv, GateHolds
  <2>4. QED
    BY <1>1, <1>3, <2>1, <2>2, <2>3, GatesKept DEF GateFind
<1>4. CASE Finish(r)
  <2>1. \A s \in Slots : req'[s] = IdleReq
    BY <1>4, ReqAlone DEF Finish
  <2>2. QED
    BY <1>1, <2>1, GatesKept DEF GateFind, IdleReq
<1>5. QED
  BY <1>3, <1>4 DEF GateFind

LEMMA GatesCall ==
  ASSUME OneAtATime, Shape, GatesInv, NEW r \in Slots, MakeCall(r)
  PROVE  GatesInv'
<1>1. PICK c \in req[r].calls :
        /\ req[r].pc = "call"
        /\ Advance(r, c) \/ Finish(r)
        /\ Succeeds \/ Fails
        /\ UNCHANGED <<row, tasks>>
  BY DEF MakeCall, AfterError
<1>2. used'.faults = 0 => used.faults = 0
  BY <1>1, UsedKept DEF Shape, TypeOK, UsedType
<1>3. QED
  BY <1>1, <1>2, Goes, GatesKept DEF GatesInv, RowHeld, GateHolds, IdleReq

LEMMA GatesSaveRow ==
  ASSUME OneAtATime, Shape, GatesInv, NEW r \in Slots, SaveRow(r)
  PROVE  GatesInv'
<1>1. \A s \in Slots : req'[s] = IdleReq
  BY ReqAlone DEF SaveRow, Finish
<1>2. RowHeld' /\ GateHolds'
  BY <1>1 DEF RowHeld, GateHolds, IdleReq
<1>3. used'.faults = 0 => used.faults = 0
  <2>1. CASE used' = [used EXCEPT !.clock = IF req[r].op = "create" THEN @ + 1 ELSE @]
    BY <2>1 DEF Shape, TypeOK, UsedType
  <2>2. CASE Fails
    BY <2>2, UsedKept DEF Shape, TypeOK, UsedType
  <2>3. QED
    BY <2>1, <2>2 DEF SaveRow
<1>4. ActiveTaskHasPolicy'
  <2>1. SUFFICES ASSUME Active # {}, used'.faults = 0, row'.state = "none" PROVE FALSE
    BY DEF ActiveTaskHasPolicy, Active, SaveRow
  <2>2. used.faults = 0 /\ row.state # "none"
    BY <2>1, <1>3 DEF GatesInv, ActiveTaskHasPolicy
  <2>3. row' = SavedRow(r)
    BY <2>1, <2>2 DEF SaveRow
  <2>4. req[r].op # "delete"
    BY <2>1, <2>2 DEF GatesInv, GateHolds
  <2>5. req[r].row.state # "none" /\ req[r].row \in Row
    BY DEF SaveRow, Shape, RequestShape, WellFormed, TypeOK, Request
  <2>6. CASE req[r].op = "create"
    BY <2>1, <2>2, <2>3, <2>6 DEF SavedRow
  <2>7. CASE req[r].op \in {"update", "enable", "disable", "scale"}
    BY <2>1, <2>2, <2>3, <2>5, <2>7 DEF SavedRow, Deployed, Row
  <2>8. QED
    BY <2>4, <2>6, <2>7 DEF SaveRow, PolicyOps
<1>5. QED
  BY <1>2, <1>4 DEF GatesInv

LEMMA GatesSaveTask ==
  ASSUME OneAtATime, Shape, GatesInv, NEW r \in Slots, SaveTask(r)
  PROVE  GatesInv'
<1>1. \A s \in Slots : req'[s] = IdleReq
  BY ReqAlone DEF SaveTask, Finish
<1>2. RowHeld' /\ GateHolds'
  BY <1>1 DEF RowHeld, GateHolds, IdleReq
<1>3. row.state # "none" /\ UNCHANGED row
  BY DEF SaveTask, GatesInv, RowHeld, TaskOps
<1>4. QED
  BY <1>2, <1>3 DEF GatesInv, ActiveTaskHasPolicy

LEMMA GatesRest ==
  ASSUME OneAtATime, Shape, GatesInv,
         \/ \E t \in TaskIds : TaskSend(t) \/ TaskControl(t) \/ TaskEnd(t) \/ WorkerRead(t)
         \/ \E n \in Namespaces, m \in Modules : Collect(n, m)
         \/ Crash
         \/ UNCHANGED vars
  PROVE  GatesInv'
<1>1. CASE UNCHANGED <<row, tasks, req, used>>
  BY <1>1, GatesKept DEF GatesInv, RowHeld, GateHolds
<1>2. ASSUME NEW t \in TaskIds, TaskEnd(t)
      PROVE  GatesInv'
  <2>1. Active' \subseteq Active
    BY <1>2 DEF TaskEnd, Active, Shape, TypeOK, Task
  <2>2. QED
    BY <1>2, <2>1 DEF TaskEnd, GatesInv, RowHeld, GateHolds, ActiveTaskHasPolicy
<1>3. CASE Crash
  <2>1. used'.faults = used.faults
    BY <1>3 DEF Crash, Shape, TypeOK, UsedType
  <2>2. QED
    BY <1>3, <2>1, GatesKept DEF Crash, IdleReq
<1>4. QED
  BY <1>1, <1>2, <1>3 DEF TaskSend, TaskControl, WorkerRead, Collect, vars

LEMMA GatesNext == ASSUME OneAtATime PROVE Shape /\ GatesInv /\ [Next]_vars => GatesInv'
<1> SUFFICES ASSUME Shape, GatesInv, [Next]_vars PROVE GatesInv'
  OBVIOUS
<1>1. ASSUME NEW r \in Slots, GateFind(r) \/ MakeCall(r) \/ SaveRow(r) \/ SaveTask(r)
      PROVE  GatesInv'
  BY <1>1, GatesFind, GatesCall, GatesSaveRow, GatesSaveTask
<1>2. QED
  BY <1>1, GatesReads, GatesRest DEF Next

LEMMA GatesInit == Init => GatesInv
BY DEF Init, GatesInv, RowHeld, GateHolds, ActiveTaskHasPolicy, Active, IdleReq, NoTask, NoRow

LEMMA GatesAlways == ASSUME OneAtATime PROVE Spec => [](Shape /\ GatesInv)
<1>1. Init => Shape /\ GatesInv
  BY ShapeInit, GatesInit
<1>2. Shape /\ GatesInv /\ [Next]_vars => (Shape /\ GatesInv)'
  BY ShapeNext, GatesNext
<1>3. QED
  BY <1>1, <1>2, PTL DEF Spec

\* A task never runs on a policy that is gone, with one request at a time and
\* unless the count of the tasks failed: the gate of Delete, and the reads of
\* Create and Restart, are enough.
THEOREM RunsOnPolicy == ASSUME OneAtATime PROVE Spec => []ActiveTaskHasPolicy
<1>1. Shape /\ GatesInv => ActiveTaskHasPolicy
  BY DEF GatesInv
<1>2. QED
  BY <1>1, GatesAlways, PTL

\* Which calls a request can make.
LEMMA PlannedCall ==
  ASSUME Shape, NEW r \in Slots, req[r].pc = "call", NEW c \in req[r].calls
  PROVE  /\ c \in Call /\ c \in Planned(req[r])
         /\ req[r].op \in ResourceOps
         /\ req[r].row.cfg \in Configs
         /\ req[r].row.cfg.ns \in Namespaces
         /\ req[r] \in Request
<1>1. req[r] \in Request /\ WellFormed(req[r])
  BY DEF Shape, TypeOK, RequestShape
<1>2. QED
  BY <1>1, RequestCalls, ConstantFacts DEF WellFormed

LEMMA EntriesNext ==
  ASSUME OneAtATime, AllScan
  PROVE  Shape /\ GatesInv /\ [Next]_vars =>
           [\A t \in unread \ unread' :
              tasks[t].state = "active" /\ used.faults = 0 => stream'["portscan"] # "none"]_vars
<1> SUFFICES ASSUME Shape, GatesInv, [Next]_vars, NEW t \in unread \ unread',
                    tasks[t].state = "active", used.faults = 0
             PROVE  stream'["portscan"] # "none"
  BY DEF vars
<1>1. t \in Active
  BY DEF Shape, TypeOK, Active
<1>2. ASSUME NEW r \in Slots, MakeCall(r)
      PROVE  stream'["portscan"] # "none"
  <2>1. PICK c \in req[r].calls :
          /\ req[r].pc = "call"
          /\ Perform(c, req[r].row.cfg.ns, req[r].row.cfg) \/ UNCHANGED <<redis, cluster>>
    BY <1>2 DEF MakeCall
  <2>2. c \in Planned(req[r]) /\ req[r].op \in ResourceOps /\ req[r].row.cfg \in Configs
    BY <2>1, PlannedCall
  <2>3. c.do \in {"delstream", "delkeys"}
    BY <2>1 DEF Perform, EnsureGroup, EnsureControl, PutConfigMap, DeleteConfigMap, PutDeployment,
                DeleteDeployment, Scale, redis, cluster
  <2>4. CASE req[r].op = "enable"
    <3>1. c \in DeployCalls(req[r].row.cfg)
      BY <2>2, <2>4 DEF Planned
    <3>2. c.do = "delstream" /\ c.m # "portscan"
      BY <2>2, <2>3, <3>1 DEF DeployCalls, Steps, Once, Surplus, AllScan
    <3>3. DeleteStream(c.m)
      BY <2>1, <3>2 DEF Perform, redis, cluster
    <3>4. QED
      BY <3>2, <3>3 DEF DeleteStream
  <2>5. CASE req[r].op = "delete"
    BY <1>1, <2>5 DEF GatesInv, GateHolds
  <2>6. CASE req[r].op \in {"disable", "scale"}
    BY <2>2, <2>3, <2>6 DEF Planned, DisableCalls, Steps, Owned
  <2>7. QED
    BY <2>2, <2>4, <2>5, <2>6 DEF ResourceOps
<1>3. ASSUME NEW u \in TaskIds, WorkerRead(u)
      PROVE  stream'["portscan"] # "none"
  BY <1>3 DEF WorkerRead
<1>4. CASE unread' = unread \/ (\E u \in TaskIds : TaskSend(u))
  BY <1>4 DEF TaskSend
<1>5. QED
  BY <1>2, <1>3, <1>4 DEF Next, vars, CreateRead, UpdateRead, EnableRead, ScaleRead, GateRead, GateFind,
     SaveRow, NewTaskRead, SaveTask, RestartRead, Accept, TaskControl, TaskEnd, Collect, Crash, redis

\* What a running task has sent and no worker has read is never deleted, neither by
\* a deploy nor by a delete: with one request at a time, configurations that
\* all enable portscan, and unless the count of the tasks failed.
THEOREM EntriesKept == ASSUME OneAtATime, AllScan PROVE Spec => EntriesSurvive
<1>1. Spec => [](Shape /\ GatesInv)
  BY GatesAlways
<1>2. Shape /\ GatesInv /\ [Next]_vars =>
        [\A t \in unread \ unread' :
           tasks[t].state = "active" /\ used.faults = 0 => stream'["portscan"] # "none"]_vars
  BY EntriesNext
<1>3. QED
  BY <1>1, <1>2, PTL DEF Spec, EntriesSurvive

-----------------------------------------------------------------------------
(* The ages of policies and tasks                                          *)

\* A step that leaves row, tasks and clock alone.
LEMMA AgesKept ==
  ASSUME AgesInv, UNCHANGED <<row, tasks>>, used'.clock = used.clock,
         used'.faults = 0 => used.faults = 0,
         \A s \in Slots :
            /\ req'[s].row.born <= used.clock
            /\ req'[s].op = "retask" => req'[s].task \in TaskIds /\ row.born <= tasks[req'[s].task].created
  PROVE  AgesInv'
BY DEF AgesInv, ClockAhead, RestartsOwn, TaskKeepsPolicy, Active

LEMMA AgesAccept ==
  ASSUME OneAtATime, Shape, AgesInv, NEW r \in Slots, NEW q, Accept(r, q),
         Counted \/ NoActiveTask,
         q.row.born = row.born \/ q.row.born = 0,
         q.op = "retask" => q.task \in TaskIds /\ row.born <= tasks[q.task].created
  PROVE  AgesInv'
<1>1. used'.clock = used.clock /\ (used'.faults = 0 => used.faults = 0)
  BY UsedKept DEF Shape, TypeOK, UsedType
<1>2. \A s \in Slots : req'[s] = q
  BY ReqAlone DEF Accept
<1>3. q.row.born <= used.clock
  BY DEF AgesInv, ClockAhead, Shape, TypeOK
<1>4. QED
  BY <1>1, <1>2, <1>3, AgesKept DEF Accept

LEMMA AgesReads ==
  ASSUME OneAtATime, Shape, AgesInv, NEW r \in Slots,
         \/ CreateRead(r) \/ UpdateRead(r) \/ EnableRead(r) \/ ScaleRead(r) \/ GateRead(r)
         \/ NewTaskRead(r) \/ \E t \in TaskIds : RestartRead(r, t)
  PROVE  AgesInv'
<1>1. row \in Row
  BY DEF Shape, TypeOK
<1>2. CASE CreateRead(r)
  <2>1. PICK cfg \in Configs :
          Accept(r, [IdleReq EXCEPT !.op = "create", !.pc = "save",
                                    !.row = [state |-> "draft", cfg |-> cfg, born |-> 0]])
    BY <1>2 DEF CreateRead
  <2>2. QED
    BY <1>2, <2>1, AgesAccept DEF CreateRead, IdleReq
<1>3. CASE UpdateRead(r)
  <2>1. PICK cfg \in Configs :
          Accept(r, [IdleReq EXCEPT !.op = "update", !.pc = "save", !.row = [row EXCEPT !.cfg = cfg]])
    BY <1>3 DEF UpdateRead
  <2>2. [row EXCEPT !.cfg = cfg].born = row.born
    BY <1>1 DEF Row
  <2>3. QED
    BY <1>3, <2>1, <2>2, AgesAccept DEF UpdateRead, IdleReq
<1>4. CASE EnableRead(r)
  BY <1>4, AgesAccept DEF EnableRead, IdleReq
<1>5. CASE ScaleRead(r)
  <2>1. PICK m \in Modules, to \in {"scale0", "scaleup"} :
          Accept(r, [IdleReq EXCEPT !.op = "scale", !.pc = "call", !.row = row,
                                    !.calls = Steps(to, {m})])
    BY <1>5 DEF ScaleRead
  <2>2. QED
    BY <1>5, <2>1, AgesAccept DEF ScaleRead, IdleReq
<1>6. CASE GateRead(r)
  <2>1. PICK op \in {"disable", "delete"} : Accept(r, [IdleReq EXCEPT !.op = op, !.pc = "find"])
    BY <1>6 DEF GateRead
  <2>2. QED
    BY <1>6, <2>1, AgesAccept DEF GateRead, IdleReq, NoRow
<1>7. CASE NewTaskRead(r)
  BY <1>7, AgesAccept DEF NewTaskRead, IdleReq
<1>8. ASSUME NEW t \in TaskIds, RestartRead(r, t)
      PROVE  AgesInv'
  BY <1>8, AgesAccept DEF RestartRead, IdleReq, SamePolicy
<1>9. QED
  BY <1>2, <1>3, <1>4, <1>5, <1>6, <1>7, <1>8

LEMMA AgesFind ==
  ASSUME OneAtATime, Shape, AgesInv, NEW r \in Slots, GateFind(r)
  PROVE  AgesInv'
<1> DEFINE q == [req[r] EXCEPT !.pc = "call", !.row = row,
                   !.calls = IF req[r].op = "delete" THEN DeleteCalls(row.cfg)
                                                     ELSE DisableCalls(row.cfg)]
<1>1. used'.clock = used.clock /\ (used'.faults = 0 => used.faults = 0)
  BY UsedKept DEF GateFind, Shape, TypeOK, UsedType
<1>2. req[r] \in Request /\ req[r].op \in {"disable", "delete"}
  BY DEF GateFind, Shape, TypeOK, RequestShape, WellFormed
<1>3. CASE req' = [req EXCEPT ![r] = q]
  <2>1. \A s \in Slots : req'[s] = q
    BY <1>3, ReqAlone
  <2>2. q.row = row /\ q.op = req[r].op
    BY <1>2 DEF Request
  <2>3. QED
    BY <1>1, <1>2, <2>1, <2>2, AgesKept DEF GateFind, AgesInv, ClockAhead
<1>4. CASE Finish(r)
  <2>1. \A s \in Slots : req'[s] = IdleReq
    BY <1>4, ReqAlone DEF Finish
  <2>2. 0 <= used.clock
    BY DEF Shape, TypeOK
  <2>3. QED
    BY <1>1, <2>1, <2>2, AgesKept DEF GateFind, IdleReq, NoRow
<1>5. QED
  BY <1>3, <1>4 DEF GateFind

LEMMA AgesCall ==
  ASSUME OneAtATime, Shape, AgesInv, NEW r \in Slots, MakeCall(r)
  PROVE  AgesInv'
<1>1. PICK c \in req[r].calls :
        /\ req[r].pc = "call"
        /\ Advance(r, c) \/ Finish(r)
        /\ Succeeds \/ Fails
        /\ UNCHANGED <<row, tasks>>
  BY DEF MakeCall, AfterError
<1>2. used'.clock = used.clock /\ (used'.faults = 0 => used.faults = 0)
  BY <1>1, UsedKept DEF Shape, TypeOK, UsedType
<1>3. req[r].op # "retask" /\ 0 <= used.clock
  BY <1>1, PlannedCall DEF ResourceOps, Shape, TypeOK
<1>4. QED
  BY <1>1, <1>2, <1>3, Goes, AgesKept DEF AgesInv, ClockAhead, IdleReq, NoRow

\* The row that is saved is as old as the one it replaces, or the youngest.
LEMMA AgesSaveRow ==
  ASSUME OneAtATime, Shape, GatesInv, AgesInv, NEW r \in Slots, SaveRow(r)
  PROVE  AgesInv'
<1>1. \A s \in Slots : req'[s] = IdleReq
  BY ReqAlone DEF SaveRow, Finish
<1>2. /\ used.clock \in Nat /\ used'.clock \in {used.clock, used.clock + 1}
      /\ used'.faults = 0 => used.faults = 0
  <2>1. CASE used' = [used EXCEPT !.clock = IF req[r].op = "create" THEN @ + 1 ELSE @]
    BY <2>1 DEF Shape, TypeOK, UsedType
  <2>2. CASE Fails
    BY <2>2, UsedKept DEF Shape, TypeOK, UsedType
  <2>3. QED
    BY <2>1, <2>2 DEF SaveRow
<1>3. RestartsOwn'
  BY <1>1 DEF RestartsOwn, IdleReq
<1>4. req[r].row \in Row /\ row \in Row /\ UNCHANGED tasks
  BY DEF SaveRow, Shape, TypeOK, Request
<1>5. CASE row' = row
  <2>1. row'.born <= used'.clock /\ 0 <= used'.clock
    BY <1>2, <1>4, <1>5 DEF AgesInv, ClockAhead, Row
  <2>2. QED
    BY <1>1, <1>2, <1>3, <1>4, <1>5, <2>1
       DEF AgesInv, ClockAhead, TaskKeepsPolicy, Active, IdleReq, NoRow
<1>6. CASE req[r].op = "create" /\ row.state = "none" /\ row' = SavedRow(r)
  <2>1. row'.born = used.clock
    BY <1>4, <1>6 DEF SavedRow, Row
  <2>2. row'.born <= used'.clock /\ 0 <= used'.clock
    BY <1>2, <2>1
  <2>3. used'.faults = 0 => Active = {}
    BY <1>2, <1>6 DEF GatesInv, ActiveTaskHasPolicy
  <2>4. QED
    BY <1>1, <1>3, <1>4, <2>2, <2>3 DEF AgesInv, ClockAhead, TaskKeepsPolicy, Active, IdleReq, NoRow
<1>7. CASE req[r].op = "delete" /\ row' = SavedRow(r)
  <2>1. row'.born = 0 /\ row'.state = "none"
    BY <1>7 DEF SavedRow, NoRow
  <2>2. row'.born <= used'.clock /\ 0 <= used'.clock
    BY <1>2, <2>1
  <2>3. QED
    BY <1>1, <1>3, <2>1, <2>2 DEF AgesInv, ClockAhead, TaskKeepsPolicy, IdleReq, NoRow
<1>8. CASE req[r].op \in {"update", "enable", "disable"} /\ row' = SavedRow(r)
  <2>1. row.state # "none" /\ req[r].row.born = row.born
    BY <1>8 DEF SaveRow, GatesInv, RowHeld
  <2>2. row'.born = row.born
    BY <1>4, <1>8, <2>1 DEF SavedRow, Deployed, Row
  <2>3. row'.born <= used'.clock /\ 0 <= used'.clock
    BY <1>2, <1>4, <2>2 DEF AgesInv, ClockAhead, Row
  <2>4. QED
    BY <1>1, <1>2, <1>3, <1>4, <2>1, <2>2, <2>3
       DEF AgesInv, ClockAhead, TaskKeepsPolicy, Active, IdleReq, NoRow
<1>9. CASE row' = SavedRow(r) /\ (req[r].op = "scale" \/ (req[r].op = "create" /\ row.state # "none"))
  BY <1>5, <1>9 DEF SavedRow
<1>10. QED
  BY <1>5, <1>6, <1>7, <1>8, <1>9 DEF SaveRow, PolicyOps

LEMMA AgesSaveTask ==
  ASSUME OneAtATime, Shape, GatesInv, AgesInv, NEW r \in Slots, SaveTask(r)
  PROVE  AgesInv'
<1>1. \A s \in Slots : req'[s] = IdleReq
  BY ReqAlone DEF SaveTask, Finish
<1>2. RestartsOwn' /\ UNCHANGED row
  BY <1>1 DEF SaveTask, RestartsOwn, IdleReq
<1>3. used.clock \in Nat /\ row.born \in Nat /\ row.born <= used.clock
  BY DEF Shape, TypeOK, Row, AgesInv, ClockAhead
<1>4. ASSUME NEW t \in TaskIds, InsertTask(t)
      PROVE  AgesInv'
  <2>1. used'.clock = used.clock + 1 /\ used'.faults = used.faults
    BY <1>4 DEF InsertTask, Shape, TypeOK, UsedType
  <2>2. /\ tasks'[t].created = used.clock
        /\ \A u \in TaskIds \ {t} : tasks'[u] = tasks[u]
    BY <1>4 DEF InsertTask, Shape, TypeOK
  <2>3. TaskKeepsPolicy'
    BY <1>2, <1>3, <2>1, <2>2 DEF TaskKeepsPolicy, Active, AgesInv
  <2>4. row'.born <= used'.clock /\ 0 <= used'.clock
    BY <1>2, <1>3, <2>1
  <2>5. QED
    BY <1>1, <1>2, <2>3, <2>4 DEF AgesInv, ClockAhead, IdleReq, NoRow
<1>5. ASSUME NEW t \in TaskIds, ReviveTask(r, t)
      PROVE  AgesInv'
  <2>1. \A u \in TaskIds : tasks'[u].created = tasks[u].created /\ (u # t => tasks'[u] = tasks[u])
    BY <1>5 DEF ReviveTask, Shape, TypeOK, Task
  <2>2. row.born <= tasks[t].created /\ UNCHANGED used
    BY <1>5 DEF ReviveTask, AgesInv, RestartsOwn, Succeeds
  <2>3. TaskKeepsPolicy'
    BY <1>2, <2>1, <2>2 DEF TaskKeepsPolicy, Active, AgesInv
  <2>4. QED
    BY <1>1, <1>2, <1>3, <2>2, <2>3 DEF AgesInv, ClockAhead, IdleReq, NoRow
<1>6. CASE UNCHANGED tasks /\ Fails
  <2>1. used'.clock = used.clock /\ (used'.faults = 0 => used.faults = 0)
    BY <1>6, UsedKept DEF Shape, TypeOK, UsedType
  <2>2. QED
    BY <1>1, <1>2, <1>3, <1>6, <2>1, AgesKept DEF IdleReq, NoRow
<1>7. QED
  BY <1>4, <1>5, <1>6 DEF SaveTask

LEMMA AgesRest ==
  ASSUME OneAtATime, Shape, AgesInv,
         \/ \E t \in TaskIds : TaskSend(t) \/ TaskControl(t) \/ TaskEnd(t) \/ WorkerRead(t)
         \/ \E n \in Namespaces, m \in Modules : Collect(n, m)
         \/ Crash
         \/ UNCHANGED vars
  PROVE  AgesInv'
<1>1. CASE UNCHANGED <<row, tasks, req, used>>
  BY <1>1, AgesKept DEF AgesInv, ClockAhead, RestartsOwn
<1>2. ASSUME NEW t \in TaskIds, TaskEnd(t)
      PROVE  AgesInv'
  <2>1. Active' \subseteq Active /\ \A u \in TaskIds : tasks'[u].created = tasks[u].created
    BY <1>2 DEF TaskEnd, Active, Shape, TypeOK, Task
  <2>2. Active' \subseteq TaskIds
    BY DEF Active
  <2>3. QED
    BY <1>2, <2>1, <2>2 DEF TaskEnd, AgesInv, ClockAhead, RestartsOwn, TaskKeepsPolicy
<1>3. CASE Crash
  <2>1. used'.faults = used.faults /\ used'.clock = used.clock /\ 0 <= used.clock
    BY <1>3 DEF Crash, Shape, TypeOK, UsedType
  <2>2. QED
    BY <1>3, <2>1, AgesKept DEF Crash, IdleReq, NoRow
<1>4. QED
  BY <1>1, <1>2, <1>3 DEF TaskSend, TaskControl, WorkerRead, Collect, vars

LEMMA AgesNext ==
  ASSUME OneAtATime PROVE Shape /\ GatesInv /\ AgesInv /\ [Next]_vars => AgesInv'
<1> SUFFICES ASSUME Shape, GatesInv, AgesInv, [Next]_vars PROVE AgesInv'
  OBVIOUS
<1>1. ASSUME NEW r \in Slots, GateFind(r) \/ MakeCall(r) \/ SaveRow(r) \/ SaveTask(r)
      PROVE  AgesInv'
  BY <1>1, AgesFind, AgesCall, AgesSaveRow, AgesSaveTask
<1>2. QED
  BY <1>1, AgesReads, AgesRest DEF Next

\* A running task is never older than its policy: with one request at a time and
\* unless the count of the tasks failed, Restart's comparison of the two
\* creation times keeps a task off a later policy with the same id.
THEOREM KeepsItsPolicy == ASSUME OneAtATime PROVE Spec => []TaskKeepsPolicy
<1>1. Init => AgesInv
  BY DEF Init, AgesInv, ClockAhead, RestartsOwn, TaskKeepsPolicy, Active, IdleReq, NoTask, NoRow
<1>2. AgesInv => TaskKeepsPolicy
  BY DEF AgesInv
<1>3. QED
  BY <1>1, <1>2, GatesAlways, AgesNext, PTL DEF Spec

-----------------------------------------------------------------------------
(* The resources a request leaves, with one request at a time.             *)

StandInv == CallsDone /\ NoneLeaving /\ Unsettled /\ DeployStands

\* What a call changes, and that it leaves the rest alone.
Effect(d, n, cfg) ==
  /\ \A m \in Modules :
        /\ d.do \notin {"group", "delstream", "delkeys"} \/ (m # d.m /\ d.do # "delkeys")
           => stream'[m] = stream[m]
        /\ d.do \notin {"configmap", "unmap"} \/ m # d.m => maps'[n][m] = maps[n][m]
        /\ d.do \notin {"deploy", "undeploy", "scale0", "scaleup"} \/ m # d.m
           => pods'[n][m] = pods[n][m]
  /\ d.do # "delkeys" /\ control => control'
  /\ d.do = "group"     => stream'[d.m] = "group"
  /\ d.do = "delstream" => stream'[d.m] = "none"
  /\ d.do = "control"   => control'
  /\ d.do = "configmap" => maps'[n][d.m] = cfg
  /\ d.do = "unmap"     => maps'[n][d.m] = NoConfig
  /\ d.do = "deploy"    => pods'[n][d.m] = [state |-> "up", cfg |-> cfg, dying |-> pods[n][d.m].dying]
  /\ d.do = "undeploy"  => pods'[n][d.m].state = "none" \/ pods'[n][d.m].dying
  /\ d.do = "scale0"    => pods'[n][d.m].state # "up"

LEMMA PerformEffect ==
  ASSUME ResourcesTyped, NEW d \in Call, NEW n \in Namespaces, NEW cfg, Perform(d, n, cfg)
  PROVE  Effect(d, n, cfg)
<1> USE DEF ResourcesTyped, Effect
<1>1. CASE d.do = "control"
  BY <1>1 DEF Perform, EnsureControl, cluster
<1>2. CASE d.do = "delkeys"
  BY <1>2 DEF Perform, DeleteKeys, cluster
<1>3. CASE d.do \notin {"control", "delkeys"}
  <2>1. d.m \in Modules
    BY <1>3 DEF Call
  <2>2. CASE d.do = "group"
    BY <2>1, <2>2 DEF Perform, EnsureGroup, cluster
  <2>3. CASE d.do = "delstream"
    BY <2>1, <2>3 DEF Perform, DeleteStream, cluster
  <2>4. CASE d.do = "configmap"
    BY <2>1, <2>4 DEF Perform, PutConfigMap, redis
  <2>5. CASE d.do = "unmap"
    BY <2>1, <2>5 DEF Perform, DeleteConfigMap, redis
  <2>6. CASE d.do = "deploy"
    BY <2>1, <2>6 DEF Perform, PutDeployment, redis
  <2>7. CASE d.do = "undeploy"
    <3>1. pods[n][d.m] \in Pods
      BY <2>1
    <3>2. [pods[n][d.m] EXCEPT !.dying = TRUE].dying /\ NoPods.state = "none"
      BY <3>1 DEF Pods, NoPods
    <3>3. DeleteDeployment(n, d.m)
      BY <2>7 DEF Perform
    <3>4. pods'[n][d.m] \in {[pods[n][d.m] EXCEPT !.dying = TRUE], NoPods}
      BY <2>1, <3>3 DEF DeleteDeployment
    <3>5. \A m \in Modules : m # d.m => pods'[n][m] = pods[n][m]
      BY <2>1, <3>3 DEF DeleteDeployment
    <3>6. UNCHANGED <<redis, maps>>
      BY <3>3 DEF DeleteDeployment
    <3>7. pods'[n][d.m].state = "none" \/ pods'[n][d.m].dying
      BY <3>2, <3>4
    <3>8. QED
      BY <2>7, <3>5, <3>6, <3>7 DEF redis
  <2>8. ASSUME NEW to \in {"zero", "up"}, Scale(n, d.m, to), d.do = "scale0" => to = "zero",
               d.do \in {"scale0", "scaleup"}
        PROVE  Effect(d, n, cfg)
    <3>1. pods[n][d.m] \in Pods
      BY <2>1
    <3>2. [pods[n][d.m] EXCEPT !.state = to].state = to
      BY <3>1 DEF Pods
    <3>3. /\ pods'[n][d.m].state = to
          /\ \A m \in Modules : m # d.m => pods'[n][m] = pods[n][m]
      BY <2>1, <2>8, <3>2 DEF Scale
    <3>4. UNCHANGED <<redis, maps>>
      BY <2>8 DEF Scale
    <3>5. QED
      BY <2>8, <3>3, <3>4 DEF redis
  <2>9. CASE d.do \in {"scale0", "scaleup"}
    BY <2>8, <2>9 DEF Perform
  <2>10. QED
    BY <1>3, <2>2, <2>3, <2>4, <2>5, <2>6, <2>7, <2>9 DEF Call
<1>4. QED
  BY <1>1, <1>2, <1>3

LEMMA DeployPlan ==
  ASSUME NEW cfg \in Configs, NEW c \in DeployCalls(cfg)
  PROVE  /\ c \in Call
         /\ \/ c.do \in {"group", "configmap", "deploy"} /\ c.m \in cfg.mods
            \/ c.do \in {"delstream", "undeploy", "unmap"} /\ c.m \in Modules \ cfg.mods
            \/ c.do = "control"
<1>1. c \in Call
  BY CallsTyped
<1>2. QED
  BY <1>1 DEF DeployCalls, Steps, Once, Surplus

LEMMA DeletePlan ==
  ASSUME NEW cfg \in Configs, NEW c \in DeleteCalls(cfg)
  PROVE  /\ c \in Call
         /\ c.do = "delkeys" \/ (c.do \in {"undeploy", "unmap"} /\ c.m \in Modules)
<1>1. c \in Call
  BY CallsTyped
<1>2. QED
  BY <1>1 DEF DeleteCalls, Steps, Once, Owned

LEMMA DisablePlan ==
  ASSUME NEW cfg \in Configs, NEW c \in DisableCalls(cfg)
  PROVE  c \in Call /\ c.do = "scale0" /\ c.m \in Modules
<1>1. c \in Call
  BY CallsTyped
<1>2. QED
  BY <1>1 DEF DisableCalls, Steps, Owned

LEMMA SameCall == ASSUME NEW c \in Call, NEW d \in Call, c.do = d.do, c.m = d.m PROVE c = d
BY DEF Call

\* A call of a deploy does what it should, and undoes nothing.
LEMMA DeployKeeps ==
  ASSUME ResourcesTyped,
         NEW cfg \in Configs, NEW c \in DeployCalls(cfg), NEW d \in DeployCalls(cfg),
         NEW n \in Namespaces, Effect(d, n, cfg),
         \A m \in cfg.mods : ~pods[n][m].dying
  PROVE  /\ Done(d, n, cfg)'
         /\ c # d /\ Done(c, n, cfg) => Done(c, n, cfg)'
         /\ \A m \in cfg.mods : ~pods'[n][m].dying
<1>1. /\ d \in Call
      /\ \/ d.do \in {"group", "configmap", "deploy"} /\ d.m \in cfg.mods
         \/ d.do \in {"delstream", "undeploy", "unmap"} /\ d.m \in Modules \ cfg.mods
         \/ d.do = "control"
  BY DeployPlan
<1>2. /\ c \in Call
      /\ \/ c.do \in {"group", "configmap", "deploy"} /\ c.m \in cfg.mods
         \/ c.do \in {"delstream", "undeploy", "unmap"} /\ c.m \in Modules \ cfg.mods
         \/ c.do = "control"
  BY DeployPlan
<1>3. cfg.mods \subseteq Modules
  BY ConstantFacts
<1>4. Done(d, n, cfg)'
  <2>1. CASE d.do = "deploy"
    <3>1. pods[n][d.m] \in Pods /\ ~pods[n][d.m].dying
      BY <1>1, <1>3, <2>1 DEF ResourcesTyped
    <3>2. pods[n][d.m].dying = FALSE
      BY <3>1 DEF Pods
    <3>3. QED
      BY <2>1, <3>2 DEF Effect, Done
  <2>2. CASE d.do # "deploy"
    BY <1>1, <2>2 DEF Effect, Done, Gone
  <2>3. QED
    BY <2>1, <2>2
<1>5. ASSUME c # d, Done(c, n, cfg)
      PROVE  Done(c, n, cfg)'
  <2>1. c.do # d.do \/ c.m # d.m
    BY <1>1, <1>2, <1>5, SameCall
  <2>2. CASE c.do = "control"
    BY <1>1, <1>5, <2>2 DEF Effect, Done
  <2>3. CASE c.do \in {"group", "delstream"}
    BY <1>1, <1>2, <1>3, <1>5, <2>1, <2>3 DEF Effect, Done
  <2>4. CASE c.do \in {"configmap", "unmap"}
    BY <1>1, <1>2, <1>3, <1>5, <2>1, <2>4 DEF Effect, Done
  <2>5. CASE c.do \in {"deploy", "undeploy"}
    BY <1>1, <1>2, <1>3, <1>5, <2>1, <2>5 DEF Effect, Done, Gone
  <2>6. QED
    BY <1>2, <2>2, <2>3, <2>4, <2>5
<1>6. ASSUME NEW m \in cfg.mods
      PROVE  ~pods'[n][m].dying
  <2>1. CASE d.do = "deploy" /\ m = d.m
    BY <1>3, <2>1 DEF Effect
  <2>2. CASE d.do # "deploy" \/ m # d.m
    BY <1>1, <1>3, <2>2 DEF Effect
  <2>3. QED
    BY <2>1, <2>2
<1>7. QED
  BY <1>4, <1>5, <1>6

LEMMA DeleteKeeps ==
  ASSUME NEW cfg \in Configs, NEW c \in DeleteCalls(cfg), NEW d \in DeleteCalls(cfg),
         NEW n \in Namespaces, Effect(d, n, cfg)
  PROVE  Done(d, n, cfg)' /\ (c # d /\ Done(c, n, cfg) => Done(c, n, cfg)')
<1>1. d \in Call /\ (d.do = "delkeys" \/ (d.do \in {"undeploy", "unmap"} /\ d.m \in Modules))
  BY DeletePlan
<1>2. c \in Call /\ (c.do = "delkeys" \/ (c.do \in {"undeploy", "unmap"} /\ c.m \in Modules))
  BY DeletePlan
<1>3. Done(d, n, cfg)'
  BY <1>1 DEF Effect, Done, Gone
<1>4. ASSUME c # d, Done(c, n, cfg)
      PROVE  Done(c, n, cfg)'
  <2>1. c.do # d.do \/ c.m # d.m
    BY <1>1, <1>2, <1>4, SameCall
  <2>2. QED
    BY <1>1, <1>2, <1>4, <2>1 DEF Effect, Done, Gone
<1>5. QED
  BY <1>3, <1>4

LEMMA DisableKeeps ==
  ASSUME NEW cfg \in Configs, NEW c \in DisableCalls(cfg), NEW d \in DisableCalls(cfg),
         NEW n \in Namespaces, Effect(d, n, cfg)
  PROVE  Done(d, n, cfg)' /\ (c # d /\ Done(c, n, cfg) => Done(c, n, cfg)')
<1>1. d \in Call /\ d.do = "scale0" /\ d.m \in Modules
  BY DisablePlan
<1>2. c \in Call /\ c.do = "scale0" /\ c.m \in Modules
  BY DisablePlan
<1>3. Done(d, n, cfg)'
  BY <1>1 DEF Effect, Done
<1>4. ASSUME c # d, Done(c, n, cfg)
      PROVE  Done(c, n, cfg)'
  <2>1. c.m # d.m
    BY <1>1, <1>2, <1>4, SameCall
  <2>2. QED
    BY <1>1, <1>2, <1>4, <2>1 DEF Effect, Done
<1>5. QED
  BY <1>3, <1>4

LEMMA PlannedTyped ==
  ASSUME NEW q, q.op \in {"enable", "disable", "delete"}, q.row.cfg \in Configs
  PROVE  Planned(q) \subseteq Call
BY CallsTyped DEF Planned

\* A step that makes no call, and begins and ends no request.
LEMMA StandKept ==
  ASSUME Shape, StandInv, UNCHANGED <<settled, req>>, used'.faults = 0 => used.faults = 0,
         \A n \in Namespaces, c \in Call : \A cfg : Done(c, n, cfg) => Done(c, n, cfg)',
         \A n \in Namespaces, m \in Modules : pods'[n][m].dying => pods[n][m].dying
  PROVE  StandInv'
<1>1. ASSUME NEW r \in Slots, req[r].pc \in {"call", "save"}, Undisturbed(r)'
      PROVE  \A c \in Planned(req[r]) \ req[r].calls : Done(c, req[r].row.cfg.ns, req[r].row.cfg)'
  <2>1. req[r].row.cfg \in Configs /\ req[r].row.cfg.ns \in Namespaces
    BY <1>1, ConstantFacts DEF Shape, RequestShape, WellFormed
  <2>2. Undisturbed(r) /\ req[r].op \in {"enable", "disable", "delete"}
    BY <1>1 DEF Undisturbed
  <2>3. Planned(req[r]) \subseteq Call
    BY <2>1, <2>2, PlannedTyped
  <2>4. \A c \in Planned(req[r]) \ req[r].calls : Done(c, req[r].row.cfg.ns, req[r].row.cfg)
    BY <1>1, <2>2 DEF StandInv, CallsDone
  <2>5. QED
    BY <2>1, <2>3, <2>4
<1>2. CallsDone'
  BY <1>1 DEF CallsDone
<1>3. NoneLeaving'
  <2>1. SUFFICES ASSUME NEW r \in Slots, req[r].pc \in {"call", "save"}, req[r].op = "enable",
                        settled # Leaving, NEW m \in req[r].row.cfg.mods
                 PROVE  ~pods'[req[r].row.cfg.ns][m].dying
    BY DEF NoneLeaving
  <2>2. req[r].row.cfg.ns \in Namespaces /\ m \in Modules
    BY <2>1, ConstantFacts DEF Shape, RequestShape, WellFormed
  <2>3. QED
    BY <2>1, <2>2 DEF StandInv, NoneLeaving
<1>4. Unsettled'
  BY DEF StandInv, Unsettled
<1>5. DeployStands'
  <2>1. SUFFICES ASSUME settled \in Configs, NEW c \in DeployCalls(settled)
                 PROVE  Done(c, settled.ns, settled)'
    BY DEF DeployStands
  <2>2. c \in Call /\ settled.ns \in Namespaces
    BY <2>1, CallsTyped, ConstantFacts
  <2>3. QED
    BY <2>1, <2>2 DEF StandInv, DeployStands
<1>6. QED
  BY <1>2, <1>3, <1>4, <1>5 DEF StandInv

\* A request that begins, or is over, without a call.
LEMMA StandRequest ==
  ASSUME StandInv, UNCHANGED <<redis, cluster>>,
         settled' = settled \/ settled' \in {NoConfig, Leaving},
         \A s \in Slots :
            /\ req'[s].op \in ResourceOps => settled' \in {NoConfig, Leaving}
            /\ req'[s].pc \in {"call", "save"} /\ req'[s].op \in {"enable", "disable", "delete"}
               => Planned(req'[s]) \subseteq req'[s].calls
            /\ req'[s].pc \in {"call", "save"} /\ req'[s].op = "enable" /\ settled' # Leaving
               => \A m \in req'[s].row.cfg.mods : ~pods[req'[s].row.cfg.ns][m].dying
  PROVE  StandInv'
<1>1. CallsDone'
  BY DEF CallsDone, Undisturbed
<1>2. NoneLeaving'
  BY DEF NoneLeaving, cluster
<1>3. Unsettled'
  BY DEF Unsettled
<1>4. DeployStands'
  <2>1. SUFFICES ASSUME settled' \in Configs, NEW c \in DeployCalls(settled')
                 PROVE  Done(c, settled.ns, settled)'
    BY DEF DeployStands
  <2>2. settled' = settled
    BY <2>1, SentinelAssumption
  <2>3. Done(c, settled.ns, settled)
    BY <2>1, <2>2 DEF StandInv, DeployStands
  <2>4. QED
    BY <2>2, <2>3 DEF Done, Gone, redis, cluster
<1>5. QED
  BY <1>1, <1>2, <1>3, <1>4 DEF StandInv

LEMMA StandAccept ==
  ASSUME OneAtATime, Shape, StandInv, NEW r \in Slots, NEW q, Accept(r, q),
         q.pc \in {"call", "save"} /\ q.op \in {"enable", "disable", "delete"}
           => Planned(q) \subseteq q.calls,
         q.pc \in {"call", "save"} /\ q.op = "enable" => q.row.cfg \in Configs
  PROVE  StandInv'
<1>1. \A s \in Slots : req'[s] = q
  BY ReqAlone DEF Accept
<1>2. settled' = settled \/ settled' \in {NoConfig, Leaving}
  BY DEF Accept
<1>3. q.op \in ResourceOps => settled' \in {NoConfig, Leaving}
  BY DEF Accept, ResourceOps
<1>4. ASSUME q.pc \in {"call", "save"}, q.op = "enable", settled' # Leaving
      PROVE  \A m \in q.row.cfg.mods : ~pods[q.row.cfg.ns][m].dying
  <2>1. q.row.cfg.ns \in Namespaces /\ q.row.cfg.mods \subseteq Modules
    BY <1>4, ConstantFacts
  <2>2. ~\E n \in Namespaces, m \in Modules : pods[n][m].dying
    BY <1>4 DEF Accept
  <2>3. QED
    BY <2>1, <2>2
<1>5. UNCHANGED <<redis, cluster>>
  BY DEF Accept
<1>6. QED
  BY <1>1, <1>2, <1>3, <1>4, <1>5, StandRequest

LEMMA StandReads ==
  ASSUME OneAtATime, Shape, StandInv, NEW r \in Slots,
         \/ CreateRead(r) \/ UpdateRead(r) \/ EnableRead(r) \/ ScaleRead(r) \/ GateRead(r)
         \/ NewTaskRead(r) \/ \E t \in TaskIds : RestartRead(r, t)
  PROVE  StandInv'
<1>1. CASE CreateRead(r)
  <2>1. PICK cfg \in Configs :
          Accept(r, [IdleReq EXCEPT !.op = "create", !.pc = "save",
                                    !.row = [state |-> "draft", cfg |-> cfg, born |-> 0]])
    BY <1>1 DEF CreateRead
  <2>2. QED
    BY <2>1, StandAccept DEF IdleReq
<1>2. CASE UpdateRead(r)
  <2>1. PICK cfg \in Configs :
          Accept(r, [IdleReq EXCEPT !.op = "update", !.pc = "save", !.row = [row EXCEPT !.cfg = cfg]])
    BY <1>2 DEF UpdateRead
  <2>2. QED
    BY <2>1, StandAccept DEF IdleReq
<1>3. CASE EnableRead(r)
  <2>1. row.cfg \in Configs
    BY <1>3 DEF EnableRead, Shape, RowShape
  <2>2. QED
    BY <1>3, <2>1, StandAccept DEF EnableRead, IdleReq, Planned
<1>4. CASE ScaleRead(r)
  <2>1. PICK m \in Modules, to \in {"scale0", "scaleup"} :
          Accept(r, [IdleReq EXCEPT !.op = "scale", !.pc = "call", !.row = row,
                                    !.calls = Steps(to, {m})])
    BY <1>4 DEF ScaleRead
  <2>2. QED
    BY <2>1, StandAccept DEF IdleReq
<1>5. CASE GateRead(r)
  <2>1. PICK op \in {"disable", "delete"} : Accept(r, [IdleReq EXCEPT !.op = op, !.pc = "find"])
    BY <1>5 DEF GateRead
  <2>2. QED
    BY <2>1, StandAccept DEF IdleReq
<1>6. CASE NewTaskRead(r)
  BY <1>6, StandAccept DEF NewTaskRead, IdleReq
<1>7. ASSUME NEW t \in TaskIds, RestartRead(r, t)
      PROVE  StandInv'
  BY <1>7, StandAccept DEF RestartRead, IdleReq
<1>8. QED
  BY <1>1, <1>2, <1>3, <1>4, <1>5, <1>6, <1>7

LEMMA StandFind ==
  ASSUME OneAtATime, Shape, StandInv, NEW r \in Slots, GateFind(r)
  PROVE  StandInv'
<1> DEFINE q == [req[r] EXCEPT !.pc = "call", !.row = row,
                   !.calls = IF req[r].op = "delete" THEN DeleteCalls(row.cfg)
                                                     ELSE DisableCalls(row.cfg)]
<1>1. req[r] \in Request /\ req[r].op \in {"disable", "delete"}
  BY DEF GateFind, Shape, TypeOK, RequestShape, WellFormed
<1>2. settled' = settled /\ settled \in {NoConfig, Leaving} /\ UNCHANGED <<redis, cluster>>
  BY <1>1 DEF GateFind, StandInv, Unsettled, ResourceOps
<1>3. CASE req' = [req EXCEPT ![r] = q]
  <2>1. \A s \in Slots : req'[s] = q
    BY <1>3, ReqAlone
  <2>2. /\ q.row = row /\ q.op = req[r].op
        /\ q.calls = IF req[r].op = "delete" THEN DeleteCalls(row.cfg) ELSE DisableCalls(row.cfg)
    BY <1>1 DEF Request
  <2>3. Planned(q) = q.calls
    BY <1>1, <2>2 DEF Planned
  <2> HIDE DEF q
  <2>4. QED
    BY <1>1, <1>2, <2>1, <2>2, <2>3, StandRequest
<1>4. CASE Finish(r)
  <2>1. \A s \in Slots : req'[s] = IdleReq
    BY <1>4, ReqAlone DEF Finish
  <2>2. QED
    BY <1>2, <2>1, StandRequest DEF IdleReq, ResourceOps
<1>5. QED
  BY <1>3, <1>4 DEF GateFind

\* The call a request makes is done, and the earlier ones still are.
LEMMA CallKeeps ==
  ASSUME Shape, StandInv, NEW r \in Slots, req[r].pc = "call", Undisturbed(r),
         NEW cfg \in Configs, cfg = req[r].row.cfg, NEW n \in Namespaces, n = cfg.ns,
         NEW d \in req[r].calls, Perform(d, n, cfg)
  PROVE  /\ \A c \in Planned(req[r]) \ (req[r].calls \ {d}) : Done(c, n, cfg)'
         /\ req[r].op = "enable" /\ settled # Leaving => \A m \in cfg.mods : ~pods'[n][m].dying
<1>1. d \in Call /\ d \in Planned(req[r])
  BY PlannedCall
<1>2. ResourcesTyped
  BY DEF Shape, TypeOK, ResourcesTyped
<1>3. Effect(d, n, cfg)
  BY <1>1, <1>2, PerformEffect
<1>4. \A c \in Planned(req[r]) \ req[r].calls : Done(c, n, cfg)
  BY DEF StandInv, CallsDone
<1>5. CASE req[r].op = "enable" /\ settled # Leaving
  <2>1. Planned(req[r]) = DeployCalls(cfg) /\ \A m \in cfg.mods : ~pods[n][m].dying
    BY <1>5 DEF Planned, StandInv, NoneLeaving
  <2>2. \A c \in DeployCalls(cfg) :
          /\ Done(d, n, cfg)'
          /\ c # d /\ Done(c, n, cfg) => Done(c, n, cfg)'
          /\ \A m \in cfg.mods : ~pods'[n][m].dying
    BY <1>1, <1>2, <1>3, <2>1, DeployKeeps
  <2>3. QED
    BY <1>1, <1>4, <2>1, <2>2
<1>6. CASE req[r].op = "delete"
  <2>1. Planned(req[r]) = DeleteCalls(cfg)
    BY <1>6 DEF Planned
  <2>2. \A c \in DeleteCalls(cfg) : Done(d, n, cfg)' /\ (c # d /\ Done(c, n, cfg) => Done(c, n, cfg)')
    BY <1>1, <1>3, <2>1, DeleteKeeps
  <2>3. QED
    BY <1>1, <1>4, <1>6, <2>1, <2>2
<1>7. CASE req[r].op = "disable"
  <2>1. Planned(req[r]) = DisableCalls(cfg)
    BY <1>7 DEF Planned
  <2>2. \A c \in DisableCalls(cfg) : Done(d, n, cfg)' /\ (c # d /\ Done(c, n, cfg) => Done(c, n, cfg)')
    BY <1>1, <1>3, <2>1, DisableKeeps
  <2>3. QED
    BY <1>1, <1>4, <1>7, <2>1, <2>2
<1>8. QED
  BY <1>5, <1>6, <1>7 DEF Undisturbed

LEMMA StandCall ==
  ASSUME OneAtATime, Shape, StandInv, NEW r \in Slots, MakeCall(r)
  PROVE  StandInv'
<1>1. PICK d \in req[r].calls :
        /\ req[r].pc = "call"
        /\ LET n  == req[r].row.cfg.ns
               Do == Perform(d, n, req[r].row.cfg)
           IN  \/ Do /\ Succeeds /\ Advance(r, d)
               \/ (Do \/ UNCHANGED <<redis, cluster>>) /\ Fails /\ AfterError(r, d)
               \/ NotFound(d, n) /\ UNCHANGED <<redis, cluster>> /\ Succeeds /\ AfterError(r, d)
        /\ UNCHANGED settled
  BY DEF MakeCall
<1>2. /\ d \in Call /\ d \in Planned(req[r]) /\ req[r].op \in ResourceOps
      /\ req[r].row.cfg \in Configs /\ req[r].row.cfg.ns \in Namespaces
  BY <1>1, PlannedCall
<1>3. PICK cfg \in Configs : cfg = req[r].row.cfg
  BY <1>2
<1>4. PICK n \in Namespaces : n = cfg.ns
  BY <1>2, <1>3
<1>5. settled \in {NoConfig, Leaving} /\ settled' = settled
  BY <1>1, <1>2 DEF StandInv, Unsettled
<1>6. Unsettled' /\ DeployStands'
  BY <1>5, SentinelAssumption DEF Unsettled, DeployStands
<1>7. ASSUME Finish(r)
      PROVE  CallsDone' /\ NoneLeaving'
  <2>1. \A s \in Slots : req'[s] = IdleReq
    BY <1>7, ReqAlone DEF Finish
  <2>2. QED
    BY <2>1 DEF CallsDone, NoneLeaving, IdleReq
\* What is left of the request, when it goes on.
<1>8. ASSUME Advance(r, d), NEW s \in Slots
      PROVE  \/ req'[s] = IdleReq
             \/ /\ req'[s].op = req[r].op /\ req'[s].row.cfg = cfg
                /\ req'[s].calls = req[r].calls \ {d}
                /\ Planned(req'[s]) = Planned(req[r])
  BY <1>3, <1>8, Goes DEF Planned
<1>9. ASSUME Perform(d, n, cfg), Succeeds, Advance(r, d)
      PROVE  CallsDone' /\ NoneLeaving'
  <2>1. CallsDone'
    <3>1. SUFFICES ASSUME NEW s \in Slots, req'[s].pc \in {"call", "save"}, Undisturbed(s)',
                          NEW c \in Planned(req'[s]) \ req'[s].calls
                   PROVE  Done(c, req[s].row.cfg.ns, req[s].row.cfg)'
      BY DEF CallsDone
    <3>2. /\ req'[s].op = req[r].op /\ req'[s].row.cfg = cfg
          /\ req'[s].calls = req[r].calls \ {d} /\ Planned(req'[s]) = Planned(req[r])
      BY <1>8, <1>9, <3>1 DEF IdleReq
    <3>3. Undisturbed(r)
      BY <1>5, <1>9, <3>1, <3>2 DEF Undisturbed, Succeeds
    <3>4. Done(c, n, cfg)'
      BY <1>1, <1>3, <1>4, <1>9, <3>1, <3>2, <3>3, CallKeeps
    <3>5. QED
      BY <1>4, <3>2, <3>4 DEF Done, Gone
  <2>2. NoneLeaving'
    <3>1. SUFFICES ASSUME NEW s \in Slots, req'[s].pc \in {"call", "save"}, req'[s].op = "enable",
                          settled' # Leaving
                   PROVE  \A m \in req'[s].row.cfg.mods : ~pods'[req'[s].row.cfg.ns][m].dying
      BY DEF NoneLeaving
    <3>2. req'[s].op = req[r].op /\ req'[s].row.cfg = cfg
      BY <1>8, <1>9, <3>1 DEF IdleReq
    <3>3. Undisturbed(r)
      BY <1>5, <3>1, <3>2 DEF Undisturbed
    <3>4. QED
      BY <1>1, <1>3, <1>4, <1>5, <1>9, <3>1, <3>2, <3>3, CallKeeps
  <2>3. QED
    BY <2>1, <2>2
<1>10. ASSUME Fails, AfterError(r, d)
       PROVE  CallsDone' /\ NoneLeaving'
  <2>1. CASE Finish(r)
    BY <1>7, <2>1
  <2>2. CASE Advance(r, d) /\ req[r].op = "disable"
    <3>1. used'.faults # 0
      BY <1>10, UsedKept DEF Shape, TypeOK, UsedType
    <3>2. \A s \in Slots : req'[s] = IdleReq \/ req'[s].op = "disable"
      BY <1>8, <2>2
    <3>3. QED
      BY <3>1, <3>2 DEF CallsDone, NoneLeaving, Undisturbed, IdleReq
  <2>3. QED
    BY <1>10, <2>1, <2>2 DEF AfterError
<1>11. ASSUME NotFound(d, n), UNCHANGED <<redis, cluster>>, Succeeds, AfterError(r, d)
       PROVE  CallsDone' /\ NoneLeaving'
  <2>1. CASE Finish(r)
    BY <1>7, <2>1
  <2>2. CASE Advance(r, d) /\ req[r].op = "disable"
    <3>1. d.do = "scale0" /\ pods[n][d.m].state # "up"
      BY <1>2, <1>3, <1>11, <2>2, DisablePlan DEF Planned, NotFound
    <3>2. Done(d, n, cfg)
      BY <3>1 DEF Done
    <3>3. ASSUME NEW s \in Slots, req'[s].pc \in {"call", "save"}, Undisturbed(s)',
                 NEW c \in Planned(req'[s]) \ req'[s].calls
          PROVE  Done(c, req[s].row.cfg.ns, req[s].row.cfg)'
      <4>1. /\ req'[s].op = req[r].op /\ req'[s].row.cfg = cfg
            /\ req'[s].calls = req[r].calls \ {d} /\ Planned(req'[s]) = Planned(req[r])
        BY <1>8, <2>2, <3>3 DEF IdleReq
      <4>2. Undisturbed(r)
        BY <1>5, <1>11, <3>3, <4>1 DEF Undisturbed, Succeeds
      <4>3. Done(c, n, cfg)
        BY <1>1, <1>3, <1>4, <3>2, <3>3, <4>1, <4>2 DEF StandInv, CallsDone
      <4>4. QED
        BY <1>4, <1>11, <4>1, <4>3 DEF Done, Gone, redis, cluster
    <3>4. NoneLeaving'
      BY <1>8, <2>2 DEF NoneLeaving, IdleReq
    <3>5. QED
      BY <3>3, <3>4 DEF CallsDone
  <2>3. QED
    BY <1>11, <2>1, <2>2 DEF AfterError
<1>12. CallsDone' /\ NoneLeaving'
  BY <1>1, <1>3, <1>4, <1>9, <1>10, <1>11
<1>13. QED
  BY <1>6, <1>12 DEF StandInv

LEMMA StandSaveRow ==
  ASSUME OneAtATime, Shape, StandInv, NEW r \in Slots, SaveRow(r)
  PROVE  StandInv'
<1>1. \A s \in Slots : req'[s] = IdleReq
  BY ReqAlone DEF SaveRow, Finish
<1>2. CallsDone' /\ NoneLeaving' /\ Unsettled'
  BY <1>1 DEF CallsDone, NoneLeaving, Unsettled, IdleReq, ResourceOps
<1>3. UNCHANGED <<redis, cluster>>
  BY DEF SaveRow
<1>4. DeployStands'
  <2>1. CASE settled' = settled
    BY <1>3, <2>1 DEF StandInv, DeployStands, Done, Gone, redis, cluster
  <2>2. CASE settled' = Off
    BY <2>2, SentinelAssumption DEF DeployStands
  <2>3. CASE req[r].op = "enable" /\ settled # Leaving /\ settled' = req[r].row.cfg
    <3>1. req[r].pc = "save" /\ req[r].calls = {} /\ req[r].row.cfg \in Configs
      BY DEF SaveRow, Shape, RequestShape, WellFormed
    <3>2. PICK cfg \in Configs : cfg = req[r].row.cfg
      BY <3>1
    <3>3. \A c \in DeployCalls(cfg) : Done(c, cfg.ns, cfg)
      BY <2>3, <3>1, <3>2 DEF StandInv, CallsDone, Undisturbed, Planned
    <3>4. \A c \in DeployCalls(cfg) : Done(c, cfg.ns, cfg)'
      BY <1>3, <3>3 DEF Done, Gone, redis, cluster
    <3>5. QED
      BY <2>3, <3>2, <3>4 DEF DeployStands, Done, Gone
  <2>4. QED
    BY <2>1, <2>2, <2>3 DEF SaveRow
<1>5. QED
  BY <1>2, <1>4 DEF StandInv

LEMMA StandSaveTask ==
  ASSUME OneAtATime, Shape, StandInv, NEW r \in Slots, SaveTask(r)
  PROVE  StandInv'
<1>1. \A s \in Slots : req'[s] = IdleReq
  BY ReqAlone DEF SaveTask, Finish
<1>2. QED
  BY <1>1, StandRequest DEF SaveTask, IdleReq, ResourceOps

LEMMA StandRest ==
  ASSUME OneAtATime, Shape, StandInv,
         \/ \E t \in TaskIds : TaskSend(t) \/ TaskControl(t) \/ TaskEnd(t) \/ WorkerRead(t)
         \/ \E n \in Namespaces, m \in Modules : Collect(n, m)
         \/ Crash
         \/ UNCHANGED vars
  PROVE  StandInv'
<1>1. CASE UNCHANGED <<stream, maps, pods, settled, req, used>> /\ (control => control')
  BY <1>1, StandKept DEF Done, Gone
<1>2. ASSUME NEW t \in TaskIds, TaskSend(t)
      PROVE  StandInv'
  <2>1. \A m \in Modules : (stream[m] = "group") = (stream'[m] = "group")
    BY <1>2, ConstantFacts DEF TaskSend, Shape, TypeOK
  <2>2. \A c \in Call : c.do \in {"group", "delstream"} => c.m \in Modules
    BY DEF Call
  <2>3. UNCHANGED <<control, maps, pods, settled, req, used>>
    BY <1>2 DEF TaskSend, cluster
  <2>4. \A n \in Namespaces, c \in Call : \A cfg : Done(c, n, cfg) => Done(c, n, cfg)'
    BY <2>1, <2>2, <2>3 DEF Done, Gone
  <2>5. QED
    BY <2>3, <2>4, StandKept
<1>3. ASSUME NEW n \in Namespaces, NEW m \in Modules, Collect(n, m)
      PROVE  StandInv'
  <2>1. UNCHANGED <<stream, control, maps, settled, req, used>>
    BY <1>3 DEF Collect, redis
  <2>2. \A k \in Namespaces, l \in Modules :
           \/ pods'[k][l] = pods[k][l]
           \/ pods[k][l].dying /\ pods'[k][l] = NoPods
    BY <1>3 DEF Collect, Shape, TypeOK
  <2>3. \A c \in Call : c.do \in {"deploy", "undeploy", "scale0"} => c.m \in Modules
    BY DEF Call
  <2>4. ASSUME NEW k \in Namespaces, NEW c \in Call, NEW cfg, Done(c, k, cfg)
        PROVE  Done(c, k, cfg)'
    <3>1. CASE c.do \notin {"deploy", "undeploy", "scale0"}
      BY <2>1, <2>4, <3>1 DEF Done
    <3>2. CASE c.do \in {"deploy", "undeploy", "scale0"} /\ pods'[k][c.m] = pods[k][c.m]
      BY <2>4, <3>2 DEF Done, Gone
    <3>3. CASE c.do \in {"deploy", "undeploy", "scale0"} /\ pods[k][c.m].dying /\ pods'[k][c.m] = NoPods
      BY <2>4, <3>3 DEF Done, Gone, NoPods
    <3>4. QED
      BY <2>2, <2>3, <3>1, <3>2, <3>3
  <2>5. \A k \in Namespaces, l \in Modules : pods'[k][l].dying => pods[k][l].dying
    BY <2>2
  <2>6. QED
    BY <2>1, <2>4, <2>5, StandKept
<1>4. CASE Crash
  BY <1>4, StandRequest DEF Crash, IdleReq, ResourceOps
<1>5. QED
  BY <1>1, <1>2, <1>3, <1>4 DEF TaskControl, TaskEnd, WorkerRead, vars, redis, cluster

LEMMA StandNext ==
  ASSUME OneAtATime PROVE Shape /\ StandInv /\ [Next]_vars => StandInv'
<1> SUFFICES ASSUME Shape, StandInv, [Next]_vars PROVE StandInv'
  OBVIOUS
<1>1. ASSUME NEW r \in Slots, GateFind(r) \/ MakeCall(r) \/ SaveRow(r) \/ SaveTask(r)
      PROVE  StandInv'
  BY <1>1, StandFind, StandCall, StandSaveRow, StandSaveTask
<1>2. QED
  BY <1>1, StandReads, StandRest DEF Next

LEMMA StandInit == Init => StandInv
BY SentinelAssumption
   DEF Init, StandInv, CallsDone, NoneLeaving, Unsettled, DeployStands, IdleReq, ResourceOps

LEMMA StandAlways == ASSUME OneAtATime PROVE Spec => [](Shape /\ GatesInv /\ StandInv)
<1>1. Init => StandInv
  BY StandInit
<1>2. Shape /\ StandInv /\ [Next]_vars => StandInv'
  BY StandNext
<1>3. QED
  BY <1>1, <1>2, GatesAlways, PTL DEF Spec

\* With one request at a time, whatever broke off before: after a deploy that
\* returned without an error every enabled module has its stream, group,
\* ConfigMap and Deployment, and no other module has any.
THEOREM DeployLeaves == ASSUME OneAtATime PROVE Spec => []DeployedAsConfigured
<1>1. Shape /\ StandInv => DeployedAsConfigured
  <2> SUFFICES ASSUME StandInv, settled \in Configs
               PROVE  /\ control
                      /\ \A m \in settled.mods :
                            /\ stream[m] = "group"
                            /\ maps[settled.ns][m] = settled
                            /\ pods[settled.ns][m].state = "up" /\ pods[settled.ns][m].cfg = settled
                      /\ \A m \in Modules \ settled.mods :
                            /\ stream[m] # "group"
                            /\ maps[settled.ns][m] = NoConfig
                            /\ pods[settled.ns][m].state = "none" \/ pods[settled.ns][m].dying
    BY DEF DeployedAsConfigured
  <2>1. \A c \in DeployCalls(settled) : Done(c, settled.ns, settled)
    BY DEF StandInv, DeployStands
  <2>2. control
    <3>1. [do |-> "control", m |-> "none"] \in DeployCalls(settled)
      BY DEF DeployCalls, Once
    <3>2. QED
      BY <2>1, <3>1 DEF Done
  <2>3. ASSUME NEW m \in settled.mods
        PROVE  /\ stream[m] = "group"
               /\ maps[settled.ns][m] = settled
               /\ pods[settled.ns][m].state = "up" /\ pods[settled.ns][m].cfg = settled
    <3>1. \A do \in {"group", "configmap", "deploy"} : [do |-> do, m |-> m] \in DeployCalls(settled)
      BY DEF DeployCalls, Steps
    <3>2. Done([do |-> "group", m |-> m], settled.ns, settled)
      BY <2>1, <3>1
    <3>3. Done([do |-> "configmap", m |-> m], settled.ns, settled)
      BY <2>1, <3>1
    <3>4. Done([do |-> "deploy", m |-> m], settled.ns, settled)
      BY <2>1, <3>1
    <3>5. QED
      BY <3>2, <3>3, <3>4 DEF Done
  <2>4. ASSUME NEW m \in Modules \ settled.mods
        PROVE  /\ stream[m] # "group"
               /\ maps[settled.ns][m] = NoConfig
               /\ pods[settled.ns][m].state = "none" \/ pods[settled.ns][m].dying
    <3>1. \A do \in {"delstream", "undeploy", "unmap"} : [do |-> do, m |-> m] \in DeployCalls(settled)
      BY DEF DeployCalls, Steps, Surplus
    <3>2. Done([do |-> "delstream", m |-> m], settled.ns, settled)
      BY <2>1, <3>1
    <3>3. Done([do |-> "undeploy", m |-> m], settled.ns, settled)
      BY <2>1, <3>1
    <3>4. Done([do |-> "unmap", m |-> m], settled.ns, settled)
      BY <2>1, <3>1
    <3>5. QED
      BY <3>2, <3>3, <3>4 DEF Done, Gone
  <2>5. QED
    BY <2>2, <2>3, <2>4
<1>2. QED
  BY <1>1, StandAlways, PTL

LEMMA OnlyNamespace ==
  ASSUME SameNamespace, NEW cfg \in Configs, NEW n \in Namespaces PROVE n = cfg.ns
BY DEF SameNamespace, Namespaces

LEMMA OffNext ==
  ASSUME OneAtATime, SameNamespace
  PROVE  Shape /\ StandInv /\ OffStands /\ [Next]_vars => OffStands'
<1> SUFFICES ASSUME Shape, StandInv, OffStands, [Next]_vars, settled' = Off, used'.faults = 0,
                    NEW n \in Namespaces, NEW m \in Modules
             PROVE  pods'[n][m].state # "up"
  BY DEF OffStands
<1>1. \A r \in Slots : req[r].op \in ResourceOps => settled # Off
  BY DEF StandInv, Unsettled, NoConfig, Leaving, Off
<1>2. ASSUME settled = Off, used.faults = 0, UNCHANGED pods
      PROVE  pods'[n][m].state # "up"
  BY <1>2 DEF OffStands
<1>3. ASSUME NEW r \in Slots, NEW q, Accept(r, q), Counted \/ NoActiveTask
      PROVE  pods'[n][m].state # "up"
  <2>1. settled = Off
    BY <1>3 DEF Accept, NoConfig, Leaving, Off
  <2>2. used.faults = 0
    BY <1>3, UsedKept DEF Shape, TypeOK, UsedType
  <2>3. QED
    BY <1>2, <1>3, <2>1, <2>2 DEF Accept, cluster
<1>4. ASSUME NEW r \in Slots, GateFind(r) \/ MakeCall(r)
      PROVE  FALSE
  <2>1. req[r].op \in ResourceOps
    BY <1>4 DEF GateFind, MakeCall, Shape, RequestShape, WellFormed, ResourceOps
  <2>2. settled' = settled
    BY <1>4 DEF GateFind, MakeCall
  <2>3. QED
    BY <1>1, <2>1, <2>2
<1>5. ASSUME NEW r \in Slots, SaveRow(r)
      PROVE  pods'[n][m].state # "up"
  <2>1. used.faults = 0 /\ UNCHANGED pods
    <3>1. CASE used' = [used EXCEPT !.clock = IF req[r].op = "create" THEN @ + 1 ELSE @]
      BY <1>5, <3>1 DEF SaveRow, cluster, Shape, TypeOK, UsedType
    <3>2. CASE Fails
      BY <1>5, <3>2, UsedKept DEF SaveRow, cluster, Shape, TypeOK, UsedType
    <3>3. QED
      BY <1>5, <3>1, <3>2 DEF SaveRow
  <2>2. CASE settled' = settled
    BY <1>2, <2>1, <2>2
  <2>3. CASE req[r].op = "disable"
    <3>1. req[r].pc = "save" /\ req[r].calls = {} /\ req[r].row.cfg \in Configs
      BY <1>5, <2>3 DEF SaveRow, Shape, RequestShape, WellFormed
    <3>2. PICK cfg \in Configs : cfg = req[r].row.cfg
      BY <3>1
    <3>3. \A c \in DisableCalls(cfg) : Done(c, cfg.ns, cfg)
      BY <2>1, <2>3, <3>1, <3>2 DEF StandInv, CallsDone, Undisturbed, Planned
    <3>4. [do |-> "scale0", m |-> m] \in DisableCalls(cfg)
      BY DEF DisableCalls, Steps, Owned
    <3>5. Done([do |-> "scale0", m |-> m], n, cfg)
      BY <3>3, <3>4, OnlyNamespace
    <3>6. QED
      BY <2>1, <3>5 DEF Done
  <2>4. CASE settled' = req[r].row.cfg /\ req[r].op = "enable"
    <3>1. req[r].row.cfg \in Configs
      BY <1>5, <2>4 DEF SaveRow, Shape, RequestShape, WellFormed
    <3>2. QED
      BY <2>4, <3>1, SentinelAssumption
  <2>5. QED
    BY <1>5, <2>2, <2>3, <2>4 DEF SaveRow
<1>6. ASSUME NEW r \in Slots, SaveTask(r)
      PROVE  pods'[n][m].state # "up"
  <2>1. settled = Off /\ UNCHANGED pods
    BY <1>6 DEF SaveTask, cluster
  <2>2. used.faults = 0
    <3>1. CASE \E t \in TaskIds : InsertTask(t)
      BY <3>1 DEF InsertTask, Shape, TypeOK
    <3>2. CASE Succeeds
      BY <3>2 DEF Succeeds
    <3>3. CASE Fails
      BY <3>3, UsedKept DEF Shape, TypeOK, UsedType
    <3>4. QED
      BY <1>6, <3>1, <3>2, <3>3 DEF SaveTask, ReviveTask
  <2>3. QED
    BY <1>2, <2>1, <2>2
<1>7. ASSUME NEW k \in Namespaces, NEW l \in Modules, Collect(k, l)
      PROVE  pods'[n][m].state # "up"
  <2>1. pods[n][m].state # "up"
    BY <1>7 DEF Collect, OffStands
  <2>2. pods'[n][m] \in {pods[n][m], NoPods}
    BY <1>7 DEF Collect, Shape, TypeOK
  <2>3. QED
    BY <2>1, <2>2 DEF NoPods
<1>8. CASE Crash
  BY <1>2, <1>8 DEF Crash, cluster, Shape, TypeOK
<1>9. ASSUME NEW r \in Slots,
             \/ CreateRead(r) \/ UpdateRead(r) \/ EnableRead(r) \/ ScaleRead(r) \/ GateRead(r)
             \/ NewTaskRead(r) \/ \E t \in TaskIds : RestartRead(r, t)
      PROVE  \E q : Accept(r, q) /\ (Counted \/ NoActiveTask)
  BY <1>9 DEF CreateRead, UpdateRead, EnableRead, ScaleRead, GateRead, NewTaskRead, RestartRead
<1>10. CASE UNCHANGED <<settled, used, pods>>
  BY <1>2, <1>10
<1>11. QED
  BY <1>3, <1>4, <1>5, <1>6, <1>7, <1>8, <1>9, <1>10
     DEF Next, vars, TaskSend, TaskControl, TaskEnd, WorkerRead, cluster

\* After a disable no Deployment of the policy has pods, also those an earlier
\* configuration had or a deploy that broke off has left: with one request at a time,
\* configurations in one namespace and no failing call.
THEOREM DisableLeaves ==
  ASSUME OneAtATime, SameNamespace PROVE Spec => []DisabledIsIdle
<1>1. Init => OffStands
  BY DEF Init, OffStands, NoConfig, Off
<1>2. OffStands => DisabledIsIdle
  BY DEF OffStands, DisabledIsIdle
<1>3. QED
  BY <1>1, <1>2, StandAlways, OffNext, PTL DEF Spec

LEMMA DeleteNext ==
  ASSUME OneAtATime, SameNamespace
  PROVE  Shape /\ GatesInv /\ StandInv /\ DeleteStands /\ [Next]_vars => DeleteStands'
<1> SUFFICES ASSUME Shape, GatesInv, StandInv, DeleteStands, [Next]_vars, row'.state = "none",
                    NEW n \in Namespaces, NEW m \in Modules
             PROVE  maps'[n][m] = NoConfig /\ Gone(n, m)'
  BY DEF DeleteStands
<1>1. ASSUME row.state = "none", UNCHANGED cluster
      PROVE  maps'[n][m] = NoConfig /\ Gone(n, m)'
  BY <1>1 DEF DeleteStands, Gone, cluster
<1>2. ASSUME NEW r \in Slots, MakeCall(r)
      PROVE  FALSE
  <2>1. PICK c \in req[r].calls : req[r].pc = "call" /\ row' = row
    BY <1>2 DEF MakeCall
  <2>2. req[r].op # "create"
    BY <2>1, PlannedCall DEF ResourceOps
  <2>3. QED
    BY <2>1, <2>2 DEF GatesInv, RowHeld
<1>3. ASSUME NEW r \in Slots, SaveRow(r)
      PROVE  maps'[n][m] = NoConfig /\ Gone(n, m)'
  <2>1. req[r].pc = "save" /\ UNCHANGED cluster
    BY <1>3 DEF SaveRow
  <2>2. CASE row.state = "none"
    BY <1>1, <2>1, <2>2
  <2>3. CASE row.state # "none" /\ req[r].op = "delete"
    <3>1. req[r].calls = {} /\ req[r].row.cfg \in Configs
      BY <2>1 DEF Shape, RequestShape, WellFormed
    <3>2. PICK cfg \in Configs : cfg = req[r].row.cfg
      BY <3>1
    <3>3. \A c \in DeleteCalls(cfg) : Done(c, cfg.ns, cfg)
      BY <2>1, <2>3, <3>1, <3>2 DEF StandInv, CallsDone, Undisturbed, Planned
    <3>4. /\ [do |-> "undeploy", m |-> m] \in DeleteCalls(cfg)
          /\ [do |-> "unmap", m |-> m] \in DeleteCalls(cfg)
      BY DEF DeleteCalls, Steps, Owned
    <3>5. /\ Done([do |-> "undeploy", m |-> m], n, cfg)
          /\ Done([do |-> "unmap", m |-> m], n, cfg)
      BY <3>3, <3>4, OnlyNamespace
    <3>6. QED
      BY <2>1, <3>5 DEF Done, Gone, cluster
  <2>4. CASE row.state # "none" /\ req[r].op # "delete"
    <3>1. req[r].row.state # "none" /\ req[r].row \in Row
      BY <2>1 DEF Shape, RequestShape, WellFormed, TypeOK, Request
    <3>2. row' = SavedRow(r)
      BY <1>3, <2>4 DEF SaveRow
    <3>3. CASE req[r].op \in {"create", "scale"}
      BY <2>4, <3>2, <3>3 DEF SavedRow
    <3>4. CASE req[r].op \in {"update", "enable", "disable"}
      BY <3>1, <3>2, <3>4 DEF SavedRow, Deployed, Row
    <3>5. QED
      BY <1>3, <2>4, <3>3, <3>4 DEF SaveRow, PolicyOps
  <2>5. QED
    BY <2>2, <2>3, <2>4
<1>4. ASSUME NEW k \in Namespaces, NEW l \in Modules, Collect(k, l)
      PROVE  maps'[n][m] = NoConfig /\ Gone(n, m)'
  <2>1. maps[n][m] = NoConfig /\ Gone(n, m) /\ UNCHANGED maps
    BY <1>4 DEF Collect, DeleteStands
  <2>2. pods'[n][m] \in {pods[n][m], NoPods}
    BY <1>4 DEF Collect, Shape, TypeOK
  <2>3. QED
    BY <2>1, <2>2 DEF NoPods, Gone
<1>5. CASE UNCHANGED <<row, cluster>>
  BY <1>1, <1>5
<1>6. QED
  BY <1>2, <1>3, <1>4, <1>5
     DEF Next, vars, CreateRead, UpdateRead, EnableRead, ScaleRead, GateRead, GateFind, NewTaskRead,
         SaveTask, RestartRead, Accept, TaskSend, TaskControl, TaskEnd, WorkerRead, Crash, cluster

\* A policy that is gone has left neither ConfigMap nor Deployment, also of what
\* deploys that broke off had made, whichever calls failed: with one request at a
\* time and configurations in one namespace (an update that moves the policy
\* leaves the old namespace as it is).
THEOREM DeleteLeaves ==
  ASSUME OneAtATime, SameNamespace PROVE Spec => []DeletedIsClean
<1>1. Init => DeleteStands
  BY DEF Init, DeleteStands, Gone, NoPods
<1>2. DeleteStands => DeletedIsClean
  BY DEF DeleteStands, DeletedIsClean, Gone
<1>3. QED
  BY <1>1, <1>2, StandAlways, DeleteNext, PTL DEF Spec

==============================================================================
