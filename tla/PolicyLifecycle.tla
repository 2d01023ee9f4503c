--------------------------- MODULE PolicyLifecycle ---------------------------
(***************************************************************************)
(* The life of a policy: the handlers of api/handler/policy.go, the deploy *)
(* functions of service/scheduler/scheduler.go, the row in MySQL, the      *)
(* streams and consumer groups in Redis and the ConfigMaps and Deployments *)
(* in the cluster; and the tasks, as far as the two gates between policies *)
(* and tasks look at them (hasActiveTask, and the reads of the policy row  *)
(* by Create and Restart of a task).                                       *)
(*                                                                         *)
(* One policy id: every key and object name contains the id, and the id of *)
(* the last policy is given again after a delete (nextPolicyID).           *)
(***************************************************************************)
EXTENDS Naturals, Sequences

CONSTANTS
  ModuleSeq,    \* the scanner modules in the order of the code
  Configs,      \* the valid configurations users save, replicas at least 1
  TaskIds,      \* bound: the tasks ever inserted
  Slots,        \* bound: API requests that can be in progress at once
  Ops,          \* the operations the requests ask for
  Lingers,      \* whether a deleted Deployment waits for its pods (foreground)
  MaxRequests,  \* bound: accepted requests
  MaxFaults,    \* bound: SQL, Redis or cluster calls that return an error
  MaxCrashes    \* bound: restarts of the backend process

Modules    == {ModuleSeq[i] : i \in DOMAIN ModuleSeq}
Namespaces == {c.ns : c \in Configs}
PolicyOps  == {"create", "update", "enable", "disable", "delete", "scale"}
TaskOps    == {"newtask", "retask"}

ASSUME ModuleAssumption == ModuleSeq \in Seq(STRING) /\ "portscan" \in Modules
ASSUME ConfigAssumption ==
  \A c \in Configs : DOMAIN c = {"ns", "mods"} /\ c.mods \subseteq Modules
ASSUME BoundsAssumption ==
  /\ MaxRequests \in Nat /\ MaxFaults \in Nat /\ MaxCrashes \in Nat
  /\ Lingers \in BOOLEAN /\ TaskIds \subseteq Nat
ASSUME OpsAssumption == Ops \subseteq PolicyOps \cup TaskOps

VARIABLES
  row,      \* the policies row: state, configuration, creation time; or NoRow
  stream,   \* business streams: "none", "bare" (no consumer group) or "group"
  control,  \* whether the control stream exists
  unread,   \* tasks with entries on the portscan stream no worker has read
  maps,     \* ConfigMaps by namespace and module: a configuration or NoConfig
  pods,     \* Deployments by namespace and module
  tasks,    \* tasks: state and creation time
  req,      \* the request a slot works on
  settled,  \* history: what the last deploy or disable that completed has left,
            \* until the next request that touches the resources; a deploy that
            \* met Deployments on their way out (Leaving) does not count
  used      \* the clock of the creation times, and how much of a bound is spent

redis   == <<stream, control, unread>>
cluster == <<maps, pods>>
vars    == <<row, stream, control, unread, maps, pods, tasks, req, settled, used>>

-----------------------------------------------------------------------------
(* Types *)

NoConfig == [ns |-> "none", mods |-> {}]
Off      == [ns |-> "off", mods |-> {}]
Leaving  == [ns |-> "leaving", mods |-> {}]
ASSUME SentinelAssumption == Configs \cap {NoConfig, Off, Leaving} = {}
NoRow    == [state |-> "none", cfg |-> NoConfig, born |-> 0]
NoPods   == [state |-> "none", cfg |-> NoConfig, dying |-> FALSE]
NoTask   == [state |-> "none", created |-> 0]
IdleReq  == [op |-> "none", pc |-> "idle", row |-> NoRow, calls |-> {}, task |-> 0]

Row  == [state : {"none", "draft", "active", "inactive"},
         cfg : Configs \cup {NoConfig}, born : Nat]
Pods == [state : {"none", "zero", "up"}, cfg : Configs \cup {NoConfig}, dying : BOOLEAN]
Task == [state : {"none", "active", "ended"}, created : Nat]
Call == [do : {"group", "delstream", "configmap", "deploy", "undeploy", "unmap",
               "scale0", "scaleup"}, m : Modules]
        \cup [do : {"control", "delkeys"}, m : {"none"}]
Request == [op : Ops \cup {"none"}, pc : {"idle", "find", "call", "save"}, row : Row,
            calls : SUBSET Call, task : TaskIds \cup {0}]

TypeOK ==
  /\ row \in Row
  /\ stream \in [Modules -> {"none", "bare", "group"}]
  /\ control \in BOOLEAN
  /\ unread \subseteq TaskIds
  /\ maps \in [Namespaces -> [Modules -> Configs \cup {NoConfig}]]
  /\ pods \in [Namespaces -> [Modules -> Pods]]
  /\ tasks \in [TaskIds -> Task]
  /\ req \in [Slots -> Request]
  /\ settled \in Configs \cup {NoConfig, Off, Leaving}
  /\ used \in [clock : Nat, faults : Nat, crashes : Nat, requests : Nat]

Init ==
  /\ row = NoRow
  /\ stream = [m \in Modules |-> "none"]
  /\ control = FALSE
  /\ unread = {}
  /\ maps = [n \in Namespaces |-> [m \in Modules |-> NoConfig]]
  /\ pods = [n \in Namespaces |-> [m \in Modules |-> NoPods]]
  /\ tasks = [t \in TaskIds |-> NoTask]
  /\ req = [r \in Slots |-> IdleReq]
  /\ settled = NoConfig
  /\ used = [clock |-> 1, faults |-> 0, crashes |-> 0, requests |-> 0]

Succeeds == UNCHANGED used
Fails == /\ used.faults < MaxFaults
         /\ used' = [used EXCEPT !.faults = @ + 1]

-----------------------------------------------------------------------------
(* The calls to Redis and the cluster.  A handler makes them one by one.   *)

Steps(do, on) == {[do |-> do, m |-> m] : m \in on}
Once(do)      == {[do |-> do, m |-> "none"]}

\* Mutant: modules that are disabled now are left as they are.
SurplusNone(cfg) == {}

\* The modules a deploy clears away.
Surplus(cfg) == Modules \ cfg.mods

\* Mutant: only the modules the configuration enables now are looked at.
OwnedEnabled(cfg) == cfg.mods

\* The modules a disable or a delete goes through.
Owned(cfg) == Modules

DeployCalls(cfg) ==
  Steps("group", cfg.mods) \cup Steps("delstream", Surplus(cfg)) \cup Once("control")
    \cup Steps("configmap", cfg.mods) \cup Steps("deploy", cfg.mods)
    \cup Steps("undeploy", Surplus(cfg)) \cup Steps("unmap", Surplus(cfg))

DisableCalls(cfg) == Steps("scale0", Owned(cfg))

DeleteCalls(cfg) ==
  Once("delkeys") \cup Steps("undeploy", Owned(cfg)) \cup Steps("unmap", Owned(cfg))

\* The order of the calls: one loop over the modules after the other, in a loop
\* the modules in turn, for a module one call or two.
Stage == [delkeys |-> 0, scale0 |-> 0, scaleup |-> 0, group |-> 1, delstream |-> 2, control |-> 3,
          configmap |-> 4, deploy |-> 4, undeploy |-> 5, unmap |-> 5]
Place(m) == CHOOSE i \in DOMAIN ModuleSeq : ModuleSeq[i] = m

Before(c, d) ==
  \/ Stage[c.do] < Stage[d.do]
  \/ Stage[c.do] = Stage[d.do] /\ c.m # d.m /\ Place(c.m) < Place(d.m)
  \/ c.m = d.m /\ <<c.do, d.do>> \in {<<"configmap", "deploy">>, <<"undeploy", "unmap">>}

\* XGROUP CREATE MKSTREAM from the beginning of the stream.
EnsureGroup(m) ==
  /\ stream' = [stream EXCEPT ![m] = "group"]
  /\ UNCHANGED <<control, unread, cluster>>

DeleteStream(m) ==
  /\ stream' = [stream EXCEPT ![m] = "none"]
  /\ unread' = IF m = "portscan" THEN {} ELSE unread
  /\ UNCHANGED <<control, cluster>>

EnsureControl == control' = TRUE /\ UNCHANGED <<stream, unread, cluster>>

DeleteKeys ==
  /\ stream' = [m \in Modules |-> "none"]
  /\ control' = FALSE
  /\ unread' = {}
  /\ UNCHANGED cluster

PutConfigMap(n, m, cfg) ==
  /\ maps' = [maps EXCEPT ![n][m] = cfg]
  /\ UNCHANGED <<redis, pods>>

DeleteConfigMap(n, m) ==
  /\ maps' = [maps EXCEPT ![n][m] = NoConfig]
  /\ UNCHANGED <<redis, pods>>

\* Create, or update of what is there: an object being deleted stays so.
PutDeployment(n, m, cfg) ==
  /\ pods' = [pods EXCEPT ![n][m] = [state |-> "up", cfg |-> cfg, dying |-> @.dying]]
  /\ UNCHANGED <<redis, maps>>

DeleteDeployment(n, m) ==
  /\ pods' = [pods EXCEPT ![n][m] =
                IF @.state # "none" /\ Lingers THEN [@ EXCEPT !.dying = TRUE] ELSE NoPods]
  /\ UNCHANGED <<redis, maps>>

Scale(n, m, to) ==
  /\ pods[n][m].state # "none"
  /\ pods' = [pods EXCEPT ![n][m].state = to]
  /\ UNCHANGED <<redis, maps>>

Perform(c, n, cfg) ==
  \/ c.do = "group"     /\ EnsureGroup(c.m)
  \/ c.do = "delstream" /\ DeleteStream(c.m)
  \/ c.do = "control"   /\ EnsureControl
  \/ c.do = "delkeys"   /\ DeleteKeys
  \/ c.do = "configmap" /\ PutConfigMap(n, c.m, cfg)
  \/ c.do = "unmap"     /\ DeleteConfigMap(n, c.m)
  \/ c.do = "deploy"    /\ PutDeployment(n, c.m, cfg)
  \/ c.do = "undeploy"  /\ DeleteDeployment(n, c.m)
  \/ c.do = "scale0"    /\ Scale(n, c.m, "zero")
  \/ c.do = "scaleup"   /\ Scale(n, c.m, "up")

\* A Deployment that is not there cannot be scaled.
NotFound(c, n) == c.do \in {"scale0", "scaleup"} /\ pods[n][c.m].state = "none"

-----------------------------------------------------------------------------
(* The handlers.  Each reads the row, works on its copy for as long as the *)
(* calls take, and writes every column back.                               *)

Active == {t \in TaskIds : tasks[t].state = "active"}

\* The request that slot r takes; one that its first read rejects is no step.
Accept(r, request) ==
  /\ req[r].pc = "idle"
  /\ request.op \in Ops
  /\ used.requests < MaxRequests
  /\ req' = [req EXCEPT ![r] = request]
  /\ settled' = IF request.op \notin {"enable", "disable", "delete", "scale"} THEN settled
                ELSE IF \E n \in Namespaces, m \in Modules : pods[n][m].dying THEN Leaving
                ELSE NoConfig
  /\ UNCHANGED <<row, redis, cluster, tasks>>
Counted == used' = [used EXCEPT !.requests = @ + 1]

Finish(r) == req' = [req EXCEPT ![r] = IdleReq]

\* The id MAX(id) + 1 is this one when there is no row.
CreateRead(r) ==
  /\ row.state = "none"
  /\ \E cfg \in Configs :
       Accept(r, [IdleReq EXCEPT !.op = "create", !.pc = "save",
                                 !.row = [state |-> "draft", cfg |-> cfg, born |-> 0]])
  /\ Counted

UpdateRead(r) ==
  /\ row.state # "none"
  /\ \E cfg \in Configs :
       Accept(r, [IdleReq EXCEPT !.op = "update", !.pc = "save", !.row = [row EXCEPT !.cfg = cfg]])
  /\ Counted

\* Enable, and Deploy, which calls it.
EnableRead(r) ==
  /\ row.state # "none"
  /\ Accept(r, [IdleReq EXCEPT !.op = "enable", !.pc = "call", !.row = row,
                               !.calls = DeployCalls(row.cfg)])
  /\ Counted

ScaleRead(r) ==
  /\ row.state # "none"
  /\ \E m \in Modules, to \in {"scale0", "scaleup"} :
       Accept(r, [IdleReq EXCEPT !.op = "scale", !.pc = "call", !.row = row,
                                 !.calls = Steps(to, {m})])
  /\ Counted

\* Mutant: the tasks are not counted.
NoActiveTaskEver == Counted

\* hasActiveTask: an error of the count reads as no task.
NoActiveTask ==
  \/ Active = {} /\ Counted
  \/ /\ used.faults < MaxFaults
     /\ used' = [used EXCEPT !.faults = @ + 1, !.requests = @ + 1]

GateRead(r) ==
  /\ \E op \in {"disable", "delete"} : Accept(r, [IdleReq EXCEPT !.op = op, !.pc = "find"])
  /\ NoActiveTask

GateFind(r) ==
  /\ req[r].pc = "find"
  /\ \/ /\ row.state # "none"
        /\ Succeeds
        /\ req' = [req EXCEPT ![r] = [@ EXCEPT !.pc = "call", !.row = row,
                     !.calls = IF req[r].op = "delete" THEN DeleteCalls(row.cfg)
                                                       ELSE DisableCalls(row.cfg)]]
     \/ /\ IF row.state = "none" THEN Succeeds ELSE Fails
        /\ Finish(r)
  /\ UNCHANGED <<row, redis, cluster, tasks, settled>>

Advance(r, c) ==
  req' = [req EXCEPT ![r] = [@ EXCEPT !.calls = req[r].calls \ {c},
                                      !.pc = IF req[r].calls = {c} THEN "save" ELSE "call"]]

\* DisablePolicy goes on after an error; the others return it.
AfterError(r, c) == IF req[r].op = "disable" THEN Advance(r, c) ELSE Finish(r)

MakeCall(r) ==
  \E c \in req[r].calls :
    LET n  == req[r].row.cfg.ns
        Do == Perform(c, n, req[r].row.cfg)
    IN  /\ req[r].pc = "call"
        /\ \A d \in req[r].calls : ~Before(d, c)
        /\ \/ Do /\ Succeeds /\ Advance(r, c)
           \/ (Do \/ UNCHANGED <<redis, cluster>>) /\ Fails /\ AfterError(r, c)
           \/ NotFound(c, n) /\ UNCHANGED <<redis, cluster>> /\ Succeeds /\ AfterError(r, c)
        /\ UNCHANGED <<row, tasks, settled>>

\* Mutant: the state has the name the page shows.
DeployedByName(copy) == [copy EXCEPT !.state = "enabled"]

Deployed(copy) == [copy EXCEPT !.state = "active"]

\* The row a handler leaves; gorm's Save inserts it when it is gone.
SavedRow(r) ==
  LET copy == req[r].row
  IN  CASE req[r].op = "create"  -> IF row.state = "none" THEN [copy EXCEPT !.born = used.clock] ELSE row
        [] req[r].op = "update"  -> copy
        [] req[r].op = "enable"  -> Deployed(copy)
        [] req[r].op = "disable" -> [copy EXCEPT !.state = "inactive"]
        [] req[r].op = "delete"  -> NoRow
        [] req[r].op = "scale"   -> row

SaveRow(r) ==
  /\ req[r].pc = "save" /\ req[r].op \in PolicyOps
  /\ \/ /\ row' = SavedRow(r)
        /\ used' = [used EXCEPT !.clock = IF req[r].op = "create" THEN @ + 1 ELSE @]
        /\ settled' = CASE req[r].op = "enable" /\ settled # Leaving -> req[r].row.cfg
                        [] req[r].op = "disable" -> Off
                        [] OTHER                 -> settled
     \/ /\ row' = SavedRow(r) \/ UNCHANGED row
        /\ Fails
        /\ UNCHANGED settled
  /\ Finish(r)
  /\ UNCHANGED <<redis, cluster, tasks>>

-----------------------------------------------------------------------------
(* The tasks, as far as policies are concerned                             *)

\* Create of a task: the policy must be enabled.
NewTaskRead(r) ==
  /\ row.state = "active"
  /\ Accept(r, [IdleReq EXCEPT !.op = "newtask", !.pc = "save", !.row = row])
  /\ Counted

\* Mutant: the creation times are not compared.
SamePolicyAlways(t) == TRUE

\* A policy younger than the task is another one with the same id.
SamePolicy(t) == row.born <= tasks[t].created

\* Restart of a task: whether the policy is enabled is not looked at.
RestartRead(r, t) ==
  /\ tasks[t].state = "ended"
  /\ row.state # "none"
  /\ SamePolicy(t)
  /\ Accept(r, [IdleReq EXCEPT !.op = "retask", !.pc = "save", !.row = row, !.task = t])
  /\ Counted

InsertTask(t) ==
  /\ tasks[t].state = "none"
  /\ tasks' = [tasks EXCEPT ![t] = [state |-> "active", created |-> used.clock]]
  /\ used' = [used EXCEPT !.clock = @ + 1]

\* An ended task runs again under its id, unless it was terminated.
ReviveTask(r, t) ==
  /\ req[r].op = "retask" /\ t = req[r].task
  /\ tasks' = [tasks EXCEPT ![t] = [@ EXCEPT !.state = "active"]]
  /\ Succeeds

SaveTask(r) ==
  /\ req[r].pc = "save" /\ req[r].op \in TaskOps
  /\ \/ \E t \in TaskIds : InsertTask(t) \/ ReviveTask(r, t)
     \/ UNCHANGED tasks /\ Fails
  /\ Finish(r)
  /\ UNCHANGED <<row, redis, cluster, settled>>

\* SubmitTask and republishParts: XADD makes the stream when there is none.
TaskSend(t) ==
  /\ tasks[t].state = "active"
  /\ stream' = [stream EXCEPT !["portscan"] = IF @ = "none" THEN "bare" ELSE @]
  /\ unread' = unread \cup {t}
  /\ UNCHANGED <<row, control, cluster, tasks, req, settled, used>>

\* publishControl for a task.
TaskControl(t) ==
  /\ tasks[t].state = "active"
  /\ control' = TRUE
  /\ UNCHANGED <<row, stream, unread, cluster, tasks, req, settled, used>>

\* The task is completed, terminated or failed.
TaskEnd(t) ==
  /\ tasks[t].state = "active"
  /\ tasks' = [tasks EXCEPT ![t].state = "ended"]
  /\ UNCHANGED <<row, redis, cluster, req, settled, used>>

-----------------------------------------------------------------------------
(* The outside: workers, the cluster, and the end of the process           *)

WorkerRead(t) ==
  /\ t \in unread
  /\ stream["portscan"] = "group"
  /\ \E n \in Namespaces : pods[n]["portscan"].state = "up"
  /\ unread' = unread \ {t}
  /\ UNCHANGED <<row, stream, control, cluster, tasks, req, settled, used>>

\* The pods of a deleted Deployment are gone, and the object with them.
Collect(n, m) ==
  /\ pods[n][m].dying
  /\ pods' = [pods EXCEPT ![n][m] = NoPods]
  /\ UNCHANGED <<row, redis, maps, tasks, req, settled, used>>

Crash ==
  /\ used.crashes < MaxCrashes
  /\ used' = [used EXCEPT !.crashes = @ + 1]
  /\ req' = [r \in Slots |-> IdleReq]
  /\ UNCHANGED <<row, redis, cluster, tasks, settled>>

Next ==
  \/ \E r \in Slots :
       \/ CreateRead(r) \/ UpdateRead(r) \/ EnableRead(r) \/ ScaleRead(r) \/ GateRead(r)
       \/ GateFind(r) \/ MakeCall(r) \/ SaveRow(r) \/ NewTaskRead(r) \/ SaveTask(r)
  \/ \E r \in Slots, t \in TaskIds : RestartRead(r, t)
  \/ \E t \in TaskIds : TaskSend(t) \/ TaskControl(t) \/ TaskEnd(t) \/ WorkerRead(t)
  \/ \E n \in Namespaces, m \in Modules : Collect(n, m)
  \/ Crash

Spec == Init /\ [][Next]_vars
=============================================================================
