-------------------------- MODULE PolicyProperties --------------------------
(* What must hold of PolicyLifecycle.                                      *)
EXTENDS PolicyLifecycle

Idle == \A r \in Slots : req[r].pc = "idle"

\* With one request at a time, whatever was deployed before and wherever an
\* earlier deploy broke off (but with no earlier Deployment still going): after
\* a deploy that returned without an error the enabled modules have stream,
\* group, ConfigMap and Deployment as configured, the others have no group and
\* no Deployment, until the next such request.
DeployedAsConfigured ==
  LET n == settled.ns
  IN  Idle /\ settled \in Configs =>
        /\ control
        /\ \A m \in settled.mods : /\ stream[m] = "group"
                                   /\ maps[n][m] = settled
                                   /\ pods[n][m].state = "up" /\ pods[n][m].cfg = settled
        /\ \A m \in Modules \ settled.mods : /\ stream[m] # "group"
                                             /\ maps[n][m] = NoConfig
                                             /\ pods[n][m].state = "none" \/ pods[n][m].dying

\* Disable scales every Deployment of the policy to zero (PolicyList.vue,
\* onToggle), whatever was deployed before: also those of modules that an
\* update has disabled since, and what a deploy that broke off has left (as
\* long as no call fails: disable drops the errors of its scale calls).
DisabledIsIdle ==
  Idle /\ settled = Off /\ used.faults = 0 => \A n \in Namespaces, m \in Modules : pods[n][m].state # "up"

\* Delete removes the ConfigMaps and Deployments (PolicyList.vue, onDelete),
\* also what a deploy that broke off has left.
DeletedIsClean ==
  Idle /\ row.state = "none" =>
    \A n \in Namespaces, m \in Modules :
       /\ maps[n][m] = NoConfig
       /\ pods[n][m].state = "none" \/ pods[n][m].dying

\* Delete answers 409 while the policy has running tasks: a task never runs
\* on a policy that is gone, unless the count of the tasks failed.
ActiveTaskHasPolicy == Active # {} /\ used.faults = 0 => row.state # "none"

\* A task runs only on the policy it was created for, not on a later one with
\* the same id (Restart: "historical task cannot restart"), unless the count failed
\* and a policy went under its running task.
TaskKeepsPolicy ==
  \A t \in Active : row.state # "none" /\ used.faults = 0 => row.born <= tasks[t].created

\* What a task has sent is never deleted while it runs, under the same condition.
EntriesSurvive ==
  [][\A t \in unread \ unread' :
       tasks[t].state = "active" /\ used.faults = 0 => stream'["portscan"] # "none"]_vars

-----------------------------------------------------------------------------
(* What makes them inductive.                                              *)

\* The cases the properties are about.
OneAtATime    == \A q, r \in Slots : q = r
SameNamespace == \A c, d \in Configs : c.ns = d.ns
AllScan       == \A c \in Configs : "portscan" \in c.mods

ResourceOps == {"enable", "disable", "delete", "scale"}

\* The calls a request starts with.
Planned(q) ==
  CASE q.op = "enable"  -> DeployCalls(q.row.cfg)
    [] q.op = "disable" -> DisableCalls(q.row.cfg)
    [] q.op = "delete"  -> DeleteCalls(q.row.cfg)
    [] OTHER            -> Steps("scale0", Modules) \cup Steps("scaleup", Modules)

\* A request works on the copy of a row that was there.
WellFormed(q) ==
  /\ q.pc = "idle" => q = IdleReq
  /\ q.pc = "find" => q.op \in {"disable", "delete"}
  /\ q.pc = "call" => q.op \in ResourceOps /\ q.calls \subseteq Planned(q)
  /\ q.pc = "save" => q.calls = {} /\ q.op # "none"
  /\ q.pc \in {"call", "save"} => q.row.cfg \in Configs /\ q.row.state # "none"
RequestShape == \A r \in Slots : WellFormed(req[r])
RowShape == row.state # "none" => row.cfg \in Configs

\* The copy is of this row, and not of an earlier one with the same id.
RowHeld ==
  \A r \in Slots :
     req[r].pc \in {"call", "save"} /\ req[r].op # "create"
     => row.state # "none" /\ req[r].row.born = row.born

\* What the gate has seen still holds when the resources go.
GateHolds ==
  \A r \in Slots : req[r].op \in {"disable", "delete"} /\ used.faults = 0 => Active = {}

ClockAhead ==
  row.born <= used.clock /\ \A r \in Slots : req[r].row.born <= used.clock

RestartsOwn ==
  \A r \in Slots :
     req[r].op = "retask" => req[r].task \in TaskIds /\ row.born <= tasks[req[r].task].created

\* The effect of a call.
Gone(n, m) == pods[n][m].state = "none" \/ pods[n][m].dying
Done(c, n, cfg) ==
  /\ c.do = "group"     => stream[c.m] = "group"
  /\ c.do = "delstream" => stream[c.m] # "group"
  /\ c.do = "control"   => control
  /\ c.do = "configmap" => maps[n][c.m] = cfg
  /\ c.do = "unmap"     => maps[n][c.m] = NoConfig
  /\ c.do = "deploy"    => pods[n][c.m] = [state |-> "up", cfg |-> cfg, dying |-> FALSE]
  /\ c.do = "undeploy"  => Gone(n, c.m)
  /\ c.do = "scale0"    => pods[n][c.m].state # "up"

\* No call undoes what an earlier one of the request has done.
Undisturbed(r) ==
  \/ req[r].op = "enable" /\ settled # Leaving
  \/ req[r].op = "disable" /\ used.faults = 0
  \/ req[r].op = "delete"
CallsDone ==
  \A r \in Slots :
     req[r].pc \in {"call", "save"} /\ Undisturbed(r)
     => \A c \in Planned(req[r]) \ req[r].calls : Done(c, req[r].row.cfg.ns, req[r].row.cfg)
NoneLeaving ==
  \A r \in Slots :
     req[r].pc \in {"call", "save"} /\ req[r].op = "enable" /\ settled # Leaving
     => \A m \in req[r].row.cfg.mods : ~pods[req[r].row.cfg.ns][m].dying

\* What a request has left holds until the next one.
Unsettled == \A r \in Slots : req[r].op \in ResourceOps => settled \in {NoConfig, Leaving}
DeployStands == settled \in Configs => \A c \in DeployCalls(settled) : Done(c, settled.ns, settled)
OffStands ==
  settled = Off /\ used.faults = 0 => \A n \in Namespaces, m \in Modules : pods[n][m].state # "up"
DeleteStands ==
  row.state = "none" => \A n \in Namespaces, m \in Modules : maps[n][m] = NoConfig /\ Gone(n, m)
=============================================================================
