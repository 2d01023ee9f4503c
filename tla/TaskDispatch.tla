---------------------------- MODULE TaskDispatch ----------------------------
(***************************************************************************)
(* The life of a scan task in the DASTForge backend: the API handlers of   *)
(* api/handler/task.go, the goroutines they start, SubmitTask of           *)
(* service/scheduler/scheduler.go, the MySQL rows and the two Redis        *)
(* streams (the portscan business stream and the policy's control stream)  *)
(* they share, and the scanner workers that consume the portscan stream.   *)
(*                                                                         *)
(* Nothing in the code serialises two handlers, or a handler and a         *)
(* goroutine, that work on the same task: each SQL statement (or SQL       *)
(* transaction) and each Redis command is one atomic step here, and the    *)
(* steps of all of them interleave.                                        *)
(***************************************************************************)
EXTENDS Naturals, FiniteSets, Sequences

CONSTANTS
  MaxTasks,     \* bound: rows ever inserted in the tasks table
  MaxParts,     \* bound: parts (batches of at most 10 hosts) of one task
  Slots,        \* bound: API requests that can be in progress at once
  Ops,          \* the operations the requests ask for
  Enabled,      \* the modules the task's policy enables
  MaxRequests,  \* bound: accepted requests
  MaxFaults,    \* bound: SQL or Redis calls that return an error, scans that fail
  MaxCrashes    \* bound: restarts of the backend process

Modules == {"portscan", "nmap", "nuclei", "weakpass"}
ControlOps == {"pause", "resume", "terminate"}

ASSUME BoundsAssumption ==
  /\ MaxTasks \in Nat \ {0} /\ MaxParts \in Nat \ {0}
  /\ MaxRequests \in Nat /\ MaxFaults \in Nat /\ MaxCrashes \in Nat
ASSUME SlotsAssumption == IsFiniteSet(Slots)
ASSUME PolicyAssumption == Enabled \subseteq Modules
ASSUME OpsAssumption == Ops \subseteq ControlOps \cup {"delete", "restart"}

VARIABLES
  issued,      \* tasks: the last auto-increment id
  status,      \* tasks.status by id; "none" when there is no such row
  partStatus,  \* task_parts_progress.status by task and part; "none": no row
  modStatus,   \* task_parts_progress.<module>_status; "NULL" as in SQL
  results,     \* parts with rows in the four result tables, by task
  sent,        \* portscan stream: entries XADDed for a part, by task and part
  taken,       \* portscan stream: entries the workers are finished with
  control,     \* control stream: the actions published for a task, in order
  sub,         \* the SubmitTask goroutine of a task
  req,         \* the request a slot works on, with the goroutine it starts
  used,        \* how much of each bound is spent, and the restarts among the requests
  abandoned    \* history: tasks whose handler or goroutine died or gave up

db     == <<issued, status, partStatus, modStatus, results>>
parts  == <<partStatus, modStatus, results>>
stream == <<sent, taken>>
vars   == <<issued, status, partStatus, modStatus, results, sent, taken,
            control, sub, req, used, abandoned>>

-----------------------------------------------------------------------------
(* Types *)

Tasks == 1..MaxTasks
Parts == 1..MaxParts

TaskStatus == {"queued", "running", "paused", "restarting",
               "completed", "terminated", "failed"}
PartStatus == {"none", "pending", "running", "completed", "failed"}
ModStatus  == {"NULL", "pending", "running", "completed", "failed"}

SubmitSteps  == {"probe", "recheck", "save", "rows", "check", "xadd", "mark", "fail"}
RestartSteps == {"restarting", "reset", "list", "repub", "remark", "refail"}
RequestSteps == {"publish", "write", "delete", "copy"} \cup RestartSteps

Submit == [pc : SubmitSteps \cup {"none", "done", "failed"}, up : 0..MaxParts,
           plan : 0..MaxParts, next : 1..MaxParts + 1, expired : BOOLEAN]
Request == [op : Ops \cup {"none"}, task : Tasks,
            pc : {"idle"} \cup RequestSteps,
            todo : SUBSET Parts, cur : Parts, dispatched : Nat]

NoSubmit == [pc |-> "none", up |-> 0, plan |-> 0, next |-> 1, expired |-> FALSE]
IdleReq  == [op |-> "none", task |-> 1, pc |-> "idle", todo |-> {}, cur |-> 1,
             dispatched |-> 0]

TypeOK ==
  /\ issued \in 0..MaxTasks
  /\ status \in [Tasks -> TaskStatus \cup {"none"}]
  /\ partStatus \in [Tasks -> [Parts -> PartStatus]]
  /\ modStatus \in [Tasks -> [Parts -> [Modules -> ModStatus]]]
  /\ results \in [Tasks -> SUBSET Parts]
  /\ sent \in [Tasks -> [Parts -> Nat]]
  /\ taken \in [Tasks -> [Parts -> Nat]]
  /\ control \in [Tasks -> Seq(ControlOps)]
  /\ sub \in [Tasks -> Submit]
  /\ req \in [Slots -> Request]
  /\ used \in [faults : Nat, crashes : Nat, requests : Nat, restarts : Nat]
  /\ abandoned \subseteq Tasks

-----------------------------------------------------------------------------
(* Calls to MySQL and Redis.  A call that returns an error may have taken  *)
(* effect: the connection can break after the server committed.            *)

Succeeds == UNCHANGED used
Fails == /\ used.faults < MaxFaults
         /\ used' = [used EXCEPT !.faults = @ + 1]

\* UPDATE tasks SET status = s WHERE id = t: affects no row when t is deleted.
SetStatus(t, s) ==
  status' = [status EXCEPT ![t] = IF @ = "none" THEN "none" ELSE s]

\* gorm's Save writes every column, and inserts the row when there is none.
SaveStatus(t, s) == status' = [status EXCEPT ![t] = s]

AddEntries(t, p, n) == sent' = [sent EXCEPT ![t][p] = @ + n]

\* An XADD that returns without an error.  When the reply of Redis is lost the
\* client sends the command again, and there are two entries.
Resends(n) == (n = 1 /\ Succeeds) \/ (n = 2 /\ Fails)

\* XADD of part p of task t to the policy's portscan stream.
XAddPart(t, p) == \E n \in 1..2 : AddEntries(t, p, n) /\ Resends(n)
XAddPartFails(t, p) == AddEntries(t, p, 1) \/ UNCHANGED sent

\* Mutant: an upsert, which brings the row of a deleted task back.
MarkRunningUpsert(t, p) ==
  /\ partStatus' = [partStatus EXCEPT ![t][p] = "running"]
  /\ modStatus' = [modStatus EXCEPT ![t][p]["portscan"] = "running"]

\* UPDATE task_parts_progress SET status and portscan_status = running for the
\* row (t, p), if there is one.
MarkRunning(t, p) ==
  IF partStatus[t][p] = "none"
    THEN UNCHANGED <<partStatus, modStatus>>
    ELSE /\ partStatus' = [partStatus EXCEPT ![t][p] = "running"]
         /\ modStatus' = [modStatus EXCEPT ![t][p]["portscan"] = "running"]

\* The module columns a new or a reset part row starts with.
InitModuleStatus == [m \in Modules |-> IF m \in Enabled THEN "pending" ELSE "NULL"]
NoModuleStatus   == [m \in Modules |-> "NULL"]

-----------------------------------------------------------------------------
Init ==
  /\ issued = 0
  /\ status = [t \in Tasks |-> "none"]
  /\ partStatus = [t \in Tasks |-> [p \in Parts |-> "none"]]
  /\ modStatus = [t \in Tasks |-> [p \in Parts |-> NoModuleStatus]]
  /\ results = [t \in Tasks |-> {}]
  /\ sent = [t \in Tasks |-> [p \in Parts |-> 0]]
  /\ taken = [t \in Tasks |-> [p \in Parts |-> 0]]
  /\ control = [t \in Tasks |-> <<>>]
  /\ sub = [t \in Tasks |-> NoSubmit]
  /\ req = [r \in Slots |-> IdleReq]
  /\ used = [faults |-> 0, crashes |-> 0, requests |-> 0, restarts |-> 0]
  /\ abandoned = {}

\* Mutant: the task is inserted and its goroutine forgotten.
NoStart(n) == NoSubmit

\* `go SubmitTask` for a task whose hosts that answer the probe fill n batches.
StartSubmit(n) == [pc |-> "probe", up |-> n, plan |-> 0, next |-> 1, expired |-> FALSE]

\* INSERT of a queued task and, when that returns, its goroutine.
InsertTask(n) ==
  /\ issued < MaxTasks
  /\ issued' = issued + 1
  /\ status' = [status EXCEPT ![issued + 1] = "queued"]
  /\ \/ /\ Succeeds
        /\ sub' = [sub EXCEPT ![issued + 1] = StartSubmit(n)]
        /\ UNCHANGED abandoned
     \/ /\ Fails
        /\ abandoned' = abandoned \cup {issued + 1}
        /\ UNCHANGED sub

\* POST /tasks on an enabled policy.
Create ==
  /\ \E n \in 0..MaxParts : InsertTask(n)
  /\ UNCHANGED <<parts, stream, control, req>>

-----------------------------------------------------------------------------
(* SubmitTask, run by the goroutine of Create and of Restart's copy        *)

\* Every call but the last one uses the context with the 10 minute timeout.
Expire(t) ==
  /\ sub[t].pc \in SubmitSteps \ {"fail"}
  /\ ~sub[t].expired
  /\ sub' = [sub EXCEPT ![t].expired = TRUE]
  /\ UNCHANGED <<db, stream, control, req, used, abandoned>>

\* Mutant: the calls are made without the context.
SubmitReturnsLate(t, step) == Succeeds /\ sub' = [sub EXCEPT ![t].pc = step]
\* Mutant: SubmitTask logs its error and returns nil.
SubmitSwallows(t) ==
  /\ IF sub[t].expired THEN UNCHANGED used ELSE Fails
  /\ sub' = [sub EXCEPT ![t].pc = "done"]

SubmitReturns(t, step) ==
  /\ ~sub[t].expired
  /\ Succeeds
  /\ sub' = [sub EXCEPT ![t].pc = step]
SubmitErrors(t) ==
  /\ IF sub[t].expired THEN UNCHANGED used ELSE Fails
  /\ sub' = [sub EXCEPT ![t].pc = "fail"]

\* taskTerminated(): a row that is gone reads as not terminated.
TaskTerminated(t) == status[t] = "terminated"

\* Mutant: chunk() makes an empty last batch.
AlivePartsPlusOne(t) == {sub[t].up + 1}

\* Once the context has expired CheckAll reports the hosts left as dead.
AliveParts(t) == IF sub[t].expired THEN 0..sub[t].up ELSE {sub[t].up}

Probe(t) ==
  /\ sub[t].pc = "probe"
  /\ \E n \in AliveParts(t) : sub' = [sub EXCEPT ![t] = [@ EXCEPT !.pc = "recheck", !.plan = n]]
  /\ UNCHANGED <<db, stream, control, req, used, abandoned>>

SubmitRecheck(t) ==
  /\ sub[t].pc = "recheck"
  /\ \/ SubmitReturns(t, IF TaskTerminated(t) THEN "done" ELSE "save")
     \/ SubmitErrors(t)
  /\ UNCHANGED <<db, stream, control, req, abandoned>>

SubmitSave(t) ==
  LET empty == sub[t].plan = 0
      Save  == SaveStatus(t, IF empty THEN "completed" ELSE "running")
  IN  /\ sub[t].pc = "save"
      /\ \/ Save /\ SubmitReturns(t, IF empty THEN "done" ELSE "rows")
         \/ (Save \/ UNCHANGED status) /\ SubmitErrors(t)
      /\ UNCHANGED <<issued, parts, stream, control, req, abandoned>>

\* Mutants: the last part is not recorded; rows are born running.
NewPartsShort(t) == 1..sub[t].plan - 1
NewPartRunning == "running"

\* The parts SubmitTask records, and the status it gives them.
NewParts(t) == 1..sub[t].plan
NewPart == "pending"

CreateRows(t) ==
  LET new == NewParts(t)
  IN  /\ partStatus' = [partStatus EXCEPT ![t] =
                          [p \in Parts |-> IF p \in new THEN NewPart ELSE partStatus[t][p]]]
      /\ modStatus' = [modStatus EXCEPT ![t] =
                          [p \in Parts |-> IF p \in new THEN InitModuleStatus ELSE modStatus[t][p]]]

SubmitRows(t) ==
  /\ sub[t].pc = "rows"
  /\ \/ CreateRows(t) /\ SubmitReturns(t, "check")
     \/ (CreateRows(t) \/ UNCHANGED <<partStatus, modStatus>>) /\ SubmitErrors(t)
  /\ UNCHANGED <<issued, status, results, stream, control, req, abandoned>>

\* Before each part the loop asks once more whether the task is terminated.
SubmitCheck(t) ==
  /\ sub[t].pc = "check"
  /\ sub[t].next <= sub[t].plan
  /\ \/ SubmitReturns(t, IF TaskTerminated(t) THEN "done" ELSE "xadd")
     \/ SubmitErrors(t)
  /\ UNCHANGED <<db, stream, control, req, abandoned>>

SubmitFinish(t) ==
  /\ sub[t].pc = "check"
  /\ sub[t].next > sub[t].plan
  /\ sub' = [sub EXCEPT ![t].pc = "done"]
  /\ UNCHANGED <<db, stream, control, req, used, abandoned>>

SubmitXAdd(t) ==
  /\ sub[t].pc = "xadd"
  /\ \/ /\ XAddPart(t, sub[t].next)
        /\ ~sub[t].expired
        /\ sub' = [sub EXCEPT ![t].pc = "mark"]
     \/ XAddPartFails(t, sub[t].next) /\ SubmitErrors(t)
  /\ UNCHANGED <<db, taken, control, req, abandoned>>

\* Mutant: the loop comes back to the same part.
SamePart(t) == sub[t].next

\* The next part of the loop.
NextPart(t) == sub[t].next + 1

SubmitMark(t) ==
  LET Mark == MarkRunning(t, sub[t].next)
  IN  /\ sub[t].pc = "mark"
      /\ \/ /\ Mark
            /\ ~sub[t].expired
            /\ Succeeds
            /\ sub' = [sub EXCEPT ![t] = [@ EXCEPT !.pc = "check", !.next = NextPart(t)]]
         \/ (Mark \/ UNCHANGED <<partStatus, modStatus>>) /\ SubmitErrors(t)
      /\ UNCHANGED <<issued, status, results, stream, control, req, abandoned>>

\* The goroutine's error path; an error of this update is not looked at.
SubmitFail(t) ==
  /\ sub[t].pc = "fail"
  /\ \/ SetStatus(t, "failed") /\ Succeeds /\ UNCHANGED abandoned
     \/ UNCHANGED status /\ Fails /\ abandoned' = abandoned \cup {t}
  /\ sub' = [sub EXCEPT ![t].pc = "failed"]
  /\ UNCHANGED <<issued, parts, stream, control, req>>

SubmitStep(t) ==
  \/ Probe(t) \/ SubmitRecheck(t) \/ SubmitSave(t) \/ SubmitRows(t)
  \/ SubmitCheck(t) \/ SubmitXAdd(t) \/ SubmitMark(t) \/ SubmitFinish(t)
  \/ SubmitFail(t)

-----------------------------------------------------------------------------
(* POST /tasks/:id/pause, resume and terminate: read the task, publish the *)
(* action on the policy's control stream, then update the status.          *)

IsActive(s) == s \in {"queued", "running", "paused", "restarting"}

\* Mutant: "resume" also takes a terminated task.
ControlAllowedLoose(op) ==
  IF op = "resume" THEN {"paused", "terminated"}
  ELSE {"running", "paused", "queued", "restarting"}

ControlAllowed(op) ==
  CASE op = "pause"     -> {"running"}
    [] op = "resume"    -> {"paused"}
    [] op = "terminate" -> {"running", "paused", "queued", "restarting"}
ControlTarget(op) ==
  CASE op = "pause"     -> "paused"
    [] op = "resume"    -> "running"
    [] op = "terminate" -> "terminated"

\* A slot takes a request; one that the first read rejects leaves no trace.
Accept(r, t, op, step) ==
  /\ req[r].pc = "idle"
  /\ op \in Ops
  /\ t <= issued
  /\ used.requests < MaxRequests
  /\ used' = [used EXCEPT !.requests = @ + 1,
                          !.restarts = IF op = "restart" THEN @ + 1 ELSE @]
  /\ req' = [req EXCEPT ![r] = [IdleReq EXCEPT !.op = op, !.task = t, !.pc = step]]
  /\ UNCHANGED <<db, stream, control, sub, abandoned>>

Goto(r, step) == req' = [req EXCEPT ![r].pc = step]
Finish(r)     == req' = [req EXCEPT ![r] = IdleReq]

\* Mutant: the row is written without a message.
ControlReadQuiet(r, t, op) ==
  /\ op \in ControlOps
  /\ status[t] \in ControlAllowed(op)
  /\ Accept(r, t, op, "write")

ControlRead(r, t, op) ==
  /\ op \in ControlOps
  /\ status[t] \in ControlAllowed(op)
  /\ Accept(r, t, op, "publish")

\* Mutant: no message for a task the pods have not started or have paused.
AnnounceRunning(t, op) ==
  IF status[t] = "running" THEN control' = [control EXCEPT ![t] = Append(@, op)]
                           ELSE UNCHANGED control

\* XADD of an action to the control stream of the task's policy.
Announce(t, op) == control' = [control EXCEPT ![t] = Append(@, op)]
AnnounceTwice(t, op) == control' = [control EXCEPT ![t] = Append(Append(@, op), op)]

PublishControl(r) ==
  LET t  == req[r].task
      op == req[r].op
  IN  /\ req[r].pc = "publish"
      /\ \/ Announce(t, op) /\ Succeeds /\ Goto(r, "write")
         \/ AnnounceTwice(t, op) /\ Fails /\ Goto(r, "write")
         \/ (Announce(t, op) \/ UNCHANGED control) /\ Fails /\ Finish(r)
      /\ UNCHANGED <<db, stream, sub, abandoned>>

ControlWrite(r) ==
  LET Write == SetStatus(req[r].task, ControlTarget(req[r].op))
  IN  /\ req[r].pc = "write"
      /\ \/ Write /\ Succeeds
         \/ UNCHANGED status /\ Fails
      /\ Finish(r)
      /\ UNCHANGED <<issued, parts, stream, control, sub, abandoned>>

-----------------------------------------------------------------------------
(* DELETE /tasks/:id: read the task, then one transaction.                 *)

DeleteRead(r, t) ==
  /\ status[t] # "none"
  /\ ~IsActive(status[t])
  /\ Accept(r, t, "delete", "delete")

DeleteRows(r) ==
  LET t == req[r].task
  IN  /\ req[r].pc = "delete"
      /\ \/ /\ status' = [status EXCEPT ![t] = "none"]
            /\ partStatus' = [partStatus EXCEPT ![t] = [p \in Parts |-> "none"]]
            /\ modStatus' = [modStatus EXCEPT ![t] = [p \in Parts |-> NoModuleStatus]]
            /\ results' = [results EXCEPT ![t] = {}]
            /\ Succeeds
         \/ UNCHANGED <<status, parts>> /\ Fails
      /\ Finish(r)
      /\ UNCHANGED <<issued, stream, control, sub, abandoned>>

-----------------------------------------------------------------------------
(* POST /tasks/:id/restart.  A terminated task is copied to a new one; a   *)
(* completed or failed one is reset and its parts are published again by a *)
(* goroutine that keeps the slot.                                          *)

RestartRead(r, t) ==
  \/ status[t] = "terminated" /\ Accept(r, t, "restart", "copy")
  \/ status[t] \in {"completed", "failed"} /\ Accept(r, t, "restart", "restarting")

RestartCopy(r) ==
  /\ req[r].pc = "copy"
  /\ \/ \E n \in 0..MaxParts : InsertTask(n)
     \/ Fails /\ UNCHANGED <<issued, status, sub, abandoned>>
  /\ Finish(r)
  /\ UNCHANGED <<parts, stream, control>>

RestartWrite(r) ==
  LET t == req[r].task
  IN  /\ req[r].pc = "restarting"
      /\ \/ SetStatus(t, "restarting") /\ Succeeds /\ Goto(r, "reset") /\ UNCHANGED abandoned
         \/ /\ Fails
            /\ Finish(r)
            /\ \/ SetStatus(t, "restarting") /\ abandoned' = abandoned \cup {t}
               \/ UNCHANGED <<status, abandoned>>
      /\ UNCHANGED <<issued, parts, stream, control, sub>>

\* resetPartsForRestart, one transaction; an error leaves the task restarting.
Rows(t) == {p \in Parts : partStatus[t][p] # "none"}

ResetRows(t) ==
  /\ partStatus' = [partStatus EXCEPT ![t] =
                      [p \in Parts |-> IF p \in Rows(t) THEN "pending" ELSE "none"]]
  /\ modStatus' = [modStatus EXCEPT ![t] =
                      [p \in Parts |-> IF p \in Rows(t) THEN InitModuleStatus ELSE modStatus[t][p]]]
  /\ results' = [results EXCEPT ![t] = {}]

ResetParts(r) ==
  LET t == req[r].task
  IN  /\ req[r].pc = "reset"
      /\ \/ ResetRows(t) /\ Succeeds /\ Goto(r, "list") /\ UNCHANGED abandoned
         \/ /\ ResetRows(t) \/ UNCHANGED parts
            /\ Fails
            /\ Finish(r)
            /\ abandoned' = abandoned \cup {t}
      /\ UNCHANGED <<issued, status, stream, control, sub>>

\* republishParts: the rows as they are now, then XADD and mark each of them.
RepublishList(r) ==
  /\ req[r].pc = "list"
  /\ \/ /\ Succeeds
        /\ req' = [req EXCEPT ![r] = [@ EXCEPT !.pc = "repub", !.todo = Rows(req[r].task)]]
     \/ Fails /\ Goto(r, "refail")
  /\ UNCHANGED <<db, stream, control, sub, abandoned>>

RepublishXAdd(r) ==
  LET t == req[r].task
  IN  /\ req[r].pc = "repub"
      /\ \E p \in req[r].todo :
           \/ /\ XAddPart(t, p)
              /\ req' = [req EXCEPT ![r] = [@ EXCEPT !.pc = "remark", !.cur = p]]
           \/ XAddPartFails(t, p) /\ Fails /\ Goto(r, "refail")
      /\ UNCHANGED <<db, taken, control, sub, abandoned>>

PartDone(r) ==
  req' = [req EXCEPT ![r] = [@ EXCEPT !.pc = "repub", !.todo = req[r].todo \ {req[r].cur},
                                      !.dispatched = req[r].dispatched + 1]]

RepublishMark(r) ==
  LET Mark == MarkRunning(req[r].task, req[r].cur)
  IN  /\ req[r].pc = "remark"
      /\ \/ Mark /\ Succeeds /\ PartDone(r)
         \/ /\ Mark \/ UNCHANGED <<partStatus, modStatus>>
            /\ Fails
            /\ Goto(r, "refail")
      /\ UNCHANGED <<issued, status, results, stream, control, sub, abandoned>>

\* Mutant: with nothing dispatched the goroutine returns at once.
RestartOutcomeNone(r) ==
  IF req[r].pc = "refail" THEN "failed"
  ELSE IF req[r].dispatched = 0 THEN status[req[r].task] ELSE "running"

\* The goroutine's last write, on success and on error; its error is ignored.
RestartOutcome(r) ==
  IF req[r].pc = "refail" THEN "failed"
  ELSE IF req[r].dispatched = 0 THEN "completed" ELSE "running"

RestartFinish(r) ==
  LET t == req[r].task
  IN  /\ req[r].pc = "refail" \/ (req[r].pc = "repub" /\ req[r].todo = {})
      /\ \/ SetStatus(t, RestartOutcome(r)) /\ Succeeds /\ UNCHANGED abandoned
         \/ UNCHANGED status /\ Fails /\ abandoned' = abandoned \cup {t}
      /\ Finish(r)
      /\ UNCHANGED <<issued, parts, stream, control, sub>>

RequestStep(r) ==
  \/ PublishControl(r) \/ ControlWrite(r) \/ DeleteRows(r) \/ RestartCopy(r)
  \/ RestartWrite(r) \/ ResetParts(r) \/ RepublishList(r) \/ RepublishXAdd(r)
  \/ RepublishMark(r) \/ RestartFinish(r)

-----------------------------------------------------------------------------
(* The backend process stops and starts again.  Nothing resumes the work   *)
(* of the goroutines and requests that were lost: main() only serves.      *)

Submitting(t) == sub[t].pc \in SubmitSteps
Restarting(r) == req[r].pc \in RestartSteps \ {"restarting"}

Crash ==
  /\ used.crashes < MaxCrashes
  /\ used' = [used EXCEPT !.crashes = @ + 1]
  /\ sub' = [t \in Tasks |-> IF Submitting(t) THEN [sub[t] EXCEPT !.pc = "failed"] ELSE sub[t]]
  /\ req' = [r \in Slots |-> IdleReq]
  /\ abandoned' = abandoned \cup {t \in Tasks : Submitting(t)}
                            \cup {req[r].task : r \in {s \in Slots : Restarting(s)}}
  /\ UNCHANGED <<db, stream, control>>

-----------------------------------------------------------------------------
(* The scanner workers (external).  They take an entry of the portscan     *)
(* stream and pass it along the workflow until the part's modules and the  *)
(* part itself are completed and the results stored; they give up a part,  *)
(* and its row then says failed; they drop the entries of a task whose     *)
(* termination they have read; they complete a running task all of whose   *)
(* parts are completed.                                                    *)

Announced(t, op) == \E i \in DOMAIN control[t] : control[t][i] = op

WorkerScan(t, p) ==
  /\ taken[t][p] < sent[t][p]
  /\ taken' = [taken EXCEPT ![t][p] = @ + 1]
  /\ results' = [results EXCEPT ![t] = @ \cup {p}]
  /\ IF partStatus[t][p] = "none"
       THEN UNCHANGED <<partStatus, modStatus>>
       ELSE /\ partStatus' = [partStatus EXCEPT ![t][p] = "completed"]
            /\ modStatus' = [modStatus EXCEPT ![t][p] =
                 [m \in Modules |-> IF modStatus[t][p][m] = "NULL" THEN "NULL" ELSE "completed"]]
  /\ UNCHANGED <<issued, status, sent, control, sub, req, used, abandoned>>

WorkerFail(t, p) ==
  /\ Fails
  /\ taken[t][p] < sent[t][p]
  /\ taken' = [taken EXCEPT ![t][p] = @ + 1]
  /\ IF partStatus[t][p] = "none"
       THEN UNCHANGED <<partStatus, modStatus>>
       ELSE /\ partStatus' = [partStatus EXCEPT ![t][p] = "failed"]
            /\ modStatus' = [modStatus EXCEPT ![t][p] =
                 [m \in Modules |-> IF modStatus[t][p][m] = "NULL" THEN "NULL" ELSE "failed"]]
  /\ UNCHANGED <<issued, status, results, sent, control, sub, req, abandoned>>

WorkerDrop(t, p) ==
  /\ taken[t][p] < sent[t][p]
  /\ Announced(t, "terminate")
  /\ taken' = [taken EXCEPT ![t][p] = @ + 1]
  /\ UNCHANGED <<db, sent, control, sub, req, used, abandoned>>

WorkerComplete(t) ==
  /\ status[t] = "running"
  /\ \E p \in Parts : partStatus[t][p] = "completed"
  /\ \A p \in Parts : partStatus[t][p] \in {"none", "completed"}
  /\ SetStatus(t, "completed")
  /\ UNCHANGED <<issued, parts, stream, control, sub, req, used, abandoned>>

-----------------------------------------------------------------------------
Next ==
  \/ Create
  \/ \E t \in Tasks : SubmitStep(t) \/ Expire(t) \/ WorkerComplete(t)
  \/ \E r \in Slots : RequestStep(r)
  \/ \E r \in Slots, t \in Tasks, op \in Ops : ControlRead(r, t, op)
  \/ \E r \in Slots, t \in Tasks : DeleteRead(r, t) \/ RestartRead(r, t)
  \/ \E t \in Tasks, p \in Parts : WorkerScan(t, p) \/ WorkerFail(t, p) \/ WorkerDrop(t, p)
  \/ Crash

Spec == Init /\ [][Next]_vars

\* The Go runtime runs every goroutine that is ready, and every SQL and Redis
\* call returns.  Nothing makes users, workers or the clock act.
FairSpec ==
  /\ Spec
  /\ \A t \in Tasks : WF_vars(SubmitStep(t))
  /\ \A r \in Slots : WF_vars(RequestStep(r))
=============================================================================
