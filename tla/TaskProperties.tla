--------------------------- MODULE TaskProperties ---------------------------
(* What must hold of TaskDispatch: safety, forbidden steps, the ledger it  *)
(* implements, liveness.                                                   *)
EXTENDS TaskDispatch

-----------------------------------------------------------------------------
(* Safety *)

\* A task is shown as paused or terminated only after the pods were told: the
\* message is on the control stream before the row changes (control(), publish
\* first), whatever other requests, errors and restarts come in between.  An
\* earlier message of the kind is enough; ControlAgrees speaks of the last one.
StatusAnnounced ==
  \A t \in Tasks : /\ status[t] = "terminated" => Announced(t, "terminate")
                   /\ status[t] = "paused" => Announced(t, "pause")

\* No pod is handed a part the table does not know: an entry of the portscan
\* stream has its progress row, unless the whole task was deleted.  Save after
\* a delete brings the task row back, and still never in front of an entry.
SentIsRecorded ==
  \A t \in Tasks, p \in Parts :
     sent[t][p] > 0 => partStatus[t][p] # "none" \/ status[t] = "none"

\* A part shows as running (or completed, or failed) only if it was really XADDed
\* (SubmitTask step 3, "XADD 成功后"), through resets, errors and restarts, once
\* at least: a restart may find it sent before.
RunningWasSent ==
  \A t \in Tasks, p \in Parts :
     partStatus[t][p] \in {"running", "completed", "failed"} => sent[t][p] > 0

\* What makes the three inductive.  Who is about to write a status has
\* published it; who is about to mark a part running has sent it.
WriterAnnounced ==
  \A r \in Slots : req[r].pc = "write" => Announced(req[r].task, req[r].op)

MarkerSent ==
  /\ \A t \in Tasks : sub[t].pc = "mark" => sent[t][sub[t].next] > 0
  /\ \A r \in Slots : req[r].pc = "remark" => sent[req[r].task][req[r].cur] > 0

\* Until SubmitTask writes the rows of a task nothing is recorded or sent for
\* it, not even by a restart.  Save comes before: it revives only such a task.
BeforeRows(t) == sub[t].pc \in {"none", "probe", "recheck", "save", "rows"}

FreshTask ==
  \A t \in Tasks :
     /\ t > issued => sub[t].pc = "none"
     /\ BeforeRows(t) => /\ \A p \in Parts : partStatus[t][p] = "none" /\ sent[t][p] = 0
                         /\ \A r \in Slots : req[r].task = t => req[r].todo = {}

\* Who is about to send a part finds its row, or the task is deleted.
SenderRecorded ==
  /\ \A t \in Tasks : sub[t].pc \in {"check", "xadd", "mark"} =>
        status[t] = "none" \/ \A p \in 1..sub[t].plan : partStatus[t][p] # "none"
  /\ \A r \in Slots : \A p \in req[r].todo :
        status[req[r].task] = "none" \/ partStatus[req[r].task][p] # "none"

\* Queued and restarting are transient: some goroutine or handler still owes
\* the task its next status, unless it crashed or gave up on an error.
TransientIsOwned ==
  \A t \in Tasks \ abandoned :
     /\ status[t] = "queued" => Submitting(t)
     /\ status[t] = "restarting" => \E r \in Slots : Restarting(r) /\ req[r].task = t

\* What makes it inductive.  Until the row leaves "queued", SubmitTask is before
\* its first write or at its last one.
QueuedEarly ==
  \A t \in Tasks \ abandoned :
     status[t] = "queued" => sub[t].pc \in {"probe", "recheck", "save", "fail"}

\* As long as no task is restarted a completed task has the results of every
\* batch of hosts that answered the probe.  A probe cut short by the timeout must
\* never pass for "no alive hosts".
CompletedHasResults ==
  \A t \in Tasks :
     status[t] = "completed" /\ used.restarts = 0 => 1..sub[t].up \subseteq results[t]

\* What makes it inductive.  A probe that was cut short is not gone on with;
\* rows come and go together; a completed part has its results; requests that
\* reset a task are counted.
PlanIsUp ==
  \A t \in Tasks :
     \/ sub[t].pc \in {"none", "probe", "fail", "failed"}
     \/ sub[t].pc = "recheck" /\ sub[t].expired
     \/ sub[t].plan = sub[t].up

RowsTogether ==
  \A t \in Tasks : (\E p \in Parts : partStatus[t][p] # "none")
                     => \A p \in 1..sub[t].up : partStatus[t][p] # "none"

CompletedStored ==
  \A t \in Tasks, p \in Parts : partStatus[t][p] = "completed" => p \in results[t]

RestartCounted ==
  \A r \in Slots : req[r].pc \in RestartSteps => used.restarts > 0

\* With one request at a time: when SubmitTask has returned without an error, a
\* running or paused task has all its parts on the stream, so that the workers
\* can finish it, whatever requests came while it was dispatched.
RunningIsDispatched ==
  \A t \in Tasks \ abandoned :
     /\ status[t] \in {"running", "paused"}
     /\ sub[t].pc = "done"
     => \A p \in 1..sub[t].up : sent[t][p] > 0 /\ partStatus[t][p] # "none"

\* What makes it inductive.  SubmitTask has sent the parts before its own; when
\* it returned, it has sent all, or the task was terminated or deleted; and a
\* terminated task meets no request but delete and the copy.
OneAtATime == \A q, r \in Slots : q = r

SentBefore ==
  \A t \in Tasks :
     /\ BeforeRows(t) => sub[t].next = 1
     /\ sub[t].pc \in {"check", "xadd", "mark"}
          => \A p \in 1..sub[t].plan : p < sub[t].next => sent[t][p] > 0

DoneDispatched ==
  \A t \in Tasks : sub[t].pc = "done" =>
     \/ status[t] \in {"terminated", "none"}
     \/ \A p \in 1..sub[t].up : sent[t][p] > 0 /\ partStatus[t][p] # "none"

TerminatedAlone ==
  \A t \in Tasks, r \in Slots :
     status[t] = "terminated" /\ req[r].task = t => req[r].pc \in {"idle", "delete", "copy"}

\* With one request at a time and no failing call or restart: the last control message of
\* a task, the one that decides what pods do, is the one of its status.
ControlAgrees ==
  \A t \in Tasks : \A op \in ControlOps :
     /\ used.faults = 0 /\ used.crashes = 0
     /\ status[t] \in {"paused", "terminated"}
     /\ status[t] = ControlTarget(op)
     /\ \A r \in Slots : req[r].pc = "write" => req[r].task # t
     => control[t] # <<>> /\ control[t][Len(control[t])] = op

\* Who is about to write a status has published it last.
LastSaid(t) == control[t][Len(control[t])]

WriterSaidLast ==
  \A r \in Slots :
     req[r].pc = "write" /\ used.faults = 0 /\ used.crashes = 0
     => control[req[r].task] # <<>> /\ LastSaid(req[r].task) = req[r].op

\* A part is queued again only by a restart, once by each, or when a reply of
\* Redis was lost: neither a loop nor an error path of SubmitTask and
\* republishParts sends a part twice, however they run into each other.
SentOnce ==
  \A t \in Tasks, p \in Parts : sent[t][p] <= 1 + used.restarts + used.faults

\* What makes it inductive: together with what SubmitTask and the restarts
\* under way still owe, no more is sent than that.
SubmitOwes(t, p) ==
  \/ t > issued
  \/ sub[t].pc \in {"probe", "recheck", "save", "rows"}
  \/ sub[t].pc \in {"check", "xadd"} /\ p >= sub[t].next
  \/ sub[t].pc = "mark" /\ p > sub[t].next

Owing(t, p) ==
  {r \in Slots : /\ req[r].task = t
                 /\ \/ req[r].pc \in {"restarting", "reset", "list"}
                    \/ req[r].pc = "repub" /\ p \in req[r].todo
                    \/ req[r].pc = "remark" /\ p \in req[r].todo \ {req[r].cur}}

Owed(t, p) == Cardinality(Owing(t, p)) + IF SubmitOwes(t, p) THEN 1 ELSE 0

SentAndOwed ==
  \A t \in Tasks, p \in Parts : sent[t][p] + Owed(t, p) <= 1 + used.restarts + used.faults

-----------------------------------------------------------------------------
(* What a step may never do *)

\* Restart: "terminated 新建任务获取新的自增 task_id": under its own id a
\* terminated task is never run, failed or completed again.
TerminatedIsFinal ==
  [][\A t \in Tasks : status[t] = "terminated" => status'[t] \in {"terminated", "none"}]_vars

-----------------------------------------------------------------------------
(* What the workers are promised: the progress table is a ledger of the    *)
(* portscan stream.                                                        *)

Ledger == INSTANCE PartLedger WITH
            live <- [t \in Tasks |-> status[t] # "none"],
            ledger <- partStatus, entries <- sent, stored <- results

\* Every step of handlers, goroutines and workers is a step of the ledger.
ImplementsLedger == Ledger!Spec

-----------------------------------------------------------------------------
(* Liveness *)

\* A queued task is dispatched, completed, terminated, deleted or failed.
QueuedIsLeft ==
  \A t \in Tasks : status[t] = "queued" ~> (status[t] # "queued" \/ t \in abandoned)

\* So is one that restarts, even when it is terminated meanwhile.
RestartingIsLeft ==
  \A t \in Tasks : status[t] = "restarting" ~> (status[t] # "restarting" \/ t \in abandoned)
=============================================================================
