----------------------------- MODULE PartLedger -----------------------------
(***************************************************************************)
(* What the backend promises the scanner workers about the parts of a      *)
(* task, without handlers, goroutines, statuses or errors: the progress    *)
(* table is a ledger of the portscan stream.  A part is entered in the     *)
(* ledger before it is sent, shown as running only after it was sent, and  *)
(* shown as completed or failed only by a worker that took one of its      *)
(* entries.                                                                *)
(***************************************************************************)
EXTENDS Naturals

CONSTANTS Tasks, Parts

VARIABLES
  live,     \* the task has its row in the tasks table
  ledger,   \* the state of each part: none, pending, running, completed or failed
  entries,  \* entries ever sent for a part
  taken,    \* entries the workers are finished with
  stored    \* parts whose results are stored

vars == <<live, ledger, entries, taken, stored>>

Untouched(t) == \A p \in Parts : ledger[t][p] = "none" /\ entries[t][p] = 0

Init ==
  /\ live = [t \in Tasks |-> FALSE]
  /\ ledger = [t \in Tasks |-> [p \in Parts |-> "none"]]
  /\ entries = [t \in Tasks |-> [p \in Parts |-> 0]]
  /\ taken = [t \in Tasks |-> [p \in Parts |-> 0]]
  /\ stored = [t \in Tasks |-> {}]

\* A task appears, or appears again after it was removed, before any entry.
Open(t) ==
  /\ Untouched(t)
  /\ live' = [live EXCEPT ![t] = TRUE]
  /\ UNCHANGED <<ledger, entries, taken, stored>>

\* All parts are entered at once, before any entry.
Register(t, new) ==
  /\ Untouched(t)
  /\ ledger' = [ledger EXCEPT ![t] = [p \in Parts |-> IF p \in new THEN "pending" ELSE "none"]]
  /\ UNCHANGED <<live, entries, taken, stored>>

\* One entry, or two when the client had to send it again.
Send(t, p) ==
  /\ live[t] => ledger[t][p] # "none"
  /\ \E n \in 1..2 : entries' = [entries EXCEPT ![t][p] = @ + n]
  /\ UNCHANGED <<live, ledger, taken, stored>>

Mark(t, p) ==
  /\ ledger[t][p] # "none"
  /\ entries[t][p] > 0
  /\ ledger' = [ledger EXCEPT ![t][p] = "running"]
  /\ UNCHANGED <<live, entries, taken, stored>>

Take(t, p) == taken[t][p] < entries[t][p] /\ taken' = [taken EXCEPT ![t][p] = @ + 1]

Complete(t, p) ==
  /\ Take(t, p)
  /\ ledger' = [ledger EXCEPT ![t][p] = IF @ = "none" THEN "none" ELSE "completed"]
  /\ stored' = [stored EXCEPT ![t] = @ \cup {p}]
  /\ UNCHANGED <<live, entries>>

GiveUp(t, p) ==
  /\ Take(t, p)
  /\ ledger' = [ledger EXCEPT ![t][p] = IF @ = "none" THEN "none" ELSE "failed"]
  /\ UNCHANGED <<live, entries, stored>>

Discard(t, p) ==
  /\ Take(t, p)
  /\ UNCHANGED <<live, ledger, entries, stored>>

\* A restart puts every part back to pending and forgets the results.
Reset(t) ==
  /\ ledger' = [ledger EXCEPT ![t] =
                  [p \in Parts |-> IF ledger[t][p] = "none" THEN "none" ELSE "pending"]]
  /\ stored' = [stored EXCEPT ![t] = {}]
  /\ UNCHANGED <<live, entries, taken>>

Remove(t) ==
  /\ live' = [live EXCEPT ![t] = FALSE]
  /\ ledger' = [ledger EXCEPT ![t] = [p \in Parts |-> "none"]]
  /\ stored' = [stored EXCEPT ![t] = {}]
  /\ UNCHANGED <<entries, taken>>

Next ==
  \/ \E t \in Tasks : Open(t) \/ Reset(t) \/ Remove(t)
  \/ \E t \in Tasks, new \in SUBSET Parts : Register(t, new)
  \/ \E t \in Tasks, p \in Parts : Send(t, p) \/ Mark(t, p) \/ Complete(t, p) \/ GiveUp(t, p) \/ Discard(t, p)

Spec == Init /\ [][Next]_vars
=============================================================================
