------------------------------ MODULE EntryLease ------------------------------
(***************************************************************************)
(* What the lock of a message promises the scanner pods, without Redis,    *)
(* consumer groups or errors: an entry is let to one pod for a time, which *)
(* that pod may extend while it runs, and to no other pod before it is     *)
(* over or given up.  When the stream of the entries is deleted the        *)
(* promise is void.                                                        *)
(***************************************************************************)
EXTENDS Naturals

CONSTANTS Entries, Workers, Ttl

VARIABLES
  lease,  \* ticks left to a pod for an entry, as the pod counts them
  void    \* the entries are deleted

vars == <<lease, void>>

Init ==
  /\ lease = [e \in Entries |-> [w \in Workers |-> 0]]
  /\ void = FALSE

Let(e, w, ticks) ==
  lease' = [x \in Entries |-> [v \in Workers |->
              IF x = e /\ v = w THEN ticks ELSE lease[x][v]]]

Grant(e, w) ==
  /\ void \/ \A v \in Workers : lease[e][v] = 0
  /\ Let(e, w, Ttl)
  /\ UNCHANGED void

Extend(e, w) ==
  /\ lease[e][w] > 0
  /\ Let(e, w, Ttl)
  /\ UNCHANGED void

GiveUp(e, w) ==
  /\ Let(e, w, 0)
  /\ UNCHANGED void

Age ==
  /\ lease' = [e \in Entries |-> [w \in Workers |->
                 IF lease[e][w] = 0 THEN 0 ELSE lease[e][w] - 1]]
  /\ UNCHANGED void

Delete ==
  /\ ~void
  /\ void' = TRUE
  /\ UNCHANGED lease

Next ==
  \/ \E e \in Entries, w \in Workers : Grant(e, w) \/ Extend(e, w) \/ GiveUp(e, w)
  \/ Age \/ Delete

Spec == Init /\ [][Next]_vars
=============================================================================
