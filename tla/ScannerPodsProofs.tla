--------------------------- MODULE ScannerPodsProofs ---------------------------
(***************************************************************************)
(* Proofs about the scanner pods, for any pods, entries and times: the     *)
(* lock of an entry lets one pod at a time scan it (StreamLock), the       *)
(* protocol of the pods with Redis implements the leases of EntryLease,    *)
(* both hold of the pods between the two streams (ScannerPods), and what a *)
(* pod hears has no gap.                                                   *)
(***************************************************************************)
EXTENDS ScannerPods, SequenceTheorems, TLAPS

-----------------------------------------------------------------------------
(* StreamLock *)

\* A pod that is down scans nothing; only an entry that is scanned is through.
Doing ==
  /\ \A w \in Workers : w \notin up => on[w] = 0
  /\ \A w \in acked : on[w] # 0

\* While its stream is there, a pod whose lock has not run out has the key.
FreshHolds ==
  ~deleted => \A w \in Workers :
    on[w] # 0 /\ since[w] < Ttl => lock[on[w]].holder = w

\* A pod that scans and has the key counts as the key does.
Exact ==
  \A w \in Workers :
    on[w] # 0 /\ lock[on[w]].holder = w => lock[on[w]].ttl = Ttl - since[w]

\* A key is there exactly as long as it lives.
Alive == \A e \in Entries : lock[e].holder = NoOne <=> lock[e].ttl = 0

\* Without a late tick no renewal is overdue.
InTime ==
  late = 0 => \A w \in Workers : on[w] # 0 => since[w] <= Renewal

LockInv == TypeOK /\ Doing /\ FreshHolds /\ Exact /\ Alive /\ InTime

-----------------------------------------------------------------------------
(* Types *)

LEMMA InitInv == Init => LockInv
<1> SUFFICES ASSUME Init PROVE LockInv
  OBVIOUS
<1> USE WorkerAssumption, TimeAssumption, BoundsAssumption DEF Init, Entries
<1>1. lock \in [Entries -> Locks] /\ pending \in [Entries -> Deliveries]
  BY DEF NotPending, Free, Locks, Deliveries
<1>2. TypeOK
  <2>1. on \in [Workers -> 0..MaxEntries] /\ since \in [Workers -> 0..Ttl]
    OBVIOUS
  <2>2. added \in 0..MaxEntries /\ read \in 0..added /\ scanned \subseteq Entries
    OBVIOUS
  <2>3. hand \in [Workers -> SUBSET Entries]
    OBVIOUS
  <2> QED
    BY <1>1, <2>1, <2>2, <2>3, Zenon DEF TypeOK
<1>3. Alive
  BY DEF Alive, Free
<1> QED
  BY <1>2, <1>3 DEF LockInv, Doing, FreshHolds, Exact, InTime

LEMMA TypeStep == TypeOK /\ Doing /\ [Next]_vars => TypeOK'
<1> SUFFICES ASSUME TypeOK, Doing, [Next]_vars PROVE TypeOK'
  OBVIOUS
<1> USE WorkerAssumption, TimeAssumption, BoundsAssumption
    DEF Entries, stream, pods, used, Lost, Replied
<1>a. /\ lock \in [Entries -> Locks]
      /\ pending \in [Entries -> Deliveries]
      /\ on \in [Workers -> 0..MaxEntries] /\ since \in [Workers -> 0..Ttl]
      /\ hand \in [Workers -> SUBSET Entries]
      /\ faults \in Nat /\ acked \subseteq Workers
  BY DEF TypeOK
<1>b. Free \in Locks /\ NotPending \in Deliveries
      /\ \A w \in Workers : [holder |-> w, ttl |-> Ttl] \in Locks
                        /\ [owner |-> w, idle |-> 0] \in Deliveries
  BY DEF Free, NotPending, Locks, Deliveries
<1>c. ASSUME NEW w \in Workers, NEW new \in SUBSET Entries, Deliver(w, new)
      PROVE  /\ pending' \in [Entries -> Deliveries] /\ hand' \in [Workers -> SUBSET Entries]
             /\ faults' \in Nat
  <2>1. pending' \in [Entries -> Deliveries]
    BY <1>a, <1>b, <1>c DEF Deliver
  <2>2. hand' \in [Workers -> SUBSET Entries]
    BY <1>a, <1>c DEF Deliver
  <2>3. faults' \in Nat
    BY <1>a, <1>c DEF Deliver
  <2> QED
    BY <2>1, <2>2, <2>3
<1>d. ASSUME NEW w \in Workers, Leave(w)
      PROVE  on' \in [Workers -> 0..MaxEntries] /\ acked' \subseteq Workers
             /\ since' \in [Workers -> 0..Ttl]
  BY <1>a, <1>d DEF Leave
<1>e. ASSUME NEW w \in Workers, NEW e \in Entries, SetLock(e, w)
      PROVE  lock' \in [Entries -> Locks]
  BY <1>a, <1>b, <1>e DEF SetLock
<1>f. ASSUME NEW e \in Entries, lock' = [lock EXCEPT ![e] = Free]
      PROVE  lock' \in [Entries -> Locks]
  BY <1>a, <1>b, <1>f
<1>1. CASE EnsureGroup
  BY <1>1 DEF EnsureGroup, StartsAt, TypeOK
<1>2. CASE XAddBusiness
  BY <1>2 DEF XAddBusiness, TypeOK
<1>3. CASE DeleteStream
  <2>1. pending' \in [Entries -> Deliveries]
    BY <1>3, <1>b DEF DeleteStream
  <2> QED
    BY <1>3, <2>1 DEF DeleteStream, TypeOK
<1>4. CASE Tick
  <2>1. lock' \in [Entries -> Locks]
    <3>1. ASSUME NEW e \in Entries
          PROVE  (IF lock[e].ttl <= 1 THEN Free
                  ELSE [holder |-> lock[e].holder, ttl |-> lock[e].ttl - 1]) \in Locks
      BY <1>a, <1>b DEF Locks
    <3> QED
      BY <1>4, <3>1 DEF Tick
  <2>2. pending' \in [Entries -> Deliveries]
    <3>1. ASSUME NEW e \in Entries
          PROVE  (IF pending[e].owner = NoOne THEN NotPending
                  ELSE [owner |-> pending[e].owner, idle |-> Least(pending[e].idle + 1, Idle)])
                 \in Deliveries
      BY <1>a, <1>b DEF Least, Deliveries
    <3> QED
      BY <1>4, <3>1 DEF Tick
  <2>3. since' \in [Workers -> 0..Ttl]
    BY <1>4, <1>a DEF Tick, Least
  <2>4. late' \in Nat
    BY <1>4 DEF Tick, TypeOK
  <2> QED
    BY <1>4, <2>1, <2>2, <2>3, <2>4 DEF Tick, TypeOK
<1>5. ASSUME NEW e \in Entries, DeleteLock(e) PROVE TypeOK'
  BY <1>5, <1>f DEF DeleteLock, TypeOK
<1>6. ASSUME NEW w \in Workers, XReadBusinessGroup(w) PROVE TypeOK'
  <2>1. PICK n \in 1..Count : /\ read + n <= added /\ read' = read + n
                              /\ Deliver(w, read + 1 .. read + n)
    BY <1>6 DEF XReadBusinessGroup
  <2>2. read + 1 .. read + n \in SUBSET Entries
    BY <2>1 DEF TypeOK
  <2>3. /\ pending' \in [Entries -> Deliveries] /\ hand' \in [Workers -> SUBSET Entries]
        /\ faults' \in Nat
    BY <2>1, <2>2, <1>c
  <2>4. read' \in 0..added /\ late' \in Nat /\ crashes' \in Nat
    BY <2>1 DEF Deliver, TypeOK
  <2>5. UNCHANGED <<added, group, deleted, lock, up, on, acked, since, scanned>>
    BY <1>6, <2>1 DEF XReadBusinessGroup, Deliver
  <2> QED
    BY <2>3, <2>4, <2>5 DEF TypeOK
<1>7. ASSUME NEW w \in Workers, XClaim(w) PROVE TypeOK'
  <2>1. PICK new \in SUBSET Entries : Deliver(w, new)
    BY <1>7 DEF XClaim, Claimable
  <2>2. /\ pending' \in [Entries -> Deliveries] /\ hand' \in [Workers -> SUBSET Entries]
        /\ faults' \in Nat
    BY <2>1, <1>c
  <2> QED
    BY <1>7, <2>1, <2>2 DEF XClaim, Deliver, TypeOK
<1>8. ASSUME NEW w \in Workers, XAck(w) PROVE TypeOK'
  <2>1. on[w] \in Entries
    BY <1>8, <1>a DEF XAck
  <2>2. pending' \in [Entries -> Deliveries]
    BY <1>8, <1>a, <1>b, <2>1 DEF XAck
  <2>3. faults' \in Nat
    BY <1>8, <1>a DEF XAck
  <2> QED
    BY <1>8, <2>1, <2>2, <2>3 DEF XAck, TypeOK
<1>9. ASSUME NEW w \in Workers, Release(w) PROVE TypeOK'
  <2>1. on[w] \in Entries
    BY <1>9, <1>a DEF Release, Doing
  <2>2. lock' \in [Entries -> Locks] /\ faults' \in Nat
    BY <1>9, <1>a, <1>f, <2>1 DEF Release
  <2> QED
    BY <1>9, <1>d, <2>2 DEF Release, TypeOK
<1>10. ASSUME NEW w \in Workers, NEW e \in Entries, Acquire(w, e) PROVE TypeOK'
  <2>1. lock' \in [Entries -> Locks]
    BY <1>10, <1>a, <1>e DEF Acquire, Begin
  <2>2. on' \in [Workers -> 0..MaxEntries] /\ since' \in [Workers -> 0..Ttl]
    BY <1>10, <1>a DEF Acquire, Begin
  <2>3. hand' \in [Workers -> SUBSET Entries] /\ faults' \in Nat
    BY <1>10, <1>a DEF Acquire
  <2> QED
    BY <1>10, <2>1, <2>2, <2>3 DEF Acquire, TypeOK
<1>11. ASSUME NEW w \in Workers, Renew(w) PROVE TypeOK'
  <2>1. on[w] \in Entries
    BY <1>11, <1>a DEF Renew
  <2>2. lock' \in [Entries -> Locks]
    BY <1>11, <1>a, <1>e, <2>1 DEF Renew, Holds
  <2>3. /\ on' \in [Workers -> 0..MaxEntries] /\ since' \in [Workers -> 0..Ttl]
        /\ acked' \subseteq Workers
    <3>1. CASE Leave(w)
      BY <1>d, <3>1
    <3>2. CASE since' = [since EXCEPT ![w] = 0] /\ UNCHANGED <<on, acked>>
      BY <1>a, <3>2
    <3> QED
      BY <1>11, <3>1, <3>2 DEF Renew
  <2> QED
    BY <1>11, <2>2, <2>3 DEF Renew, TypeOK
<1>12. ASSUME NEW w \in Workers, Crash(w) PROVE TypeOK'
  BY <1>12, <1>a, <1>d DEF Crash, TypeOK
<1>13. ASSUME NEW w \in Workers, Restart(w) PROVE TypeOK'
  BY <1>13 DEF Restart, TypeOK
<1>14. CASE UNCHANGED vars
  BY <1>14 DEF vars, TypeOK
<1> QED
  BY <1>1, <1>2, <1>3, <1>4, <1>5, <1>6, <1>7, <1>8, <1>9, <1>10, <1>11, <1>12, <1>13, <1>14
     DEF Next, WorkerStep

-----------------------------------------------------------------------------
(* Locks *)

\* What the locks depend on.
lockVars == <<deleted, lock, up, on, acked, since, late>>

LEMMA LockStep == LockInv /\ TypeOK' /\ [Next]_vars => (Doing /\ FreshHolds /\ Exact /\ Alive /\ InTime)'
<1>0. SUFFICES ASSUME LockInv, TypeOK', [Next]_vars
               PROVE  (Doing /\ FreshHolds /\ Exact /\ Alive /\ InTime)'
  OBVIOUS
<1>i. Doing /\ FreshHolds /\ Exact /\ Alive /\ InTime
  BY <1>0 DEF LockInv
<1> USE WorkerAssumption, TimeAssumption, BoundsAssumption
    DEF Doing, FreshHolds, Exact, Alive, InTime
<1>a. /\ lock \in [Entries -> [holder : Workers \cup {NoOne}, ttl : 0..Ttl]]
      /\ on \in [Workers -> 0..MaxEntries] /\ since \in [Workers -> 0..Ttl]
      /\ up \subseteq Workers /\ acked \subseteq Workers /\ deleted \in BOOLEAN /\ late \in Nat
  BY <1>0 DEF LockInv, TypeOK, Locks
<1>b. ASSUME NEW w \in Workers, on[w] # 0 PROVE on[w] \in Entries
  BY <1>a, <1>b DEF Entries
<1>1. CASE UNCHANGED lockVars
  BY <1>i, <1>1, <1>a DEF lockVars
<1>2. CASE EnsureGroup \/ XAddBusiness
  BY <1>i, <1>2, <1>1 DEF EnsureGroup, XAddBusiness, lockVars, pods, used
<1>3. CASE DeleteStream
  BY <1>i, <1>3, <1>a DEF DeleteStream, pods, used
<1>4. ASSUME NEW e \in Entries, DeleteLock(e)
      PROVE  (Doing /\ FreshHolds /\ Exact /\ Alive /\ InTime)'
  <2>1. deleted
    BY <1>i, <1>4 DEF DeleteLock, WipesAfter
  <2>2. lock' = [lock EXCEPT ![e] = [holder |-> NoOne, ttl |-> 0]]
    BY <1>i, <1>4 DEF DeleteLock, Free
  <2> QED
    BY <1>i, <1>4, <1>a, <1>b, <2>1, <2>2 DEF DeleteLock, stream, pods, used
<1>5. ASSUME NEW w \in Workers, XReadBusinessGroup(w)
      PROVE  (Doing /\ FreshHolds /\ Exact /\ Alive /\ InTime)'
  BY <1>i, <1>5, <1>1 DEF XReadBusinessGroup, Deliver, Replied, Lost, lockVars, used
<1>6. ASSUME NEW w \in Workers, XClaim(w)
      PROVE  (Doing /\ FreshHolds /\ Exact /\ Alive /\ InTime)'
  BY <1>i, <1>6, <1>1 DEF XClaim, Deliver, Replied, Lost, lockVars, stream, used
<1>7. ASSUME NEW w \in Workers, XAck(w)
      PROVE  (Doing /\ FreshHolds /\ Exact /\ Alive /\ InTime)'
  BY <1>i, <1>7, <1>a DEF XAck, Replied, Lost, stream, used
<1>8. ASSUME NEW w \in Workers, Release(w)
      PROVE  (Doing /\ FreshHolds /\ Exact /\ Alive /\ InTime)'
  <2>1. on[w] # 0 /\ on[w] \in Entries
    BY <1>i, <1>8, <1>b DEF Release
  <2>2. /\ on' = [on EXCEPT ![w] = 0] /\ acked' = acked \ {w}
        /\ since' = [since EXCEPT ![w] = 0]
        /\ up' = up /\ deleted' = deleted /\ late' = late
    BY <1>i, <1>8 DEF Release, Leave, Replied, Lost, stream, used
  <2>3. \/ lock' = lock
        \/ /\ lock[on[w]].holder = w
           /\ lock' = [lock EXCEPT ![on[w]] = [holder |-> NoOne, ttl |-> 0]]
    BY <1>i, <1>8 DEF Release, Holds, Free
  <2>4. ASSUME NEW v \in Workers, v # w
        PROVE  on'[v] = on[v] /\ since'[v] = since[v]
    BY <2>4, <2>2, <1>a
  <2>5. on'[w] = 0
    BY <2>2, <1>a
  <2>6. Doing'
    BY <1>i, <2>2, <2>4, <2>5, <1>a
  <2>7. FreshHolds'
    BY <1>i, <2>1, <2>2, <2>3, <2>4, <2>5, <1>a, <1>b
  <2>8. Exact'
    BY <1>i, <2>1, <2>2, <2>3, <2>4, <2>5, <1>a, <1>b
  <2>9. Alive'
    BY <1>i, <2>1, <2>3, <1>a
  <2>10. InTime'
    BY <1>i, <2>2, <2>4, <2>5, <1>a
  <2> QED
    BY <1>i, <2>6, <2>7, <2>8, <2>9, <2>10
<1>9. ASSUME NEW w \in Workers, NEW e \in Entries, Acquire(w, e)
      PROVE  (Doing /\ FreshHolds /\ Exact /\ Alive /\ InTime)'
  <2>1. on[w] = 0 /\ w \in up /\ up' = up /\ acked' = acked /\ deleted' = deleted /\ late' = late
    BY <1>i, <1>9 DEF Acquire, Replied, Lost, stream, used
  <2>2. CASE UNCHANGED <<lock, on, since>>
    BY <1>i, <2>1, <2>2, <1>1 DEF lockVars
  <2>3. CASE /\ lock[e].holder = NoOne
             /\ lock' = [lock EXCEPT ![e] = [holder |-> w, ttl |-> Ttl]]
             /\ \/ UNCHANGED <<on, since>>
                \/ on' = [on EXCEPT ![w] = e] /\ since' = [since EXCEPT ![w] = 0]
    <3>1. CASE UNCHANGED <<on, since>>
      BY <1>i, <2>1, <2>3, <3>1, <1>a, <1>b
    <3>2. CASE on' = [on EXCEPT ![w] = e] /\ since' = [since EXCEPT ![w] = 0]
      <4>1. e # 0
        BY DEF Entries
      <4> QED
        BY <1>i, <2>1, <2>3, <3>2, <4>1, <1>a, <1>b
    <3> QED
      BY <1>i, <2>3, <3>1, <3>2
  <2> QED
    BY <1>i, <1>9, <2>2, <2>3 DEF Acquire, Begin, SetLock, NotLocked
<1>10. ASSUME NEW w \in Workers, Renew(w)
       PROVE  (Doing /\ FreshHolds /\ Exact /\ Alive /\ InTime)'
  <2>1. /\ on[w] # 0 /\ on[w] \in Entries /\ w \in up
        /\ up' = up /\ deleted' = deleted /\ late' = late
    BY <1>i, <1>10, <1>b DEF Renew, stream, used
  <2>2. CASE /\ lock[on[w]].holder = w
             /\ lock' = [lock EXCEPT ![on[w]] = [holder |-> w, ttl |-> Ttl]]
             /\ since' = [since EXCEPT ![w] = 0] /\ on' = on /\ acked' = acked
    BY <1>i, <2>1, <2>2, <1>a, <1>b
  <2>3. CASE /\ lock[on[w]].holder # w /\ lock' = lock
             /\ on' = [on EXCEPT ![w] = 0] /\ acked' = acked \ {w}
             /\ since' = [since EXCEPT ![w] = 0]
    BY <1>i, <2>1, <2>3, <1>a, <1>b
  <2> QED
    BY <1>i, <1>10, <2>2, <2>3 DEF Renew, Holds, SetLock, Leave
<1>11. ASSUME NEW w \in Workers, Crash(w)
       PROVE  (Doing /\ FreshHolds /\ Exact /\ Alive /\ InTime)'
  BY <1>i, <1>11, <1>a, <1>b DEF Crash, Leave, stream
<1>12. ASSUME NEW w \in Workers, Restart(w)
       PROVE  (Doing /\ FreshHolds /\ Exact /\ Alive /\ InTime)'
  BY <1>i, <1>12, <1>a DEF Restart, stream, used
<1>13. CASE Tick
  <2>1. /\ lock' = [e \in Entries |-> IF lock[e].ttl <= 1 THEN [holder |-> NoOne, ttl |-> 0]
                      ELSE [holder |-> lock[e].holder, ttl |-> lock[e].ttl - 1]]
        /\ since' = [w \in Workers |-> IF on[w] = 0 THEN 0
                       ELSE IF since[w] + 1 < Ttl THEN since[w] + 1 ELSE Ttl]
        /\ on' = on /\ up' = up /\ acked' = acked /\ deleted' = deleted
    BY <1>i, <1>13 DEF Tick, Free, Least, stream
  <2>2. Doing'
    BY <1>i, <2>1
  <2>3. FreshHolds'
    BY <1>i, <2>1, <1>a, <1>b
  <2>4. Exact'
    <3> SUFFICES ASSUME NEW w \in Workers, on[w] # 0, lock'[on[w]].holder = w
                 PROVE  lock'[on[w]].ttl = Ttl - since'[w]
      BY <2>1
    <3>1. on[w] \in Entries
      BY <1>b
    <3>2. lock[on[w]].ttl > 1 /\ lock[on[w]].holder = w
      BY <2>1, <3>1, <1>a
    <3>3. lock[on[w]].ttl = Ttl - since[w]
      BY <1>i, <3>2
    <3>4. since'[w] = since[w] + 1
      BY <2>1, <3>2, <3>3, <1>a
    <3>5. lock'[on[w]] = [holder |-> lock[on[w]].holder, ttl |-> lock[on[w]].ttl - 1]
      <4>1. ~(lock[on[w]].ttl <= 1)
        BY <3>1, <3>2, <1>a
      <4> QED
        BY <2>1, <3>1, <4>1
    <3>6. lock'[on[w]].ttl = lock[on[w]].ttl - 1
      BY <3>5
    <3>7. since[w] \in Nat /\ Ttl \in Nat
      BY <1>a, TimeAssumption
    <3> QED
      BY <3>3, <3>4, <3>6, <3>7
  <2>5. Alive'
    BY <1>i, <2>1, <1>a
  <2>6. InTime'
    <3>1. CASE late' = late /\ \A w \in Workers : ~Due(w)
      BY <1>i, <2>1, <3>1, <1>a DEF Due
    <3>2. CASE late' = late + 1
      BY <1>i, <3>2, <1>a
    <3> QED
      BY <1>i, <1>13, <3>1, <3>2 DEF Tick
  <2> QED
    BY <1>i, <2>2, <2>3, <2>4, <2>5, <2>6
<1>14. CASE UNCHANGED vars
  BY <1>i, <1>14, <1>1 DEF vars, lockVars
<1> QED
  BY <1>0, <1>2, <1>3, <1>4, <1>5, <1>6, <1>7, <1>8, <1>9, <1>10, <1>11, <1>12, <1>13, <1>14
     DEF Next, WorkerStep

-----------------------------------------------------------------------------
(* The theorems *)

LEMMA LockInvAlways == Spec => []LockInv
<1>1. LockInv /\ [Next]_vars => LockInv'
  BY TypeStep, LockStep DEF LockInv
<1> QED
  BY <1>1, InitInv, PTL DEF Spec

\* Entries, locks, times and pods stay in their ranges.
THEOREM LockTyped == Spec => []TypeOK
<1>1. LockInv => TypeOK
  BY DEF LockInv
<1> QED
  BY <1>1, LockInvAlways, PTL

\* Two pods that scan one entry would both have its key, unless the lock of one
\* of them has run out.
THEOREM OneHolder == Spec => []OneWorker
<1>1. LockInv => OneWorker
  <2> SUFFICES ASSUME LockInv, NEW e \in Entries, ~deleted,
                      NEW v \in Workers, NEW w \in Workers, v # w, on[v] = e, on[w] = e,
                      since[v] # Ttl, since[w] # Ttl
               PROVE  FALSE
    BY DEF OneWorker
  <2>1. since[v] < Ttl /\ since[w] < Ttl /\ e # 0
    BY TimeAssumption DEF LockInv, TypeOK, Entries
  <2> QED
    BY <2>1 DEF LockInv, FreshHolds
<1> QED
  BY <1>1, LockInvAlways, PTL

\* Renewed in time, no lock runs out: Renewal < Ttl.
THEOREM InTimeAlone == Spec => []AloneInTime
<1>1. LockInv => AloneInTime
  <2> SUFFICES ASSUME LockInv, late = 0, ~deleted,
                      NEW v \in up, NEW w \in up, on[v] = on[w], on[v] # 0
               PROVE  v = w
    BY DEF AloneInTime
  <2>1. v \in Workers /\ w \in Workers /\ since[v] \in 0..Ttl /\ since[w] \in 0..Ttl
    BY DEF LockInv, TypeOK
  <2>2. since[v] <= Renewal /\ since[w] <= Renewal
    BY <2>1 DEF LockInv, InTime
  <2>3. since[v] < Ttl /\ since[w] < Ttl
    BY <2>1, <2>2, TimeAssumption
  <2> QED
    BY <2>1, <2>3 DEF LockInv, FreshHolds
<1> QED
  BY <1>1, LockInvAlways, PTL

-----------------------------------------------------------------------------
(* The leases *)

LEMMA LeaseInit == Init => Leases!Init
BY TimeAssumption DEF Init, Leases!Init, Entries

\* Nothing about the scans, the clock or the stream changes.
LEMMA LeaseStutter == UNCHANGED <<deleted, on, since>> => UNCHANGED Leases!vars
BY DEF Leases!vars

\* One pod begins or renews an entry (all of its life is left), or leaves it.
LEMMA LeaseLet ==
  ASSUME TypeOK, NEW w \in Workers, NEW e \in Entries, NEW t \in {0, Ttl},
         on[w] \in {0, e},
         \A v \in Workers \ {w} : on'[v] = on[v] /\ since'[v] = since[v],
         \/ t = Ttl /\ on'[w] = e /\ since'[w] = 0
         \/ t = 0 /\ on'[w] = 0
  PROVE  Leases!Let(e, w, t)
<1>1. e # 0
  BY DEF Entries
<1>2. ASSUME NEW x \in Entries, NEW v \in Workers
      PROVE  (IF on'[v] = x THEN Ttl - since'[v] ELSE 0)
               = IF x = e /\ v = w THEN t ELSE IF on[v] = x THEN Ttl - since[v] ELSE 0
  <2>1. x # 0
    BY DEF Entries
  <2> QED
    BY <1>1, <2>1, TimeAssumption
<1> QED
  BY <1>2 DEF Leases!Let

LEMMA LeaseStep == LockInv /\ TypeOK' /\ [Next]_vars => [Leases!Next]_Leases!vars
<1>0. SUFFICES ASSUME LockInv, TypeOK', [Next]_vars
               PROVE  Leases!Next \/ UNCHANGED Leases!vars
  OBVIOUS
<1> USE WorkerAssumption, TimeAssumption, BoundsAssumption DEF stream, pods
<1>a. /\ TypeOK /\ Doing /\ FreshHolds /\ Exact /\ Alive
      /\ lock \in [Entries -> [holder : Workers \cup {NoOne}, ttl : 0..Ttl]]
      /\ on \in [Workers -> 0..MaxEntries] /\ since \in [Workers -> 0..Ttl]
  BY <1>0 DEF LockInv, TypeOK, Locks
<1>b. ASSUME NEW w \in Workers, on[w] # 0, Leave(w), deleted' = deleted
      PROVE  Leases!Next
  <2>1. on[w] \in Entries
    BY <1>a, <1>b DEF Entries
  <2>2. /\ \A v \in Workers \ {w} : on'[v] = on[v] /\ since'[v] = since[v]
        /\ on'[w] = 0
    BY <1>a, <1>b DEF Leave
  <2>3. Leases!Let(on[w], w, 0)
    BY <1>a, <2>1, <2>2, LeaseLet
  <2> QED
    BY <1>b, <2>1, <2>3 DEF Leases!Next, Leases!GiveUp
<1>1. CASE UNCHANGED <<deleted, on, since>>
  BY <1>1, LeaseStutter
<1>2. CASE EnsureGroup \/ XAddBusiness
  BY <1>2, <1>1 DEF EnsureGroup, XAddBusiness
<1>3. CASE DeleteStream
  <2>1. UNCHANGED <<on, since>> /\ ~deleted /\ deleted'
    BY <1>3 DEF DeleteStream
  <2> QED
    BY <2>1 DEF Leases!Next, Leases!Delete
<1>4. ASSUME NEW e \in Entries, DeleteLock(e)
      PROVE  UNCHANGED Leases!vars
  BY <1>4, LeaseStutter DEF DeleteLock
<1>5. ASSUME NEW w \in Workers, XReadBusinessGroup(w)
      PROVE  UNCHANGED Leases!vars
  BY <1>5, LeaseStutter DEF XReadBusinessGroup, Deliver
<1>6. ASSUME NEW w \in Workers, XClaim(w)
      PROVE  UNCHANGED Leases!vars
  BY <1>6, LeaseStutter DEF XClaim, Deliver
<1>7. ASSUME NEW w \in Workers, XAck(w)
      PROVE  UNCHANGED Leases!vars
  BY <1>7, LeaseStutter DEF XAck
<1>8. ASSUME NEW w \in Workers, Release(w)
      PROVE  Leases!Next
  <2>1. on[w] # 0 /\ Leave(w) /\ deleted' = deleted
    BY <1>8, <1>a DEF Release, Doing
  <2> QED
    BY <2>1, <1>b
<1>9. ASSUME NEW w \in Workers, NEW e \in Entries, Acquire(w, e)
      PROVE  Leases!Next \/ UNCHANGED Leases!vars
  <2>1. deleted' = deleted /\ on[w] = 0
    BY <1>9 DEF Acquire
  <2>2. CASE UNCHANGED <<on, since>>
    BY <2>1, <2>2, LeaseStutter
  <2>3. CASE NotLocked(e) /\ Begin(w, e)
    <3>1. /\ \A v \in Workers \ {w} : on'[v] = on[v] /\ since'[v] = since[v]
          /\ on'[w] = e /\ since'[w] = 0
      BY <2>3, <1>a DEF Begin
    <3>2. Leases!Let(e, w, Ttl)
      BY <1>a, <2>1, <3>1, LeaseLet
    <3>3. deleted \/ \A v \in Workers : (IF on[v] = e THEN Ttl - since[v] ELSE 0) = 0
      <4> SUFFICES ASSUME ~deleted, NEW v \in Workers, on[v] = e, since[v] # Ttl
                   PROVE  FALSE
        BY <1>a
      <4>1. e # 0 /\ since[v] < Ttl
        BY <1>a DEF Entries
      <4>2. lock[e].holder = v
        BY <4>1, <1>a DEF FreshHolds
      <4> QED
        BY <4>2, <2>3 DEF NotLocked
    <3> QED
      BY <2>1, <3>2, <3>3 DEF Leases!Next, Leases!Grant
  <2> QED
    BY <1>9, <2>2, <2>3 DEF Acquire
<1>10. ASSUME NEW w \in Workers, Renew(w)
       PROVE  Leases!Next
  <2>1. on[w] \in Entries /\ on[w] # 0 /\ deleted' = deleted
    BY <1>10, <1>a DEF Renew, Entries
  <2>2. CASE Leave(w)
    BY <2>1, <2>2, <1>b
  <2>3. CASE Holds(w, on[w]) /\ since' = [since EXCEPT ![w] = 0] /\ on' = on
    <3>1. /\ \A v \in Workers \ {w} : on'[v] = on[v] /\ since'[v] = since[v]
          /\ on'[w] = on[w] /\ since'[w] = 0
      BY <2>3, <1>a
    <3>2. Leases!Let(on[w], w, Ttl)
      BY <1>a, <2>1, <3>1, LeaseLet
    <3>3. lock[on[w]].ttl = Ttl - since[w] /\ lock[on[w]].ttl # 0
      BY <2>1, <2>3, <1>a DEF Holds, Exact, Alive
    <3>4. lock[on[w]].ttl > 0
      BY <3>3, <2>1, <1>a
    <3>5. (IF on[w] = on[w] THEN Ttl - since[w] ELSE 0) > 0
      BY <3>3, <3>4
    <3> QED
      BY <2>1, <3>2, <3>5 DEF Leases!Next, Leases!Extend
  <2> QED
    BY <1>10, <2>2, <2>3 DEF Renew
<1>11. ASSUME NEW w \in Workers, Crash(w)
       PROVE  Leases!Next \/ UNCHANGED Leases!vars
  <2>1. Leave(w) /\ deleted' = deleted
    BY <1>11 DEF Crash
  <2>2. CASE on[w] # 0
    BY <2>1, <2>2, <1>b
  <2>3. CASE on[w] = 0
    <3>1. ASSUME NEW x \in Entries, NEW v \in Workers
          PROVE  (IF on'[v] = x THEN Ttl - since'[v] ELSE 0)
                   = IF on[v] = x THEN Ttl - since[v] ELSE 0
      BY <2>1, <2>3, <1>a DEF Leave, Entries
    <3> QED
      BY <2>1, <3>1 DEF Leases!vars
  <2> QED
    BY <2>2, <2>3
<1>12. ASSUME NEW w \in Workers, Restart(w)
       PROVE  UNCHANGED Leases!vars
  BY <1>12, LeaseStutter DEF Restart
<1>13. CASE Tick
  <2>1. /\ since' = [w \in Workers |-> IF on[w] = 0 THEN 0
                       ELSE IF since[w] + 1 < Ttl THEN since[w] + 1 ELSE Ttl]
        /\ on' = on /\ deleted' = deleted
    BY <1>13 DEF Tick, Least
  <2>2. ASSUME NEW x \in Entries, NEW v \in Workers
        PROVE  (IF on'[v] = x THEN Ttl - since'[v] ELSE 0)
                 = IF (IF on[v] = x THEN Ttl - since[v] ELSE 0) = 0 THEN 0
                   ELSE (IF on[v] = x THEN Ttl - since[v] ELSE 0) - 1
    BY <2>1, <1>a DEF Entries
  <2> QED
    BY <2>1, <2>2 DEF Leases!Next, Leases!Age
<1>14. CASE UNCHANGED vars
  BY <1>14, <1>1 DEF vars
<1> QED
  BY <1>0, <1>2, <1>3, <1>4, <1>5, <1>6, <1>7, <1>8, <1>9, <1>10, <1>11, <1>12, <1>13, <1>14
     DEF Next, WorkerStep

\* The pods, Redis and the clock implement the leases: an entry is granted to one
\* pod at a time, and extended only by the pod whose lease is not over.
THEOREM LeaseRefined == Spec => ImplementsLease
<1>1. LockInv /\ LockInv' /\ [Next]_vars => [Leases!Next]_Leases!vars
  BY LeaseStep DEF LockInv
<1> QED
  BY <1>1, LeaseInit, LockInvAlways, PTL DEF Spec, ImplementsLease, Leases!Spec

-----------------------------------------------------------------------------
(* ScannerPods *)

(* The locks *)

\* The pods work on the business stream as StreamLock says.
THEOREM PodsWork == PodSpec => Spec
<1>1. PodInit => Init
  BY DEF PodInit
<1>2. [PodNext]_podVars => [Next]_vars
  <2>1. Deploy => Next \/ UNCHANGED vars
    BY DEF Deploy, Next
  <2>2. Publish => UNCHANGED vars
    BY DEF Publish
  <2>3. ASSUME NEW l \in Listeners, Hear(l) \/ Unheard(l) PROVE UNCHANGED vars
    BY <2>3 DEF Hear, Unheard, Listening
  <2>4. ASSUME NEW w \in Workers, Scan(w) \/ Extend(w) \/ Stopped(w) PROVE Next
    BY <2>4 DEF Scan, Extend, Stopped, Next
  <2>5. Pass \/ Others => Next
    BY DEF Pass, Others, Next
  <2>6. UNCHANGED podVars => UNCHANGED vars
    BY DEF podVars, vars
  <2> QED
    BY <2>1, <2>2, <2>3, <2>4, <2>5, <2>6 DEF PodNext
<1> QED
  BY <1>1, <1>2, PTL DEF PodSpec, Spec

\* As OneHolder, InTimeAlone and LeaseRefined, with both streams.
THEOREM PodsOneHolder == PodSpec => []OneWorker
BY PodsWork, OneHolder, PTL

THEOREM PodsInTimeAlone == PodSpec => []AloneInTime
BY PodsWork, InTimeAlone, PTL

THEOREM PodsLeases == PodSpec => ImplementsLease
BY PodsWork, LeaseRefined, PTL

-----------------------------------------------------------------------------
(* The control stream *)

\* A call reads on from the last message, if the pod has one.
ReadsOn ==
  \A l \in Listeners :
    /\ last[l] <= length
    /\ call[l] # Control!NoCall => call[l] <= length /\ (last[l] = 0 \/ call[l] = last[l])
    /\ last[l] = 0 => got[l] = <<>>

HearInv == Control!TypeOK /\ ReadsOn /\ NoGap

LEMMA HearInit == PodInit => HearInv
<1> SUFFICES ASSUME PodInit PROVE HearInv
  OBVIOUS
<1> USE ListenerAssumption
    DEF PodInit, Control!Init, Control!Dollar, Control!NoCall, Control!Ids
<1>1. got \in [Listeners -> Seq(1..MaxMessages)]
  <2>1. <<>> \in Seq(1..MaxMessages)
    OBVIOUS
  <2> QED
    BY <2>1
<1>2. Control!TypeOK
  <2>1. /\ last \in [Listeners -> 0..MaxMessages] /\ call \in [Listeners -> 0..MaxMessages + 1]
        /\ length \in 0..MaxMessages /\ errors \in 0..MaxErrors
    OBVIOUS
  <2>2. ensuring \in BOOLEAN
    OBVIOUS
  <2> QED
    BY <1>1, <2>1, <2>2 DEF Control!TypeOK
<1>3. ReadsOn /\ NoGap
  BY DEF ReadsOn, NoGap
<1> QED
  BY <1>2, <1>3 DEF HearInv

\* Messages after those up to c, appended to what ends with c.
LEMMA Appended ==
  ASSUME NEW m \in Nat, NEW c \in 0..m, NEW k \in 1..m, c < k, NEW s \in Seq(1..m),
         \A i \in DOMAIN s : s[i] = c - Len(s) + i
  PROVE  LET t == s \o [i \in 1..(k - c) |-> c + i]
         IN  t \in Seq(1..m) /\ \A i \in DOMAIN t : t[i] = k - Len(t) + i
<1> DEFINE n == k - c
           S == 1..m
           new == [i \in 1..n |-> c + i]
           t == s \o new
<1>1. n \in Nat /\ Len(s) \in Nat /\ n = k - c
  OBVIOUS
<1>2. new \in Seq(S) /\ Len(new) = n /\ \A i \in 1..n : new[i] = c + i
  <2>1. \A i \in 1..n : c + i \in S
    OBVIOUS
  <2>2. new \in Seq(S) /\ Len(new) = n
    BY <1>1, <2>1
  <2> QED
    BY <2>2
<1>3. s \in Seq(S)
  OBVIOUS
<1> HIDE DEF S, new, n
<1>4. /\ t \in Seq(S) /\ Len(t) = Len(s) + n
      /\ \A i \in 1..Len(s) + n : t[i] = IF i <= Len(s) THEN s[i] ELSE new[i - Len(s)]
  <2>1. /\ t \in Seq(S) /\ Len(t) = Len(s) + Len(new)
        /\ \A i \in 1..Len(s) + Len(new) :
              t[i] = IF i <= Len(s) THEN s[i] ELSE new[i - Len(s)]
    BY <1>2, <1>3, ConcatProperties, Zenon
  <2> QED
    BY <1>2, <2>1
<1>5. ASSUME NEW i \in 1..Len(s) + n
      PROVE  t[i] = k - (Len(s) + n) + i
  <2>1. CASE i <= Len(s)
    <3>1. i \in DOMAIN s /\ t[i] = s[i]
      BY <1>1, <1>4, <2>1
    <3> QED
      BY <1>1, <3>1
  <2>2. CASE i > Len(s)
    <3>1. i - Len(s) \in 1..n /\ t[i] = new[i - Len(s)]
      BY <1>1, <1>4, <2>2
    <3>2. t[i] = c + (i - Len(s))
      BY <1>2, <3>1
    <3> QED
      BY <1>1, <3>2
  <2>3. i <= Len(s) \/ i > Len(s)
    BY <1>1
  <2> QED
    BY <2>1, <2>2, <2>3
<1>6. DOMAIN t = 1..Len(s) + n
  BY <1>4
<1> QED
  BY <1>4, <1>5, <1>6 DEF S, new, n

LEMMA HearStep == HearInv /\ [PodNext]_podVars => HearInv'
<1>0. SUFFICES ASSUME HearInv, [PodNext]_podVars
               PROVE  HearInv'
  OBVIOUS
<1> USE ListenerAssumption DEF Control!NoCall, Control!Dollar, Control!Ids, Control!listened
<1>a. /\ length \in 0..MaxMessages /\ ensuring \in BOOLEAN /\ errors \in 0..MaxErrors
      /\ last \in [Listeners -> 0..MaxMessages]
      /\ call \in [Listeners -> 0..MaxMessages + 1]
      /\ got \in [Listeners -> Seq(1..MaxMessages)]
  BY <1>0 DEF HearInv, Control!TypeOK
<1>b. ReadsOn /\ NoGap
  BY <1>0 DEF HearInv
<1>1. CASE UNCHANGED control
  BY <1>1, <1>a, <1>b DEF control, HearInv, Control!TypeOK, ReadsOn, NoGap
<1>2. CASE Control!EnsureExists \/ Control!EnsureAdd \/ Control!XAddControl
  <2>1. /\ UNCHANGED <<last, call, got, errors>> /\ ensuring' \in BOOLEAN
        /\ length' \in 0..MaxMessages /\ length <= length'
    <3>1. CASE Control!EnsureExists
      BY <3>1, <1>a DEF Control!EnsureExists
    <3>2. CASE Control!EnsureAdd
      <4>1. ensuring' \in BOOLEAN /\ UNCHANGED <<last, call, got, errors>>
        BY <3>2 DEF Control!EnsureAdd
      <4>2. length' \in 0..MaxMessages /\ length <= length'
        BY <3>2, <1>a DEF Control!EnsureAdd
      <4> QED
        BY <4>1, <4>2
    <3>3. CASE Control!XAddControl
      BY <3>3, <1>a DEF Control!XAddControl
    <3> QED
      BY <1>2, <3>1, <3>2, <3>3
  <2>2. ReadsOn'
    BY <2>1, <1>a, <1>b DEF ReadsOn
  <2> QED
    BY <2>1, <2>2, <1>a, <1>b DEF HearInv, Control!TypeOK, NoGap
<1>3. ASSUME NEW l \in Listeners, Control!ReadCall(l)
      PROVE  HearInv'
  <2>1. /\ call' = [call EXCEPT ![l] = IF last[l] = 0 THEN length ELSE last[l]]
        /\ UNCHANGED <<length, ensuring, last, got, errors>>
    BY <1>3 DEF Control!ReadCall, Control!From
  <2>2. call' \in [Listeners -> 0..MaxMessages + 1]
    BY <2>1, <1>a
  <2>3. ReadsOn'
    BY <2>1, <1>a, <1>b DEF ReadsOn
  <2> QED
    BY <2>1, <2>2, <2>3, <1>a, <1>b DEF HearInv, Control!TypeOK, NoGap
<1>4. ASSUME NEW l \in Listeners, Control!ReadReply(l)
      PROVE  HearInv'
  <2>1. PICK k \in call[l] + 1 .. call[l] + Batch :
          /\ k <= length
          /\ last' = [last EXCEPT ![l] = k]
          /\ got' = [got EXCEPT ![l] = @ \o [i \in 1..(k - call[l]) |-> call[l] + i]]
    BY <1>4 DEF Control!ReadReply, Control!LastId
  <2>2. /\ call[l] # MaxMessages + 1 /\ call' = [call EXCEPT ![l] = MaxMessages + 1]
        /\ UNCHANGED <<length, ensuring, errors>>
    BY <1>4 DEF Control!ReadReply
  <2>3. /\ last[l] \in 0..MaxMessages /\ call[l] \in 0..MaxMessages /\ call[l] < k
        /\ k \in 1..MaxMessages /\ (last[l] = 0 \/ call[l] = last[l])
        /\ got[l] \in Seq(1..MaxMessages) /\ (last[l] = 0 => got[l] = <<>>)
    BY <2>1, <2>2, <1>a, <1>b DEF ReadsOn
  <2> DEFINE t == got[l] \o [i \in 1..(k - call[l]) |-> call[l] + i]
  <2>4. got' = [got EXCEPT ![l] = t]
    BY <2>1
  <2>5. t \in Seq(1..MaxMessages) /\ \A i \in DOMAIN t : t[i] = k - Len(t) + i
    <3>1. ASSUME NEW i \in DOMAIN got[l]
          PROVE  got[l][i] = call[l] - Len(got[l]) + i
      <4>1. got[l] # <<>>
        OBVIOUS
      <4> QED
        BY <4>1, <2>3, <1>b DEF NoGap
    <3> QED
      BY <3>1, <2>3, Appended
  <2> HIDE DEF t
  <2>7. ASSUME NEW m \in Listeners, m # l
        PROVE  last'[m] = last[m] /\ call'[m] = call[m] /\ got'[m] = got[m]
    BY <2>1, <2>2, <2>4, <2>7, <1>a
  <2>8. last'[l] = k /\ call'[l] = MaxMessages + 1 /\ got'[l] = t
    BY <2>1, <2>2, <2>4, <1>a
  <2>9. Control!TypeOK'
    <3>1. last' \in [Listeners -> 0..MaxMessages]
      BY <2>1, <2>3, <1>a
    <3>2. call' \in [Listeners -> 0..MaxMessages + 1]
      BY <2>2, <1>a
    <3>3. got' \in [Listeners -> Seq(1..MaxMessages)]
      BY <2>4, <2>5, <1>a
    <3> QED
      BY <3>1, <3>2, <3>3, <2>2, <1>a DEF Control!TypeOK
  <2>10. ReadsOn'
    BY <2>1, <2>2, <2>3, <2>7, <2>8, <1>b DEF ReadsOn
  <2>11. NoGap'
    <3>1. ASSUME NEW m \in Listeners, m # l, NEW i \in DOMAIN got'[m]
          PROVE  got'[m][i] = last'[m] - Len(got'[m]) + i
      BY <3>1, <2>7, <1>b DEF NoGap
    <3>2. ASSUME NEW i \in DOMAIN got'[l]
          PROVE  got'[l][i] = last'[l] - Len(got'[l]) + i
      BY <2>5, <2>8
    <3> QED
      BY <3>1, <3>2 DEF NoGap
  <2> QED
    BY <2>9, <2>10, <2>11 DEF HearInv
<1>5. ASSUME NEW l \in Listeners, Control!Ended(l), errors' \in 0..MaxErrors
      PROVE  HearInv'
  <2>1. /\ call' = [call EXCEPT ![l] = MaxMessages + 1]
        /\ UNCHANGED <<length, ensuring, last, got>>
    BY <1>5 DEF Control!Ended
  <2>2. call' \in [Listeners -> 0..MaxMessages + 1]
    BY <2>1, <1>a
  <2>3. ReadsOn'
    BY <2>1, <1>a, <1>b DEF ReadsOn
  <2> QED
    BY <1>5, <2>1, <2>2, <2>3, <1>a, <1>b DEF HearInv, Control!TypeOK, NoGap
<1>6. ASSUME NEW l \in Listeners, Control!ReadTimeout(l) \/ Control!ReadError(l)
      PROVE  HearInv'
  <2>1. Control!Ended(l)
    BY <1>6 DEF Control!ReadTimeout, Control!ReadError
  <2>2. errors' \in 0..MaxErrors
    BY <1>6, <1>a DEF Control!ReadTimeout, Control!ReadError
  <2> QED
    BY <2>1, <2>2, <1>5
<1>7. ASSUME NEW l \in Listeners, Control!Restart(l)
      PROVE  HearInv'
  <2>1. /\ last' = [last EXCEPT ![l] = 0] /\ got' = [got EXCEPT ![l] = <<>>]
        /\ call' = [call EXCEPT ![l] = MaxMessages + 1]
        /\ UNCHANGED <<length, ensuring, errors>>
    BY <1>7 DEF Control!Restart
  <2>2. /\ last' \in [Listeners -> 0..MaxMessages] /\ call' \in [Listeners -> 0..MaxMessages + 1]
    BY <2>1, <1>a
  <2>3. got' \in [Listeners -> Seq(1..MaxMessages)]
    <3>1. <<>> \in Seq(1..MaxMessages)
      OBVIOUS
    <3> QED
      BY <2>1, <3>1, <1>a
  <2>4. ASSUME NEW m \in Listeners
        PROVE  \/ last'[m] = last[m] /\ call'[m] = call[m] /\ got'[m] = got[m]
               \/ last'[m] = 0 /\ call'[m] = MaxMessages + 1 /\ got'[m] = <<>>
    BY <2>1, <1>a
  <2>5. ReadsOn'
    BY <2>1, <2>4, <1>a, <1>b DEF ReadsOn
  <2>6. NoGap'
    BY <2>4, <1>b DEF NoGap
  <2> QED
    BY <2>1, <2>2, <2>3, <2>5, <2>6, <1>a DEF HearInv, Control!TypeOK
<1>8. CASE Deploy
  BY <1>8, <1>1, <1>2 DEF Deploy
<1>9. CASE Publish
  BY <1>9, <1>2 DEF Publish
<1>10. CASE Pass \/ Others
  BY <1>10, <1>1 DEF Pass, Others
<1>11. ASSUME NEW l \in Listeners, Hear(l) \/ Unheard(l)
       PROVE  HearInv'
  BY <1>11, <1>3, <1>4, <1>6 DEF Hear, Unheard, Control!Listen
<1>12. ASSUME NEW w \in Workers, Scan(w) \/ Extend(w) \/ Stopped(w)
       PROVE  HearInv'
  BY <1>12, <1>1, <1>7 DEF Scan, Extend, Stopped
<1>13. CASE UNCHANGED podVars
  BY <1>13, <1>1 DEF podVars, control
<1> QED
  BY <1>0, <1>8, <1>9, <1>10, <1>11, <1>12, <1>13 DEF PodNext

LEMMA HearAlways == PodSpec => []HearInv
BY HearInit, HearStep, PTL DEF PodSpec

\* A pod hears the control messages one after the other, from its first on.
THEOREM PodsGapless == PodSpec => []NoGap
<1>1. HearInv => NoGap
  BY DEF HearInv
<1> QED
  BY <1>1, HearAlways, PTL

THEOREM PodsTyped == PodSpec => []PodTypeOK
<1>1. HearInv /\ TypeOK => PodTypeOK
  BY DEF HearInv, PodTypeOK
<1> QED
  BY <1>1, HearAlways, PodsWork, LockTyped, PTL
================================================================================
