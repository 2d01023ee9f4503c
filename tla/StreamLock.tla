------------------------------ MODULE StreamLock ------------------------------
(***************************************************************************)
(* One business stream with its consumer group (redisstream.go) and the    *)
(* locks of its messages (lock.go), as the scanner pods use them.  A pod   *)
(* reads new entries or claims entries that have been pending for long,    *)
(* takes the lock of an entry before it scans and renews it while it does, *)
(* acknowledges the entry and gives the lock back.  Pods are slow, stop    *)
(* for ever or come back under the same name, and lose replies.            *)
(*                                                                         *)
(* Every Redis command is a step, a Lua script too.  Time passes in Tick.  *)
(* A pod that scans renews in time, except for a bounded number of times.  *)
(***************************************************************************)
EXTENDS Naturals

CONSTANTS
  Workers,     \* the pods of the module, by POD_NAME
  NoOne,       \* no pod
  MaxEntries,  \* bound: entries added to the stream
  Count,       \* the most entries one read returns
  Ttl,         \* ticks a lock lives (lock_ttl_seconds)
  Renewal,     \* ticks between two renewals (lock_renew_seconds)
  Idle,        \* ticks after which an entry is claimed (pending_idle_seconds)
  MaxFaults,   \* bound: commands whose reply is lost
  MaxLate,     \* bound: ticks at which a pod is late with its renewal
  MaxCrashes   \* bound: pods that stop

ASSUME WorkerAssumption == NoOne \notin Workers
\* Renewal before the end of a lock: what Validate (policy.go:164) sees to, as
\* PolicyRules shows, unless a lock lives for one second.
ASSUME TimeAssumption ==
  Ttl \in Nat /\ Renewal \in Nat \ {0} /\ Renewal < Ttl /\ Idle \in Nat
ASSUME BoundsAssumption ==
  /\ MaxEntries \in Nat /\ Count \in Nat \ {0}
  /\ MaxFaults \in Nat /\ MaxLate \in Nat /\ MaxCrashes \in Nat

VARIABLES
  added,    \* entries in the stream
  group,    \* whether the consumer group exists
  read,     \* the last entry the group has delivered
  deleted,  \* the stream is deleted (DeleteKeys); its locks follow
  pending,  \* the group's pending entries: consumer, and ticks since delivery
  lock,     \* lock:stream:{stream}:message:{id}: its value and remaining life
  up,       \* the pods that run
  hand,     \* by pod: entries it received and has not begun
  on,       \* by pod: the entry it scans, 0 if none
  acked,    \* the pods that are through with it but for the release
  since,    \* history: ticks, up to Ttl, since a pod's lock was set or renewed
  scanned,  \* history: entries some pod has scanned to the end
  faults, late, crashes  \* how much of each bound is spent

stream == <<added, group, read, deleted>>
pods   == <<up, hand, on, acked, since>>
used   == <<faults, late, crashes>>
vars   == <<added, group, read, deleted, pending, lock, up, hand, on, acked,
            since, scanned, faults, late, crashes>>

-----------------------------------------------------------------------------
Entries == 1..MaxEntries

\* A delivery to a consumer that is not acknowledged, and the value of a lock.
Deliveries == [owner : Workers \cup {NoOne}, idle : 0..Idle]
Locks      == [holder : Workers \cup {NoOne}, ttl : 0..Ttl]

NotPending == [owner |-> NoOne, idle |-> 0]
Free       == [holder |-> NoOne, ttl |-> 0]

TypeOK ==
  /\ added \in 0..MaxEntries /\ read \in 0..added
  /\ group \in BOOLEAN /\ deleted \in BOOLEAN
  /\ pending \in [Entries -> Deliveries]
  /\ lock \in [Entries -> Locks]
  /\ up \subseteq Workers /\ acked \subseteq Workers
  /\ hand \in [Workers -> SUBSET Entries]
  /\ on \in [Workers -> 0..MaxEntries]
  /\ since \in [Workers -> 0..Ttl]
  /\ scanned \subseteq Entries
  /\ faults \in Nat /\ late \in Nat /\ crashes \in Nat

Init ==
  /\ added = 0 /\ read = 0
  /\ group = FALSE /\ deleted = FALSE
  /\ pending = [e \in Entries |-> NotPending]
  /\ lock = [e \in Entries |-> Free]
  /\ up = Workers /\ acked = {}
  /\ hand = [w \in Workers |-> {}]
  /\ on = [w \in Workers |-> 0]
  /\ since = [w \in Workers |-> 0]
  /\ scanned = {}
  /\ faults = 0 /\ late = 0 /\ crashes = 0

\* The reply arrives, or is lost after the command was executed.
Replied == UNCHANGED used
Lost == faults < MaxFaults /\ faults' = faults + 1 /\ UNCHANGED <<late, crashes>>

-----------------------------------------------------------------------------
(* The backend: the group, the entries, the end of the stream              *)

\* Mutant: the group starts at the end of the stream.
StartsAtEnd == added

\* XGROUP CREATE MKSTREAM from "0": entries added before are delivered too.
StartsAt == 0

\* BUSYGROUP, the answer when there is one, is no error and changes nothing.
EnsureGroup ==
  /\ ~group /\ ~deleted
  /\ group' = TRUE
  /\ read' = StartsAt
  /\ UNCHANGED <<added, deleted, pending, lock, pods, scanned, used>>

\* XADD, which makes the stream when there is none.
XAddBusiness ==
  /\ added < MaxEntries /\ ~deleted
  /\ added' = added + 1
  /\ UNCHANGED <<group, read, deleted, pending, lock, pods, scanned, used>>

\* The policy or the module goes: first the stream, with its group, ...
DeleteStream ==
  /\ ~deleted
  /\ deleted' = TRUE
  /\ pending' = [e \in Entries |-> NotPending]
  /\ UNCHANGED <<added, group, read, lock, pods, scanned, used>>

\* Mutant: the locks are deleted first.
WipesAnytime == TRUE

WipesAfter == deleted

\* ... then its locks, found by SCAN and deleted in batches.
DeleteLock(e) ==
  /\ WipesAfter
  /\ lock' = [lock EXCEPT ![e] = Free]
  /\ UNCHANGED <<stream, pending, pods, scanned, used>>

-----------------------------------------------------------------------------
(* The operations of Manager and Locker, called by a pod                   *)

\* A pod that has nothing in hand and scans nothing.
Waiting(w) == w \in up /\ on[w] = 0 /\ hand[w] = {}

\* The entries are pending for w from now on, whether it hears of them or not.
Deliver(w, new) ==
  /\ pending' = [e \in Entries |-> IF e \in new THEN [owner |-> w, idle |-> 0] ELSE pending[e]]
  /\ \/ Replied /\ hand' = [hand EXCEPT ![w] = new]
     \/ Lost /\ UNCHANGED hand
  /\ UNCHANGED <<lock, up, on, acked, since, scanned>>

\* XREADGROUP of new entries (">").
XReadBusinessGroup(w) ==
  /\ Waiting(w) /\ group /\ ~deleted
  /\ \E n \in 1..Count :
       /\ read + n <= added
       /\ read' = read + n
       /\ Deliver(w, read + 1 .. read + n)
  /\ UNCHANGED <<added, group, deleted>>

\* Mutant: entries of other consumers only.
ClaimableOthers(w) == {e \in Entries : pending[e].owner \notin {NoOne, w} /\ pending[e].idle >= Idle}

\* What XCLAIM with its MinIdle gives of the ids XPENDING lists, the caller's
\* own entries included.
Claimable(w) == {e \in Entries : pending[e].owner # NoOne /\ pending[e].idle >= Idle}

XClaim(w) ==
  /\ Waiting(w)
  /\ \E new \in SUBSET Claimable(w) \ {{}} : Deliver(w, new)
  /\ UNCHANGED stream

\* Mutant: SET without NX.
NotLockedEver(e) == TRUE

NotLocked(e) == lock[e].holder = NoOne
SetLock(e, w) == lock' = [lock EXCEPT ![e] = [holder |-> w, ttl |-> Ttl]]

Begin(w, e) ==
  /\ SetLock(e, w)
  /\ on' = [on EXCEPT ![w] = e]
  /\ since' = [since EXCEPT ![w] = 0]

\* SET key w NX EX ttl.  The pod begins the entry, or leaves it pending when
\* another, or itself in an earlier life, has the lock, or with an error.
Acquire(w, e) ==
  /\ w \in up /\ on[w] = 0 /\ e \in hand[w]
  /\ hand' = [hand EXCEPT ![w] = @ \ {e}]
  /\ \/ NotLocked(e) /\ Begin(w, e) /\ Replied
     \/ NotLocked(e) /\ SetLock(e, w) /\ UNCHANGED <<on, since>> /\ Lost
     \/ UNCHANGED <<lock, on, since>> /\ Lost
     \/ ~NotLocked(e) /\ UNCHANGED <<lock, on, since>> /\ Replied
  /\ UNCHANGED <<stream, pending, up, acked, scanned>>

\* Mutant: no look at the value of the key.
HoldsAny(w, e) == lock[e].holder # NoOne

\* get key == the consumer's name, in the same script as what follows.
Holds(w, e) == lock[e].holder = w

\* The entry w scans is not its business any more.
Leave(w) ==
  /\ on' = [on EXCEPT ![w] = 0]
  /\ acked' = acked \ {w}
  /\ since' = [since EXCEPT ![w] = 0]

\* EXPIRE with the whole life, in the script that compares the value.  A pod that
\* hears no leaves the entry, sooner or later; an error is a late renewal.
Renew(w) ==
  /\ w \in up /\ on[w] # 0
  /\ \/ /\ Holds(w, on[w])
        /\ SetLock(on[w], lock[on[w]].holder)
        /\ since' = [since EXCEPT ![w] = 0]
        /\ UNCHANGED <<on, acked>>
     \/ ~Holds(w, on[w]) /\ Leave(w) /\ UNCHANGED lock
  /\ UNCHANGED <<stream, pending, up, hand, scanned, used>>

\* XACK at the end of the scan; with an error the entry may stay pending.
XAck(w) ==
  /\ w \in up \ acked /\ on[w] # 0
  /\ \/ pending' = [pending EXCEPT ![on[w]] = NotPending] /\ Replied
     \/ UNCHANGED pending /\ Lost
  /\ acked' = acked \cup {w}
  /\ scanned' = scanned \cup {on[w]}
  /\ UNCHANGED <<stream, lock, up, hand, on, since>>

Release(w) ==
  /\ w \in up \cap acked
  /\ \/ Holds(w, on[w]) /\ lock' = [lock EXCEPT ![on[w]] = Free] /\ Replied
     \/ ~Holds(w, on[w]) /\ UNCHANGED lock /\ Replied
     \/ UNCHANGED lock /\ Lost
  /\ Leave(w)
  /\ UNCHANGED <<stream, pending, up, hand, scanned>>

-----------------------------------------------------------------------------
(* The outside                                                             *)

\* A pod stops; its entries and locks stay in Redis.  It may come back.
Crash(w) ==
  /\ w \in up
  /\ crashes < MaxCrashes
  /\ crashes' = crashes + 1
  /\ up' = up \ {w}
  /\ hand' = [hand EXCEPT ![w] = {}]
  /\ Leave(w)
  /\ UNCHANGED <<stream, pending, lock, scanned, faults, late>>

Restart(w) ==
  /\ up' = up \cup {w}
  /\ UNCHANGED <<stream, pending, lock, hand, on, acked, since, scanned, used>>

\* A pod whose renewal is due by the next tick.
Due(w) == w \in up /\ on[w] # 0 /\ since[w] >= Renewal

Least(m, n) == IF m < n THEN m ELSE n

\* Time passes: locks come closer to their end, pending entries age.
Tick ==
  /\ \/ (\A w \in Workers : ~Due(w)) /\ UNCHANGED late
     \/ (\E w \in Workers : Due(w)) /\ late < MaxLate /\ late' = late + 1
  /\ lock' = [e \in Entries |-> IF lock[e].ttl <= 1 THEN Free
                ELSE [holder |-> lock[e].holder, ttl |-> lock[e].ttl - 1]]
  /\ pending' = [e \in Entries |-> IF pending[e].owner = NoOne THEN NotPending
                   ELSE [owner |-> pending[e].owner, idle |-> Least(pending[e].idle + 1, Idle)]]
  /\ since' = [w \in Workers |-> IF on[w] = 0 THEN 0 ELSE Least(since[w] + 1, Ttl)]
  /\ UNCHANGED <<stream, up, hand, on, acked, scanned, faults, crashes>>

\* What a pod does next; renewals come in between.
WorkerStep(w) ==
  \/ XReadBusinessGroup(w) \/ XClaim(w) \/ XAck(w) \/ Release(w)
  \/ \E e \in Entries : Acquire(w, e)

Next ==
  \/ EnsureGroup \/ XAddBusiness \/ DeleteStream \/ Tick
  \/ \E e \in Entries : DeleteLock(e)
  \/ \E w \in Workers : WorkerStep(w) \/ Renew(w) \/ Crash(w) \/ Restart(w)

Spec == Init /\ [][Next]_vars

-----------------------------------------------------------------------------
(* What the locks are for *)

\* Two pods scan one entry only when one of them has let its lock run out: it
\* has not set or renewed it for as long as a lock lives.  Claims after the idle
\* time, pods that stop and come back under their name, lost replies and late
\* releases do not break this, as long as the stream is there (lock.go).
OneWorker ==
  \A e \in Entries : ~deleted =>
    \A v, w \in Workers : v # w /\ on[v] = e /\ on[w] = e
        => since[v] = Ttl \/ since[w] = Ttl

\* With all renewals in time no two pods ever scan one entry, although entries
\* are claimed from pods that still scan them (the idle time is the shorter).
AloneInTime ==
  late = 0 /\ ~deleted =>
    \A v, w \in up : on[v] = on[w] => v = w \/ on[v] = 0

\* The promise in the pods' own terms: time each has left until its lock ends.
Leases == INSTANCE EntryLease WITH
            lease <- [e \in Entries |-> [w \in Workers |->
                        IF on[w] = e THEN Ttl - since[w] ELSE 0]],
            void  <- deleted

\* Every step of pods, backend and clock is a step of the leases.
ImplementsLease == Leases!Spec
=============================================================================
