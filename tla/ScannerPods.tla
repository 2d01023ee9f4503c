------------------------------ MODULE ScannerPods ------------------------------
(***************************************************************************)
(* The scanner pods of one module of a policy, between the two streams     *)
(* they live from: the business stream with its group and locks            *)
(* (StreamLock) and the control stream (ControlStream).  A deploy makes    *)
(* both, a delete removes both with one DEL, and a pod that stops forgets  *)
(* what it had in hand, what it scanned and how far it has listened.       *)
(***************************************************************************)
EXTENDS StreamLock, Sequences

CONSTANTS
  Listeners,    \* the pods whose listening is followed
  MaxMessages,  \* bound: messages on the control stream
  Batch,        \* the most messages one read of the control stream returns
  MaxErrors     \* bound: reads of the control stream that return an error

ASSUME ListenerAssumption ==
  /\ Listeners \subseteq Workers
  /\ MaxMessages \in Nat /\ Batch \in Nat \ {0} /\ MaxErrors \in Nat

VARIABLES length, ensuring, last, call, got, errors  \* see ControlStream

control == <<length, ensuring, last, call, got, errors>>
podVars == <<added, group, read, deleted, pending, lock, up, hand, on, acked,
             since, scanned, faults, late, crashes, length, ensuring, last, call, got,
             errors>>

Control == INSTANCE ControlStream

PodTypeOK == TypeOK /\ Control!TypeOK

PodInit == Init /\ Control!Init

-----------------------------------------------------------------------------
(* EnsurePolicyStreams: first the group, then the control stream.          *)
Deploy ==
  \/ EnsureGroup /\ UNCHANGED control
  \/ /\ group /\ ~deleted
     /\ Control!EnsureExists \/ Control!EnsureAdd
     /\ UNCHANGED vars

\* After DeletePolicyResources there is no control stream to publish on.
Publish == ~deleted /\ Control!XAddControl /\ UNCHANGED vars

Listening(l) == l \in up /\ ~deleted /\ UNCHANGED vars

Hear(l)   == Listening(l) /\ Control!Listen(l)
Unheard(l) == Listening(l) /\ (Control!ReadTimeout(l) \/ Control!ReadError(l))

Scan(w)  == WorkerStep(w) /\ UNCHANGED control
Extend(w) == Renew(w) /\ UNCHANGED control
Pass     == Tick /\ UNCHANGED control

Others ==
  /\ \/ XAddBusiness \/ DeleteStream
     \/ \E e \in Entries : DeleteLock(e)
     \/ \E w \in Workers : Restart(w)
  /\ UNCHANGED control

Stopped(w) ==
  /\ Crash(w)
  /\ IF w \in Listeners THEN Control!Restart(w) ELSE UNCHANGED control

PodNext ==
  \/ Deploy \/ Publish \/ Pass \/ Others
  \/ \E l \in Listeners : Hear(l) \/ Unheard(l)
  \/ \E w \in Workers : Scan(w) \/ Extend(w) \/ Stopped(w)

PodSpec == PodInit /\ [][PodNext]_podVars

\* Time passes, and a pod that runs goes on reading, claiming, scanning and
\* renewing.  Nothing makes users act, or a pod that stopped come back.
FairPodSpec ==
  /\ PodSpec
  /\ WF_podVars(Pass)
  /\ \A w \in Workers : WF_podVars(Scan(w)) /\ WF_podVars(Extend(w))
  /\ \A l \in Listeners : WF_podVars(Hear(l))

-----------------------------------------------------------------------------
(* Properties *)

\* A pod gets the control messages in order, none twice, and from its first one
\* on none is left out, whatever reads failed, timed out or came up short
\* (redisstream.go:196).  What it missed was published before its first message.
NoGap ==
  \A l \in Listeners :
    \A i \in DOMAIN got[l] : got[l][i] = last[l] - Len(got[l]) + i

\* A pod that has heard one message hears every later one, unless it stops or
\* the policy is deleted.
HearsOn ==
  \A l \in Listeners, m \in 1..MaxMessages :
    (got[l] # <<>> /\ length = m)
      ~> (deleted \/ got[l] = <<>> \/ \E i \in DOMAIN got[l] : got[l][i] = m)

\* Every entry is scanned to the end although pods stop for ever, replies are
\* lost and locks are left behind: it stays pending until then, is claimed, and
\* the lock of a pod that is gone ends by itself.
EntryProcessed ==
  \A e \in Entries : (group /\ e <= added) ~> (e \in scanned \/ deleted)
=============================================================================
