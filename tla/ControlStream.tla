----------------------------- MODULE ControlStream -----------------------------
(***************************************************************************)
(* The control stream of a policy (redisstream.go): the backend makes it   *)
(* with a first message of no meaning (EnsureStream) and publishes actions *)
(* (XAddControl); every pod reads all of it for itself (XReadControl) and  *)
(* keeps the id of the last message it got, at first "$".                  *)
(*                                                                         *)
(* A read is a call and a reply, so that messages may come in between:     *)
(* Redis reads "$" as the end of the stream at the time of the call.       *)
(***************************************************************************)
EXTENDS Naturals, Sequences

CONSTANTS
  Listeners,    \* the pods of the policy
  MaxMessages,  \* bound: messages added to the stream
  Batch,        \* the most messages one read returns
  MaxErrors     \* bound: replies that are lost

VARIABLES
  length,    \* messages in the stream; their ids are 1, 2, ...
  ensuring,  \* EnsureStream found no stream and has yet to add its message
  last,      \* by listener: the id it has come to
  call,      \* by listener: the id the call it waits for reads from
  got,       \* by listener: the messages it got
  errors     \* replies lost so far

listened == <<last, call, got>>
vars == <<length, ensuring, last, call, got, errors>>

Ids    == 1..MaxMessages
Dollar == 0       \* "$"
NoCall == MaxMessages + 1

TypeOK ==
  /\ length \in 0..MaxMessages
  /\ ensuring \in BOOLEAN
  /\ last \in [Listeners -> 0..MaxMessages]
  /\ call \in [Listeners -> 0..NoCall]
  /\ got \in [Listeners -> Seq(Ids)]
  /\ errors \in 0..MaxErrors

Init ==
  /\ length = 0
  /\ ensuring = FALSE
  /\ last = [l \in Listeners |-> Dollar]
  /\ call = [l \in Listeners |-> NoCall]
  /\ got = [l \in Listeners |-> <<>>]
  /\ errors = 0

-----------------------------------------------------------------------------
(* The backend *)

\* EXISTS, which returns when there is a stream, and then XADD.
EnsureExists ==
  /\ length = 0 /\ ~ensuring
  /\ ensuring' = TRUE
  /\ UNCHANGED <<length, listened, errors>>

EnsureAdd ==
  /\ ensuring
  /\ ensuring' = FALSE
  /\ length' = IF length < MaxMessages THEN length + 1 ELSE length
  /\ UNCHANGED <<listened, errors>>

XAddControl ==
  /\ length < MaxMessages
  /\ length' = length + 1
  /\ UNCHANGED <<ensuring, listened, errors>>

-----------------------------------------------------------------------------
(* XReadControl *)

\* Mutant: every call starts from "$".
FromEnd(l) == length

\* Where the call reads from.
From(l) == IF last[l] = Dollar THEN length ELSE last[l]

ReadCall(l) ==
  /\ call[l] = NoCall
  /\ call' = [call EXCEPT ![l] = From(l)]
  /\ UNCHANGED <<length, ensuring, last, got, errors>>

\* Mutants: the id of the first message; the id after the last one.
LastIsFirst(l, k) == call[l] + 1
LastIsNext(l, k) == k + 1

\* The id XReadControl returns with the messages up to k: that of the last one.
LastId(l, k) == k

\* At most Batch messages, in order; a blocked call may get fewer.
ReadReply(l) ==
  /\ call[l] # NoCall
  /\ \E k \in call[l] + 1 .. call[l] + Batch :
       /\ k <= length
       /\ last' = [last EXCEPT ![l] = LastId(l, k)]
       /\ got' = [got EXCEPT ![l] = @ \o [i \in 1..(k - call[l]) |-> call[l] + i]]
  /\ call' = [call EXCEPT ![l] = NoCall]
  /\ UNCHANGED <<length, ensuring, errors>>

Ended(l) == call' = [call EXCEPT ![l] = NoCall] /\ UNCHANGED <<length, ensuring, last, got>>

\* No message within the block time: nil, and the caller's id again.
ReadTimeout(l) ==
  /\ call[l] = length
  /\ Ended(l)
  /\ UNCHANGED errors

ReadError(l) ==
  /\ call[l] # NoCall
  /\ errors < MaxErrors
  /\ errors' = errors + 1
  /\ Ended(l)

\* The id is only in the pod's memory.
Restart(l) ==
  /\ last' = [last EXCEPT ![l] = Dollar]
  /\ call' = [call EXCEPT ![l] = NoCall]
  /\ got' = [got EXCEPT ![l] = <<>>]
  /\ UNCHANGED <<length, ensuring, errors>>

Listen(l) == ReadCall(l) \/ ReadReply(l)

Next ==
  \/ EnsureExists \/ EnsureAdd \/ XAddControl
  \/ \E l \in Listeners : Listen(l) \/ ReadTimeout(l) \/ ReadError(l) \/ Restart(l)

Spec == Init /\ [][Next]_vars
=============================================================================
