------------------------------ MODULE AliveCheck ------------------------------
(***************************************************************************)
(* alive/alive.go: CheckAll probes the hosts of a task, each in its own    *)
(* goroutine, at most Limit at a time, until the context of the task is    *)
(* over.  A probe pings and then dials each address of the host.  A raw    *)
(* ICMP socket receives every ICMP packet that reaches the machine: the    *)
(* replies to other probes of this check, to the checks of other tasks and *)
(* to anybody else's pings.                                                *)
(***************************************************************************)
EXTENDS Naturals, Sequences, FiniteSets

CONSTANTS
  N,          \* how many hosts a task has
  Limit,      \* the concurrency CheckAll is called with
  Addrs,      \* the IPv4 addresses each host resolves to, <<>> if it does not
  Answers,    \* addresses that answer an echo request
  Connects    \* addresses that accept or refuse one of the usual ports

Hosts   == 1..N
Address == UNION {{Addrs[h][i] : i \in DOMAIN Addrs[h]} : h \in Hosts}
Of(h)   == {Addrs[h][i] : i \in DOMAIN Addrs[h]}

ASSUME NAssumption == N \in Nat /\ Limit \in Nat \ {0}
ASSUME AddrAssumption == Addrs \in [Hosts -> Seq(STRING)]

VARIABLES
  pc,        \* CheckAll: "add", "acquire" or "returned"
  next,      \* CheckAll: the loop index
  wg, sem,   \* the count of the WaitGroup, the tokens in the channel
  worker,    \* the goroutine of each host: its next step
  at,        \* ... and the address it is at
  socket,    \* its raw socket: "closed", "open", or what it has read first
  echo,      \* addresses whose replies to this check are under way
  result,    \* "unset", "alive", "dead", or "late" (dead, as never probed)
  expired,   \* the context of the task is over
  overheard  \* history: hosts whose socket has read a reply to a foreign ping

vars == <<pc, next, wg, sem, worker, at, socket, echo, result, expired, overheard>>

TypeOK ==
  /\ pc \in {"add", "acquire", "returned"}
  /\ next \in 1..(N + 1)
  /\ wg \in 0..N /\ sem \in 0..Limit
  /\ worker \in [Hosts -> {"none", "begin", "ping", "read", "dial", "release", "done", "end"}]
  /\ at \in [Hosts -> Nat]
  /\ socket \in [Hosts -> {"closed", "open", "reply", "other"}]
  /\ echo \subseteq Address
  /\ result \in [Hosts -> {"unset", "alive", "dead", "late"}]
  /\ expired \in BOOLEAN
  /\ overheard \subseteq Hosts

Init ==
  /\ pc = "add" /\ next = 1
  /\ wg = 0 /\ sem = 0
  /\ worker = [h \in Hosts |-> "none"]
  /\ at = [h \in Hosts |-> 1]
  /\ socket = [h \in Hosts |-> "closed"]
  /\ echo = {}
  /\ result = [h \in Hosts |-> "unset"]
  /\ expired = FALSE
  /\ overheard = {}

-----------------------------------------------------------------------------
(* CheckAll                                                                *)

AddOne ==
  /\ pc = "add" /\ next <= N
  /\ pc' = "acquire"
  /\ wg' = wg + 1
  /\ UNCHANGED <<next, sem, worker, at, socket, echo, result, expired, overheard>>

\* Mutant: the channel holds one more.
HasTokenMore == sem <= Limit

HasToken == sem < Limit

Acquire ==
  /\ pc = "acquire" /\ HasToken
  /\ pc' = "add"
  /\ sem' = sem + 1
  /\ worker' = [worker EXCEPT ![next] = "begin"]
  /\ next' = next + 1
  /\ UNCHANGED <<wg, at, socket, echo, result, expired, overheard>>

\* Mutant: nobody waits for the goroutines.
WaitedNot == TRUE

Waited == wg = 0

Return ==
  /\ pc = "add" /\ next = N + 1 /\ Waited
  /\ pc' = "returned"
  /\ UNCHANGED <<next, wg, sem, worker, at, socket, echo, result, expired, overheard>>

-----------------------------------------------------------------------------
(* The goroutine of host h                                                 *)

Step(h, from, to) == worker[h] = from /\ worker' = [worker EXCEPT ![h] = to]
Report(h, r)      == result' = [result EXCEPT ![h] = r]

\* Mutant: a goroutine that comes too late returns with its token.
AfterLateEarly == "done"

\* Where a goroutine that comes too late goes on: both deferred calls run.
AfterLate == "release"

Begin(h) ==
  /\ \/ expired /\ Step(h, "begin", AfterLate) /\ Report(h, "late")
     \/ ~expired /\ Addrs[h] = <<>> /\ Step(h, "begin", "release") /\ Report(h, "dead")
     \/ ~expired /\ Addrs[h] # <<>> /\ Step(h, "begin", "ping") /\ UNCHANGED result
  /\ UNCHANGED <<pc, next, wg, sem, at, socket, echo, expired, overheard>>

\* A socket that cannot be opened or written leaves the host to TCP.
Ping(h) ==
  /\ \/ /\ Step(h, "ping", "read")
        /\ socket' = [socket EXCEPT ![h] = "open"]
        /\ echo' = echo \cup ({Addrs[h][at[h]]} \cap Answers)
     \/ Step(h, "ping", "dial") /\ UNCHANGED <<socket, echo>>
  /\ UNCHANGED <<pc, next, wg, sem, at, result, expired, overheard>>

\* Mutant: whatever the socket has read counts.
RepliedAny(h) == socket[h] \in {"reply", "other"}

\* The first packet decides, whoever has sent it.
Replied(h) == socket[h] = "reply"

\* Mutant: the socket is closed only after a reply.
CloseOnReply(h) == socket' = [socket EXCEPT ![h] = IF @ = "reply" THEN "closed" ELSE @]

Close(h) == socket' = [socket EXCEPT ![h] = "closed"]

\* The read returns a packet or times out.
Read(h) ==
  /\ \/ Replied(h) /\ Step(h, "read", "release") /\ Report(h, "alive")
     \/ ~Replied(h) /\ Step(h, "read", "dial") /\ UNCHANGED result
  /\ Close(h)
  /\ UNCHANGED <<pc, next, wg, sem, at, echo, expired, overheard>>

\* Mutant: only the first address of a domain is tried.
MoreNone(h) == FALSE

More(h) == at[h] < Len(Addrs[h])

Dial(h) ==
  /\ worker[h] = "dial"
  /\ IF Addrs[h][at[h]] \in Connects
     THEN Step(h, "dial", "release") /\ Report(h, "alive") /\ UNCHANGED at
     ELSE \/ More(h) /\ Step(h, "dial", "ping") /\ at' = [at EXCEPT ![h] = @ + 1] /\ UNCHANGED result
          \/ ~More(h) /\ Step(h, "dial", "release") /\ Report(h, "dead") /\ UNCHANGED at
  /\ UNCHANGED <<pc, next, wg, sem, socket, echo, expired, overheard>>

\* The deferred calls, last one first.
Release(h) ==
  /\ Step(h, "release", "done")
  /\ sem' = sem - 1
  /\ UNCHANGED <<pc, next, wg, at, socket, echo, result, expired, overheard>>

Done(h) ==
  /\ Step(h, "done", "end")
  /\ wg' = wg - 1
  /\ UNCHANGED <<pc, next, sem, at, socket, echo, result, expired, overheard>>

-----------------------------------------------------------------------------
(* The network and the clock                                               *)

\* A packet reaches the machine: every socket that waits for one has it.
Hear(kind) == socket' = [h \in Hosts |-> IF socket[h] = "open" THEN kind ELSE socket[h]]

EchoReply(a) ==
  /\ a \in echo
  /\ echo' = echo \ {a}
  /\ Hear("reply")
  /\ UNCHANGED <<pc, next, wg, sem, worker, at, result, expired, overheard>>

\* The reply to a ping of another task's CheckAll or of another process, or one
\* nobody asked for.
ForeignReply ==
  /\ \E h \in Hosts : socket[h] = "open"
  /\ Hear("reply")
  /\ overheard' = overheard \cup {h \in Hosts : socket[h] = "open"}
  /\ UNCHANGED <<pc, next, wg, sem, worker, at, echo, result, expired>>

\* An ICMP packet that is no echo reply.
OtherPacket ==
  /\ \E h \in Hosts : socket[h] = "open"
  /\ Hear("other")
  /\ UNCHANGED <<pc, next, wg, sem, worker, at, echo, result, expired, overheard>>

Expire ==
  /\ ~expired /\ pc # "returned"
  /\ expired' = TRUE
  /\ UNCHANGED <<pc, next, wg, sem, worker, at, socket, echo, result, overheard>>

Main      == AddOne \/ Acquire \/ Return
Worker(h) == Begin(h) \/ Ping(h) \/ Read(h) \/ Dial(h) \/ Release(h) \/ Done(h)

Next ==
  \/ Main
  \/ \E h \in Hosts : Worker(h)
  \/ \E a \in Address : EchoReply(a)
  \/ ForeignReply \/ OtherPacket
  \/ Expire

Spec     == Init /\ [][Next]_vars
FairSpec == Spec /\ WF_vars(Main) /\ \A h \in Hosts : WF_vars(Worker(h))

-----------------------------------------------------------------------------
(* What CheckAll promises                                                  *)

\* When CheckAll returns every host has its result, and no goroutine is left
\* that could still write one.
ReturnsComplete ==
  pc = "returned" => \A h \in Hosts : result[h] # "unset" /\ worker[h] = "end"

\* No more raw sockets are open than probes may run.
SocketsBounded == Cardinality({h \in Hosts : socket[h] # "closed"}) <= Limit

\* A host that takes connections on any of its addresses is not reported
\* dead, whatever the pings bring, unless its turn came after the deadline.
ConnectsIsFound == \A h \in Hosts : Of(h) \cap Connects # {} => result[h] # "dead"

Pinged(h) ==
  /\ at[h] > 1 \/ worker[h] \notin {"none", "begin", "ping"}
  /\ result[h] # "late"

\* A host whose own socket has read no reply to a foreign ping is reported alive
\* only when one of its addresses answers, or when another host that answers
\* has been pinged by then: a foreign reply misleads no probe but those that
\* wait at that moment.
AliveIsExplained ==
  \A h \in Hosts \ overheard : result[h] = "alive" =>
    \/ Of(h) \cap (Answers \cup Connects) # {}
    \/ \E g \in Hosts \ {h} : Pinged(g) /\ Of(g) \cap Answers # {}

\* CheckAll returns.
CheckReturns == <>(pc = "returned")
=============================================================================
