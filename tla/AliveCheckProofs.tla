--------------------------- MODULE AliveCheckProofs ---------------------------
(* CheckAll for any number of hosts, any concurrency and any ICMP traffic, *)
(* foreign replies included: the types, and with them the bounds of the    *)
(* WaitGroup and the semaphore, the complete result, the bound on raw      *)
(* sockets, and what a result means.                                       *)
EXTENDS AliveCheck, FiniteSetTheorems, SequenceTheorems, TLAPS

-----------------------------------------------------------------------------
(* The inductive invariant                                                 *)

Holding == {"begin", "ping", "read", "dial", "release"}
Probing == {"ping", "read", "dial"}

\* The goroutines that hold a token, and those the WaitGroup waits for.
Holders    == {h \in Hosts : worker[h] \in Holding}
Unfinished == {h \in Hosts : worker[h] \notin {"none", "end"}}

Typed ==
  /\ pc \in {"add", "acquire", "returned"}
  /\ next \in 1..(N + 1)
  /\ wg \in Nat /\ sem \in 0..Limit
  /\ worker \in [Hosts -> {"none", "begin", "ping", "read", "dial", "release", "done", "end"}]
  /\ at \in [Hosts -> Nat]
  /\ socket \in [Hosts -> {"closed", "open", "reply", "other"}]
  /\ echo \subseteq Address
  /\ result \in [Hosts -> {"unset", "alive", "dead", "late"}]
  /\ expired \in BOOLEAN
  /\ overheard \subseteq Hosts

\* The loop has started the goroutines before its index.
Loop ==
  /\ \A h \in Hosts : worker[h] = "none" <=> h >= next
  /\ pc = "acquire" => next <= N
  /\ pc = "returned" => next = N + 1 /\ wg = 0

\* Tokens and counts stand for goroutines.
Counts ==
  /\ sem = Cardinality(Holders)
  /\ wg = Cardinality(Unfinished) + (IF pc = "acquire" THEN 1 ELSE 0)

\* A goroutine has reported exactly when it is on its way out.
Reported == \A h \in Hosts : result[h] # "unset" <=> worker[h] \in {"release", "done", "end"}

\* A socket is there only while its goroutine reads.
Sockets == \A h \in Hosts : socket[h] # "closed" => worker[h] = "read"

\* A probe is at an address of its host, and has been refused nowhere.
Places ==
  \A h \in Hosts :
    /\ worker[h] \in {"none", "begin"} => at[h] = 1
    /\ worker[h] \in Probing =>
         /\ at[h] \in 1..Len(Addrs[h])
         /\ \A i \in 1..Len(Addrs[h]) : i < at[h] => Addrs[h][i] \notin Connects

\* Replies come from addresses that were pinged, or are foreign and recorded.
Echoes ==
  /\ \A a \in echo : a \in Answers /\ \E g \in Hosts : Pinged(g) /\ a \in Of(g)
  /\ \A h \in Hosts \ overheard : socket[h] = "reply" =>
       \E g \in Hosts : Pinged(g) /\ Of(g) \cap Answers # {}

Inv == /\ Typed /\ Loop /\ Counts /\ Reported /\ Sockets
       /\ Places /\ Echoes /\ ConnectsIsFound /\ AliveIsExplained

-----------------------------------------------------------------------------
(* Facts about the hosts and their addresses                               *)

\* What a probe is at is an address of its host; a list without addresses is
\* empty.
LEMMA Addresses ==
  ASSUME NEW h \in Hosts
  PROVE  /\ Len(Addrs[h]) \in Nat
         /\ Addrs[h] # <<>> => Len(Addrs[h]) >= 1
         /\ Addrs[h] = <<>> => Of(h) = {}
         /\ \A i \in 1..Len(Addrs[h]) : Addrs[h][i] \in Of(h)
         /\ \A a \in Of(h) : \E i \in 1..Len(Addrs[h]) : a = Addrs[h][i]
         /\ Of(h) \subseteq Address
  <1>1. Addrs[h] \in Seq(STRING)
    BY AddrAssumption
  <1>2. DOMAIN Addrs[h] = 1..Len(Addrs[h]) /\ Len(Addrs[h]) \in Nat
    BY <1>1
  <1>3. Addrs[h] # <<>> => Len(Addrs[h]) >= 1
    BY <1>1, <1>2
  <1>4. Addrs[h] = <<>> => Of(h) = {}
    BY <1>2 DEF Of
  <1>5. Of(h) \subseteq Address
    BY DEF Of, Address
  <1> QED
    BY <1>2, <1>3, <1>4, <1>5 DEF Of

\* There are finitely many goroutines.
LEMMA Finite ==
  /\ IsFiniteSet(Hosts)
  /\ \A S \in SUBSET Hosts : IsFiniteSet(S) /\ Cardinality(S) \in Nat
  <1>1. IsFiniteSet(Hosts)
    BY NAssumption, FS_Interval DEF Hosts
  <1> QED
    BY <1>1, FS_Subset, FS_CardinalityType

\* The count of a set of hosts that one of them joins or leaves.
LEMMA Joins ==
  ASSUME NEW S \in SUBSET Hosts, NEW h \in Hosts
  PROVE  /\ h \notin S => Cardinality(S \cup {h}) = Cardinality(S) + 1
         /\ h \in S => Cardinality(S \ {h}) = Cardinality(S) - 1
  BY Finite, FS_AddElement, FS_RemoveElement

-----------------------------------------------------------------------------
(* The steps                                                               *)

\* The loop starts each goroutine once and in order, and returns after the last.
LEMMA LoopStep ==
  ASSUME Inv, [Next]_vars
  PROVE  Loop'
  <1> USE DEF Inv
  <1>1. CASE AddOne
    BY <1>1 DEF AddOne, Loop
  <1>2. CASE Acquire
    BY <1>2 DEF Acquire, Typed, Loop, Hosts
  <1>3. CASE Return
    BY <1>3 DEF Return, Waited, Loop
  <1>4. ASSUME NEW h \in Hosts, Begin(h)
        PROVE  Loop'
    BY <1>4 DEF Begin, Step, AfterLate, Typed, Loop
  <1>5. ASSUME NEW h \in Hosts, Ping(h)
        PROVE  Loop'
    BY <1>5 DEF Ping, Step, Typed, Loop
  <1>6. ASSUME NEW h \in Hosts, Read(h)
        PROVE  Loop'
    BY <1>6 DEF Read, Step, Typed, Loop
  <1>7. ASSUME NEW h \in Hosts, Dial(h)
        PROVE  Loop'
    BY <1>7 DEF Dial, Step, Typed, Loop
  <1>8. ASSUME NEW h \in Hosts, Release(h)
        PROVE  Loop'
    BY <1>8 DEF Release, Step, Loop, Typed
  <1>9. ASSUME NEW h \in Hosts, Done(h)
        PROVE  Loop'
    <2>1. h \in Unfinished
      BY <1>9 DEF Done, Step, Unfinished, Typed
    <2>2. Cardinality(Unfinished) \in Nat /\ Cardinality(Unfinished) # 0
      BY <2>1, Finite, FS_EmptySet DEF Unfinished
    <2>3. wg # 0 /\ pc # "returned"
      BY <2>2 DEF Counts, Loop
    <2> QED
      BY <1>9, <2>3 DEF Done, Step, Loop, Typed
  <1>10. ASSUME NEW a \in Address, EchoReply(a)
        PROVE  Loop'
    BY <1>10 DEF EchoReply, Loop
  <1>11. CASE OtherPacket
    BY <1>11 DEF OtherPacket, Loop
  <1>12. CASE Expire
    BY <1>12 DEF Expire, Loop
  <1>13. CASE UNCHANGED vars
    BY <1>13 DEF vars, Loop
  <1>14. CASE ForeignReply
    BY <1>14 DEF ForeignReply, Loop
  <1> QED
    BY <1>1, <1>2, <1>3, <1>4, <1>5, <1>6, <1>7, <1>8, <1>9, <1>10, <1>11, <1>12, <1>13, <1>14
    DEF Next, Main, Worker

\* Every way to the deferred calls passes a report.
LEMMA ReportedStep ==
  ASSUME Inv, [Next]_vars
  PROVE  Reported'
  <1> USE DEF Inv
  <1>1. CASE AddOne
    BY <1>1 DEF AddOne, Reported
  <1>2. CASE Acquire
    <2>1. next \in Hosts /\ worker[next] = "none"
      BY <1>2 DEF Acquire, Typed, Loop, Hosts
    <2>2. worker' = [worker EXCEPT ![next] = "begin"] /\ result' = result
      BY <1>2 DEF Acquire
    <2>3. \A h \in Hosts : worker'[h] = IF h = next THEN "begin" ELSE worker[h]
      BY <2>2 DEF Typed
    <2> QED
      BY <2>1, <2>2, <2>3 DEF Reported
  <1>3. CASE Return
    BY <1>3 DEF Return, Reported
  <1>4. ASSUME NEW h \in Hosts, Begin(h)
        PROVE  Reported'
    BY <1>4 DEF Begin, Step, Report, AfterLate, Typed, Reported
  <1>5. ASSUME NEW h \in Hosts, Ping(h)
        PROVE  Reported'
    BY <1>5 DEF Ping, Step, Typed, Reported
  <1>6. ASSUME NEW h \in Hosts, Read(h)
        PROVE  Reported'
    BY <1>6 DEF Read, Step, Report, Typed, Reported
  <1>7. ASSUME NEW h \in Hosts, Dial(h)
        PROVE  Reported'
    BY <1>7 DEF Dial, Step, Report, Typed, Reported
  <1>8. ASSUME NEW h \in Hosts, Release(h)
        PROVE  Reported'
    BY <1>8 DEF Release, Step, Reported, Typed
  <1>9. ASSUME NEW h \in Hosts, Done(h)
        PROVE  Reported'
    BY <1>9 DEF Done, Step, Reported, Typed
  <1>10. ASSUME NEW a \in Address, EchoReply(a)
        PROVE  Reported'
    BY <1>10 DEF EchoReply, Reported
  <1>11. CASE OtherPacket
    BY <1>11 DEF OtherPacket, Reported
  <1>12. CASE Expire
    BY <1>12 DEF Expire, Reported
  <1>13. CASE UNCHANGED vars
    BY <1>13 DEF vars, Reported
  <1>14. CASE ForeignReply
    BY <1>14 DEF ForeignReply, Reported
  <1> QED
    BY <1>1, <1>2, <1>3, <1>4, <1>5, <1>6, <1>7, <1>8, <1>9, <1>10, <1>11, <1>12, <1>13, <1>14
    DEF Next, Main, Worker

\* The read closes the socket.
LEMMA SocketsStep ==
  ASSUME Inv, [Next]_vars
  PROVE  Sockets'
  <1> USE DEF Inv
  <1>1. CASE AddOne
    BY <1>1 DEF AddOne, Sockets
  <1>2. CASE Acquire
    BY <1>2 DEF Acquire, Typed, Loop, Sockets
  <1>3. CASE Return
    BY <1>3 DEF Return, Sockets
  <1>4. ASSUME NEW h \in Hosts, Begin(h)
        PROVE  Sockets'
    BY <1>4 DEF Begin, Step, Typed, Sockets
  <1>5. ASSUME NEW h \in Hosts, Ping(h)
        PROVE  Sockets'
    BY <1>5 DEF Ping, Step, Typed, Sockets
  <1>6. ASSUME NEW h \in Hosts, Read(h)
        PROVE  Sockets'
    BY <1>6 DEF Read, Step, Close, Typed, Sockets
  <1>7. ASSUME NEW h \in Hosts, Dial(h)
        PROVE  Sockets'
    BY <1>7 DEF Dial, Step, Typed, Sockets
  <1>8. ASSUME NEW h \in Hosts, Release(h)
        PROVE  Sockets'
    BY <1>8 DEF Release, Step, Sockets, Typed
  <1>9. ASSUME NEW h \in Hosts, Done(h)
        PROVE  Sockets'
    BY <1>9 DEF Done, Step, Sockets, Typed
  <1>10. ASSUME NEW a \in Address, EchoReply(a)
        PROVE  Sockets'
    BY <1>10 DEF EchoReply, Hear, Sockets
  <1>11. CASE OtherPacket
    BY <1>11 DEF OtherPacket, Hear, Sockets
  <1>12. CASE Expire
    BY <1>12 DEF Expire, Sockets
  <1>13. CASE UNCHANGED vars
    BY <1>13 DEF vars, Sockets
  <1>14. CASE ForeignReply
    BY <1>14 DEF ForeignReply, Hear, Sockets
  <1> QED
    BY <1>1, <1>2, <1>3, <1>4, <1>5, <1>6, <1>7, <1>8, <1>9, <1>10, <1>11, <1>12, <1>13, <1>14
    DEF Next, Main, Worker

\* A probe goes on to its next address only after the one before has refused it.
LEMMA PlacesStep ==
  ASSUME Inv, [Next]_vars
  PROVE  Places'
  <1> USE DEF Inv
  <1>1. CASE AddOne
    BY <1>1 DEF AddOne, Places
  <1>2. CASE Acquire
    BY <1>2 DEF Acquire, Typed, Loop, Places, Probing, Hosts
  <1>3. CASE Return
    BY <1>3 DEF Return, Places
  <1>4. ASSUME NEW h \in Hosts, Begin(h)
        PROVE  Places'
    BY <1>4 DEF Begin, Step, Report, AfterLate, Typed, Places, Probing
  <1>5. ASSUME NEW h \in Hosts, Ping(h)
        PROVE  Places'
    BY <1>5 DEF Ping, Step, Typed, Places, Probing
  <1>6. ASSUME NEW h \in Hosts, Read(h)
        PROVE  Places'
    BY <1>6 DEF Read, Step, Typed, Places, Probing
  <1>7. ASSUME NEW h \in Hosts, Dial(h)
        PROVE  Places'
    BY <1>7 DEF Dial, Step, More, Typed, Places, Probing
  <1>8. ASSUME NEW h \in Hosts, Release(h)
        PROVE  Places'
    BY <1>8 DEF Release, Step, Places, Probing, Typed
  <1>9. ASSUME NEW h \in Hosts, Done(h)
        PROVE  Places'
    BY <1>9 DEF Done, Step, Places, Probing, Typed
  <1>10. ASSUME NEW a \in Address, EchoReply(a)
        PROVE  Places'
    BY <1>10 DEF EchoReply, Places
  <1>11. CASE OtherPacket
    BY <1>11 DEF OtherPacket, Places
  <1>12. CASE Expire
    BY <1>12 DEF Expire, Places
  <1>13. CASE UNCHANGED vars
    BY <1>13 DEF vars, Places
  <1>14. CASE ForeignReply
    BY <1>14 DEF ForeignReply, Places
  <1> QED
    BY <1>1, <1>2, <1>3, <1>4, <1>5, <1>6, <1>7, <1>8, <1>9, <1>10, <1>11, <1>12, <1>13, <1>14
    DEF Next, Main, Worker

\* Tokens and counts follow the goroutines.
LEMMA CountsStep ==
  ASSUME Inv, [Next]_vars
  PROVE  Counts'
  <1> USE DEF Inv
  <1>1. CASE AddOne
    <2>1. Holders' = Holders /\ Unfinished' = Unfinished
      BY <1>1 DEF AddOne, Holders, Unfinished
    <2> QED
      BY <1>1, <2>1, Finite DEF AddOne, Counts, Unfinished
  <1>2. CASE Acquire
    <2>1. next \in Hosts /\ worker[next] = "none"
      BY <1>2 DEF Acquire, Typed, Loop, Hosts
    <2>2. Holders' = Holders \cup {next}
      BY <2>1, <1>2 DEF Acquire, Typed, Holders, Holding
    <2>3. Unfinished' = Unfinished \cup {next}
      BY <2>1, <1>2 DEF Acquire, Typed, Unfinished
    <2>4. next \notin Holders /\ next \notin Unfinished
      BY <2>1, <1>2 DEF Holders, Holding, Unfinished
    <2>5. Cardinality(Holders') = Cardinality(Holders) + 1
      BY <2>1, <2>2, <2>3, <2>4, Joins DEF Holders
    <2>6. Cardinality(Unfinished') = Cardinality(Unfinished) + 1
      BY <2>1, <2>2, <2>3, <2>4, Joins DEF Unfinished
    <2>7. Cardinality(Unfinished) \in Nat /\ Cardinality(Holders) \in Nat
      BY Finite DEF Holders, Unfinished
    <2> QED
      BY <1>2, <2>2, <2>3, <2>4, <2>5, <2>6, <2>7 DEF Acquire, Counts
  <1>3. CASE Return
    BY <1>3 DEF Return, Counts, Holders, Unfinished
  <1>4. ASSUME NEW h \in Hosts, Begin(h)
        PROVE  Counts'
    <2>1. Holders' = Holders
      BY <1>4 DEF Begin, Step, AfterLate, Typed, Holders, Holding
    <2>2. Unfinished' = Unfinished
      BY <1>4 DEF Begin, Step, AfterLate, Typed, Unfinished
    <2>3. Cardinality(Unfinished) \in Nat /\ Cardinality(Holders) \in Nat
      BY Finite DEF Holders, Unfinished
    <2> QED
      BY <1>4, <2>1, <2>2, <2>3 DEF Begin, Counts
  <1>5. ASSUME NEW h \in Hosts, Ping(h)
        PROVE  Counts'
    <2>1. Holders' = Holders
      BY <1>5 DEF Ping, Step, Typed, Holders, Holding
    <2>2. Unfinished' = Unfinished
      BY <1>5 DEF Ping, Step, Typed, Unfinished
    <2>3. Cardinality(Unfinished) \in Nat /\ Cardinality(Holders) \in Nat
      BY Finite DEF Holders, Unfinished
    <2> QED
      BY <1>5, <2>1, <2>2, <2>3 DEF Ping, Counts
  <1>6. ASSUME NEW h \in Hosts, Read(h)
        PROVE  Counts'
    <2>1. Holders' = Holders
      BY <1>6 DEF Read, Step, Typed, Holders, Holding
    <2>2. Unfinished' = Unfinished
      BY <1>6 DEF Read, Step, Typed, Unfinished
    <2>3. Cardinality(Unfinished) \in Nat /\ Cardinality(Holders) \in Nat
      BY Finite DEF Holders, Unfinished
    <2> QED
      BY <1>6, <2>1, <2>2, <2>3 DEF Read, Counts
  <1>7. ASSUME NEW h \in Hosts, Dial(h)
        PROVE  Counts'
    <2>1. Holders' = Holders
      BY <1>7 DEF Dial, Step, Typed, Holders, Holding
    <2>2. Unfinished' = Unfinished
      BY <1>7 DEF Dial, Step, Typed, Unfinished
    <2>3. Cardinality(Unfinished) \in Nat /\ Cardinality(Holders) \in Nat
      BY Finite DEF Holders, Unfinished
    <2> QED
      BY <1>7, <2>1, <2>2, <2>3 DEF Dial, Counts
  <1>8. ASSUME NEW h \in Hosts, Release(h)
        PROVE  Counts'
    <2>1. Holders' = Holders \ {h}
      BY <1>8 DEF Release, Step, Typed, Holders, Holding
    <2>2. Unfinished' = Unfinished
      BY <1>8 DEF Release, Step, Unfinished, Typed
    <2>3. h \in Holders
      BY <1>8 DEF Release, Step, Holders, Holding, Typed
    <2>4. Cardinality(Holders') = Cardinality(Holders) - 1
      BY <2>1, <2>2, <2>3, Joins DEF Holders
    <2>5. Cardinality(Unfinished) \in Nat /\ Cardinality(Holders) \in Nat
      BY Finite DEF Holders, Unfinished
    <2> QED
      BY <1>8, <2>1, <2>2, <2>3, <2>4, <2>5 DEF Release, Counts
  <1>9. ASSUME NEW h \in Hosts, Done(h)
        PROVE  Counts'
    <2>1. Holders' = Holders
      BY <1>9 DEF Done, Step, Holders, Holding, Typed
    <2>2. Unfinished' = Unfinished \ {h}
      BY <1>9 DEF Done, Step, Typed, Unfinished
    <2>3. h \in Unfinished
      BY <1>9 DEF Done, Step, Unfinished, Typed
    <2>4. Cardinality(Unfinished') = Cardinality(Unfinished) - 1
      BY <2>1, <2>2, <2>3, Joins DEF Unfinished
    <2>5. Cardinality(Unfinished) \in Nat /\ Cardinality(Holders) \in Nat
      BY Finite DEF Holders, Unfinished
    <2> QED
      BY <1>9, <2>1, <2>2, <2>3, <2>4, <2>5 DEF Done, Counts
  <1>10. ASSUME NEW a \in Address, EchoReply(a)
        PROVE  Counts'
    BY <1>10 DEF EchoReply, Counts, Holders, Unfinished
  <1>11. CASE OtherPacket
    BY <1>11 DEF OtherPacket, Counts, Holders, Unfinished
  <1>12. CASE Expire
    BY <1>12 DEF Expire, Counts, Holders, Unfinished
  <1>13. CASE UNCHANGED vars
    BY <1>13 DEF vars, Counts, Holders, Unfinished
  <1>14. CASE ForeignReply
    BY <1>14 DEF ForeignReply, Counts, Holders, Unfinished
  <1> QED
    BY <1>1, <1>2, <1>3, <1>4, <1>5, <1>6, <1>7, <1>8, <1>9, <1>10, <1>11, <1>12, <1>13, <1>14
    DEF Next, Main, Worker

\* No step leaves the types; a token is given back only by one who holds it.
LEMMA TypedStep ==
  ASSUME Inv, [Next]_vars
  PROVE  Typed'
  <1> USE DEF Inv
  <1>1. CASE AddOne
    BY <1>1 DEF AddOne, Typed
  <1>2. CASE Acquire
    BY <1>2, NAssumption DEF Acquire, HasToken, Typed, Loop, Hosts
  <1>3. CASE Return
    BY <1>3 DEF Return, Typed
  <1>4. ASSUME NEW h \in Hosts, Begin(h)
        PROVE  Typed'
    BY <1>4 DEF Begin, Step, Report, AfterLate, Typed
  <1>5. ASSUME NEW h \in Hosts, Ping(h)
        PROVE  Typed'
    <2>1. worker[h] = "ping" /\ at[h] \in 1..Len(Addrs[h])
      BY <1>5 DEF Ping, Step, Places, Probing, Typed
    <2>2. Addrs[h][at[h]] \in Address
      BY <2>1, Addresses
    <2>3. echo' \subseteq Address
      BY <1>5, <2>2 DEF Ping, Typed
    <2> QED
      BY <1>5, <2>3 DEF Ping, Step, Typed
  <1>6. ASSUME NEW h \in Hosts, Read(h)
        PROVE  Typed'
    BY <1>6 DEF Read, Step, Report, Close, Typed
  <1>7. ASSUME NEW h \in Hosts, Dial(h)
        PROVE  Typed'
    <2>1. at' \in [Hosts -> Nat]
      BY <1>7 DEF Dial, Typed
    <2>2. worker' \in [Hosts -> {"none", "begin", "ping", "read", "dial", "release", "done", "end"}]
      BY <1>7 DEF Dial, Step, Typed
    <2>3. result' \in [Hosts -> {"unset", "alive", "dead", "late"}]
      BY <1>7 DEF Dial, Report, Typed
    <2> QED
      BY <1>7, <2>1, <2>2, <2>3 DEF Dial, Typed
  <1>8. ASSUME NEW h \in Hosts, Release(h)
        PROVE  Typed'
    <2>1. h \in Holders
      BY <1>8 DEF Release, Step, Holders, Holding, Typed
    <2>2. Cardinality(Holders) \in Nat /\ Cardinality(Holders) # 0
      BY <2>1, Finite, FS_EmptySet DEF Holders
    <2>3. sem # 0
      BY <2>2 DEF Counts
    <2> QED
      BY <1>8, <2>3, NAssumption DEF Release, Step, Typed
  <1>9. ASSUME NEW h \in Hosts, Done(h)
        PROVE  Typed'
    <2>1. h \in Unfinished
      BY <1>9 DEF Done, Step, Unfinished, Typed
    <2>2. Cardinality(Unfinished) \in Nat /\ Cardinality(Unfinished) # 0
      BY <2>1, Finite, FS_EmptySet DEF Unfinished
    <2>3. wg # 0
      BY <2>2 DEF Counts
    <2> QED
      BY <1>9, <2>3 DEF Done, Step, Typed
  <1>10. ASSUME NEW a \in Address, EchoReply(a)
        PROVE  Typed'
    BY <1>10 DEF EchoReply, Hear, Typed
  <1>11. CASE OtherPacket
    BY <1>11 DEF OtherPacket, Hear, Typed
  <1>12. CASE Expire
    BY <1>12 DEF Expire, Typed
  <1>13. CASE UNCHANGED vars
    BY <1>13 DEF vars, Typed
  <1>14. CASE ForeignReply
    BY <1>14 DEF ForeignReply, Hear, Typed
  <1> QED
    BY <1>1, <1>2, <1>3, <1>4, <1>5, <1>6, <1>7, <1>8, <1>9, <1>10, <1>11, <1>12, <1>13, <1>14
    DEF Next, Main, Worker

\* A host is given up only after its last address has refused.
LEMMA ConnectsStep ==
  ASSUME Inv, [Next]_vars
  PROVE  ConnectsIsFound'
  <1> USE DEF Inv
  <1>1. CASE AddOne
    BY <1>1 DEF AddOne, ConnectsIsFound
  <1>2. CASE Acquire
    BY <1>2 DEF Acquire, ConnectsIsFound
  <1>3. CASE Return
    BY <1>3 DEF Return, ConnectsIsFound
  <1>4. ASSUME NEW h \in Hosts, Begin(h)
        PROVE  ConnectsIsFound'
    BY <1>4, Addresses DEF Begin, Report, Typed, ConnectsIsFound
  <1>5. ASSUME NEW h \in Hosts, Ping(h)
        PROVE  ConnectsIsFound'
    BY <1>5 DEF Ping, ConnectsIsFound
  <1>6. ASSUME NEW h \in Hosts, Read(h)
        PROVE  ConnectsIsFound'
    BY <1>6 DEF Read, Report, Typed, ConnectsIsFound
  <1>7. ASSUME NEW h \in Hosts, Dial(h)
        PROVE  ConnectsIsFound'
    BY <1>7, Addresses
    DEF Dial, Report, More, Typed, Places, ConnectsIsFound, Probing
  <1>8. ASSUME NEW h \in Hosts, Release(h)
        PROVE  ConnectsIsFound'
    BY <1>8 DEF Release, ConnectsIsFound
  <1>9. ASSUME NEW h \in Hosts, Done(h)
        PROVE  ConnectsIsFound'
    BY <1>9 DEF Done, ConnectsIsFound
  <1>10. ASSUME NEW a \in Address, EchoReply(a)
        PROVE  ConnectsIsFound'
    BY <1>10 DEF EchoReply, ConnectsIsFound
  <1>11. CASE OtherPacket
    BY <1>11 DEF OtherPacket, ConnectsIsFound
  <1>12. CASE Expire
    BY <1>12 DEF Expire, ConnectsIsFound
  <1>13. CASE UNCHANGED vars
    BY <1>13 DEF vars, ConnectsIsFound
  <1>14. CASE ForeignReply
    BY <1>14 DEF ForeignReply, ConnectsIsFound
  <1> QED
    BY <1>1, <1>2, <1>3, <1>4, <1>5, <1>6, <1>7, <1>8, <1>9, <1>10, <1>11, <1>12, <1>13, <1>14
    DEF Next, Main, Worker

\* A host that was pinged stays so.
LEMMA PingedStays ==
  ASSUME Inv, [Next]_vars, NEW g \in Hosts, Pinged(g)
  PROVE  Pinged(g)'
  <1> USE DEF Inv
  <1>1. CASE AddOne
    BY <1>1 DEF AddOne, Pinged
  <1>2. CASE Acquire
    BY <1>2 DEF Acquire, Typed, Loop, Pinged
  <1>3. CASE Return
    BY <1>3 DEF Return, Pinged
  <1>4. ASSUME NEW h \in Hosts, Begin(h)
        PROVE  Pinged(g)'
    BY <1>4 DEF Begin, Step, Report, Typed, Places, Pinged
  <1>5. ASSUME NEW h \in Hosts, Ping(h)
        PROVE  Pinged(g)'
    BY <1>5 DEF Ping, Step, Typed, Pinged
  <1>6. ASSUME NEW h \in Hosts, Read(h)
        PROVE  Pinged(g)'
    BY <1>6 DEF Read, Step, Report, Typed, Pinged
  <1>7. ASSUME NEW h \in Hosts, Dial(h)
        PROVE  Pinged(g)'
    BY <1>7 DEF Dial, Step, Report, Typed, Places, Probing, Pinged
  <1>8. ASSUME NEW h \in Hosts, Release(h)
        PROVE  Pinged(g)'
    BY <1>8 DEF Release, Step, Pinged, Typed
  <1>9. ASSUME NEW h \in Hosts, Done(h)
        PROVE  Pinged(g)'
    BY <1>9 DEF Done, Step, Pinged, Typed
  <1>10. ASSUME NEW a \in Address, EchoReply(a)
        PROVE  Pinged(g)'
    BY <1>10 DEF EchoReply, Pinged
  <1>11. CASE OtherPacket
    BY <1>11 DEF OtherPacket, Pinged
  <1>12. CASE Expire
    BY <1>12 DEF Expire, Pinged
  <1>13. CASE UNCHANGED vars
    BY <1>13 DEF vars, Pinged
  <1>14. CASE ForeignReply
    BY <1>14 DEF ForeignReply, Pinged
  <1> QED
    BY <1>1, <1>2, <1>3, <1>4, <1>5, <1>6, <1>7, <1>8, <1>9, <1>10, <1>11, <1>12, <1>13, <1>14
    DEF Next, Main, Worker

\* Only a ping of this check or a foreign one makes a reply, and only a reply is
\* heard as one.
LEMMA EchoesStep ==
  ASSUME Inv, [Next]_vars
  PROVE  Echoes'
  <1> USE DEF Inv
  <1>0. \A g \in Hosts : Pinged(g) => Pinged(g)'
    BY PingedStays
  <1>1. CASE AddOne
    BY <1>0, <1>1 DEF AddOne, Echoes
  <1>2. CASE Acquire
    BY <1>0, <1>2 DEF Acquire, Echoes
  <1>3. CASE Return
    BY <1>0, <1>3 DEF Return, Echoes
  <1>4. ASSUME NEW h \in Hosts, Begin(h)
        PROVE  Echoes'
    BY <1>0, <1>4 DEF Begin, Echoes
  <1>5. ASSUME NEW h \in Hosts, Ping(h)
        PROVE  Echoes'
    <2>1. worker[h] = "ping" /\ result[h] # "late"
      BY <1>5 DEF Ping, Step, Reported, Typed
    <2>2. Addrs[h][at[h]] \in Of(h)
      BY <2>1, Addresses DEF Places, Probing
    <2>3. \A a \in echo' : a \in echo \/ (a \in Answers /\ a = Addrs[h][at[h]] /\ worker'[h] = "read")
      BY <1>5 DEF Ping, Step, Typed
    <2>4. worker'[h] = "read" => Pinged(h)'
      BY <1>5, <2>1 DEF Ping, Pinged
    <2>5. \A g \in Hosts : socket'[g] = "reply" => socket[g] = "reply"
      BY <1>5 DEF Ping, Typed
    <2>6. overheard' = overheard
      BY <1>5 DEF Ping
    <2> QED
      BY <1>0, <2>2, <2>3, <2>4, <2>5, <2>6 DEF Echoes
  <1>6. ASSUME NEW h \in Hosts, Read(h)
        PROVE  Echoes'
    BY <1>0, <1>6 DEF Read, Close, Echoes, Typed
  <1>7. ASSUME NEW h \in Hosts, Dial(h)
        PROVE  Echoes'
    BY <1>0, <1>7 DEF Dial, Echoes
  <1>8. ASSUME NEW h \in Hosts, Release(h)
        PROVE  Echoes'
    BY <1>0, <1>8 DEF Release, Echoes
  <1>9. ASSUME NEW h \in Hosts, Done(h)
        PROVE  Echoes'
    BY <1>0, <1>9 DEF Done, Echoes
  <1>10. ASSUME NEW a \in Address, EchoReply(a)
        PROVE  Echoes'
    BY <1>0, <1>10 DEF EchoReply, Echoes
  <1>11. CASE OtherPacket
    BY <1>0, <1>11 DEF OtherPacket, Hear, Echoes
  <1>12. CASE Expire
    BY <1>0, <1>12 DEF Expire, Echoes
  <1>13. CASE UNCHANGED vars
    BY <1>0, <1>13 DEF vars, Echoes
  <1>14. CASE ForeignReply
    BY <1>0, <1>14 DEF ForeignReply, Hear, Echoes
  <1> QED
    BY <1>1, <1>2, <1>3, <1>4, <1>5, <1>6, <1>7, <1>8, <1>9, <1>10, <1>11, <1>12, <1>13, <1>14
    DEF Next, Main, Worker

\* A host is reported alive after a dial, on a reply that a pinged host sent, or
\* on a foreign one that is recorded.
LEMMA ExplainedStep ==
  ASSUME Inv, [Next]_vars
  PROVE  AliveIsExplained'
  <1> USE DEF Inv
  <1>0. \A g \in Hosts : Pinged(g) => Pinged(g)'
    BY PingedStays
  <1>1. CASE AddOne
    BY <1>0, <1>1 DEF AddOne, AliveIsExplained
  <1>2. CASE Acquire
    BY <1>0, <1>2 DEF Acquire, AliveIsExplained
  <1>3. CASE Return
    BY <1>0, <1>3 DEF Return, AliveIsExplained
  <1>4. ASSUME NEW h \in Hosts, Begin(h)
        PROVE  AliveIsExplained'
    <2>1. \A g \in Hosts : result'[g] = "alive" => result[g] = "alive"
      BY <1>4 DEF Begin, Report, Typed
    <2>2. overheard' = overheard
      BY <1>4 DEF Begin
    <2> QED
      BY <1>0, <2>1, <2>2 DEF AliveIsExplained
  <1>5. ASSUME NEW h \in Hosts, Ping(h)
        PROVE  AliveIsExplained'
    BY <1>0, <1>5 DEF Ping, AliveIsExplained
  <1>6. ASSUME NEW h \in Hosts, Read(h)
        PROVE  AliveIsExplained'
    <2>1. \A g \in Hosts : result'[g] = "alive" => result[g] = "alive" \/ (g = h /\ socket[h] = "reply")
      BY <1>6 DEF Read, Report, Replied, Typed
    <2>2. socket[h] = "reply" /\ h \notin overheard => \E g \in Hosts : Pinged(g)' /\ Of(g) \cap Answers # {}
      BY <1>0 DEF Echoes
    <2>3. overheard' = overheard
      BY <1>6 DEF Read
    <2> QED
      BY <1>0, <2>1, <2>2, <2>3 DEF AliveIsExplained
  <1>7. ASSUME NEW h \in Hosts, Dial(h)
        PROVE  AliveIsExplained'
    <2>1. \A g \in Hosts : result'[g] = "alive" =>
             result[g] = "alive" \/ (g = h /\ Addrs[h][at[h]] \in Connects)
      BY <1>7 DEF Dial, Report, Typed
    <2>2. Addrs[h][at[h]] \in Of(h)
      BY <1>7, Addresses DEF Dial, Places, Probing
    <2>3. overheard' = overheard
      BY <1>7 DEF Dial
    <2> QED
      BY <1>0, <2>1, <2>2, <2>3 DEF AliveIsExplained
  <1>8. ASSUME NEW h \in Hosts, Release(h)
        PROVE  AliveIsExplained'
    BY <1>0, <1>8 DEF Release, AliveIsExplained
  <1>9. ASSUME NEW h \in Hosts, Done(h)
        PROVE  AliveIsExplained'
    BY <1>0, <1>9 DEF Done, AliveIsExplained
  <1>10. ASSUME NEW a \in Address, EchoReply(a)
        PROVE  AliveIsExplained'
    BY <1>0, <1>10 DEF EchoReply, AliveIsExplained
  <1>11. CASE OtherPacket
    BY <1>0, <1>11 DEF OtherPacket, AliveIsExplained
  <1>12. CASE Expire
    BY <1>0, <1>12 DEF Expire, AliveIsExplained
  <1>13. CASE UNCHANGED vars
    BY <1>0, <1>13 DEF vars, AliveIsExplained
  <1>14. CASE ForeignReply
    BY <1>0, <1>14 DEF ForeignReply, AliveIsExplained
  <1> QED
    BY <1>1, <1>2, <1>3, <1>4, <1>5, <1>6, <1>7, <1>8, <1>9, <1>10, <1>11, <1>12, <1>13, <1>14
    DEF Next, Main, Worker

-----------------------------------------------------------------------------
(* The theorems                                                            *)

LEMMA InitInv == Init => Inv
  <1> SUFFICES ASSUME Init
               PROVE  Inv
    OBVIOUS
  <1>1. Typed
    <2>1. next \in 1..(N + 1) /\ wg \in Nat /\ sem \in 0..Limit
      BY NAssumption DEF Init
    <2>2. /\ worker \in [Hosts -> {"none", "begin", "ping", "read", "dial", "release", "done", "end"}]
          /\ at \in [Hosts -> Nat]
          /\ socket \in [Hosts -> {"closed", "open", "reply", "other"}]
          /\ result \in [Hosts -> {"unset", "alive", "dead", "late"}]
      BY DEF Init
    <2> QED
      BY <2>1, <2>2 DEF Init, Typed
  <1>2. Holders = {} /\ Unfinished = {}
    BY DEF Init, Holders, Holding, Unfinished
  <1>3. Counts
    BY <1>2, FS_EmptySet DEF Init, Counts
  <1>4. Reported /\ Sockets /\ Places
    BY DEF Init, Reported, Sockets, Places, Probing
  <1>5. Echoes /\ ConnectsIsFound /\ AliveIsExplained
    BY DEF Init, Echoes, ConnectsIsFound, AliveIsExplained
  <1>6. Loop
    BY DEF Init, Loop, Hosts
  <1> QED
    BY <1>1, <1>3, <1>4, <1>5, <1>6 DEF Inv

LEMMA InvHolds == Spec => []Inv
  <1>1. Inv /\ [Next]_vars => Inv'
    BY TypedStep, LoopStep, CountsStep, ReportedStep, SocketsStep, PlacesStep, EchoesStep,
       ConnectsStep, ExplainedStep DEF Inv
  <1> QED
    BY <1>1, InitInv, PTL DEF Spec

\* The WaitGroup never counts more than the hosts, nor below zero, which would
\* panic, and no more tokens are out than the channel holds.
THEOREM Types == Spec => []TypeOK
  <1>1. Inv => TypeOK
    <2> SUFFICES ASSUME Inv
                 PROVE  TypeOK
      OBVIOUS
    <2> USE DEF Inv
    <2>1. next - 1 \in Nat /\ next - 1 <= N /\ N \in Nat
      BY NAssumption DEF Typed
    <2>2. Unfinished \subseteq 1..(next - 1)
      BY <2>1 DEF Loop, Unfinished, Hosts, Typed
    <2>3. IsFiniteSet(1..(next - 1)) /\ Cardinality(1..(next - 1)) = next - 1
      BY <2>1, FS_Interval
    <2>4. Cardinality(Unfinished) <= next - 1 /\ Cardinality(Unfinished) \in Nat
      BY <2>2, <2>3, FS_Subset, Finite DEF Unfinished
    <2>5. wg \in 0..N
      BY <2>1, <2>4 DEF Counts, Loop, Typed
    <2> QED
      BY <2>5 DEF TypeOK, Typed
  <1> QED
    BY <1>1, InvHolds, PTL

\* CheckAll returns a result for every host, and leaves no goroutine that
\* could still write one, whatever the order of the goroutines.
THEOREM CompleteResult == Spec => []ReturnsComplete
  <1>1. Inv => ReturnsComplete
    <2> SUFFICES ASSUME Inv, pc = "returned", NEW h \in Hosts
                 PROVE  result[h] # "unset" /\ worker[h] = "end"
      BY DEF ReturnsComplete
    <2> USE DEF Inv
    <2>1. wg = 0 /\ next = N + 1
      BY DEF Loop
    <2>2. Cardinality(Unfinished) = 0
      BY <2>1, Finite DEF Counts, Unfinished
    <2>3. Unfinished = {}
      BY <2>2, Finite, FS_EmptySet DEF Unfinished
    <2>4. worker[h] # "none"
      BY <2>1, NAssumption DEF Loop, Hosts
    <2>5. worker[h] = "end"
      BY <2>3, <2>4 DEF Unfinished
    <2> QED
      BY <2>5 DEF Reported
  <1> QED
    BY <1>1, InvHolds, PTL

\* No more raw sockets are open at a time than CheckAll was asked for.
THEOREM FewSockets == Spec => []SocketsBounded
  <1>1. Inv => SocketsBounded
    <2> SUFFICES ASSUME Inv
                 PROVE  Cardinality({h \in Hosts : socket[h] # "closed"}) <= Limit
      BY DEF SocketsBounded
    <2> USE DEF Inv
    <2>1. {h \in Hosts : socket[h] # "closed"} \subseteq Holders
      BY DEF Sockets, Holders, Holding
    <2>2. IsFiniteSet(Holders) /\ Cardinality(Holders) \in Nat
      BY Finite DEF Holders
    <2>3. Cardinality({h \in Hosts : socket[h] # "closed"}) <= Cardinality(Holders)
      BY <2>1, <2>2, FS_Subset
    <2>4. Cardinality({h \in Hosts : socket[h] # "closed"}) \in Nat
      BY Finite
    <2> QED
      BY <2>2, <2>3, <2>4, NAssumption DEF Counts, Typed
  <1> QED
    BY <1>1, InvHolds, PTL

\* A host that takes connections on any of its addresses is not taken for
\* dead, however its pings end, unless its turn comes after the deadline.
THEOREM ReachableIsFound == Spec => []ConnectsIsFound
  BY InvHolds, PTL DEF Inv

\* A host taken for alive answers itself, or another host that answers had been
\* pinged by this check, or its own socket was waiting when the reply to a
\* foreign ping came.  There is no fourth way: a reply that comes when the host's
\* socket is closed, or has its packet, has no effect on it.
THEOREM AliveHasReason == Spec => []AliveIsExplained
  BY InvHolds, PTL DEF Inv
=============================================================================
