----------------------------- MODULE PolicyRules -----------------------------
(***************************************************************************)
(* The rules of a policy: policy/policy.go.  A handler binds a policy from *)
(* JSON, Validate completes or rejects it, the row keeps it as JSON, and   *)
(* each deploy and each task parses, validates and uses it again.          *)
(*                                                                         *)
(* A text is represented by what the rules ask of it: whether it is blank. *)
(* A port entry ("22,80-90") is the sequence of its segments, a segment    *)
(* the sequence of the numbers between its dashes, NaN for what is none.   *)
(***************************************************************************)
EXTENDS Integers, Sequences

CONSTANTS
  Inputs,   \* the policies that arrive in requests
  NaN       \* a number that does not parse

Keys == {"portscan", "nmap", "nuclei", "weakpass"}

\* A module that is missing or null, and a modules object that is.
Absent    == [absent |-> TRUE]
NoModules == [absent |-> TRUE]

Segment == Seq(Int \cup {NaN})
Module  == [enabled : BOOLEAN, image : BOOLEAN, replicas : Int, qps : Int,
            ports : Seq(Seq(Segment))]
Policy  == [name : BOOLEAN, ns : BOOLEAN, ip : BOOLEAN, redis : Int, mysql : Int,
            batch : Int, ttl : Int, renew : Int, idle : Int,
            modules : [Keys -> Module \cup {Absent}] \cup {NoModules}]

ASSUME NaNAssumption   == NaN \notin Int
ASSUME InputAssumption == Inputs \subseteq Policy

VARIABLES
  stored,    \* the policy in the row, or NoPolicy
  deployed   \* the pod configurations in the ConfigMaps, by module

\* What Validate leaves: every module is there.
Complete == {p \in Policy : p.modules \in [Keys -> Module]}

Pod == [reads : Keys, downstreams : SUBSET Keys, ttl : Int, renew : Int, idle : Int,
        qps : Int, ports : Seq(Seq(Segment))]

vars == <<stored, deployed>>

NoPolicy == [absent |-> TRUE]
NoConfig == [absent |-> TRUE]

TypeOK ==
  /\ stored \in Complete \cup {NoPolicy}
  /\ deployed \in [Keys -> Pod \cup {NoConfig}]

-----------------------------------------------------------------------------
(* Validate completes what is missing.                                     *)

Default(v, ok, d) == IF ok THEN v ELSE d

Batch(n) == Default(n, n \in 1..10, 10)

\* Mutant: an interval as long as the lock lives is kept.
RenewEqual(renew, ttl) ==
  LET r == Default(renew, renew > 0, 300) IN Default(r, r <= ttl, ttl)

\* Mutant: the interval that was sent is halved, not the life of the lock.
RenewHalved(renew, ttl) ==
  LET r == Default(renew, renew > 0, 300) IN Default(r, r < ttl, r \div 2)

\* A lock is renewed before it expires: half-way if the interval is too long.
Renew(renew, ttl) ==
  LET r    == Default(renew, renew > 0, 300)
      half == ttl \div 2
  IN  IF r < ttl THEN r ELSE Default(half, half > 0, 1)

\* Mutant: a module that is not there stays so.
BlankAbsent == Absent

Blank == [enabled |-> FALSE, image |-> FALSE, replicas |-> 0, qps |-> 0, ports |-> <<>>]

Completed(p) ==
  LET ttl == Default(p.ttl, p.ttl > 0, 360)
  IN  [name |-> p.name, ns |-> TRUE, ip |-> p.ip,
       redis |-> Default(p.redis, p.redis # 0, 6379),
       mysql |-> Default(p.mysql, p.mysql # 0, 3306),
       batch |-> Batch(p.batch),
       ttl   |-> ttl,
       renew |-> Renew(p.renew, ttl),
       idle  |-> Default(p.idle, p.idle > 0, 120),
       modules |-> [k \in Keys |-> IF p.modules[k] = Absent THEN Blank ELSE p.modules[k]]]

-----------------------------------------------------------------------------
(* ... and rejects what does not fit.                                      *)

Enabled(p, k) == p.modules[k] # Absent /\ p.modules[k].enabled

ValidModule(m) == m # Absent /\ m.enabled => m.image /\ m.replicas >= 0 /\ m.qps > 0

\* A blank segment is skipped; one number, or two in order.
ValidSegment(seg) ==
  \/ seg = <<>>
  \/ Len(seg) = 1 /\ seg[1] \in 1..65535
  \/ Len(seg) = 2 /\ seg[1] \in 1..65535 /\ seg[2] \in seg[1]..65535

ValidPorts(ports) ==
  /\ ports # <<>>
  /\ \A i \in DOMAIN ports : \A j \in DOMAIN ports[i] : ValidSegment(ports[i][j])

\* Mutant: a module needs the one before it, but nmap nothing.
NeedsShort(k) == IF k \in {"nuclei", "weakpass"} THEN {"nmap"} ELSE {}

Needs(k) ==
  IF k = "nmap" THEN {"portscan"}
  ELSE IF k \in {"nuclei", "weakpass"} THEN {"portscan", "nmap"} ELSE {}

Accepted(p) ==
  /\ p.name /\ p.ip
  /\ p.modules # NoModules
  /\ \A k \in Keys : ValidModule(p.modules[k])
  /\ \A k \in Keys : Enabled(p, k) => \A n \in Needs(k) : Enabled(p, n)
  /\ Enabled(p, "portscan") => ValidPorts(p.modules["portscan"].ports)

-----------------------------------------------------------------------------
(* What pods get                                                           *)

EnabledModules(p) == {k \in Keys : Enabled(p, k)}

\* BuildWorkflow: the modules whose streams module k writes to.
Downstreams(p, k) ==
  {d \in EnabledModules(p) : \/ k = "portscan" /\ d = "nmap"
                             \/ k = "nmap" /\ d \in {"nuclei", "weakpass"}}

PodConfig(p, k) ==
  [reads |-> k, downstreams |-> Downstreams(p, k),
   ttl |-> p.ttl, renew |-> p.renew, idle |-> p.idle,
   qps |-> p.modules[k].qps,
   ports |-> IF k = "portscan" THEN p.modules[k].ports ELSE <<>>]

-----------------------------------------------------------------------------
(* The requests                                                            *)

Init ==
  /\ stored = NoPolicy
  /\ deployed = [k \in Keys |-> NoConfig]

\* Create and Update of a policy.
Save(p) ==
  /\ Accepted(p)
  /\ stored' = Completed(p)
  /\ UNCHANGED deployed

\* Deploy validates what it has parsed from the row.
Deploy ==
  /\ stored # NoPolicy
  /\ Accepted(stored)
  /\ deployed' = [k \in Keys |-> IF Enabled(stored, k) THEN PodConfig(Completed(stored), k)
                                                       ELSE NoConfig]
  /\ UNCHANGED stored

Next == Deploy \/ \E p \in Inputs : Save(p)

Spec == Init /\ [][Next]_vars

-----------------------------------------------------------------------------
(* What the rules are for                                                  *)

\* A policy that was saved passes each later Validate and comes out of it as
\* it went in: deploys and tasks use what the row says, and a second deploy
\* changes no pod.
SavedIsStable == stored # NoPolicy => Accepted(stored) /\ Completed(stored) = stored

\* A pod renews its lock before the lock expires, unless that lives for one
\* second only; a message carries 1 to 10 hosts (SubmitTask).
RuntimeUsable ==
  /\ stored # NoPolicy => stored.batch \in 1..10
  /\ \A k \in Keys : deployed[k] # NoConfig =>
       /\ deployed[k].renew > 0 /\ deployed[k].idle > 0
       /\ deployed[k].renew < deployed[k].ttl \/ deployed[k].ttl = 1

\* Every deployed module but portscan, which tasks feed, is fed by another
\* deployed module, and hands its work on to deployed modules only: to their
\* streams, for Validate lets a deployed module have 0 replicas.
PodsAreConnected ==
  \A k \in Keys : deployed[k] # NoConfig =>
    /\ \A d \in deployed[k].downstreams : d # k /\ deployed[d] # NoConfig
    /\ k # "portscan" =>
         \E j \in Keys : deployed[j] # NoConfig /\ k \in deployed[j].downstreams
=============================================================================
