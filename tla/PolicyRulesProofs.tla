-------------------------- MODULE PolicyRulesProofs --------------------------
(* What Validate leaves is usable and stays as it is, for every policy a   *)
(* request can carry.                                                      *)
EXTENDS PolicyRules, TLAPS

\* The interval fits the life of the lock, and is not moved again.
LEMMA RenewFits ==
  ASSUME NEW renew \in Int, NEW ttl \in Int, ttl > 0
  PROVE  /\ Renew(renew, ttl) \in Int
         /\ Renew(renew, ttl) > 0
         /\ Renew(renew, ttl) < ttl \/ ttl = 1
         /\ Renew(Renew(renew, ttl), ttl) = Renew(renew, ttl)
<1> DEFINE half == ttl \div 2
<1>1. half \in Int /\ half < ttl /\ (half > 0 \/ ttl = 1)
  OBVIOUS
<1> HIDE DEF half
<1>2. \A r \in Int : r > 0 => Renew(r, ttl) = IF r < ttl THEN r ELSE IF half > 0 THEN half ELSE 1
  BY DEF Renew, Default, half
<1>3. Renew(renew, ttl) = IF (IF renew > 0 THEN renew ELSE 300) < ttl
                          THEN (IF renew > 0 THEN renew ELSE 300)
                          ELSE IF half > 0 THEN half ELSE 1
  BY DEF Renew, Default, half
<1> QED BY <1>1, <1>2, <1>3

\* What Validate leaves is a policy with every module.
LEMMA CompletedIsComplete ==
  ASSUME NEW p \in Policy, p.modules # NoModules
  PROVE  Completed(p) \in Complete
<1> DEFINE ttl == Default(p.ttl, p.ttl > 0, 360)
           mods == [k \in Keys |-> IF p.modules[k] = Absent THEN Blank ELSE p.modules[k]]
<1>1. p.modules \in [Keys -> Module \cup {Absent}]
  BY DEF Policy
<1>2. Blank \in Module
  BY DEF Blank, Module, Segment
<1>3. mods \in [Keys -> Module]
  BY <1>1, <1>2
<1>4. ttl \in Int /\ ttl > 0
  BY DEF Policy, Default
<1>5. Renew(p.renew, ttl) \in Int
  BY <1>4, RenewFits DEF Policy
<1>6. /\ Default(p.redis, p.redis # 0, 6379) \in Int
      /\ Default(p.mysql, p.mysql # 0, 3306) \in Int
      /\ Batch(p.batch) \in Int
      /\ Default(p.idle, p.idle > 0, 120) \in Int
      /\ p.name \in BOOLEAN /\ p.ip \in BOOLEAN
  BY DEF Policy, Default, Batch
<1>7. Completed(p).modules = mods
  BY DEF Completed
<1>8. Completed(p) \in Policy
  <2> HIDE DEF ttl, mods
  <2>1. mods \in [Keys -> Module \cup {Absent}] \cup {NoModules}
    BY <1>3
  <2>2. Completed(p) =
          [name |-> p.name, ns |-> TRUE, ip |-> p.ip,
           redis |-> Default(p.redis, p.redis # 0, 6379),
           mysql |-> Default(p.mysql, p.mysql # 0, 3306),
           batch |-> Batch(p.batch), ttl |-> ttl, renew |-> Renew(p.renew, ttl),
           idle  |-> Default(p.idle, p.idle > 0, 120), modules |-> mods]
    BY DEF Completed, ttl, mods
  <2> QED BY <1>4, <1>5, <1>6, <2>1, <2>2 DEF Policy
<1> QED BY <1>3, <1>7, <1>8 DEF Complete

\* A module is never the value of a missing one, nor are modules.
LEMMA ModuleIsThere ==
  /\ \A m \in Module : m # Absent
  /\ \A f \in [Keys -> Module] : f # NoModules
<1>1. ASSUME NEW m \in Module PROVE m # Absent
  <2>1. DOMAIN m # DOMAIN Absent
    BY DEF Module, Absent
  <2> QED BY <2>1
<1>2. ASSUME NEW f \in [Keys -> Module] PROVE f # NoModules
  <2>1. DOMAIN f # DOMAIN NoModules
    BY DEF Keys, NoModules
  <2> QED BY <2>1
<1> QED BY <1>1, <1>2

\* Validating twice is validating once.
LEMMA ValidatedOnce ==
  ASSUME NEW p \in Policy, Accepted(p)
  PROVE  LET q == Completed(p) IN Accepted(q) /\ Completed(q) = q
<1> DEFINE q == Completed(p)
           ttl == Default(p.ttl, p.ttl > 0, 360)
<1>1. p.modules # NoModules /\ p.modules \in [Keys -> Module \cup {Absent}]
  BY DEF Policy, Accepted
<1>2. q \in Complete /\ q.modules \in [Keys -> Module]
  BY <1>1, CompletedIsComplete DEF Complete
<1>3. q.modules = [k \in Keys |-> IF p.modules[k] = Absent THEN Blank ELSE p.modules[k]]
  BY DEF Completed
<1>4. \A k \in Keys : q.modules[k] # Absent
  BY <1>2, ModuleIsThere
<1>5. \A k \in Keys : Enabled(q, k) <=> Enabled(p, k)
  BY <1>1, <1>3, <1>4 DEF Enabled, Blank
<1>6. \A k \in Keys : Enabled(p, k) => q.modules[k] = p.modules[k]
  BY <1>3 DEF Enabled
<1>7. Accepted(q)
  <2>1. q.name = p.name /\ q.ip = p.ip
    BY DEF Completed
  <2>2. q.modules # NoModules
    BY <1>2, ModuleIsThere
  <2>3. ASSUME NEW k \in Keys PROVE ValidModule(q.modules[k])
    BY <1>3, <1>4 DEF Accepted, ValidModule, Blank
  <2>4. ASSUME NEW k \in Keys, Enabled(q, k) PROVE \A n \in Needs(k) : Enabled(q, n)
    <3>1. Needs(k) \subseteq Keys
      BY DEF Needs, Keys
    <3> QED BY <1>5, <2>4, <3>1 DEF Accepted
  <2>5. Enabled(q, "portscan") => ValidPorts(q.modules["portscan"].ports)
    BY <1>5, <1>6 DEF Accepted, Keys
  <2> QED BY <2>1, <2>2, <2>3, <2>4, <2>5 DEF Accepted
<1>8. Completed(q) = q
  <2>1. q.modules = [k \in Keys |-> IF q.modules[k] = Absent THEN Blank ELSE q.modules[k]]
    BY <1>2, <1>4
  <2>2. ttl \in Int /\ ttl > 0
    BY DEF Policy, Default
  <2>3. q.ttl = ttl /\ q.renew = Renew(p.renew, ttl)
    BY DEF Completed
  <2>4. Default(q.ttl, q.ttl > 0, 360) = q.ttl
    BY <2>2, <2>3 DEF Default
  <2>5. Renew(q.renew, q.ttl) = q.renew
    BY <2>2, <2>3, RenewFits DEF Policy
  <2>6. /\ Default(q.redis, q.redis # 0, 6379) = q.redis
        /\ Default(q.mysql, q.mysql # 0, 3306) = q.mysql
        /\ Batch(q.batch) = q.batch
        /\ Default(q.idle, q.idle > 0, 120) = q.idle
        /\ q.ns = TRUE
    BY DEF Policy, Completed, Default, Batch
  <2>7. q = [name |-> q.name, ns |-> TRUE, ip |-> q.ip, redis |-> q.redis, mysql |-> q.mysql,
             batch |-> q.batch, ttl |-> q.ttl, renew |-> q.renew, idle |-> q.idle,
             modules |-> q.modules]
    BY DEF Completed
  <2> HIDE DEF q
  <2> QED BY <2>1, <2>4, <2>5, <2>6, <2>7 DEF Completed
<1> QED BY <1>7, <1>8

-----------------------------------------------------------------------------
(* Types and stability                                                     *)

StableInv == TypeOK /\ SavedIsStable

LEMMA PodTyped ==
  ASSUME NEW p \in Complete, NEW k \in Keys
  PROVE  PodConfig(p, k) \in Pod
<1>1. p.modules[k] \in Module
  BY DEF Complete
<1>2. Downstreams(p, k) \subseteq Keys
  BY DEF Downstreams, EnabledModules
<1>3. /\ p.ttl \in Int /\ p.renew \in Int /\ p.idle \in Int
      /\ p.modules[k].qps \in Int
      /\ p.modules[k].ports \in Seq(Seq(Segment))
  BY <1>1 DEF Complete, Policy, Module
<1>4. <<>> \in Seq(Seq(Segment))
  OBVIOUS
<1>5. PodConfig(p, k).ports \in Seq(Seq(Segment))
  BY <1>3, <1>4 DEF PodConfig
<1> QED BY <1>2, <1>3, <1>5 DEF PodConfig, Pod

LEMMA StableInit == Init => StableInv
BY DEF Init, StableInv, TypeOK, SavedIsStable

\* A policy is never the value of a missing row.
LEMMA PolicyIsThere == \A p \in Policy : p # NoPolicy
<1>1. ASSUME NEW p \in Policy PROVE DOMAIN p # DOMAIN NoPolicy
  BY DEF Policy, NoPolicy
<1> QED BY <1>1

LEMMA StableStep == StableInv /\ [Next]_vars => StableInv'
<1> SUFFICES ASSUME StableInv, [Next]_vars PROVE StableInv'
  OBVIOUS
<1>1. CASE Deploy
  <2>1. stored \in Complete /\ UNCHANGED stored
    BY <1>1 DEF Deploy, StableInv, TypeOK
  <2>2. Completed(stored) = stored
    BY <1>1 DEF Deploy, StableInv, SavedIsStable
  <2>3. \A k \in Keys : PodConfig(Completed(stored), k) \in Pod
    BY <2>1, <2>2, PodTyped
  <2>4. deployed' \in [Keys -> Pod \cup {NoConfig}]
    BY <1>1, <2>3 DEF Deploy
  <2> QED BY <2>1, <2>4 DEF StableInv, TypeOK, SavedIsStable
<1>2. ASSUME NEW p \in Inputs, Save(p) PROVE StableInv'
  <2>1. p \in Policy /\ Accepted(p)
    BY <1>2, InputAssumption DEF Save
  <2>2. stored' \in Complete
    BY <1>2, <2>1, CompletedIsComplete DEF Save, Accepted
  <2>3. Accepted(stored') /\ Completed(stored') = stored'
    BY <1>2, <2>1, ValidatedOnce DEF Save
  <2>4. deployed' \in [Keys -> Pod \cup {NoConfig}]
    BY <1>2 DEF Save, StableInv, TypeOK
  <2> QED BY <2>2, <2>3, <2>4 DEF StableInv, TypeOK, SavedIsStable
<1>3. CASE UNCHANGED vars
  BY <1>3 DEF vars, StableInv, TypeOK, SavedIsStable
<1> QED BY <1>1, <1>2, <1>3 DEF Next

\* Every row and every ConfigMap has its type: a saved policy has all modules.
THEOREM RulesTyped == Spec => []TypeOK
<1>1. Spec => []StableInv
  BY StableInit, StableStep, PTL DEF Spec
<1>2. StableInv => TypeOK
  BY DEF StableInv
<1> QED BY <1>1, <1>2, PTL

\* What Create and Update have saved, each later Validate accepts unchanged.
THEOREM RulesStable == Spec => []SavedIsStable
<1>1. Spec => []StableInv
  BY StableInit, StableStep, PTL DEF Spec
<1>2. StableInv => SavedIsStable
  BY DEF StableInv
<1> QED BY <1>1, <1>2, PTL

-----------------------------------------------------------------------------
(* The limits pods work with                                               *)

Fits(q) == /\ q.batch \in 1..10 /\ q.renew > 0 /\ q.idle > 0
           /\ q.renew < q.ttl \/ q.ttl = 1

LEMMA CompletedFits == ASSUME NEW p \in Policy PROVE Fits(Completed(p))
<1> DEFINE ttl == Default(p.ttl, p.ttl > 0, 360)
<1>1. ttl \in Int /\ ttl > 0
  BY DEF Policy, Default
<1>2. Renew(p.renew, ttl) > 0 /\ (Renew(p.renew, ttl) < ttl \/ ttl = 1)
  BY <1>1, RenewFits DEF Policy
<1>3. Completed(p).ttl = ttl /\ Completed(p).renew = Renew(p.renew, ttl)
  BY DEF Completed
<1>4. Completed(p).batch \in 1..10 /\ Completed(p).idle > 0
  BY DEF Completed, Batch, Default, Policy
<1> QED BY <1>2, <1>3, <1>4 DEF Fits

\* No limit a pod works with can stop its lock from being renewed in time.
THEOREM RulesUsable == Spec => []RuntimeUsable
<1> DEFINE Inv == StableInv /\ (stored # NoPolicy => Fits(stored)) /\ RuntimeUsable
<1>1. Init => Inv
  BY StableInit DEF Init, RuntimeUsable
<1>2. Inv /\ [Next]_vars => Inv'
  <2> SUFFICES ASSUME Inv, [Next]_vars PROVE Inv'
    OBVIOUS
  <2>1. StableInv'
    BY StableStep
  <2>2. CASE Deploy
    <3>1. Completed(stored) = stored /\ Fits(stored) /\ UNCHANGED stored
      BY <2>2 DEF Deploy, StableInv, SavedIsStable
    <3>2. ASSUME NEW k \in Keys, deployed'[k] # NoConfig
          PROVE  /\ deployed'[k].renew = stored.renew
                 /\ deployed'[k].idle = stored.idle
                 /\ deployed'[k].ttl = stored.ttl
      <4>1. deployed'[k] = PodConfig(stored, k)
        BY <2>2, <3>1, <3>2 DEF Deploy
      <4> QED BY <4>1 DEF PodConfig
    <3>3. RuntimeUsable'
      BY <3>1, <3>2 DEF RuntimeUsable, Fits
    <3> QED BY <2>1, <3>1, <3>3
  <2>3. ASSUME NEW p \in Inputs, Save(p) PROVE Inv'
    <3>1. Fits(stored')
      BY <2>3, InputAssumption, CompletedFits DEF Save
    <3>2. RuntimeUsable'
      BY <2>3, <3>1 DEF Save, RuntimeUsable, Fits
    <3> QED BY <2>1, <3>1, <3>2
  <2>4. CASE UNCHANGED vars
    BY <2>1, <2>4 DEF vars, RuntimeUsable
  <2> QED BY <2>2, <2>3, <2>4 DEF Next
<1>3. Spec => []Inv
  BY <1>1, <1>2, PTL DEF Spec
<1>4. Inv => RuntimeUsable
  OBVIOUS
<1> QED BY <1>3, <1>4, PTL

-----------------------------------------------------------------------------
(* The workflow                                                            *)

\* The rules about which module needs which fit the workflow.
LEMMA WorkflowConnects ==
  ASSUME NEW p, Accepted(p), NEW k \in Keys, Enabled(p, k)
  PROVE  /\ \A d \in Downstreams(p, k) : d \in Keys /\ d # k /\ Enabled(p, d)
         /\ k # "portscan" => \E j \in Keys : Enabled(p, j) /\ k \in Downstreams(p, j)
<1>1. \A d \in Downstreams(p, k) : d \in Keys /\ d # k /\ Enabled(p, d)
  BY DEF Downstreams, EnabledModules
<1>2. ASSUME k # "portscan"
      PROVE  \E j \in Keys : Enabled(p, j) /\ k \in Downstreams(p, j)
  <2>1. CASE k = "nmap"
    <3>1. Enabled(p, "portscan")
      BY <2>1 DEF Accepted, Needs, Keys
    <3>2. k \in Downstreams(p, "portscan")
      BY <2>1 DEF Downstreams, EnabledModules
    <3> QED BY <3>1, <3>2 DEF Keys
  <2>2. CASE k \in {"nuclei", "weakpass"}
    <3>1. Enabled(p, "nmap")
      BY <2>2 DEF Accepted, Needs, Keys
    <3>2. k \in Downstreams(p, "nmap")
      BY <2>2 DEF Downstreams, EnabledModules
    <3> QED BY <3>1, <3>2 DEF Keys
  <2> QED BY <1>2, <2>1, <2>2 DEF Keys
<1> QED BY <1>1, <1>2

\* Whatever was saved and deployed, no pod is without a source of work and
\* none hands work to a stream nobody reads.
THEOREM RulesConnected == Spec => []PodsAreConnected
<1> DEFINE Inv == StableInv /\ PodsAreConnected
<1>1. Init => Inv
  BY StableInit DEF Init, PodsAreConnected
<1>2. Inv /\ [Next]_vars => Inv'
  <2> SUFFICES ASSUME Inv, [Next]_vars PROVE Inv'
    OBVIOUS
  <2>1. StableInv'
    BY StableStep
  <2>2. CASE Deploy
    <3>1. Completed(stored) = stored /\ Accepted(stored) /\ stored \in Complete
      BY <2>2 DEF Deploy, StableInv, SavedIsStable, TypeOK
    <3>2. \A k \in Keys : PodConfig(stored, k) # NoConfig
      <4>1. \A k \in Keys : DOMAIN PodConfig(stored, k) # DOMAIN NoConfig
        BY DEF PodConfig, NoConfig
      <4> QED BY <4>1
    <3>3. ASSUME NEW k \in Keys
          PROVE  /\ Enabled(stored, k) <=> deployed'[k] # NoConfig
                 /\ Enabled(stored, k) => deployed'[k].downstreams = Downstreams(stored, k)
      <4>1. deployed'[k] = IF Enabled(stored, k) THEN PodConfig(stored, k) ELSE NoConfig
        BY <2>2, <3>1 DEF Deploy
      <4> QED BY <3>2, <4>1 DEF PodConfig
    <3>4. PodsAreConnected'
      <4> SUFFICES ASSUME NEW k \in Keys, deployed'[k] # NoConfig
                   PROVE  /\ \A d \in deployed'[k].downstreams : d # k /\ deployed'[d] # NoConfig
                          /\ k # "portscan" => \E j \in Keys : /\ deployed'[j] # NoConfig
                                                               /\ k \in deployed'[j].downstreams
        BY DEF PodsAreConnected
      <4> QED BY <3>1, <3>3, WorkflowConnects
    <3> QED BY <2>1, <3>4
  <2>3. ASSUME NEW p \in Inputs, Save(p) PROVE Inv'
    BY <2>1, <2>3 DEF Save, PodsAreConnected
  <2>4. CASE UNCHANGED vars
    BY <2>1, <2>4 DEF vars, PodsAreConnected
  <2> QED BY <2>2, <2>3, <2>4 DEF Next
<1>3. Spec => []Inv
  BY <1>1, <1>2, PTL DEF Spec
<1>4. Inv => PodsAreConnected
  OBVIOUS
<1> QED BY <1>3, <1>4, PTL
=============================================================================
