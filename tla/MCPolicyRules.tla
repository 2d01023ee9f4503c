---------------------------- MODULE MCPolicyRules ----------------------------
(* Requests at the edges of the rules of PolicyRules, for TLC.             *)
EXTENDS PolicyRules

CONSTANT Bad   \* a segment that is no number

Good == [enabled |-> TRUE, image |-> TRUE, replicas |-> 2, qps |-> 100,
         ports |-> <<<< <<22>>, <<80, 90>> >>>>]
Off  == [Good EXCEPT !.enabled = FALSE]

Sample == [name |-> TRUE, ns |-> TRUE, ip |-> TRUE, redis |-> 6379, mysql |-> 3306,
           batch |-> 10, ttl |-> 360, renew |-> 300, idle |-> 120,
           modules |-> [k \in Keys |-> Good]]

\* Every choice of the modules.
Choices == {[Sample EXCEPT !.modules = f] : f \in [Keys -> {Good, Off, Absent}]}

\* Limits that are missing, negative, equal, in the wrong order.
Limits == {[Sample EXCEPT !.batch = b, !.ttl = t, !.renew = r, !.idle = i] :
             b \in {0, 11}, t \in {-1, 1, 2, 360}, r \in {0, 1, 2, 360, 800}, i \in {0, 120}}

\* Fields that are missing or wrong.
Wrong == {[Sample EXCEPT !.name = FALSE], [Sample EXCEPT !.ns = FALSE],
          [Sample EXCEPT !.redis = 0, !.mysql = 0], [Sample EXCEPT !.modules = NoModules]}
  \cup {[Sample EXCEPT !.modules["nmap"] = m] :
          m \in {[Good EXCEPT !.image = FALSE], [Good EXCEPT !.replicas = -1],
                 [Good EXCEPT !.replicas = 0], [Good EXCEPT !.qps = 0]}}
  \cup {[Sample EXCEPT !.modules["portscan"].ports = e] :
          e \in {<<>>, <<<<>>>>, <<<< <<0>> >>>>, <<<< <<65535>> >>>>, <<<< <<90, 80>> >>>>,
                 <<<< <<1, 2, 3>> >>>>, <<<< <<Bad>> >>>>, <<<< <<>>, <<1, 65535>> >>>>}}

Requests == Choices \cup Limits \cup Wrong
=============================================================================
