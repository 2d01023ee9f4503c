-------------------------- MODULE MCPolicyLifecycle --------------------------
(* Small instances of PolicyLifecycle for TLC.                             *)
EXTENDS PolicyProperties, TLC

TwoModules == <<"portscan", "nmap">>

Scan     == [ns |-> "dast-system", mods |-> {"portscan"}]
ScanNmap == [ns |-> "dast-system", mods |-> {"portscan", "nmap"}]
Moved    == [ns |-> "other", mods |-> {"portscan"}]

OneNamespace  == {Scan, ScanNmap}
TwoNamespaces == {Scan, Moved}

SlotSymmetry == Permutations(Slots)
=============================================================================
