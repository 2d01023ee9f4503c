----------------------------- MODULE MCAliveCheck -----------------------------
(* Small instances of AliveCheck for TLC.                                  *)
EXTENDS AliveCheck

\* A host that is down, a domain whose second address takes connections, a
\* host that only pings, one that does not resolve.
FourHosts == <<<<"e">>, <<"d", "c">>, <<"p">>, <<>>>>
=============================================================================
