----------------------------- MODULE MCQueryRun -----------------------------
EXTENDS QueryRun
=============================================================================
