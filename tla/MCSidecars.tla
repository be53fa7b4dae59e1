----------------------------- MODULE MCSidecars -----------------------------
EXTENDS Sidecars

MCNeed == <<"node", "canal">>

=============================================================================
