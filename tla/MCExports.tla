----------------------------- MODULE MCExports -----------------------------
\* One export is enough for a sweep of its own process and of another's beside
\* it; LostOnlySo is proved for any number of them.
EXTENDS Exports
=============================================================================
