--------------------------- MODULE MCRoutineGroup ---------------------------
\* Small groups: one routine of each kind is enough for every interleaving of
\* the kinds, and two calls of Stop for a Stop beside another, before Start
\* and after both.
EXTENDS RoutineGroup
=============================================================================
