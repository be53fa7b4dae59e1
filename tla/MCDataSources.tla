--------------------------- MODULE MCDataSources ---------------------------
EXTENDS DataSources

\* One file is read by two data sources.
MCSourcesOf(f) == IF f = "sales.duckdb" THEN {"sales", "sales_copy"} ELSE {"stock"}

MCTaken == {<<"team", 1>>}

=============================================================================
