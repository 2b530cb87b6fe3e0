----------------------------- MODULE MCWtfHistory -----------------------------
\* The instances of MCWtfTable, with the record of what callers were told.
EXTENDS MCWtfTable, WtfTableHistory
=============================================================================
