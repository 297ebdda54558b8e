------------------------------- MODULE MCLog -------------------------------
EXTENDS Log
\* A line, or the traces of several.
MCItem == {<<k>> : k \in 0 .. MaxWrites}
=============================================================================
