------------------------- MODULE MCCodeResolution -------------------------
EXTENDS CodeResolution

\* All the names are windows on one memory.
OneMemory == [n \in Names |-> CHOOSE m \in Memory : TRUE]
=============================================================================
