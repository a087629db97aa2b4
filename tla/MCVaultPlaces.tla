--------------------------- MODULE MCVaultPlaces ---------------------------
EXTENDS VaultPlaces

\* Three spellings of two folders: A is another spelling of a.
MCReal == [s \in {"a", "A", "b"} |-> IF s = "A" THEN "a" ELSE s]
=============================================================================
