--------------------------- MODULE MCLoggedLsmTree ---------------------------
(* Keys and values for TLC: no byte, and bytes (of a letter that is no ASCII)  *)
(* that look like a negative length when they are read from the wrong position.*)
EXTENDS LoggedLsmTree

MCKeys == {<<>>, <<195, 169>>}
MCValues == {<<0, 1>>}

\* TLC goes no further once a buried log was replayed: of what follows nothing is
\* claimed but TablesMatchDisk, which no byte of the log has a part in.
NotMisread == ~misread
=============================================================================
