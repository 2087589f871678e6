------------------------------ MODULE MCSignals ------------------------------
(***************************************************************************)
(* A graph with a diamond (a to d by way of c1 and c2), an equality cutoff *)
(* (c1 is the parity of a), a dependency that comes and goes (d reads c2   *)
(* only when c1 is 0), a function that throws (c2), and an effect that     *)
(* writes (e2 writes b, on which c2 depends).  No effect writes what it has*)
(* read, directly or through computeds.                                    *)
(***************************************************************************)
EXTENDS Signals

CONSTANTS a, b, c1, c2, d, e1, e2

MCDomain(s) == IF s = a THEN 0 .. 2 ELSE 0 .. 1

MCBody(n, seen, wrote) ==
  LET has(m) == seen[m] # Undefined
  IN CASE n = c1 -> IF ~ has(a) THEN ToRead(a) ELSE ToReturn(seen[a] % 2)
       [] n = c2 -> CASE ~ has(a) -> ToRead(a)
                      [] has(a) /\ ~ has(b) -> ToRead(b)
                      [] OTHER -> IF seen[a] + seen[b] = 3 THEN ToThrow
                                  ELSE ToReturn((seen[a] + seen[b]) % 4)
       [] n = d -> CASE ~ has(c1) -> ToRead(c1)
                     [] has(c1) /\ seen[c1] = 1 -> ToReturn(3)
                     [] OTHER -> IF ~ has(c2) THEN ToRead(c2) ELSE ToReturn(seen[c2])
       [] n = e1 -> CASE ~ has(d) -> ToRead(d)
                      [] has(d) /\ ~ has(c1) -> ToRead(c1)
                      [] OTHER -> ToReturn(Undefined)
       [] n = e2 -> CASE ~ has(c1) -> ToRead(c1)
                      [] has(c1) /\ ~ wrote -> ToWrite(b, seen[c1])
                      [] OTHER -> IF ~ has(d) THEN ToPeek(d) ELSE ToReturn(Undefined)

MCDepth(n) == IF n = d THEN 2 ELSE IF n \in {c1, c2} THEN 1 ELSE 0
=============================================================================
