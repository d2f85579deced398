--------------------------- MODULE MC_RetryEngine ---------------------------
(* Model-checking instance of RetryEngine: towers, locators, retrier      *)
(* objects and tasks are model values.                                     *)
EXTENDS RetryEngine, TLC

CONSTANTS t1, t2, l1, l2, o1, o2, o3, k1, k2

MCTowers1 == {t1}
MCLocators == {l1, l2}
MCLocators1 == {l1}
MCObjs == {o1, o2, o3}
MCTasks == {k1, k2}
NoStartup == [t \in MCTowers1 |-> {}]
MCTowers2 == {t1, t2}
NoStartup2 == [t \in MCTowers2 |-> {}]

\* Every tower's server may give any answer, or any but a non-connection
\* RequestError.
AnyAdd(t, l) == {"ok", "conn", "reqerr", "subscription", "rejected", "misbehaving"}
AddNoReqError(t, l) == AnyAdd(t, l) \ {"reqerr"}
AnyReg(t) == {"ok", "neterr", "badsig", "notbetter"}

Symmetry == Permutations(MCObjs) \cup Permutations(MCTasks)
\* Two towers with the same (empty) startup state are interchangeable too.
Symmetry2 == Symmetry \cup Permutations(MCTowers2)
=============================================================================
