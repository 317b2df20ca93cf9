------------------------ MODULE MCResearchCollection ------------------------
(* The instance of ResearchCollection that TLC checks. Contents may be        *)
(* exchanged in every behaviour, and so may jobs; a symmetry set is not sound *)
(* for liveness, so one member of each class of initial states is kept.       *)
EXTENDS ResearchCollection

CONSTANTS h1, h2, j1, j2

MCInit == Init /\ site[1] = h1 /\ limit[j1] <= limit[j2]
MCSpec == MCInit /\ [][Next]_vars /\ Fairness
=============================================================================
