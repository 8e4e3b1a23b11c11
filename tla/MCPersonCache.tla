--------------------------- MODULE MCPersonCache ----------------------------
(* A small instance of PersonCache.  Events name person 1, who begins with  *)
(* the name n, without a name or unknown; person 2 is on the sync's pages.  *)
EXTENDS PersonCache

MCInit == Init /\ directory[1] # "m" /\ directory[2] = "m"

MCSpec == MCInit /\ [][Next]_vars /\ Fairness

=============================================================================
