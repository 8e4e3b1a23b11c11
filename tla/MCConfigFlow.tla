---------------------------- MODULE MCConfigFlow ----------------------------
(* Two of everything, all of them interchangeable: ConfigFlow names none.  *)
EXTENDS ConfigFlow, TLC

MCSymmetry ==
    UNION {Permutations(S) : S \in {Terminals, Hosts, Secrets, Entries, Flows}}

=============================================================================
