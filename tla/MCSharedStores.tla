--------------------------- MODULE MCSharedStores ---------------------------
(* A small instance of SharedStores for TLC. *)
EXTENDS SharedStores, TLC

\* Nothing, no number, the last of the values, and one beyond at each end.
MCRawValues ==
    {[kind |-> "absent", number |-> 0], [kind |-> "text", number |-> 0]}
    \cup {Code(n) : n \in {-1, 3, 4}}

MCSymmetry == Permutations(Trackers) \cup Permutations(Calls)
=============================================================================
