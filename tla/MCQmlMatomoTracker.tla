------------------------- MODULE MCQmlMatomoTracker -------------------------
(* Small instances of QmlMatomoTracker for TLC. *)
EXTENDS QmlMatomoTracker, TLC

\* Every field may be wrong or right.
MCSettings ==
    [endpoint |-> {"unset", "one"}, actionUrlBase |-> {"unset", "one"},
     siteId |-> {"unset", "one"}, privacyMode |-> {"RequiresConsent", "ConsentExemptWithOptOut"}]

Result(s, h, m) == [status |-> s, httpStatus |-> h, message |-> m]

\* The library's own texts, and one of the network's.
MCMessages == OwnMessages \cup {"http"}

MCResults ==
    {Result("Success", 200, ""), Result("NetworkError", 500, "http")}

MCSymmetry == Permutations(Calls)
=============================================================================
