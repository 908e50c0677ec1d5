------------------------------ MODULE MCTracker ------------------------------
(* Small instances of Tracker for TLC. *)
EXTENDS Tracker, TLC

\* The breaker trips on the first failure.
MCDispatcherConfig == [timeoutMs |-> 10000, maxConsecutiveFailures |-> 1]

Completion(e, http) == [error |-> e, httpStatus |-> http]

MCCompletions ==
    {Completion("NoError", 200), Completion("OtherError", 500),
     Completion("OperationCanceledError", 0)}

\* With a timeout for the failures, this is enough to open and close a breaker.
MCSuccess == {Completion("NoError", 200)}

Setup(m, u, p) == [mode |-> m, usable |-> u, persists |-> p]

\* The modes that let a request pass, on stores that work and on stores that
\* keep nothing, and two setups that block every call.
MCSetups ==
    {Setup("RequiresConsent", TRUE, TRUE), Setup("ConsentExemptWithOptOut", TRUE, TRUE),
     Setup("ConsentExemptWithOptOut", TRUE, FALSE), Setup("RequiresConsent", TRUE, FALSE),
     Setup("Disabled", TRUE, TRUE), Setup("RequiresConsent", FALSE, TRUE)}

MCSlotSetups ==
    {Setup("RequiresConsent", TRUE, TRUE), Setup("ConsentExemptWithOptOut", TRUE, FALSE)}

MCSymmetry == Permutations(Requests) \cup Permutations(Paths)
=============================================================================
