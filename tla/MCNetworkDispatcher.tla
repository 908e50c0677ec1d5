------------------------ MODULE MCNetworkDispatcher ------------------------
(* Small instances of NetworkDispatcher for TLC. *)
EXTENDS NetworkDispatcher, TLC

Config(t, n) == [timeoutMs |-> t, maxConsecutiveFailures |-> n]
Completion(e, http) == [error |-> e, httpStatus |-> http]

\* A breaker that trips on the second failure, one without timeout that trips
\* at once, and one whose breaker is disabled.
MCDefaultConfig == Config(10000, 2)
MCConfigs == {MCDefaultConfig, Config(0, 1), Config(10000, 0)}

\* One completion per branch of handleReplyFinished.
MCCompletions ==
    {Completion("NoError", 200), Completion("NoError", 301),
     Completion("SslHandshakeFailedError", 0), Completion("OtherError", 500)}

\* And a reply that was aborted by somebody else.
MCForeignCompletions ==
    {Completion("NoError", 204), Completion("NoError", 301),
     Completion("SslHandshakeFailedError", 0), Completion("OperationCanceledError", 0)}

MCLivenessCompletions == {Completion("NoError", 200), Completion("OtherError", 500)}
MCLivenessConfigs == {MCDefaultConfig, Config(10000, 1)}

MCSymmetry == Permutations(Requests)
=============================================================================
