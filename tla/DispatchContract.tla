-------------------------- MODULE DispatchContract --------------------------
(***************************************************************************)
(* What NetworkDispatcher promises its host, without timers, replies,      *)
(* counters, handlers or signals.  A call is sent when the gate lets it    *)
(* through, or refused at once; what was sent gets one verdict; every      *)
(* verdict is told to the host once.  The gate shuts only with a verdict   *)
(* that is a failure, and opens with a success or when the host asks.      *)
(***************************************************************************)
CONSTANT Requests

VARIABLES
    phase,   \* of each call
    verdict, \* of each call, "none" until it is decided
    shut,    \* the gate lets no call through
    gone     \* destroyed: what was sent will not be decided

contractVars == <<phase, verdict, shut, gone>>

Init ==
    /\ phase = [r \in Requests |-> "idle"]
    /\ verdict = [r \in Requests |-> "none"]
    /\ shut = FALSE
    /\ gone = FALSE

Move(r, from, to) == phase[r] = from /\ phase' = [phase EXCEPT ![r] = to]

Send(r) ==
    /\ ~gone
    /\ ~shut
    /\ Move(r, "idle", "sent")
    /\ UNCHANGED <<verdict, shut, gone>>

Refuse(r) ==
    /\ ~gone
    /\ Move(r, "idle", "decided")
    /\ verdict' = [verdict EXCEPT ![r] = IF shut THEN "CircuitBreakerOpen" ELSE "NetworkError"]
    /\ UNCHANGED <<shut, gone>>

Succeed(r) ==
    /\ ~gone
    /\ Move(r, "sent", "decided")
    /\ verdict' = [verdict EXCEPT ![r] = "Success"]
    /\ shut' = FALSE
    /\ UNCHANGED gone

Fail(r) ==
    /\ ~gone
    /\ Move(r, "sent", "decided")
    /\ \E v \in {"NetworkError", "Timeout", "SslError"} : verdict' = [verdict EXCEPT ![r] = v]
    /\ shut' \in {shut, TRUE}
    /\ UNCHANGED gone

Answer(r) ==
    /\ Move(r, "decided", "answered")
    /\ UNCHANGED <<verdict, shut, gone>>

Reset ==
    /\ ~gone
    /\ shut' = FALSE
    /\ UNCHANGED <<phase, verdict, gone>>

\* Never while the host has yet to hear of a verdict.
Destroy ==
    /\ ~gone
    /\ \A r \in Requests : phase[r] # "decided"
    /\ gone' = TRUE
    /\ UNCHANGED <<phase, verdict, shut>>

Next ==
    \/ \E r \in Requests : Send(r) \/ Refuse(r) \/ Succeed(r) \/ Fail(r) \/ Answer(r)
    \/ Reset
    \/ Destroy

Spec == Init /\ [][Next]_contractVars

\* Every verdict reaches the host.
FairSpec == Spec /\ \A r \in Requests : WF_contractVars(Answer(r))
=============================================================================
