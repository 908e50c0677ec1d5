-------------------------- MODULE PrivacyController --------------------------
(* The privacy modes, the consent states and the decision they lead to. *)

PrivacyModes == {"Disabled", "RequiresConsent", "ConsentExemptWithOptOut"}

ConsentStates == {"Unknown", "Granted", "Denied", "Withdrawn"}

\* The states in which the visitor has said no.
OptOuts == {"Denied", "Withdrawn"}

\* Fault: only a denial counts as an opt-out.
IsTrackingAllowedAfterWithdrawal(mode, state) ==
    \/ mode = "RequiresConsent" /\ state = "Granted"
    \/ mode = "ConsentExemptWithOptOut" /\ state # "Denied"

IsTrackingAllowed(mode, state) ==
    \/ mode = "RequiresConsent" /\ state = "Granted"
    \/ mode = "ConsentExemptWithOptOut" /\ state \notin OptOuts
=============================================================================
