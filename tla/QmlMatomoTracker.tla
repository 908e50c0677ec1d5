-------------------------- MODULE QmlMatomoTracker --------------------------
(***************************************************************************)
(* MatomoTracker, the QML singleton, around the Tracker it builds with the *)
(* first tracking call that finds a valid configuration.  Until then it    *)
(* writes to the stores itself.  Its properties notify QML bindings from   *)
(* the middle of its handlers, see Handlers.                               *)
(*                                                                         *)
(* Of the tracker only what shows here is kept: its gate, the client ID    *)
(* and the breaker, which is open when `failures' has reached the limit    *)
(* (see BreakerMatchesHistory in NetworkDispatcher).  Nobody is connected  *)
(* to statsChanged.                                                        *)
(***************************************************************************)
EXTENDS Integers, Sequences, FiniteSets, Handlers, PrivacyController

CONSTANTS
    Calls,       \* the tracking calls that pass the tracker's gate
    Settings,    \* the values QML may give to each property of the configuration
    Messages,    \* the texts of the results
    Results,     \* how a dispatch may settle
    MaxFailures, \* the default of maxConsecutiveFailures, which QML cannot set
    OldId,       \* a client ID from an earlier run of the application
    NoId         \* the empty string, as a client ID

DefaultConfig ==
    [endpoint |-> "unset", actionUrlBase |-> "unset", siteId |-> "unset",
     privacyMode |-> "RequiresConsent"]

ConfigProperties == DOMAIN DefaultConfig

RequestStatuses ==
    {"RequestAccepted", "RequestDisabled", "RequestBlockedByPrivacy", "RequestInvalidConfig",
     "RequestInvalidPayload"}

RequestResultType == [status : RequestStatuses, message : Messages]

ResultType ==
    [status : {"Success", "NetworkError", "Timeout", "SslError", "CircuitBreakerOpen"},
     httpStatus : Nat, message : Messages]

\* The texts of the library's own.
OwnMessages ==
    {"", "config", "not numeric", "payload", "disabled", "privacy", "path", "open"}

ASSUME QmlAssumption ==
    /\ DOMAIN Settings = ConfigProperties
    /\ Settings["privacyMode"] \subseteq PrivacyModes
    /\ \A p \in ConfigProperties : DefaultConfig[p] \in Settings[p]
    /\ OwnMessages \subseteq Messages
    /\ Results \subseteq ResultType
    /\ MaxFailures \in Nat \ {0}
    /\ Depth \in Nat
    /\ {OldId, NoId} \cap Calls = {} /\ OldId # NoId

VARIABLES
    config,         \* m_config
    exists,         \* m_tracker is not null
    trackerConfig,  \* the tracker's m_config
    enabled,        \* m_enabled
    trackerEnabled, \* the tracker's m_enabled
    consent,        \* what the consent store holds
    clientId,       \* what the client ID store holds
    inFlight,       \* the calls whose dispatch has not settled
    failures,       \* m_consecutiveFailures of the tracker's dispatcher
    lastRequest,    \* m_lastRequestResult
    hasResult,      \* m_hasDispatchResult
    lastDispatch,   \* m_lastDispatchResult
    made,           \* history: the calls made
    wire,           \* history: the request that goes out, until the call returns
    retired,        \* history: the IDs a tracker should drop for an opt-out, and those reset
    spared,         \* history: the IDs stored when the visitor opted out without a tracker
    shown           \* history: what the bindings show

trackerVars == <<exists, trackerConfig, trackerEnabled>>
stores == <<consent, clientId, retired, spared>>
dispatching == <<inFlight, failures, made>>
results == <<lastRequest, hasResult, lastDispatch>>
vars == <<config, trackerVars, enabled, stores, dispatching, results, control, wire, shown>>

NoWire == [call |-> NoId, id |-> NoId]
NoRequest == [status |-> "RequestInvalidConfig", message |-> ""]
NoDispatch == [status |-> "NetworkError", httpStatus |-> 0, message |-> ""]

\* isValid() of the configuration, whose values other than "unset" are usable.
ConfigIsValid == \A p \in ConfigProperties : config[p] # "unset"

\* The properties of MatomoTracker that have a notification, as they are.
Current ==
    [endpoint |-> config.endpoint, actionUrlBase |-> config.actionUrlBase,
     siteId |-> config.siteId, privacyMode |-> config.privacyMode,
     enabled |-> enabled, consentState |-> consent,
     lastRequestStatus |-> lastRequest.status, lastRequestMessage |-> lastRequest.message,
     hasDispatchResult |-> hasResult, lastDispatchStatus |-> lastDispatch.status,
     lastDispatchHttpStatus |-> lastDispatch.httpStatus,
     lastDispatchMessage |-> lastDispatch.message]

----------------------------------------------------------------------------
(* Steps of the stack.                                                     *)

Changed(p) == [signal |-> "changed", property |-> p]
ChangedIf(b, p) == IF b THEN <<Changed(p)>> ELSE <<>>

\* Tracker::dispatchFinished, connected to applyDispatchResult().
Told(result) == [signal |-> "Tracker::dispatchFinished", result |-> result]
DispatchFinished == [signal |-> "dispatchFinished"]

\* A tracking call goes on to applyRequestResult(), and returns.
Return(status, message) ==
    [signal |-> "none", result |-> [status |-> status, message |-> message]]

ApplyRequestResult ==
    /\ NextUp("none")
    /\ lastRequest' = Top.result
    /\ Deliver(ChangedIf(lastRequest.message # Top.result.message, "lastRequestMessage")
               \o ChangedIf(lastRequest.status # Top.result.status, "lastRequestStatus"))
    /\ wire' = NoWire
    /\ UNCHANGED <<config, trackerVars, enabled, stores, dispatching, hasResult, lastDispatch, shown>>

\* Fault: what changed is found out after the result is assigned.
ApplyDispatchResultAssignedFirst ==
    /\ NextUp("Tracker::dispatchFinished")
    /\ hasResult' = TRUE
    /\ lastDispatch' = Top.result
    /\ Deliver(<<DispatchFinished>>
               \o ChangedIf(lastDispatch'.message # Top.result.message, "lastDispatchMessage")
               \o ChangedIf(lastDispatch'.httpStatus # Top.result.httpStatus, "lastDispatchHttpStatus")
               \o ChangedIf(lastDispatch'.status # Top.result.status, "lastDispatchStatus")
               \o ChangedIf(~hasResult, "hasDispatchResult"))
    /\ UNCHANGED <<config, trackerVars, enabled, stores, dispatching, lastRequest, wire, shown>>

ApplyDispatchResult ==
    LET differs(p) == ~hasResult \/ lastDispatch[p] # Top.result[p]
    IN  /\ NextUp("Tracker::dispatchFinished")
        /\ hasResult' = TRUE
        /\ lastDispatch' = Top.result
        /\ Deliver(<<DispatchFinished>>
                   \o ChangedIf(differs("message"), "lastDispatchMessage")
                   \o ChangedIf(differs("httpStatus"), "lastDispatchHttpStatus")
                   \o ChangedIf(differs("status"), "lastDispatchStatus")
                   \o ChangedIf(~hasResult, "hasDispatchResult"))
        /\ UNCHANGED <<config, trackerVars, enabled, stores, dispatching, lastRequest, wire, shown>>

\* A notification reaches the bindings, which read the property anew.
Notify ==
    /\ NextUp("changed")
    /\ shown' = [shown EXCEPT ![Top.property] = Current[Top.property]]
    /\ Deliver(<<>>)
    /\ UNCHANGED <<config, trackerVars, enabled, stores, dispatching, results, wire>>

EmitDispatchFinished ==
    /\ NextUp("dispatchFinished")
    /\ Deliver(<<>>)
    /\ UNCHANGED <<config, trackerVars, enabled, stores, dispatching, results, wire, shown>>

----------------------------------------------------------------------------
(* The properties QML writes.                                              *)

\* Fault: the configuration is replaced under the tracker.
SetConfigPropertyAnyTime(p, v) ==
    /\ HostRuns
    /\ v # config[p]
    /\ config' = [config EXCEPT ![p] = v]
    /\ Continue(<<Changed(p)>>)
    /\ UNCHANGED <<trackerVars, enabled, stores, dispatching, results, wire, shown>>

\* The four setters of the configuration; with a tracker they only warn.
SetConfigProperty(p, v) ==
    /\ HostRuns
    /\ v # config[p]
    /\ ~exists
    /\ config' = [config EXCEPT ![p] = v]
    /\ Continue(<<Changed(p)>>)
    /\ UNCHANGED <<trackerVars, enabled, stores, dispatching, results, wire, shown>>

\* With a tracker it is Tracker::enabledChanged that is passed on.
SetEnabled(b) ==
    /\ HostRuns
    /\ b # enabled
    /\ enabled' = b
    /\ trackerEnabled' = IF exists THEN b ELSE trackerEnabled
    /\ Continue(ChangedIf(~exists \/ trackerEnabled # b, "enabled"))
    /\ UNCHANGED <<config, exists, trackerConfig, stores, dispatching, results, wire, shown>>

\* clearVisitorIdentity() of the tracker, and clearClientId() of the store.
ClearClientId == clientId' = NoId

\* The ID the visitor has, if any.
Held == {clientId} \ {NoId}

\* History: the visitor is done with that ID, whether it is cleared or not.
Retire ==
    /\ retired' = retired \cup Held
    /\ UNCHANGED spared

Spare ==
    /\ spared' = spared \cup Held
    /\ UNCHANGED retired

\* setConsentState(), and so grantConsent(), denyConsent(), withdrawConsent().
\* Without a tracker nothing touches the client ID.
SetConsentState(s) ==
    /\ HostRuns
    /\ s # consent
    /\ consent' = s
    /\ IF s \notin OptOuts THEN UNCHANGED <<clientId, retired, spared>>
       ELSE IF exists THEN ClearClientId /\ Retire
       ELSE UNCHANGED clientId /\ Spare
    /\ Continue(<<Changed("consentState")>>)
    /\ UNCHANGED <<config, trackerVars, enabled, dispatching, results, wire, shown>>

\* Fault: without a tracker there is nothing to reset.
ResetClientIdOfTracker ==
    /\ HostRuns
    /\ IF exists THEN ClearClientId ELSE UNCHANGED clientId
    /\ Retire
    /\ UNCHANGED <<config, trackerVars, enabled, consent, dispatching, results, control, wire, shown>>

\* By the tracker, or at the store.
ResetClientId ==
    /\ HostRuns
    /\ ClearClientId
    /\ Retire
    /\ UNCHANGED <<config, trackerVars, enabled, consent, dispatching, results, control, wire, shown>>

ResetCircuitBreaker ==
    /\ HostRuns
    /\ exists
    /\ failures' = 0
    /\ UNCHANGED <<config, trackerVars, enabled, stores, inFlight, made, results, control, wire, shown>>

----------------------------------------------------------------------------
(* Tracking calls.                                                         *)

\* Fault: the tracker is built without the local switch.
EnsureTrackerEnabled ==
    /\ exists \/ ConfigIsValid
    /\ exists' = TRUE
    /\ trackerConfig' = IF exists THEN trackerConfig ELSE config
    /\ trackerEnabled' = IF exists THEN trackerEnabled ELSE TRUE

\* ensureTracker(), when there is a tracker afterwards.
EnsureTracker ==
    /\ exists \/ ConfigIsValid
    /\ exists' = TRUE
    /\ trackerConfig' = IF exists THEN trackerConfig ELSE config
    /\ trackerEnabled' = IF exists THEN trackerEnabled ELSE enabled

\* A tracker is built on a store that holds an opt-out.
BuiltOnOptOut == ~exists /\ consent \in OptOuts

\* Fault: the constructor leaves the stores as it finds them.
ForgetAtConstructionNot == UNCHANGED clientId

\* What the constructor of the tracker does about an opt-out.
ForgetAtConstruction == IF BuiltOnOptOut THEN ClearClientId ELSE UNCHANGED clientId

\* The value of an event is not a number: no tracker is built.
TrackEventNotNumeric ==
    /\ HostRuns
    /\ Continue(<<Return("RequestInvalidPayload", "not numeric")>>)
    /\ UNCHANGED <<config, trackerVars, enabled, stores, dispatching, results, wire, shown>>

TrackWithoutTracker ==
    /\ HostRuns
    /\ ~exists /\ ~ConfigIsValid
    /\ Continue(<<Return("RequestInvalidConfig", "config")>>)
    /\ UNCHANGED <<config, trackerVars, enabled, stores, dispatching, results, wire, shown>>

\* validateTrackingCall(); the configuration is valid.
Passes == trackerEnabled' /\ IsTrackingAllowed(trackerConfig'.privacyMode, consent)

Blocked(complete) ==
    IF ~complete THEN Return("RequestInvalidPayload", "payload")
    ELSE IF ~trackerEnabled' THEN Return("RequestDisabled", "disabled")
    ELSE Return("RequestBlockedByPrivacy", "privacy")

TrackBlocked(complete) ==
    /\ HostRuns
    /\ EnsureTracker
    /\ ~complete \/ ~Passes
    /\ ForgetAtConstruction
    /\ IF BuiltOnOptOut THEN Retire ELSE UNCHANGED <<retired, spared>>
    /\ Continue(<<Blocked(complete)>>)
    /\ UNCHANGED <<config, enabled, consent, dispatching, results, wire, shown>>

\* The common part of the calls that pass; ensureClientId().
Pass(c) ==
    /\ HostRuns
    /\ c \notin made
    /\ EnsureTracker
    /\ Passes
    /\ made' = made \cup {c}
    /\ clientId' = IF clientId = NoId THEN c ELSE clientId
    /\ UNCHANGED <<config, enabled, consent, retired, spared, results, failures, shown>>

\* A path that is not relative.
TrackUnbuildable(c) ==
    /\ Pass(c)
    /\ Continue(<<Return("RequestInvalidPayload", "path")>>)
    /\ UNCHANGED <<inFlight, wire>>

\* The breaker refuses, and says so before the call returns.
TrackRefused(c) ==
    /\ Pass(c)
    /\ failures >= MaxFailures
    /\ Continue(<<Return("RequestAccepted", ""),
                  Told([status |-> "CircuitBreakerOpen", httpStatus |-> 0, message |-> "open"])>>)
    /\ UNCHANGED <<inFlight, wire>>

TrackSent(c) ==
    /\ Pass(c)
    /\ failures < MaxFailures
    /\ inFlight' = inFlight \cup {c}
    /\ wire' = [call |-> c, id |-> clientId']
    /\ Continue(<<Return("RequestAccepted", "")>>)

\* Fault: the dispatcher settles a request that it keeps.
SettleKept(c, result) ==
    /\ HostRuns
    /\ c \in inFlight
    /\ failures' = IF result.status = "Success" THEN 0 ELSE failures + 1
    /\ Continue(<<Told(result)>>)
    /\ UNCHANGED <<config, trackerVars, enabled, stores, inFlight, made, results, wire, shown>>

\* The dispatcher settles a request, from the event loop.
Settle(c, result) ==
    /\ HostRuns
    /\ c \in inFlight
    /\ inFlight' = inFlight \ {c}
    /\ failures' = IF result.status = "Success" THEN 0 ELSE failures + 1
    /\ Continue(<<Told(result)>>)
    /\ UNCHANGED <<config, trackerVars, enabled, stores, made, results, wire, shown>>

----------------------------------------------------------------------------

\* The application ends and starts again on the same settings.
Restart ==
    /\ stack = <<>>
    /\ config' = DefaultConfig
    /\ exists' = FALSE /\ trackerConfig' = DefaultConfig /\ trackerEnabled' = TRUE
    /\ enabled' = TRUE
    /\ inFlight' = {} /\ failures' = 0
    /\ lastRequest' = NoRequest /\ hasResult' = FALSE /\ lastDispatch' = NoDispatch
    /\ UNCHANGED <<stores, made, control, wire>>
    /\ shown' = Current'

Init ==
    /\ config = DefaultConfig
    /\ exists = FALSE /\ trackerConfig = DefaultConfig /\ trackerEnabled = TRUE
    /\ enabled = TRUE
    /\ consent \in ConsentStates
    /\ clientId \in {NoId, OldId}
    /\ retired = {} /\ spared = {}
    /\ inFlight = {} /\ failures = 0 /\ made = {}
    /\ lastRequest = NoRequest /\ hasResult = FALSE /\ lastDispatch = NoDispatch
    /\ stack = <<>> /\ inSlot = FALSE
    /\ wire = NoWire
    /\ shown = Current

HostNext ==
    \/ \E p \in ConfigProperties : \E v \in Settings[p] : SetConfigProperty(p, v)
    \/ \E b \in BOOLEAN : SetEnabled(b) \/ TrackBlocked(b)
    \/ \E s \in ConsentStates : SetConsentState(s)
    \/ ResetClientId
    \/ ResetCircuitBreaker
    \/ TrackEventNotNumeric
    \/ TrackWithoutTracker
    \/ \E c \in Calls : TrackUnbuildable(c) \/ TrackRefused(c) \/ TrackSent(c)
    \/ Restart

StepNext == ApplyRequestResult \/ ApplyDispatchResult \/ Notify \/ EmitDispatchFinished

Next == HostNext \/ StepNext \/ \E c \in Calls, result \in Results : Settle(c, result)

Spec == Init /\ [][Next]_vars

----------------------------------------------------------------------------
(* Properties.                                                             *)

\* Every variable keeps its type, and only calls that were made are in flight.
TypeOK ==
    /\ config \in [ConfigProperties -> UNION {Settings[p] : p \in ConfigProperties}]
    /\ exists \in BOOLEAN /\ enabled \in BOOLEAN /\ trackerEnabled \in BOOLEAN
    /\ consent \in ConsentStates
    /\ clientId \in Calls \cup {OldId, NoId}
    /\ made \in SUBSET Calls /\ inFlight \in SUBSET made
    /\ failures \in 0..Cardinality(made)
    /\ lastRequest \in RequestResultType /\ lastDispatch \in ResultType /\ hasResult \in BOOLEAN
    /\ retired \cup spared \in SUBSET (Calls \cup {OldId})
    /\ DOMAIN shown = DOMAIN Current

\* What QML reads is what the tracker obeys: its configuration, privacy mode
\* included, and its local switch are those of the singleton, also in a slot.
SettingsAgree == exists => trackerConfig = config /\ trackerEnabled = enabled

\* A binding on any property shows its value, or is still to be notified:
\* also when slots track, configure or opt out in the middle of the change
\* signals of one result.
ShownFresh ==
    \A p \in DOMAIN Current :
        shown[p] # Current[p] =>
            \E i \in DOMAIN stack : stack[i].signal = "changed" /\ stack[i].property = p

\* The step puts a request on the network.
Sends == wire' \notin {wire, NoWire}

\* No request carries a client ID that was reset, or that was in the store when
\* a tracker was told of an opt-out or was built and found one there.
RetiredStaysRetired == [][Sends => wire'.id \notin retired]_vars

\* "trackerDenialClearsPersistedClientId": no request carries a client ID that
\* was stored when the visitor opted out.
OptOutForgets == [][Sends => wire'.id \notin retired \cup spared]_vars
=============================================================================
