------------------------------- MODULE Tracker -------------------------------
(***************************************************************************)
(* The Tracker: the privacy gate, the visitor's identity, the statistics   *)
(* and the signals in front of its own NetworkDispatcher (D).  The two     *)
(* share one stack of interrupted handlers: the dispatcher's result runs   *)
(* onDispatchFinished, whose signals run slots of the host, which may call *)
(* the tracker again.  Nobody listens to the dispatcher's other signals.   *)
(*                                                                         *)
(* The two stores outlive the tracker: it may be destroyed and built anew  *)
(* on what they hold, and while there is none the host may write to the    *)
(* consent store.                                                          *)
(*                                                                         *)
(* A client ID or page view ID that the tracker generates is named by the  *)
(* call that generates it: collisions of random IDs are not modelled.      *)
(***************************************************************************)
EXTENDS Integers, Sequences, FiniteSets, Handlers, PrivacyController

CONSTANTS
    Requests,         \* the calls that get as far as ensureClientId()
    Setups,           \* what is fixed: [mode, usable, persists], see setup
    DispatcherConfig, \* m_config.networkDispatcherConfig
    Completions,      \* the ways a network reply may finish
    HostIds,          \* the client IDs the host may set
    Paths,            \* the relative paths of page views
    MaxBlocked,       \* bound: calls blocked, for each tracker
    NoId,             \* the empty string, as an ID or a path
    CorruptId         \* a stored client ID that is not 16 hexadecimal digits

VARIABLES alive, config, failures, open, called, pending, armed, reply,
          reports, settled, seen

D == INSTANCE NetworkDispatcher WITH
        Configs <- {DispatcherConfig},
        DefaultConfig <- DispatcherConfig,
        Connected <- {"dispatchFinished"}

VARIABLES
    setup,          \* m_config.privacyMode; is m_config.isValid(); do the stores
                    \* keep what is written to them
    consent,        \* what the consent store holds
    clientId,       \* what the client ID store holds
    enabled,        \* m_enabled
    pageViewId,     \* m_currentPageViewId
    lastPath,       \* m_lastPageViewPath
    forceNewVisit,  \* m_forceNewVisit
    stats,          \* m_stats
    minted,         \* history: the calls that got as far as ensureClientId()
    wire,           \* history: the request that goes out, until statsChanged tells
    pathOf,         \* history: the path of each page view that went out
    retired,        \* history: the IDs that an opt-out or a reset took away
    said,           \* history: the consent state the host last asked for
    past,           \* history: the calls made of earlier trackers
    shown           \* history: what the host's bindings show

breaker == <<failures, open, settled>>
dispatcher == <<alive, config, breaker, called, pending, armed, reply, stack, inSlot, reports, seen>>
stores == <<consent, clientId>>
identity == <<clientId, pageViewId, lastPath, retired>>
history == <<minted, pathOf, said, past>>
trackerVars == <<setup, consent, identity, enabled, forceNewVisit, stats, history, shown, wire>>
vars == <<dispatcher, trackerVars>>

NoWire == [request |-> NoId, id |-> NoId, pageView |-> NoId, path |-> NoId, newVisit |-> FALSE]

SetupType == [mode : PrivacyModes, usable : BOOLEAN, persists : BOOLEAN]

Assigned == Requests \cup HostIds \cup {CorruptId}

ASSUME TrackerAssumption ==
    /\ Setups \subseteq SetupType
    /\ DispatcherConfig \in D!ConfigType
    /\ Completions \subseteq D!CompletionType
    /\ MaxBlocked \in Nat /\ Depth \in Nat
    /\ NoId \notin Assigned \cup Paths
    /\ CorruptId \notin HostIds \cup Requests
    /\ HostIds \cap Requests = {}

----------------------------------------------------------------------------
(* Signals, as steps of the dispatcher's stack.                            *)

ConsentStateChanged(s) == [signal |-> "consentStateChanged", state |-> s]
EnabledChanged(b) == [signal |-> "enabledChanged", enabled |-> b]
StatsChanged == [signal |-> "statsChanged"]
DispatchFinished(r, s) == [signal |-> "Tracker::dispatchFinished", request |-> r, status |-> s]

RecordBlocked ==
    /\ stats.blocked < MaxBlocked
    /\ stats' = [stats EXCEPT !.blocked = @ + 1]
    /\ Continue(<<StatsChanged>>)

\* Fault: the counter changes and nobody is told.
RecordSentSilently ==
    /\ stats' = [stats EXCEPT !.sent = @ + 1]
    /\ Continue(<<>>)

RecordSent ==
    /\ stats' = [stats EXCEPT !.sent = @ + 1]
    /\ Continue(<<StatsChanged>>)

----------------------------------------------------------------------------
(* The stores and the identity.                                            *)

Stored(old, new) == IF setup.persists THEN new ELSE old

\* Fault: the client ID goes, the page view stays.
ClearVisitorIdentityOfStore ==
    /\ clientId' = Stored(clientId, NoId)
    /\ UNCHANGED <<pageViewId, lastPath>>

\* clearVisitorIdentity()
ClearVisitorIdentity ==
    /\ clientId' = Stored(clientId, NoId)
    /\ pageViewId' = NoId
    /\ lastPath' = NoId

\* History: the visitor is done with these IDs, whether they are cleared or not.
Retire ==
    retired' = [ids |-> retired.ids \cup ({clientId} \ {NoId}),
                pageViews |-> retired.pageViews \cup ({pageViewId} \ {NoId})]

SetConsentState(s) ==
    /\ D!CanRun
    /\ s # consent
    /\ consent' = Stored(consent, s)
    /\ IF s \in OptOuts THEN ClearVisitorIdentity /\ Retire ELSE UNCHANGED identity
    /\ said' = s
    /\ Continue(IF consent' # consent THEN <<ConsentStateChanged(consent')>> ELSE <<>>)
    /\ UNCHANGED <<alive, config, breaker, called, pending, armed, reply, reports, seen,
                   setup, enabled, forceNewVisit, stats, minted, wire, pathOf, past, shown>>

SetEnabled(b) ==
    /\ D!CanRun
    /\ b # enabled
    /\ enabled' = b
    /\ Continue(<<EnabledChanged(b)>>)
    /\ UNCHANGED <<alive, config, breaker, called, pending, armed, reply, reports, seen,
                   setup, consent, identity, forceNewVisit, stats, history, shown, wire>>

\* setClientId() of a valid ID; of an invalid one it changes nothing.
SetClientId(id) ==
    /\ D!CanRun
    /\ clientId' = Stored(clientId, id)
    /\ retired' = [retired EXCEPT !.ids = @ \ {id}]
    /\ UNCHANGED <<dispatcher, setup, consent, pageViewId, lastPath, enabled, forceNewVisit,
                   stats, history, shown, wire>>

ResetClientId ==
    /\ D!CanRun
    /\ ClearVisitorIdentity
    /\ Retire
    /\ UNCHANGED <<dispatcher, setup, consent, enabled, forceNewVisit, stats, history, shown, wire>>

ForceNewVisit ==
    /\ D!CanRun
    /\ forceNewVisit' = TRUE
    /\ UNCHANGED <<dispatcher, setup, consent, identity, enabled, stats, history, shown, wire>>

ResetCircuitBreaker == D!ResetCircuitBreaker /\ UNCHANGED trackerVars

----------------------------------------------------------------------------
(* The tracking calls.                                                     *)

\* validateTrackingCall()
Validated == enabled /\ setup.usable /\ IsTrackingAllowed(setup.mode, consent)

\* An incomplete payload, or a call that is not validated.
TrackBlocked(complete) ==
    /\ D!CanRun
    /\ ~complete \/ ~Validated
    /\ RecordBlocked
    /\ UNCHANGED <<alive, config, breaker, called, pending, armed, reply, reports, seen,
                   setup, consent, identity, enabled, forceNewVisit, history, shown, wire>>

\* ensureClientId(), for the call r.
EnsureClientId(r) ==
    /\ r \notin minted
    /\ minted' = minted \cup {r}
    /\ clientId' = IF clientId = NoId THEN Stored(clientId, r) ELSE clientId

\* The request cannot be built: a payload the builder refuses, or a client
\* ID in the store that is none.  The client ID is there all the same.
TrackUnbuildable(r, buildable) ==
    /\ D!CanRun
    /\ Validated
    /\ EnsureClientId(r)
    /\ ~buildable \/ clientId' = CorruptId
    /\ RecordBlocked
    /\ UNCHANGED <<alive, config, breaker, called, pending, armed, reply, reports, seen,
                   setup, consent, pageViewId, lastPath, retired, enabled, forceNewVisit,
                   wire, pathOf, said, past, shown>>

\* Faults: the page view, or the wish for a new visit, is settled before the
\* dispatcher has agreed.
TrackRefusedAsPageView(r) ==
    /\ Validated
    /\ EnsureClientId(r)
    /\ clientId' # CorruptId
    /\ D!DispatchBlocked(r)
    /\ pageViewId' = r
    /\ UNCHANGED <<setup, consent, lastPath, retired, enabled, forceNewVisit,
                   stats, wire, pathOf, said, past, shown>>

TrackRefusedAsNewVisit(r) ==
    /\ Validated
    /\ EnsureClientId(r)
    /\ clientId' # CorruptId
    /\ D!DispatchBlocked(r)
    /\ forceNewVisit' = FALSE
    /\ UNCHANGED <<setup, consent, pageViewId, lastPath, retired, enabled,
                   stats, wire, pathOf, said, past, shown>>

\* The breaker is open: nothing of the tracker changes, the call is accepted.
TrackRefused(r) ==
    /\ Validated
    /\ EnsureClientId(r)
    /\ clientId' # CorruptId
    /\ D!DispatchBlocked(r)
    /\ UNCHANGED <<setup, consent, pageViewId, lastPath, retired, enabled, forceNewVisit,
                   stats, wire, pathOf, said, past, shown>>

\* The request of r goes out with page view ID pv and path p.
Send(r, pv, p) ==
    /\ Validated
    /\ EnsureClientId(r)
    /\ clientId' # CorruptId
    /\ D!Dispatch(r)
    /\ wire' = [request |-> r, id |-> clientId', pageView |-> pv, path |-> p,
                newVisit |-> forceNewVisit]
    /\ forceNewVisit' = FALSE
    /\ RecordSent
    /\ UNCHANGED <<setup, consent, retired, enabled, said, past, shown>>

TrackPageView(r, p) ==
    /\ Send(r, r, p)
    /\ pageViewId' = r
    /\ lastPath' = p
    /\ pathOf' = [pathOf EXCEPT ![r] = p]

TrackEvent(r) ==
    /\ Send(r, pageViewId, NoId)
    /\ UNCHANGED <<pageViewId, lastPath, pathOf>>

\* A ping repeats the path of the last page view; "/" is NoId here.
SendPing(r) ==
    /\ Send(r, pageViewId, lastPath)
    /\ UNCHANGED <<pageViewId, lastPath, pathOf>>

----------------------------------------------------------------------------
(* The dispatcher's events, and the signals.                               *)

DispatcherEvent ==
    /\ \/ \E r \in Requests :
            \/ D!HandleTimeout(r)
            \/ \E c \in Completions : D!HandleReplyFinished(r, c) \/ D!HandleReplyCancelled(r, c)
       \/ D!ReleaseReply
    /\ UNCHANGED trackerVars

\* Fault: a call that the breaker refused is not counted.
OnDispatchFinishedOfRequest ==
    LET r == Top.request
        s == Top.status
        told == <<DispatchFinished(r, s)>>
        fails == s \notin {"Success", "CircuitBreakerOpen"}
    IN  /\ D!EmitDispatchFinished(IF fails THEN told \o <<StatsChanged>> ELSE told)
        /\ stats' = [stats EXCEPT !.failed = IF fails THEN @ + 1 ELSE @]
        /\ UNCHANGED <<setup, consent, identity, enabled, forceNewVisit, history, shown, wire>>

OnDispatchFinished ==
    LET r == Top.request
        s == Top.status
        told == <<DispatchFinished(r, s)>>
    IN  /\ D!EmitDispatchFinished(IF s = "Success" THEN told ELSE told \o <<StatsChanged>>)
        /\ stats' = [stats EXCEPT !.failed = IF s = "Success" THEN @ ELSE @ + 1]
        /\ UNCHANGED <<setup, consent, identity, enabled, forceNewVisit, history, shown, wire>>

\* A signal reaches the host, whose bindings read the property anew.
Notify(signal, field, value) ==
    /\ NextUp(signal)
    /\ Deliver(<<>>)
    /\ shown' = [shown EXCEPT ![field] = value]
    /\ wire' = IF signal = "statsChanged" THEN NoWire ELSE wire
    /\ UNCHANGED <<alive, config, breaker, called, pending, armed, reply, reports, seen,
                   setup, consent, identity, enabled, forceNewVisit, stats, history>>

EmitSignal ==
    \/ Notify("consentStateChanged", "consent", consent)
    \/ Notify("enabledChanged", "enabled", enabled)
    \/ Notify("statsChanged", "stats", stats)
    \/ /\ NextUp("Tracker::dispatchFinished")
       /\ Deliver(<<>>)
       /\ UNCHANGED <<alive, config, breaker, called, pending, armed, reply, reports, seen,
                      trackerVars>>

----------------------------------------------------------------------------
(* Destruction, and a new tracker on the same stores.                      *)

\* The dispatcher is a child and goes with the tracker.
Destroy == D!Destroy /\ UNCHANGED trackerVars

\* The host writes to the consent store without a tracker.
StoreConsent(s) ==
    /\ ~alive
    /\ consent' = Stored(consent, s)
    /\ said' = s
    /\ UNCHANGED <<dispatcher, setup, identity, enabled, forceNewVisit, stats, minted, wire,
                   pathOf, past, shown>>

NoStats == [sent |-> 0, blocked |-> 0, failed |-> 0]

\* Fault: an opt-out in the store is no reason to clear.
ForgetAtConstructionNot ==
    /\ pageViewId' = NoId /\ lastPath' = NoId
    /\ UNCHANGED clientId

\* A new tracker has no page view; one that finds an opt-out clears the rest.
ForgetAtConstruction ==
    IF consent \in OptOuts
    THEN ClearVisitorIdentity
    ELSE pageViewId' = NoId /\ lastPath' = NoId /\ UNCHANGED clientId

Construct ==
    /\ ~alive
    /\ alive' = TRUE
    /\ failures' = 0 /\ open' = FALSE /\ settled' = <<>> /\ seen' = FALSE
    /\ enabled' = TRUE
    /\ forceNewVisit' = FALSE
    /\ stats' = NoStats
    /\ ForgetAtConstruction
    /\ IF consent \in OptOuts THEN Retire ELSE UNCHANGED retired
    /\ past' = called
    /\ shown' = [consent |-> consent, enabled |-> TRUE, stats |-> NoStats]
    /\ UNCHANGED <<config, called, pending, armed, reply, stack, inSlot, reports,
                   setup, consent, minted, wire, pathOf, said>>

----------------------------------------------------------------------------

\* A tracker just built on stores that hold anything.
Init ==
    /\ D!Init
    /\ setup \in Setups
    /\ consent \in IF setup.persists THEN ConsentStates ELSE {"Unknown"}
    /\ clientId \in IF setup.persists /\ consent \notin OptOuts
                    THEN {NoId, CorruptId} \cup HostIds ELSE {NoId}
    /\ enabled = TRUE
    /\ pageViewId = NoId
    /\ lastPath = NoId
    /\ forceNewVisit = FALSE
    /\ stats = NoStats
    /\ minted = {}
    /\ wire = NoWire
    /\ pathOf = [r \in Requests |-> NoId]
    /\ retired = [ids |-> {}, pageViews |-> {}]
    /\ said = consent
    /\ past = {}
    /\ shown = [consent |-> consent, enabled |-> TRUE, stats |-> NoStats]

HostNext ==
    \/ \E s \in ConsentStates : SetConsentState(s) \/ StoreConsent(s)
    \/ \E b \in BOOLEAN : SetEnabled(b) \/ TrackBlocked(b)
    \/ \E id \in HostIds \cup {NoId} : SetClientId(id)
    \/ ResetClientId
    \/ ForceNewVisit
    \/ ResetCircuitBreaker
    \/ \E r \in Requests :
        \/ \E p \in Paths : TrackPageView(r, p)
        \/ TrackEvent(r)
        \/ SendPing(r)
        \/ TrackRefused(r)
        \/ \E b \in BOOLEAN : TrackUnbuildable(r, b)
    \/ Destroy
    \/ Construct

Next == HostNext \/ DispatcherEvent \/ OnDispatchFinished \/ EmitSignal

Spec == Init /\ [][Next]_vars
----------------------------------------------------------------------------
(* Properties.                                                             *)

Ids == {NoId} \cup Assigned
PageViewIds == {NoId} \cup Requests
StatsType == [sent : Nat, blocked : Nat, failed : Nat]

\* Every variable of the tracker keeps its type, and the dispatcher only ever
\* holds calls that had a client ID ensured first.
TypeOK ==
    /\ alive \in BOOLEAN
    /\ setup \in Setups
    /\ consent \in ConsentStates /\ said \in ConsentStates
    /\ clientId \in Ids
    /\ enabled \in BOOLEAN /\ forceNewVisit \in BOOLEAN
    /\ pageViewId \in PageViewIds
    /\ lastPath \in {NoId} \cup Paths
    /\ stats \in StatsType
    /\ minted \in SUBSET Requests
    /\ called \in SUBSET minted /\ past \in SUBSET called
    /\ pending \in SUBSET called /\ armed \in SUBSET pending
    /\ wire \in [request : PageViewIds, id : Ids, pageView : PageViewIds,
                 path : {NoId} \cup Paths, newVisit : BOOLEAN]
    /\ pathOf \in [Requests -> {NoId} \cup Paths]
    /\ retired \in [ids : SUBSET Assigned, pageViews : SUBSET Requests]
    /\ shown \in [consent : ConsentStates, enabled : BOOLEAN, stats : StatsType]

\* The step puts a request on the wire.
Sends == wire' \notin {wire, NoWire}

\* The last word a store that works, or not, has kept.
Word == IF setup.persists THEN said ELSE "Unknown"

\* No request leaves against the visitor's last word: neither after a denial or
\* a withdrawal, given to this tracker, to an earlier one or while there was none,
\* nor before a grant where one is required.  With stores that keep nothing it is
\* as if the visitor had never answered.
ConsentHonoured ==
    [][Sends => /\ setup.mode # "Disabled"
                /\ Word \notin OptOuts
                /\ (setup.mode = "RequiresConsent" => Word = "Granted")]_vars

\* "Resettable client identifiers": no request carries a client ID or a page
\* view ID that an opt-out or a reset took away, though the visitor may have
\* agreed again, the tracker been rebuilt and other requests still be in flight.
NoStaleIdentity ==
    [][Sends => /\ wire'.id \notin retired.ids
                /\ wire'.pageView \notin retired.pageViews]_vars

\* Events and pings refer to a page view that went out, of this tracker, and
\* the path a ping repeats is the path of that very page view.
PageViewReal ==
    alive => IF pageViewId = NoId
             THEN lastPath = NoId
             ELSE /\ reply[pageViewId] # "none"
                  /\ pageViewId \notin past
                  /\ lastPath = pathOf[pageViewId]

\* "Forces new_visit=1 on the next dispatched request": a request of a living
\* tracker that carries it consumes one wish, and a wish is consumed in no
\* other way, such as by a call that the breaker refused.
NewVisitOnce ==
    [][alive => (forceNewVisit /\ ~forceNewVisit' <=> Sends /\ wire'.newVisit)]_vars

\* The statistics agree with what the dispatcher did for this tracker, at
\* every moment a slot can read them: sent counts the requests that went out,
\* failed the results told that are no success, breaker refusals included.
StatsAccount ==
    LET mine == called \ past
    IN  alive => /\ stats.sent = Cardinality({r \in mine : reply[r] # "none"})
                 /\ stats.failed
                      = Cardinality({r \in mine : reports[r] # <<>> /\ reports[r][1] # "Success"})

Announced(signal) == \E i \in DOMAIN stack : stack[i].signal = signal

\* A binding that is read anew on each notification never stays behind: it
\* shows the property, or the notification is still to come.
BindingsFresh ==
    alive => /\ shown.consent # consent => Announced("consentStateChanged")
             /\ shown.enabled # enabled => Announced("enabledChanged")
             /\ shown.stats # stats => Announced("statsChanged")
=============================================================================
