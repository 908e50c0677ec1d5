-------------------------- MODULE TrackingRequest --------------------------
(***************************************************************************)
(* One call from its arguments to the query that goes out.  The builder    *)
(* belongs to a tracker, which adds something before it and after it, as   *)
(* the dispatcher does in the end, or to a host that uses RequestBuilder   *)
(* directly.  Consent, the breaker and the identity are Tracker's: here    *)
(* the gates let the call pass, and options, page view ID and the          *)
(* new-visit flag may be anything.                                         *)
(***************************************************************************)
EXTENDS RequestBuilder

CONSTANTS
    TrackerConfigs, \* the configurations a tracker or a builder may have
    Options,        \* what buildOptions() may collect
    PageViews,      \* the payloads of trackPageView()
    Events,         \* the payloads of trackEvent()
    PingPaths,      \* what m_lastPageViewPath may hold
    PageViewIds     \* "" and the page view IDs

\* The keys of a QMap are finitely many; the rest are the types of the code.
ASSUME CallAssumption ==
    /\ \A c \in TrackerConfigs :
        /\ c.endpoint \in UrlType /\ c.actionUrlBase \in UrlType
        /\ c.siteId \in Int
        /\ DOMAIN c.customDimensions \subseteq Int /\ IsFiniteSet(DOMAIN c.customDimensions)
        /\ \A k \in DOMAIN c.customDimensions : c.customDimensions[k] \in Texts
    /\ Options \subseteq [clientId : Texts, userAgent : Texts, language : Texts,
                          screenResolution : Texts]
    /\ PageViews \subseteq [path : Texts, actionName : Texts, customDimensions : Seq(DimensionType)]
    /\ Events \subseteq [category : Texts, action : Texts, name : Texts, value : EventValues,
                         customDimensions : Seq(DimensionType)]
    /\ PingPaths \cup {"/"} \subseteq Texts

VARIABLES
    owner,  \* of the builder: "tracker" or "host"
    config, \* m_config of the builder, and of the tracker that owns it
    call,   \* the call that is made, if any
    answer  \* what became of it

vars == <<owner, config, call, answer>>

NoCall == [kind |-> "none"]
Idle == call = NoCall

----------------------------------------------------------------------------
(* What the tracker and the dispatcher add.                                *)

\* The keys of a QMap come in ascending order.
InOrder(ids) ==
    CHOOSE s \in [1..Cardinality(ids) -> ids] : \A i, j \in DOMAIN s : i < j => s[i] < s[j]

\* Those of m_config.customDimensions that have one of the ids.
ConfigDimensions(c, ids) ==
    [i \in 1..Cardinality(ids) |->
        [id |-> InOrder(ids)[i], value |-> c.customDimensions[InOrder(ids)[i]]]]

UsedIds(dims) == {dims[i].id : i \in DOMAIN dims}

\* Fault: a call-level dimension without value does not override.
MergeDimensionsByValue(c, callDimensions) ==
    LET given == SelectSeq(callDimensions, LAMBDA d : d.value # "")
    IN  callDimensions \o ConfigDimensions(c, DOMAIN c.customDimensions \ UsedIds(given))

\* mergeDimensions()
MergeDimensions(c, callDimensions) ==
    callDimensions \o ConfigDimensions(c, DOMAIN c.customDimensions \ UsedIds(callDimensions))

Enriched(c, payload) ==
    [payload EXCEPT !.customDimensions = MergeDimensions(c, payload.customDimensions)]

\* addTrackerParameters()
AddTrackerParameters(query, pageViewId, forceNewVisit) ==
    query \o (IF pageViewId = "" THEN <<>> ELSE <<Parameter("pv_id", pageViewId)>>)
          \o (IF forceNewVisit THEN <<Parameter("new_visit", "1")>> ELSE <<>>)

\* addCacheBuster()
AddCacheBuster(query) == Append(query, Parameter("rand", "any"))

\* A call whose request was built goes on with it.
Completed(built, pageViewId, forceNewVisit) ==
    IF built.status = "RequestAccepted"
    THEN Accepted(AddCacheBuster(AddTrackerParameters(built.query, pageViewId, forceNewVisit)))
    ELSE built

\* The two early returns of each call that come before the builder.
Checked(payloadIsValid, built) ==
    IF ~payloadIsValid THEN Rejected("RequestInvalidPayload")
    ELSE IF ~ConfigIsValid(config) THEN Rejected("RequestInvalidConfig")
    ELSE built

----------------------------------------------------------------------------
(* The calls.                                                              *)

\* A tracker adds its parameters to the request of its builder; a host that
\* owns the builder gets the request as it is.
Answered(payloadIsValid, built, pageViewId, forceNewVisit) ==
    IF owner = "host" THEN built
    ELSE Checked(payloadIsValid, Completed(built, pageViewId, forceNewVisit))

OwnersPayload(payload) == IF owner = "host" THEN payload ELSE Enriched(config, payload)

\* trackPageView() or buildPageView(); a tracker has a new page view ID by then.
PageView(p, o, id, forced) ==
    /\ Idle /\ id # ""
    /\ call' = [kind |-> "pageView", payload |-> p, options |-> o]
    /\ answer' = Answered(PageViewIsValid(p), BuildPageView(config, OwnersPayload(p), o), id, forced)
    /\ UNCHANGED <<owner, config>>

\* trackEvent() or buildEvent()
Event(e, o, id, forced) ==
    /\ Idle
    /\ call' = [kind |-> "event", payload |-> e, options |-> o]
    /\ answer' = Answered(EventIsValid(e), BuildEvent(config, OwnersPayload(e), o), id, forced)
    /\ UNCHANGED <<owner, config>>

\* sendPing() or buildPing(); a tracker puts "/" for the path it does not have.
Ping(path, o, id, forced) ==
    LET pingPath == IF owner = "tracker" /\ path = "" THEN "/" ELSE path
    IN  /\ Idle
        /\ call' = [kind |-> "ping", path |-> pingPath, options |-> o]
        /\ answer' = Answered(TRUE, BuildPing(config, pingPath, o), id, forced)
        /\ UNCHANGED <<owner, config>>

\* The caller has the result; the call left nothing behind.
Return ==
    /\ ~Idle
    /\ call' = NoCall
    /\ answer' = Rejected("none")
    /\ UNCHANGED <<owner, config>>

\* A host may change the configuration of its builder; a tracker never does.
SetConfig(c) ==
    /\ Idle /\ owner = "host"
    /\ config' = c
    /\ UNCHANGED <<owner, call, answer>>

Init ==
    /\ owner \in {"tracker", "host"}
    /\ config \in TrackerConfigs
    /\ call = NoCall
    /\ answer = Rejected("none")

Next ==
    \/ \E o \in Options, id \in PageViewIds, forced \in BOOLEAN :
        \/ \E p \in PageViews : PageView(p, o, id, forced)
        \/ \E e \in Events : Event(e, o, id, forced)
        \/ \E path \in PingPaths : Ping(path, o, id, forced)
    \/ Return
    \/ \E c \in TrackerConfigs : SetConfig(c)

Spec == Init /\ [][Next]_vars

----------------------------------------------------------------------------
(* Properties.                                                             *)

Sent == answer.status = "RequestAccepted"

\* The dimensions of the request: slot and value.
SentDimensions ==
    {<<answer.query[i].slot, answer.query[i].value>> :
        i \in {j \in DOMAIN answer.query : answer.query[j].name = "dimension"}}

CallDimensions == IF call.kind \in {"pageView", "event"} THEN call.payload.customDimensions ELSE <<>>

\* The slots of the tracker's own dimensions that the call leaves to it; a
\* builder of the host's own adds none.
OwnSlots ==
    IF owner = "tracker" /\ call.kind \in {"pageView", "event"}
    THEN DOMAIN config.customDimensions \ UsedIds(CallDimensions)
    ELSE {}

WithValue(pairs) == {pair \in pairs : pair[2] # ""}

\* "Tracker-level custom dimensions [are] merged into page-view and event
\* tracking requests (per-call dimensions take precedence on duplicate IDs)"
\* and "are not sent with sendPing()": a request that goes out has exactly the
\* dimensions with a value, and a call may blank one of the tracker's.
DimensionsAsDocumented ==
    Sent => SentDimensions =
        WithValue({<<CallDimensions[i].id, CallDimensions[i].value>> : i \in DOMAIN CallDimensions}
                  \cup {<<k, config.customDimensions[k]>> : k \in OwnSlots})

\* No parameter goes out twice, whoever of builder, tracker and dispatcher
\* adds it and whatever dimensions the call repeats.
NoParameterTwice ==
    \A i, j \in DOMAIN answer.query :
        /\ answer.query[i].name = answer.query[j].name
        /\ answer.query[i].slot = answer.query[j].slot
        => i = j

\* A path that may stand in a request: present and relative.
PathAcceptable(t) == Trimmed[t] \in References \ {""}

PayloadAcceptable ==
    CASE call.kind = "pageView" -> PathAcceptable(call.payload.path)
      [] call.kind = "event" ->
            /\ call.payload.value # "infinite"
            /\ "" \notin {Trimmed[call.payload.category], Trimmed[call.payload.action]}
      [] call.kind = "ping" -> PathAcceptable(call.path)

\* Every slot in range, of the tracker's own ones those the call leaves to it,
\* and no slot given two values by the call.
DimensionsAcceptable ==
    /\ UsedIds(CallDimensions) \cup OwnSlots \subseteq MinId..MaxId
    /\ \A i, j \in DOMAIN CallDimensions :
        /\ CallDimensions[i].id = CallDimensions[j].id
        /\ CallDimensions[i].value # "" /\ CallDimensions[j].value # ""
        => i = j

ConfigAcceptable ==
    /\ config.endpoint \in [absolute : {TRUE}, host : {TRUE}, scheme : {"http", "https"}]
    /\ config.actionUrlBase.absolute
    /\ config.siteId \in Nat \ {0}

\* A call is accepted exactly when its configuration, payload, dimensions and
\* client ID are each acceptable by themselves: the checks that Tracker,
\* RequestBuilder and the payload types repeat agree, and what the tracker
\* merges into a call never makes a duplicate of it.
AcceptedIffAcceptable ==
    ~Idle =>
        (Sent <=> /\ ConfigAcceptable
                  /\ PayloadAcceptable
                  /\ DimensionsAcceptable
                  /\ call.options.clientId \in ClientIds \cup {""})
=============================================================================
