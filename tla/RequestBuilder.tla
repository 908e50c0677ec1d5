--------------------------- MODULE RequestBuilder ---------------------------
(***************************************************************************)
(* The pure part of a tracking call: which payloads and configurations are *)
(* accepted, and the query of the request they become, as the sequence of  *)
(* its parameters.  How a text is percent-encoded is left out.             *)
(***************************************************************************)
EXTENDS Integers, Sequences, FiniteSets, TLC

CONSTANTS
    Texts,      \* the strings that occur
    Trimmed,    \* QString::trimmed(), on Texts
    References, \* the trimmed texts that QUrl reads without scheme and authority
    ClientIds   \* the texts that are 16 hexadecimal digits

ASSUME TextAssumption ==
    /\ "" \in Texts
    /\ Trimmed \in [Texts -> Texts]
    /\ Trimmed[""] = ""
    /\ \A t \in Texts : Trimmed[Trimmed[t]] = Trimmed[t]
    /\ References \subseteq Texts
    /\ ClientIds \subseteq Texts \ {""}

Blank(t) == Trimmed[t] = ""

MinId == 1
MaxId == 999

DimensionType == [id : Int, value : Texts]

\* Of the value of an event: whether there is one, and whether it is finite.
EventValues == {"none", "finite", "infinite"}

DimensionIsValid(d) == d.id \in MinId..MaxId

DimensionsAreValid(dims) == \A i \in DOMAIN dims : DimensionIsValid(dims[i])

----------------------------------------------------------------------------
(* isValid() of the configuration and of the payloads.                     *)

\* absolute: valid, not empty and not relative.
UrlType == [absolute : BOOLEAN, host : BOOLEAN, scheme : {"http", "https", "other"}]

\* Fault: site IDs start at zero.
ConfigIsValidFromZero(config) ==
    /\ config.endpoint.absolute
    /\ config.endpoint.host
    /\ config.endpoint.scheme \in {"http", "https"}
    /\ config.actionUrlBase.absolute
    /\ config.siteId >= 0

ConfigIsValid(config) ==
    /\ config.endpoint.absolute
    /\ config.endpoint.host
    /\ config.endpoint.scheme \in {"http", "https"}
    /\ config.actionUrlBase.absolute
    /\ config.siteId > 0

PageViewIsValid(p) ==
    /\ ~Blank(p.path)
    /\ DimensionsAreValid(p.customDimensions)

EventIsValid(e) ==
    /\ ~Blank(e.category)
    /\ ~Blank(e.action)
    /\ e.value # "infinite"
    /\ DimensionsAreValid(e.customDimensions)

----------------------------------------------------------------------------
(* Parameters of the query.                                                *)

Parameter(n, v) == [name |-> n, slot |-> 0, value |-> v]
DimensionParameter(d) == [name |-> "dimension", slot |-> d.id, value |-> d.value]

Optional(n, t) == IF Blank(t) THEN <<>> ELSE <<Parameter(n, Trimmed[t])>>

\* Faults: a dimension without value takes part in the check for duplicates;
\* a dimension is not recorded as used.
AddDimensionEmptyToo(acc, d) ==
    IF ~acc.ok \/ ~DimensionIsValid(d) \/ d.id \in acc.used
    THEN [acc EXCEPT !.ok = FALSE]
    ELSE [ok |-> TRUE, used |-> acc.used \cup {d.id},
          items |-> IF d.value = "" THEN acc.items ELSE Append(acc.items, DimensionParameter(d))]

AddDimensionUnrecorded(acc, d) ==
    IF ~acc.ok \/ ~DimensionIsValid(d) THEN [acc EXCEPT !.ok = FALSE]
    ELSE IF d.value = "" THEN acc
    ELSE [acc EXCEPT !.items = Append(@, DimensionParameter(d))]

\* One turn of the loop in addCustomDimensions(); nothing follows a failure.
AddDimension(acc, d) ==
    IF ~acc.ok \/ ~DimensionIsValid(d) THEN [acc EXCEPT !.ok = FALSE]
    ELSE IF d.value = "" THEN acc
    ELSE IF d.id \in acc.used THEN [acc EXCEPT !.ok = FALSE]
    ELSE [ok |-> TRUE, used |-> acc.used \cup {d.id},
          items |-> Append(acc.items, DimensionParameter(d))]

\* Where addCustomDimensions() is after each of its turns.
Turns(items, dims) ==
    LET after[n \in 0..Len(dims)] ==
            IF n = 0 THEN [ok |-> TRUE, used |-> {}, items |-> items]
            ELSE AddDimension(after[n - 1], dims[n])
    IN  after

AddCustomDimensions(items, dims) == Turns(items, dims)[Len(dims)]

----------------------------------------------------------------------------
(* Requests.                                                               *)

Rejected(status) == [status |-> status, query |-> <<>>]
Accepted(query) == [status |-> "RequestAccepted", query |-> query]

\* Fault: any text will do.
HasValidClientIdAsText(id) == id = "" \/ ~Blank(id)

HasValidClientId(id) == id = "" \/ id \in ClientIds

\* buildRequest().  Its second check, of the action URL base, repeats a part of
\* the first.  The payload is what addPayloadParameters() adds, or a failure.
BuildRequest(config, actionUrl, options, payload) ==
    IF ~ConfigIsValid(config) THEN Rejected("RequestInvalidConfig")
    ELSE IF ~HasValidClientId(options.clientId) \/ ~payload.ok
    THEN Rejected("RequestInvalidPayload")
    ELSE Accepted(<<Parameter("idsite", ToString(config.siteId)), Parameter("rec", "1"),
                    Parameter("apiv", "1"), Parameter("url", actionUrl)>>
                  \o (IF options.clientId = "" THEN <<>>
                      ELSE <<Parameter("_id", options.clientId)>>)
                  \o Optional("ua", options.userAgent)
                  \o Optional("lang", options.language)
                  \o Optional("res", options.screenResolution)
                  \o payload.items)

IsRelativeApplicationPath(t) == Trimmed[t] \in References

\* actionUrlBase.resolved() is named by the path, the base alone by "base".
BuildPageView(config, p, options) ==
    IF ~PageViewIsValid(p) \/ ~IsRelativeApplicationPath(p.path)
    THEN Rejected("RequestInvalidPayload")
    ELSE BuildRequest(config, Trimmed[p.path], options,
            AddCustomDimensions(Optional("action_name", p.actionName), p.customDimensions))

BuildEvent(config, e, options) ==
    IF ~EventIsValid(e)
    THEN Rejected("RequestInvalidPayload")
    ELSE BuildRequest(config, "base", options,
            AddCustomDimensions(
                <<Parameter("ca", "1"), Parameter("e_c", Trimmed[e.category]),
                  Parameter("e_a", Trimmed[e.action])>>
                \o Optional("e_n", e.name)
                \o (IF e.value = "none" THEN <<>> ELSE <<Parameter("e_v", e.value)>>),
                e.customDimensions))

BuildPing(config, path, options) ==
    IF Blank(path) \/ ~IsRelativeApplicationPath(path)
    THEN Rejected("RequestInvalidPayload")
    ELSE BuildRequest(config, Trimmed[path], options,
            [ok |-> TRUE, used |-> {}, items |-> <<Parameter("ping", "1")>>])
=============================================================================
