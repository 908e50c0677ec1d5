-------------------------- MODULE MCTrackingRequest --------------------------
(* Small instances of TrackingRequest for TLC. *)
EXTENDS TrackingRequest, SequencesExt

MCTexts == {"", " ", "/", "home", " home ", "https://x/", "a", "b", "id", "corrupt"}
MCTrimmed == [t \in MCTexts |-> CASE t = " " -> "" [] t = " home " -> "home" [] OTHER -> t]
MCReferences == {"", "/", "home", "a", "b"}

Url(a, h, s) == [absolute |-> a, host |-> h, scheme |-> s]
GoodUrl == Url(TRUE, TRUE, "https")

Config(e, b, n, dims) ==
    [endpoint |-> e, actionUrlBase |-> b, siteId |-> n, customDimensions |-> dims]

\* Partial functions from slots to texts.
Slots(ids, texts) == UNION {[s -> texts] : s \in SUBSET ids}
Lists(ids, texts, n) == BoundedSeq([id : ids, value : texts], n)

\* Configurations with dimensions inside and beyond the limits, with and without
\* value, and those with something else wrong.
MCConfigs ==
    {Config(GoodUrl, GoodUrl, 1, dims) : dims \in Slots({1, 2}, {"", "a"}) \cup Slots({1000}, {"", "a"})}
    \cup {Config(e, b, n, <<>>) :
        e \in {GoodUrl, Url(FALSE, TRUE, "http"), Url(TRUE, FALSE, "https"), Url(TRUE, TRUE, "other")},
        b \in {Url(TRUE, FALSE, "other"), Url(FALSE, FALSE, "other")}, n \in {0, 1}}

\* Dimensions at and beyond the limits, repeated and blank ones.
MCDimensionLists == Lists({0, 1, 999, 1000}, {"", " ", "b"}, 2) \cup Lists({1, 2}, {"", "b"}, 3)

MCPageViews ==
    {[path |-> "home", actionName |-> "", customDimensions |-> dims] : dims \in MCDimensionLists}
    \cup {[path |-> p, actionName |-> n, customDimensions |-> <<>>] :
            p \in {"", " ", " home ", "https://x/"}, n \in {" ", "a"}}
MCEvents ==
    {[category |-> "a", action |-> "b", name |-> "", value |-> "none", customDimensions |-> dims]
        : dims \in MCDimensionLists}
    \cup {[category |-> c, action |-> a, name |-> n, value |-> v, customDimensions |-> <<>>] :
            c \in {" ", "a"}, a \in {"", "b"}, n \in {"", "a"}, v \in {"none", "finite", "infinite"}}
MCOptions ==
    [clientId : {"id"}, userAgent : {"a"}, language : {" "}, screenResolution : {""}]
    \cup [clientId : {"", "corrupt"}, userAgent : {" "}, language : {"b"}, screenResolution : {"a"}]
=============================================================================
