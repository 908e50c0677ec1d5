---------------------------- MODULE TrackerProofs ----------------------------
(***************************************************************************)
(* Theorems about the Tracker over its dispatcher and its stores, for any  *)
(* set of calls, IDs, paths and setups, every way replies may finish and   *)
(* every depth of nested slots.                                            *)
(***************************************************************************)
EXTENDS Tracker, TLAPS

\* The actions of a step, one disjunct each.
LEMMA NextCases ==
    ASSUME Next
    PROVE \/ \E s \in ConsentStates : SetConsentState(s)
          \/ \E s \in ConsentStates : StoreConsent(s)
          \/ \E b \in BOOLEAN : SetEnabled(b)
          \/ \E b \in BOOLEAN : TrackBlocked(b)
          \/ \E id \in HostIds \cup {NoId} : SetClientId(id)
          \/ ResetClientId
          \/ ForceNewVisit
          \/ ResetCircuitBreaker
          \/ \E r \in Requests : \E p \in Paths : TrackPageView(r, p)
          \/ \E r \in Requests : TrackEvent(r)
          \/ \E r \in Requests : SendPing(r)
          \/ \E r \in Requests : TrackRefused(r)
          \/ \E r \in Requests : \E b \in BOOLEAN : TrackUnbuildable(r, b)
          \/ Destroy
          \/ Construct
          \/ DispatcherEvent
          \/ OnDispatchFinished
          \/ EmitSignal
BY DEF Next, HostNext

\* What the dispatcher's events leave alone, and that they lose no call.
LEMMA DispatcherFrame ==
    ASSUME DispatcherEvent
    PROVE  UNCHANGED trackerVars /\ UNCHANGED <<alive, called>>
BY DEF DispatcherEvent, D!HandleTimeout, D!HandleReplyFinished, D!HandleReplyCancelled,
       D!ReleaseReply, D!Settle, D!breaker, D!control

\* A signal changes only what its bindings show, and takes the request off the wire.
LEMMA EmitFrame ==
    ASSUME EmitSignal
    PROVE  /\ UNCHANGED <<alive, config, breaker, called, pending, armed, reply, reports, seen>>
           /\ UNCHANGED <<setup, consent, identity, enabled, forceNewVisit, stats, history>>
           /\ wire' \in {wire, NoWire}
<1>1. ASSUME NEW signal, NEW field, NEW value, Notify(signal, field, value)
      PROVE  /\ UNCHANGED <<alive, config, breaker, called, pending, armed, reply, reports, seen>>
             /\ UNCHANGED <<setup, consent, identity, enabled, forceNewVisit, stats, history>>
             /\ wire' \in {wire, NoWire}
  BY <1>1 DEF Notify
<1>2. CASE UNCHANGED <<alive, config, breaker, called, pending, armed, reply, reports, seen,
                       trackerVars>>
  BY <1>2 DEF trackerVars
<1> QED
  BY <1>1, <1>2 DEF EmitSignal

----------------------------------------------------------------------------
(* Consent.                                                                *)

\* The store has the last word, unless it keeps nothing.
ConsentInv == consent = Word

\* ConsentInv looks at three variables, which only two operations change.
LEMMA ConsentStep == ConsentInv /\ [Next]_vars => ConsentInv'
<1> SUFFICES ASSUME ConsentInv, [Next]_vars
             PROVE ConsentInv'
  OBVIOUS
<1>1. ASSUME UNCHANGED <<setup, consent, said>>
      PROVE ConsentInv'
  BY <1>1 DEF ConsentInv, Word
<1>2. ASSUME NEW s, consent' = Stored(consent, s), said' = s, UNCHANGED setup
      PROVE ConsentInv'
  BY <1>2 DEF ConsentInv, Word, Stored
<1>3. ASSUME NEW s \in ConsentStates, SetConsentState(s) \/ StoreConsent(s)
      PROVE ConsentInv'
  BY <1>2, <1>3 DEF SetConsentState, StoreConsent
<1>4. ASSUME NEW b \in BOOLEAN, SetEnabled(b) \/ TrackBlocked(b)
      PROVE ConsentInv'
  BY <1>1, <1>4 DEF SetEnabled, TrackBlocked, history
<1>5. ASSUME NEW id, SetClientId(id)
      PROVE ConsentInv'
  BY <1>1, <1>5 DEF SetClientId, history
<1>6. CASE ResetClientId \/ ForceNewVisit \/ Construct
  BY <1>1, <1>6 DEF ResetClientId, ForceNewVisit, Construct, history
<1>7. CASE ResetCircuitBreaker \/ Destroy \/ DispatcherEvent
  BY <1>1, <1>7, DispatcherFrame DEF ResetCircuitBreaker, Destroy, trackerVars, history
<1>8. ASSUME NEW r \in Requests, NEW pv, NEW p, Send(r, pv, p)
      PROVE ConsentInv'
  BY <1>1, <1>8 DEF Send
<1>9. ASSUME NEW r \in Requests, TrackRefused(r)
      PROVE ConsentInv'
  BY <1>1, <1>9 DEF TrackRefused
<1>10. ASSUME NEW r \in Requests, NEW b, TrackUnbuildable(r, b)
       PROVE ConsentInv'
  BY <1>1, <1>10 DEF TrackUnbuildable
<1>11. CASE OnDispatchFinished \/ EmitSignal
  BY <1>1, <1>11, EmitFrame DEF OnDispatchFinished, history
<1>12. CASE UNCHANGED vars
  BY <1>1, <1>12 DEF vars, trackerVars, history
<1> QED
  BY NextCases, <1>3, <1>4, <1>5, <1>6, <1>7, <1>8, <1>9, <1>10, <1>11, <1>12
     DEF TrackPageView, TrackEvent, SendPing

\* Only Send() puts a request on the network.
LEMMA OnlySendSends ==
    ASSUME Next, Sends
    PROVE  \E r \in Requests : \E pv \in {r, pageViewId} : \E p : Send(r, pv, p)
<1>1. ~UNCHANGED wire /\ wire' # NoWire
  BY DEF Sends
<1>2. \A s : ~SetConsentState(s) /\ ~StoreConsent(s)
  BY <1>1 DEF SetConsentState, StoreConsent
<1>3. \A b : ~SetEnabled(b) /\ ~TrackBlocked(b)
  BY <1>1 DEF SetEnabled, TrackBlocked
<1>4. \A id : ~SetClientId(id)
  BY <1>1 DEF SetClientId
<1>5. ~ResetClientId /\ ~ForceNewVisit /\ ~Construct
  BY <1>1 DEF ResetClientId, ForceNewVisit, Construct
<1>6. ~ResetCircuitBreaker /\ ~Destroy /\ ~DispatcherEvent
  BY <1>1, DispatcherFrame DEF ResetCircuitBreaker, Destroy, trackerVars
<1>7. \A r, b : ~TrackRefused(r) /\ ~TrackUnbuildable(r, b)
  BY <1>1 DEF TrackRefused, TrackUnbuildable
<1>8. ~OnDispatchFinished /\ ~EmitSignal
  BY <1>1, EmitFrame DEF OnDispatchFinished
<1> QED
  BY NextCases, <1>2, <1>3, <1>4, <1>5, <1>6, <1>7, <1>8
     DEF TrackPageView, TrackEvent, SendPing

\* No request leaves against the visitor's last word: setConsentState() of this
\* tracker or an earlier one, the host at the store, validateTrackingCall().
THEOREM ConsentCorrect == Spec => ConsentHonoured
<1>1. Init => ConsentInv
  BY DEF Init, ConsentInv, Word
<1>2. ConsentInv /\ [Next]_vars
      => [Sends => /\ setup.mode # "Disabled"
                   /\ Word \notin OptOuts
                   /\ (setup.mode = "RequiresConsent" => Word = "Granted")]_vars
  <2> SUFFICES ASSUME ConsentInv, Next, Sends
               PROVE  /\ setup.mode # "Disabled"
                      /\ Word \notin OptOuts
                      /\ (setup.mode = "RequiresConsent" => Word = "Granted")
    OBVIOUS
  <2>1. IsTrackingAllowed(setup.mode, consent)
    BY OnlySendSends DEF Send, Validated
  <2> QED
    BY <2>1 DEF ConsentInv, IsTrackingAllowed, OptOuts
<1> QED
  BY <1>1, <1>2, ConsentStep, PTL DEF Spec, ConsentHonoured

----------------------------------------------------------------------------
(* Type correctness.                                                       *)

LEMMA InitType == Init => TypeOK
<1> SUFFICES ASSUME Init
             PROVE  TypeOK
  OBVIOUS
<1>1. setup \in Setups /\ setup \in SetupType
  BY TrackerAssumption DEF Init
<1>2. consent \in ConsentStates /\ said \in ConsentStates
  BY DEF Init, ConsentStates
<1>3. clientId \in Ids
  BY DEF Init, Ids, Assigned
<1>4. NoStats \in StatsType
  BY DEF NoStats, StatsType
<1>5. shown \in [consent : ConsentStates, enabled : BOOLEAN, stats : StatsType]
  BY <1>2, <1>4 DEF Init
<1>6. alive \in BOOLEAN /\ called \in SUBSET minted /\ pending \in SUBSET called /\ armed \in SUBSET pending
  BY DEF Init, D!Init
<1>7. wire \in [request : PageViewIds, id : Ids, pageView : PageViewIds,
                path : {NoId} \cup Paths, newVisit : BOOLEAN]
  BY DEF Init, NoWire, PageViewIds, Ids
<1>8. pathOf \in [Requests -> {NoId} \cup Paths]
  BY DEF Init
<1>9. retired \in [ids : SUBSET Assigned, pageViews : SUBSET Requests]
  BY DEF Init
<1> QED
  BY <1>1, <1>2, <1>3, <1>4, <1>5, <1>6, <1>7, <1>8, <1>9 DEF Init, TypeOK, PageViewIds

\* clearVisitorIdentity()
LEMMA ClearType ==
    ASSUME TypeOK, ClearVisitorIdentity, Retire
    PROVE  /\ clientId' \in Ids /\ pageViewId' \in PageViewIds /\ lastPath' \in {NoId} \cup Paths
           /\ retired' \in [ids : SUBSET Assigned, pageViews : SUBSET Requests]
BY DEF TypeOK, ClearVisitorIdentity, Retire, Stored, Ids, PageViewIds

\* ensureClientId()
LEMMA EnsureType ==
    ASSUME TypeOK, NEW r \in Requests, EnsureClientId(r)
    PROVE  /\ clientId' \in Ids
           /\ minted' \in SUBSET Requests /\ minted \subseteq minted' /\ r \in minted'
BY DEF TypeOK, EnsureClientId, Stored, Ids, Assigned

\* A request that goes out.
LEMMA SendType ==
    ASSUME TypeOK, NEW r \in Requests, NEW pv \in PageViewIds, NEW p \in {NoId} \cup Paths,
           Send(r, pv, p), pageViewId' \in PageViewIds, lastPath' \in {NoId} \cup Paths,
           pathOf' \in [Requests -> {NoId} \cup Paths]
    PROVE  TypeOK'
<1>1. clientId' \in Ids /\ minted' \in SUBSET Requests /\ minted \subseteq minted' /\ r \in minted'
  BY EnsureType DEF Send
<1>2. /\ alive' = alive /\ called' = called \cup {r} /\ pending' = pending \cup {r}
      /\ armed' \in {armed, armed \cup {r}}
  BY DEF Send, D!Dispatch, D!CreateReply
<1>3. wire' \in [request : PageViewIds, id : Ids, pageView : PageViewIds,
                 path : {NoId} \cup Paths, newVisit : BOOLEAN]
  BY <1>1 DEF Send, TypeOK, PageViewIds
<1>4. stats' \in StatsType
  BY DEF Send, RecordSent, TypeOK, StatsType
<1> QED
  BY <1>1, <1>2, <1>3, <1>4 DEF TypeOK, Send

LEMMA TypeStep == TypeOK /\ [Next]_vars => TypeOK'
<1> SUFFICES ASSUME TypeOK, [Next]_vars
             PROVE  TypeOK'
  OBVIOUS
<1>1. ASSUME NEW s \in ConsentStates, SetConsentState(s) \/ StoreConsent(s)
      PROVE  TypeOK'
  <2>1. consent' \in ConsentStates /\ said' \in ConsentStates
    BY <1>1 DEF TypeOK, SetConsentState, StoreConsent, Stored
  <2>2. /\ clientId' \in Ids /\ pageViewId' \in PageViewIds /\ lastPath' \in {NoId} \cup Paths
        /\ retired' \in [ids : SUBSET Assigned, pageViews : SUBSET Requests]
    BY <1>1, ClearType DEF TypeOK, SetConsentState, StoreConsent, identity
  <2> QED
    BY <1>1, <2>1, <2>2 DEF TypeOK, SetConsentState, StoreConsent, dispatcher
<1>2. ASSUME NEW b \in BOOLEAN, SetEnabled(b)
      PROVE  TypeOK'
  BY <1>2 DEF TypeOK, SetEnabled, identity, history
<1>3. ASSUME NEW b \in BOOLEAN, TrackBlocked(b)
      PROVE  TypeOK'
  <2>1. stats' \in StatsType
    BY <1>3 DEF TypeOK, TrackBlocked, RecordBlocked, StatsType
  <2> QED
    BY <1>3, <2>1 DEF TypeOK, TrackBlocked, identity, history
<1>4. ASSUME NEW id \in HostIds \cup {NoId}, SetClientId(id)
      PROVE  TypeOK'
  <2>1. clientId' \in Ids /\ retired' \in [ids : SUBSET Assigned, pageViews : SUBSET Requests]
    BY <1>4 DEF TypeOK, SetClientId, Stored, Ids, Assigned
  <2> QED
    BY <1>4, <2>1 DEF TypeOK, SetClientId, dispatcher, history
<1>5. CASE ResetClientId
  BY <1>5, ClearType DEF TypeOK, ResetClientId, dispatcher, history
<1>6. CASE ForceNewVisit
  BY <1>6 DEF TypeOK, ForceNewVisit, dispatcher, identity, history
<1>7. CASE ResetCircuitBreaker
  BY <1>7 DEF TypeOK, ResetCircuitBreaker, D!ResetCircuitBreaker, trackerVars, identity, history
<1>8. ASSUME NEW r \in Requests, NEW p \in Paths, TrackPageView(r, p)
      PROVE  TypeOK'
  <2>1. pathOf' \in [Requests -> {NoId} \cup Paths]
    BY <1>8 DEF TypeOK, TrackPageView
  <2> QED
    BY <1>8, <2>1, SendType DEF TrackPageView, PageViewIds
<1>9. ASSUME NEW r \in Requests, TrackEvent(r) \/ SendPing(r)
      PROVE  TypeOK'
  BY <1>9, SendType DEF TypeOK, TrackEvent, SendPing
<1>10. ASSUME NEW r \in Requests, TrackRefused(r)
       PROVE  TypeOK'
  BY <1>10, EnsureType DEF TypeOK, TrackRefused, D!DispatchBlocked
<1>11. ASSUME NEW r \in Requests, NEW b \in BOOLEAN, TrackUnbuildable(r, b)
       PROVE  TypeOK'
  <2>1. stats' \in StatsType
    BY <1>11 DEF TypeOK, TrackUnbuildable, RecordBlocked, StatsType
  <2> QED
    BY <1>11, <2>1, EnsureType DEF TypeOK, TrackUnbuildable
<1>12. CASE Destroy
  BY <1>12 DEF TypeOK, Destroy, D!Destroy, trackerVars, identity, history
<1>13. CASE Construct
  <2>1. NoStats \in StatsType
    BY DEF NoStats, StatsType
  <2>2. /\ clientId' \in Ids /\ pageViewId' \in PageViewIds /\ lastPath' \in {NoId} \cup Paths
        /\ retired' \in [ids : SUBSET Assigned, pageViews : SUBSET Requests]
    BY <1>13, ClearType DEF TypeOK, Construct, ForgetAtConstruction, PageViewIds
  <2>3. shown' \in [consent : ConsentStates, enabled : BOOLEAN, stats : StatsType]
    BY <1>13, <2>1 DEF TypeOK, Construct
  <2> QED
    BY <1>13, <2>1, <2>2, <2>3 DEF TypeOK, Construct
<1>14. CASE DispatcherEvent
  <2>1. UNCHANGED trackerVars /\ UNCHANGED <<alive, called>>
    BY <1>14, DispatcherFrame
  <2>2. \E r : pending' \in {pending, pending \ {r}} /\ armed' \in {armed, armed \ {r}}
               /\ (armed' = armed \ {r} \/ pending' = pending)
    BY <1>14 DEF DispatcherEvent, D!HandleTimeout, D!HandleReplyFinished, D!HandleReplyCancelled,
                 D!ReleaseReply, D!Settle, D!CleanupReply
  <2> QED
    BY <2>1, <2>2 DEF TypeOK, trackerVars, identity, history
<1>15. CASE OnDispatchFinished
  <2>1. stats' \in StatsType
    BY <1>15 DEF TypeOK, OnDispatchFinished, StatsType
  <2> QED
    BY <1>15, <2>1 DEF TypeOK, OnDispatchFinished, D!EmitDispatchFinished, identity, history
<1>16. CASE EmitSignal
  <2>1. shown' \in [consent : ConsentStates, enabled : BOOLEAN, stats : StatsType]
    BY <1>16 DEF TypeOK, EmitSignal, Notify, trackerVars
  <2>2. NoWire \in [request : PageViewIds, id : Ids, pageView : PageViewIds,
                    path : {NoId} \cup Paths, newVisit : BOOLEAN]
    BY DEF NoWire, PageViewIds, Ids
  <2> QED
    BY <1>16, <2>1, <2>2, EmitFrame DEF TypeOK, identity, history
<1>17. CASE UNCHANGED vars
  BY <1>17 DEF TypeOK, vars, dispatcher, trackerVars, identity, history
<1> QED
  BY NextCases, <1>1, <1>2, <1>3, <1>4, <1>5, <1>6, <1>7, <1>8, <1>9, <1>10, <1>11, <1>12, <1>13,
     <1>14, <1>15, <1>16, <1>17

\* The types of the tracker's variables: every operation of Tracker.
THEOREM TypeCorrect == Spec => []TypeOK
BY InitType, TypeStep, PTL DEF Spec

----------------------------------------------------------------------------
(* Identity.                                                               *)

\* What the tracker may still send was not taken away; an ID that a call will
\* generate is not in use yet; a store that keeps nothing has no ID.
IdentityInv ==
    /\ clientId \notin retired.ids /\ pageViewId \notin retired.pageViews
    /\ NoId \notin retired.ids \cup retired.pageViews
    /\ Requests \cap ({clientId, pageViewId} \cup retired.ids \cup retired.pageViews) \subseteq minted
    /\ ~setup.persists => clientId = NoId

\* IdentityInv looks at five variables.
LEMMA IdentityUnchanged ==
    ASSUME IdentityInv, UNCHANGED <<setup, clientId, pageViewId, retired, minted>>
    PROVE  IdentityInv'
BY DEF IdentityInv

\* clearVisitorIdentity()
LEMMA IdentityCleared ==
    ASSUME TypeOK, IdentityInv, ClearVisitorIdentity, Retire, UNCHANGED <<setup, minted>>
    PROVE  IdentityInv'
<1>1. NoId \notin Requests
  BY TrackerAssumption DEF Assigned
<1>2. clientId' = NoId
  BY DEF ClearVisitorIdentity, Stored, IdentityInv
<1>3. /\ retired'.ids = retired.ids \cup ({clientId} \ {NoId})
      /\ retired'.pageViews = retired.pageViews \cup ({pageViewId} \ {NoId})
      /\ pageViewId' = NoId
  BY DEF ClearVisitorIdentity, Retire
<1> QED
  BY <1>1, <1>2, <1>3 DEF IdentityInv

\* ensureClientId(): a new ID is named by a call that was not made before.
LEMMA IdentityEnsured ==
    ASSUME IdentityInv, NEW r \in Requests, EnsureClientId(r),
           UNCHANGED <<setup, retired>>, pageViewId' \in {r, pageViewId}
    PROVE  IdentityInv'
<1>1. r \notin minted /\ minted' = minted \cup {r}
  BY DEF EnsureClientId
<1>2. r \notin retired.ids \cup retired.pageViews
  BY <1>1 DEF IdentityInv
<1>3. clientId' \in {clientId, r}
  BY DEF EnsureClientId, Stored
<1>4. ~setup'.persists => clientId' = NoId
  BY DEF EnsureClientId, Stored, IdentityInv
<1>5. Requests \cap ({clientId', pageViewId'} \cup retired.ids \cup retired.pageViews) \subseteq minted'
  BY <1>1, <1>3 DEF IdentityInv
<1>6. clientId' \notin retired.ids /\ pageViewId' \notin retired.pageViews
  BY <1>2, <1>3 DEF IdentityInv
<1> QED
  BY <1>4, <1>5, <1>6 DEF IdentityInv

LEMMA IdentityInit == Init => IdentityInv
<1>1. ASSUME Init PROVE clientId \notin Requests
  BY <1>1, TrackerAssumption DEF Init, Assigned
<1> QED
  BY <1>1, TrackerAssumption DEF Init, IdentityInv, Assigned

LEMMA IdentityStep == TypeOK /\ IdentityInv /\ [Next]_vars => IdentityInv'
<1> SUFFICES ASSUME TypeOK, IdentityInv, [Next]_vars
             PROVE  IdentityInv'
  OBVIOUS
<1>1. ASSUME UNCHANGED <<setup, identity, minted>>
      PROVE  IdentityInv'
  BY <1>1, IdentityUnchanged DEF identity
<1>2. ASSUME NEW s \in ConsentStates, SetConsentState(s) \/ StoreConsent(s)
      PROVE  IdentityInv'
  BY <1>1, <1>2, IdentityCleared DEF SetConsentState, StoreConsent
<1>3. ASSUME NEW b \in BOOLEAN, SetEnabled(b) \/ TrackBlocked(b)
      PROVE  IdentityInv'
  BY <1>1, <1>3 DEF SetEnabled, TrackBlocked, history
<1>4. ASSUME NEW id \in HostIds \cup {NoId}, SetClientId(id)
      PROVE  IdentityInv'
  <2>1. id \notin Requests
    BY TrackerAssumption DEF Assigned
  <2>2. retired'.ids = retired.ids \ {id} /\ retired'.pageViews = retired.pageViews
    BY <1>4 DEF SetClientId, TypeOK
  <2>3. clientId' = IF setup.persists THEN id ELSE NoId
    BY <1>4 DEF SetClientId, Stored, IdentityInv
  <2>4. UNCHANGED <<setup, pageViewId, minted>>
    BY <1>4 DEF SetClientId, history
  <2>5. NoId \notin Requests
    BY TrackerAssumption DEF Assigned
  <2> QED
    BY <2>1, <2>2, <2>3, <2>4, <2>5 DEF IdentityInv
<1>5. CASE ResetClientId
  BY <1>5, IdentityCleared DEF ResetClientId, history
<1>6. CASE ForceNewVisit \/ ResetCircuitBreaker \/ Destroy \/ DispatcherEvent
  BY <1>1, <1>6, DispatcherFrame DEF ForceNewVisit, ResetCircuitBreaker, Destroy, trackerVars, history
<1>7. ASSUME NEW r \in Requests, NEW p \in Paths, TrackPageView(r, p)
      PROVE  IdentityInv'
  BY <1>7, IdentityEnsured DEF TrackPageView, Send
<1>8. ASSUME NEW r \in Requests, TrackEvent(r) \/ SendPing(r) \/ TrackRefused(r)
      PROVE  IdentityInv'
  BY <1>8, IdentityEnsured DEF TrackEvent, SendPing, Send, TrackRefused
<1>9. ASSUME NEW r \in Requests, NEW b \in BOOLEAN, TrackUnbuildable(r, b)
      PROVE  IdentityInv'
  BY <1>9, IdentityEnsured DEF TrackUnbuildable
<1>10. CASE Construct
  <2>1. CASE consent \in OptOuts
    BY <1>10, <2>1, IdentityCleared DEF Construct, ForgetAtConstruction
  <2>2. CASE consent \notin OptOuts
    <3>1. pageViewId' = NoId /\ UNCHANGED <<setup, clientId, retired, minted>>
      BY <1>10, <2>2 DEF Construct, ForgetAtConstruction
    <3>2. NoId \notin Requests
      BY TrackerAssumption DEF Assigned
    <3> QED
      BY <3>1, <3>2 DEF IdentityInv
  <2> QED
    BY <2>1, <2>2
<1>11. CASE OnDispatchFinished \/ EmitSignal
  BY <1>1, <1>11, EmitFrame DEF OnDispatchFinished, history
<1>12. CASE UNCHANGED vars
  BY <1>1, <1>12 DEF vars, trackerVars, history
<1> QED
  BY NextCases, <1>2, <1>3, <1>4, <1>5, <1>6, <1>7, <1>8, <1>9, <1>10, <1>11, <1>12

\* "Resettable client identifiers": no request carries an ID that an opt-out or
\* a reset took away: clearVisitorIdentity(), ensureClientId(), buildOptions().
THEOREM IdentityCorrect == Spec => NoStaleIdentity
<1>1. TypeOK /\ IdentityInv /\ [Next]_vars
      => [Sends => /\ wire'.id \notin retired.ids
                   /\ wire'.pageView \notin retired.pageViews]_vars
  <2> SUFFICES ASSUME TypeOK, IdentityInv, Next, Sends
               PROVE  /\ wire'.id \notin retired.ids
                      /\ wire'.pageView \notin retired.pageViews
    OBVIOUS
  <2>1. PICK r \in Requests : \E pv \in {r, pageViewId} : \E p : Send(r, pv, p)
    BY OnlySendSends
  <2>2. /\ EnsureClientId(r) /\ UNCHANGED <<setup, retired>>
        /\ wire'.id = clientId' /\ wire'.pageView \in {r, pageViewId}
    BY <2>1 DEF Send
  <2>3. clientId' \notin retired.ids /\ r \notin retired.pageViews
    <3>1. r \notin minted
      BY <2>2 DEF EnsureClientId
    <3>2. clientId' = clientId \/ clientId' = r
      BY <2>2 DEF EnsureClientId, Stored
    <3> QED
      BY <3>1, <3>2 DEF IdentityInv
  <2> QED
    BY <2>2, <2>3 DEF IdentityInv
<1> QED
  BY <1>1, InitType, TypeStep, IdentityInit, IdentityStep, PTL DEF Spec, NoStaleIdentity

----------------------------------------------------------------------------
(* New visits.                                                             *)

\* The request on the wire is of a call that was made.
WireInv == wire.request \in {NoId} \cup minted

\* Only Send() puts a request there, and takes a wish for a new visit back.
LEMMA WireKept ==
    ASSUME Next, ~\E r \in Requests : \E pv, p : Send(r, pv, p)
    PROVE  /\ minted \subseteq minted' /\ wire' \in {wire, NoWire}
           /\ alive => forceNewVisit' \in {forceNewVisit, TRUE}
<1> DEFINE Kept == /\ minted \subseteq minted' /\ wire' \in {wire, NoWire}
                   /\ alive => forceNewVisit' \in {forceNewVisit, TRUE}
<1>1. ASSUME NEW s \in ConsentStates, SetConsentState(s) \/ StoreConsent(s) PROVE Kept
  BY <1>1 DEF SetConsentState, StoreConsent
<1>2. ASSUME NEW b \in BOOLEAN, SetEnabled(b) \/ TrackBlocked(b) PROVE Kept
  BY <1>2 DEF SetEnabled, TrackBlocked, history
<1>3. ASSUME NEW id \in HostIds \cup {NoId}, SetClientId(id) PROVE Kept
  BY <1>3 DEF SetClientId, history
<1>4. CASE ResetClientId \/ ForceNewVisit \/ Construct
  BY <1>4 DEF ResetClientId, ForceNewVisit, Construct, history
<1>5. CASE ResetCircuitBreaker \/ Destroy \/ DispatcherEvent
  BY <1>5, DispatcherFrame DEF ResetCircuitBreaker, Destroy, trackerVars, history
<1>6. ASSUME NEW r \in Requests, TrackRefused(r) PROVE Kept
  BY <1>6 DEF TrackRefused, EnsureClientId
<1>7. ASSUME NEW r \in Requests, NEW b \in BOOLEAN, TrackUnbuildable(r, b) PROVE Kept
  BY <1>7 DEF TrackUnbuildable, EnsureClientId
<1>8. CASE OnDispatchFinished \/ EmitSignal
  BY <1>8, EmitFrame DEF OnDispatchFinished, history
<1> QED
  BY NextCases, <1>1, <1>2, <1>3, <1>4, <1>5, <1>6, <1>7, <1>8 DEF TrackPageView, TrackEvent, SendPing

\* What Send() makes of the wire and of the wish.
LEMMA WireSent ==
    ASSUME WireInv, NEW r \in Requests, NEW pv, NEW p, Send(r, pv, p)
    PROVE  /\ WireInv' /\ Sends
           /\ wire'.newVisit = forceNewVisit /\ forceNewVisit' = FALSE
<1>1. r \notin minted /\ minted' = minted \cup {r}
  BY DEF Send, EnsureClientId
<1>2. wire'.request = r /\ wire'.newVisit = forceNewVisit /\ forceNewVisit' = FALSE
  BY DEF Send
<1>3. NoId \notin Requests
  BY TrackerAssumption DEF Assigned
<1>4. wire' # wire /\ wire' # NoWire
  BY <1>1, <1>2, <1>3 DEF WireInv, NoWire
<1> QED
  BY <1>1, <1>2, <1>4 DEF WireInv, Sends

\* "Forces new_visit=1 on the next dispatched request": forceNewVisit(), the
\* requests that go out, and the calls that the breaker or the builder refuses.
THEOREM NewVisitCorrect == Spec => NewVisitOnce
<1>1. Init => WireInv
  BY DEF Init, WireInv, NoWire
<1>2. WireInv /\ [Next]_vars => WireInv'
  <2> SUFFICES ASSUME WireInv, [Next]_vars
               PROVE  WireInv'
    OBVIOUS
  <2>1. CASE \E r \in Requests : \E pv, p : Send(r, pv, p)
    BY <2>1, WireSent
  <2>2. CASE Next /\ ~\E r \in Requests : \E pv, p : Send(r, pv, p)
    BY <2>2, WireKept DEF WireInv, NoWire
  <2>3. CASE UNCHANGED vars
    BY <2>3 DEF WireInv, vars, trackerVars, history
  <2> QED
    BY <2>1, <2>2, <2>3
<1>3. TypeOK /\ WireInv /\ [Next]_vars
      => [alive => (forceNewVisit /\ ~forceNewVisit' <=> Sends /\ wire'.newVisit)]_vars
  <2> SUFFICES ASSUME TypeOK, WireInv, Next, alive
               PROVE  forceNewVisit /\ ~forceNewVisit' <=> Sends /\ wire'.newVisit
    OBVIOUS
  <2>1. CASE \E r \in Requests : \E pv, p : Send(r, pv, p)
    <3>1. Sends /\ wire'.newVisit = forceNewVisit /\ forceNewVisit' = FALSE
      BY <2>1, WireSent
    <3>2. ~forceNewVisit'
      BY <3>1
    <3>3. wire'.newVisit <=> forceNewVisit
      BY <3>1
    <3> QED
      BY <3>1, <3>2, <3>3, Zenon
  <2>2. CASE ~\E r \in Requests : \E pv, p : Send(r, pv, p)
    <3>1. wire' \in {wire, NoWire} /\ forceNewVisit' \in {forceNewVisit, TRUE}
      BY <2>2, WireKept
    <3>2. ~Sends
      BY <3>1 DEF Sends
    <3>3. forceNewVisit => forceNewVisit'
      BY <3>1, Zenon
    <3> QED
      BY <3>2, <3>3
  <2> QED
    BY <2>1, <2>2
<1> QED
  BY <1>1, <1>2, <1>3, InitType, TypeStep, PTL DEF Spec, NewVisitOnce

----------------------------------------------------------------------------
(* Page views.                                                             *)

\* A reply that there was leaves a trace, and the dispatcher forgets no call.
ReplyType == reply \in [Requests -> {"none", "running", "finished", "released"}]

Kept == \A r \in Requests : reply[r] # "none" => reply'[r] # "none"

LEMMA ReplyStep ==
    ASSUME ReplyType, [Next]_vars
    PROVE  ReplyType' /\ Kept
<1>1. ASSUME UNCHANGED reply PROVE ReplyType' /\ Kept
  BY <1>1 DEF ReplyType, Kept
<1>2. ASSUME NEW r, NEW v \in {"running", "finished", "released"}, reply' = [reply EXCEPT ![r] = v]
      PROVE  ReplyType' /\ Kept
  BY <1>2 DEF ReplyType, Kept
<1>3. ASSUME NEW s \in ConsentStates, SetConsentState(s) \/ StoreConsent(s)
      PROVE  UNCHANGED reply
  BY <1>3 DEF SetConsentState, StoreConsent, dispatcher
<1>4. ASSUME NEW b \in BOOLEAN, SetEnabled(b) \/ TrackBlocked(b)
      PROVE  UNCHANGED reply
  BY <1>4 DEF SetEnabled, TrackBlocked
<1>5. ASSUME NEW id \in HostIds \cup {NoId}, SetClientId(id)
      PROVE  UNCHANGED reply
  BY <1>5 DEF SetClientId, dispatcher
<1>6. CASE ResetClientId \/ ForceNewVisit \/ ResetCircuitBreaker \/ Construct
  BY <1>1, <1>6 DEF ResetClientId, ForceNewVisit, ResetCircuitBreaker, D!ResetCircuitBreaker, Construct,
               dispatcher
<1>7. ASSUME NEW r \in Requests, NEW pv, NEW p, Send(r, pv, p)
      PROVE  reply' = [reply EXCEPT ![r] = "running"]
  BY <1>7 DEF Send, D!Dispatch, D!CreateReply
<1>8. ASSUME NEW r \in Requests, TrackRefused(r)
      PROVE  UNCHANGED reply
  BY <1>8 DEF TrackRefused, D!DispatchBlocked
<1>9. ASSUME NEW r \in Requests, NEW b \in BOOLEAN, TrackUnbuildable(r, b)
      PROVE  UNCHANGED reply
  BY <1>9 DEF TrackUnbuildable
<1>10. CASE Destroy
  <2>1. reply' = [r \in Requests |-> IF r \in pending THEN "released" ELSE reply[r]]
    BY <1>10 DEF Destroy, D!Destroy
  <2> QED
    BY <2>1 DEF ReplyType, Kept
<1>11. CASE DispatcherEvent
  <2>1. \E r : \E v \in {"running", "finished", "released"} : reply' = [reply EXCEPT ![r] = v]
    BY <1>11 DEF DispatcherEvent, D!HandleTimeout, D!HandleReplyFinished, D!HandleReplyCancelled,
                 D!ReleaseReply, D!Settle
  <2> QED
    BY <1>2, <2>1
<1>12. CASE OnDispatchFinished
  BY <1>1, <1>12 DEF OnDispatchFinished, D!EmitDispatchFinished
<1>13. CASE EmitSignal
  BY <1>1, <1>13, EmitFrame
<1>14. CASE UNCHANGED vars
  BY <1>1, <1>14 DEF vars, dispatcher
<1> QED
  BY NextCases, <1>1, <1>2, <1>3, <1>4, <1>5, <1>6, <1>7, <1>8, <1>9, <1>10, <1>11, <1>12, <1>13,
     <1>14 DEF TrackPageView, TrackEvent, SendPing

\* Steps that leave the tracker's page view alone keep it real, and so do those
\* that forget it.
LEMMA PageViewKept ==
    ASSUME TypeOK, PageViewReal, Kept, UNCHANGED <<alive, pageViewId, lastPath, past, pathOf>>
    PROVE  PageViewReal'
<1>1. pageViewId = NoId \/ pageViewId \in Requests
  BY DEF TypeOK, PageViewIds
<1>2. CASE ~alive
  BY <1>2, Zenon DEF PageViewReal
<1>3. CASE pageViewId = NoId
  BY <1>3 DEF PageViewReal
<1>4. CASE alive /\ pageViewId # NoId
  <2>1. reply[pageViewId] # "none" /\ pageViewId \notin past /\ lastPath = pathOf[pageViewId]
    BY <1>4 DEF PageViewReal
  <2>2. reply'[pageViewId] # "none"
    BY <1>1, <1>4, <2>1 DEF Kept
  <2> QED
    BY <2>1, <2>2 DEF PageViewReal
<1> QED
  BY <1>2, <1>3, <1>4

LEMMA PageViewForgotten ==
    ASSUME pageViewId' = NoId, lastPath' = NoId
    PROVE  PageViewReal'
BY DEF PageViewReal

LEMMA PageViewStep == TypeOK /\ ReplyType /\ PageViewReal /\ [Next]_vars => PageViewReal'
<1> SUFFICES ASSUME TypeOK, ReplyType, PageViewReal, [Next]_vars
             PROVE  PageViewReal'
  OBVIOUS
<1>1. Kept
  BY ReplyStep
<1>2. ASSUME UNCHANGED <<alive, pageViewId, lastPath, past, pathOf>>
      PROVE  PageViewReal'
  BY <1>1, <1>2, PageViewKept
<1>3. ASSUME NEW s \in ConsentStates, SetConsentState(s) \/ StoreConsent(s)
      PROVE  PageViewReal'
  <2>1. UNCHANGED <<alive, past, pathOf>>
    BY <1>3 DEF SetConsentState, StoreConsent, dispatcher
  <2>2. UNCHANGED identity \/ ClearVisitorIdentity
    BY <1>3 DEF SetConsentState, StoreConsent
  <2> QED
    BY <1>2, <2>1, <2>2, PageViewForgotten DEF ClearVisitorIdentity, identity
<1>4. ASSUME NEW b \in BOOLEAN, SetEnabled(b) \/ TrackBlocked(b)
      PROVE  PageViewReal'
  BY <1>2, <1>4 DEF SetEnabled, TrackBlocked, identity, history
<1>5. ASSUME NEW id \in HostIds \cup {NoId}, SetClientId(id)
      PROVE  PageViewReal'
  BY <1>2, <1>5 DEF SetClientId, dispatcher, history
<1>6. CASE ResetClientId
  BY <1>6, PageViewForgotten DEF ResetClientId, ClearVisitorIdentity
<1>7. CASE ForceNewVisit \/ ResetCircuitBreaker \/ DispatcherEvent
  BY <1>2, <1>7, DispatcherFrame
     DEF ForceNewVisit, ResetCircuitBreaker, D!ResetCircuitBreaker, dispatcher, identity, history, trackerVars
<1>8. ASSUME NEW r \in Requests, NEW p \in Paths, TrackPageView(r, p)
      PROVE  PageViewReal'
  <2>1. pageViewId' = r /\ lastPath' = p /\ past' = past /\ pathOf'[r] = p
    BY <1>8 DEF TrackPageView, Send, TypeOK
  <2>2. r \notin past
    BY <1>8 DEF TrackPageView, Send, D!Dispatch, TypeOK
  <2>3. reply'[r] = "running"
    BY <1>8 DEF TrackPageView, Send, D!Dispatch, D!CreateReply, ReplyType
  <2>4. r # NoId
    BY TrackerAssumption DEF Assigned
  <2> QED
    BY <2>1, <2>2, <2>3, <2>4 DEF PageViewReal
<1>9. ASSUME NEW r \in Requests, TrackEvent(r) \/ SendPing(r)
      PROVE  PageViewReal'
  BY <1>2, <1>9 DEF TrackEvent, SendPing, Send, D!Dispatch, D!CreateReply
<1>10. ASSUME NEW r \in Requests, TrackRefused(r)
       PROVE  PageViewReal'
  BY <1>2, <1>10 DEF TrackRefused, D!DispatchBlocked
<1>11. ASSUME NEW r \in Requests, NEW b \in BOOLEAN, TrackUnbuildable(r, b)
       PROVE  PageViewReal'
  BY <1>2, <1>11 DEF TrackUnbuildable
<1>12. CASE Destroy
  BY <1>12 DEF Destroy, D!Destroy, PageViewReal
<1>13. CASE Construct
  BY <1>13, PageViewForgotten DEF Construct, ForgetAtConstruction, ClearVisitorIdentity
<1>14. CASE OnDispatchFinished
  BY <1>2, <1>14 DEF OnDispatchFinished, D!EmitDispatchFinished, identity, history
<1>15. CASE EmitSignal
  BY <1>2, <1>15, EmitFrame DEF identity, history
<1>16. CASE UNCHANGED vars
  BY <1>2, <1>16 DEF vars, dispatcher, trackerVars, identity, history
<1> QED
  BY NextCases, <1>3, <1>4, <1>5, <1>6, <1>7, <1>8, <1>9, <1>10, <1>11, <1>12, <1>13, <1>14, <1>15, <1>16

\* Events and pings refer to a page view that went out: trackPageView() settles
\* its ID and path once the dispatcher has agreed.
THEOREM PageViewCorrect == Spec => []PageViewReal
<1>1. Init => ReplyType /\ PageViewReal
  BY DEF Init, D!Init, ReplyType, PageViewReal
<1> QED
  BY <1>1, InitType, TypeStep, ReplyStep, PageViewStep, PTL DEF Spec
=============================================================================
