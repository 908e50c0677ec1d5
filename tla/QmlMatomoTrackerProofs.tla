----------------------- MODULE QmlMatomoTrackerProofs -----------------------
(***************************************************************************)
(* Theorems about the QML singleton, for every set of calls, settings and  *)
(* results and every depth of nested slots.                                *)
(***************************************************************************)
EXTENDS QmlMatomoTracker, FiniteSetTheorems, TLAPS

\* The actions of a step, one disjunct each.
LEMMA NextCases ==
    ASSUME Next
    PROVE \/ \E p \in ConfigProperties : \E v \in Settings[p] : SetConfigProperty(p, v)
          \/ \E b \in BOOLEAN : SetEnabled(b)
          \/ \E b \in BOOLEAN : TrackBlocked(b)
          \/ \E s \in ConsentStates : SetConsentState(s)
          \/ ResetClientId
          \/ ResetCircuitBreaker
          \/ TrackEventNotNumeric
          \/ TrackWithoutTracker
          \/ \E c \in Calls : TrackUnbuildable(c)
          \/ \E c \in Calls : TrackRefused(c)
          \/ \E c \in Calls : TrackSent(c)
          \/ Restart
          \/ StepNext
          \/ \E c \in Calls, result \in Results : Settle(c, result)
  BY DEF Next, HostNext

----------------------------------------------------------------------------
(* Settings.                                                               *)

\* What QML reads of the settings is what the tracker obeys: the setters of
\* the configuration, setEnabled() and ensureTracker().
THEOREM SettingsCorrect == Spec => []SettingsAgree
<1>1. Init => SettingsAgree
  BY DEF Init, SettingsAgree
<1>2. SettingsAgree /\ [Next]_vars => SettingsAgree'
  <2> SUFFICES ASSUME SettingsAgree, [Next]_vars
               PROVE SettingsAgree'
    OBVIOUS
  <2>1. ASSUME NEW p \in ConfigProperties, NEW v \in Settings[p], SetConfigProperty(p, v)
        PROVE SettingsAgree'
    BY <2>1 DEF SetConfigProperty, SettingsAgree, trackerVars
  <2>2. ASSUME NEW b \in BOOLEAN, SetEnabled(b)
        PROVE SettingsAgree'
    BY <2>2 DEF SetEnabled, SettingsAgree
  <2>3. ASSUME EnsureTracker, UNCHANGED <<config, enabled>>
        PROVE SettingsAgree'
    BY <2>3 DEF EnsureTracker, SettingsAgree
  <2>4. ASSUME UNCHANGED <<config, enabled, trackerVars>>
        PROVE SettingsAgree'
    BY <2>4 DEF SettingsAgree, trackerVars
  <2>5. ASSUME NEW b \in BOOLEAN, TrackBlocked(b)
        PROVE SettingsAgree'
    BY <2>3, <2>5 DEF TrackBlocked
  <2>6. ASSUME NEW c \in Calls, Pass(c)
        PROVE SettingsAgree'
    BY <2>3, <2>6 DEF Pass
  <2>7. CASE Restart
    BY <2>7 DEF Restart, SettingsAgree
  <2>8. CASE StepNext
    BY <2>4, <2>8 DEF StepNext, ApplyRequestResult, ApplyDispatchResult, Notify, EmitDispatchFinished
  <2>9. ASSUME NEW c \in Calls, NEW result \in Results, Settle(c, result)
        PROVE SettingsAgree'
    BY <2>4, <2>9 DEF Settle
  <2>10. ASSUME NEW s \in ConsentStates, SetConsentState(s)
         PROVE SettingsAgree'
    BY <2>4, <2>10 DEF SetConsentState
  <2>11. CASE ResetClientId \/ ResetCircuitBreaker \/ TrackEventNotNumeric \/ TrackWithoutTracker
    BY <2>4, <2>11 DEF ResetClientId, ResetCircuitBreaker, TrackEventNotNumeric, TrackWithoutTracker
  <2>12. CASE UNCHANGED vars
    BY <2>4, <2>12 DEF vars
  <2>13. ASSUME NEW c \in Calls, TrackUnbuildable(c) \/ TrackRefused(c) \/ TrackSent(c)
         PROVE SettingsAgree'
    BY <2>6, <2>13 DEF TrackUnbuildable, TrackRefused, TrackSent
  <2> QED
    BY NextCases, <2>1, <2>2, <2>5, <2>7, <2>8, <2>9, <2>10, <2>11, <2>12, <2>13
<1> QED
  BY <1>1, <1>2, PTL DEF Spec

----------------------------------------------------------------------------
(* Identity.                                                               *)

\* The stored ID was not taken away, no ID is stored or taken away before the
\* call that generates it, and the empty string is no ID.
IdentityInv ==
    /\ clientId \notin retired
    /\ NoId \notin retired
    /\ (retired \cup {clientId}) \cap Calls \subseteq made

\* IdentityInv looks at three variables.
LEMMA IdentityUnchanged ==
    ASSUME IdentityInv, UNCHANGED <<clientId, retired, made>>
    PROVE IdentityInv'
  BY DEF IdentityInv

\* clearVisitorIdentity() and the reset at the store.
LEMMA IdentityCleared ==
    ASSUME IdentityInv, ClearClientId, Retire, UNCHANGED made
    PROVE IdentityInv'
<1>1. NoId \notin Calls
  BY QmlAssumption
<1> QED
  BY <1>1 DEF IdentityInv, ClearClientId, Retire, Held

\* ensureClientId(): a new ID is named by a call that was not made before.
LEMMA IdentityEnsured ==
    ASSUME IdentityInv, NEW c \in Calls, Pass(c)
    PROVE IdentityInv' /\ clientId' \notin retired
<1>1. c \notin made /\ made' = made \cup {c} /\ retired' = retired
  BY DEF Pass
<1>2. c \notin retired
  BY <1>1 DEF IdentityInv
<1>3. CASE clientId = NoId
  <2>1. clientId' = c
    BY <1>3 DEF Pass
  <2> QED
    BY <1>1, <1>2, <2>1 DEF IdentityInv
<1>4. CASE clientId # NoId
  <2>1. clientId' = clientId
    BY <1>4 DEF Pass
  <2> QED
    BY <1>1, <2>1 DEF IdentityInv
<1> QED
  BY <1>3, <1>4

\* Every step keeps IdentityInv.
LEMMA IdentityStep == IdentityInv /\ [Next]_vars => IdentityInv'
<1> SUFFICES ASSUME IdentityInv, [Next]_vars
             PROVE IdentityInv'
  OBVIOUS
<1>1. ASSUME UNCHANGED <<stores, dispatching>>
      PROVE IdentityInv'
  BY <1>1, IdentityUnchanged DEF stores, dispatching
<1>2. ASSUME NEW p \in ConfigProperties, NEW v \in Settings[p], SetConfigProperty(p, v)
      PROVE IdentityInv'
  BY <1>1, <1>2 DEF SetConfigProperty
<1>3. ASSUME NEW b \in BOOLEAN, SetEnabled(b)
      PROVE IdentityInv'
  BY <1>1, <1>3 DEF SetEnabled
<1>4. ASSUME NEW b \in BOOLEAN, TrackBlocked(b)
      PROVE IdentityInv'
  <2>1. UNCHANGED made
    BY <1>4 DEF TrackBlocked, dispatching
  <2>2. (ClearClientId /\ Retire) \/ UNCHANGED <<clientId, retired>>
    BY <1>4 DEF TrackBlocked, ForgetAtConstruction
  <2> QED
    BY <2>1, <2>2, IdentityCleared, IdentityUnchanged
<1>5. ASSUME NEW s \in ConsentStates, SetConsentState(s)
      PROVE IdentityInv'
  <2>1. UNCHANGED made
    BY <1>5 DEF SetConsentState, dispatching
  <2>2. (ClearClientId /\ Retire) \/ UNCHANGED <<clientId, retired>>
    BY <1>5 DEF SetConsentState, Spare
  <2> QED
    BY <2>1, <2>2, IdentityCleared, IdentityUnchanged
<1>6. CASE ResetClientId
  BY <1>6, IdentityCleared DEF ResetClientId, dispatching
<1>7. CASE ResetCircuitBreaker \/ Restart
  BY <1>7, IdentityUnchanged DEF ResetCircuitBreaker, Restart, stores
<1>8. CASE TrackEventNotNumeric \/ TrackWithoutTracker
  BY <1>1, <1>8 DEF TrackEventNotNumeric, TrackWithoutTracker
<1>9. ASSUME NEW c \in Calls, TrackUnbuildable(c) \/ TrackRefused(c) \/ TrackSent(c)
      PROVE IdentityInv'
  BY <1>9, IdentityEnsured DEF TrackUnbuildable, TrackRefused, TrackSent
<1>10. CASE StepNext
  BY <1>1, <1>10 DEF StepNext, ApplyRequestResult, ApplyDispatchResult, Notify, EmitDispatchFinished
<1>11. ASSUME NEW c \in Calls, NEW result \in Results, Settle(c, result)
       PROVE IdentityInv'
  BY <1>11, IdentityUnchanged DEF Settle, stores
<1>12. CASE UNCHANGED vars
  BY <1>1, <1>12 DEF vars
<1> QED
  BY NextCases, <1>2, <1>3, <1>4, <1>5, <1>6, <1>7, <1>8, <1>9, <1>10, <1>11, <1>12

\* Only a tracking call that is sent puts a request on the network.
LEMMA OnlySentSends ==
    ASSUME Next, Sends
    PROVE \E c \in Calls : TrackSent(c)
<1>1. ~UNCHANGED wire /\ wire' # NoWire
  BY DEF Sends
<1>2. \A p, v : ~SetConfigProperty(p, v)
  BY <1>1 DEF SetConfigProperty
<1>3. \A b : ~SetEnabled(b) /\ ~TrackBlocked(b)
  BY <1>1 DEF SetEnabled, TrackBlocked
<1>4. \A s : ~SetConsentState(s)
  BY <1>1 DEF SetConsentState
<1>5. ~ResetClientId /\ ~ResetCircuitBreaker /\ ~TrackEventNotNumeric /\ ~TrackWithoutTracker
  BY <1>1 DEF ResetClientId, ResetCircuitBreaker, TrackEventNotNumeric, TrackWithoutTracker
<1>6. \A c : ~TrackUnbuildable(c) /\ ~TrackRefused(c)
  BY <1>1 DEF TrackUnbuildable, TrackRefused
<1>7. ~Restart /\ ~StepNext
  BY <1>1 DEF Restart, StepNext, ApplyRequestResult, ApplyDispatchResult, Notify, EmitDispatchFinished
<1>8. \A c, result : ~Settle(c, result)
  BY <1>1 DEF Settle
<1> QED
  BY NextCases, <1>2, <1>3, <1>4, <1>5, <1>6, <1>7, <1>8

\* No request carries a client ID that was reset, or that was in the store when
\* a tracker was told of an opt-out or was built on one: clearVisitorIdentity(),
\* the tracker's constructor, resetClientId(), ensureClientId().
THEOREM RetiredCorrect == Spec => RetiredStaysRetired
<1>1. Init => IdentityInv
  BY QmlAssumption DEF Init, IdentityInv
<1>2. IdentityInv /\ [Next]_vars => [Sends => wire'.id \notin retired]_vars
  <2> SUFFICES ASSUME IdentityInv, Next, Sends
               PROVE wire'.id \notin retired
    OBVIOUS
  <2>1. PICK c \in Calls : TrackSent(c)
    BY OnlySentSends
  <2>2. wire'.id = clientId'
    BY <2>1 DEF TrackSent
  <2>3. clientId' \notin retired
    BY <2>1, IdentityEnsured DEF TrackSent
  <2> QED
    BY <2>2, <2>3
<1> QED
  BY <1>1, <1>2, IdentityStep, PTL DEF Spec, RetiredStaysRetired
----------------------------------------------------------------------------
(* Type correctness.                                                       *)

\* The properties of MatomoTracker that have a notification.
Properties ==
    {"endpoint", "actionUrlBase", "siteId", "privacyMode", "enabled", "consentState",
     "lastRequestStatus", "lastRequestMessage", "hasDispatchResult", "lastDispatchStatus",
     "lastDispatchHttpStatus", "lastDispatchMessage"}

\* What a handler may leave open.
Steps ==
    {Changed(p) : p \in Properties} \cup {DispatchFinished}
        \cup {Told(result) : result \in ResultType}
        \cup {Return(s, m) : s \in RequestStatuses, m \in Messages}

LEMMA CurrentDomain == DOMAIN Current = Properties /\ DOMAIN Current' = Properties
BY DEF Current, Properties

\* The kind of a step tells what it carries.
LEMMA StepFields ==
    ASSUME NEW f \in Steps
    PROVE  /\ f.signal = "changed" => f.property \in Properties
           /\ f.signal = "Tracker::dispatchFinished" => f.result \in ResultType
           /\ f.signal = "none" => f.result \in RequestResultType
<1>1. CASE f \in {Changed(p) : p \in Properties}
  BY <1>1 DEF Changed
<1>2. CASE f = DispatchFinished
  BY <1>2 DEF DispatchFinished
<1>3. CASE f \in {Told(result) : result \in ResultType}
  BY <1>3 DEF Told
<1>4. CASE f \in {Return(s, m) : s \in RequestStatuses, m \in Messages}
  BY <1>4 DEF Return, RequestResultType
<1> QED BY <1>1, <1>2, <1>3, <1>4 DEF Steps

LEMMA ChangedIfType ==
    ASSUME NEW b, NEW p \in Properties
    PROVE  ChangedIf(b, p) \in Seq(Steps)
<1>1. Changed(p) \in Steps
  BY DEF Steps
<1> QED BY <1>1 DEF ChangedIf

\* The step that comes next is one of the steps, and what is left are steps.
LEMMA TopType ==
    ASSUME stack \in Seq(Steps), stack # <<>>
    PROVE  Top \in Steps /\ Rest \in Seq(Steps)
BY DEF Top, Rest

\* The settings, the switches and the identity.
SettingsType ==
    /\ config \in [ConfigProperties -> UNION {Settings[p] : p \in ConfigProperties}]
    /\ exists \in BOOLEAN /\ enabled \in BOOLEAN /\ trackerEnabled \in BOOLEAN
    /\ consent \in ConsentStates
    /\ clientId \in Calls \cup {OldId, NoId}
    /\ retired \cup spared \in SUBSET (Calls \cup {OldId})

\* The strengthening of the counter: every failure in a row is a call of its own,
\* and so is every call in flight.
CountType ==
    /\ made \in SUBSET Calls /\ inFlight \in SUBSET made
    /\ IsFiniteSet(made)
    /\ failures \in Nat
    /\ failures + Cardinality(inFlight) <= Cardinality(made)

\* The strengthening of the results: what the steps carry has its type.
ResultsType ==
    /\ stack \in Seq(Steps)
    /\ lastRequest \in RequestResultType /\ lastDispatch \in ResultType /\ hasResult \in BOOLEAN
    /\ DOMAIN shown = Properties

LEMMA SettingsTypeStep ==
    ASSUME SettingsType, [Next]_vars
    PROVE  SettingsType'
<1>1. ASSUME UNCHANGED <<config, trackerVars, enabled, stores>> PROVE SettingsType'
  BY <1>1 DEF SettingsType, trackerVars, stores
<1>2. ASSUME ClearClientId, Retire
      PROVE  /\ clientId' \in Calls \cup {OldId, NoId}
             /\ retired' \cup spared' \in SUBSET (Calls \cup {OldId})
  BY <1>2 DEF SettingsType, ClearClientId, Retire, Held
<1>3. EnsureTracker => exists' \in BOOLEAN /\ trackerEnabled' \in BOOLEAN
  BY Zenon DEF SettingsType, EnsureTracker
<1>4. ASSUME NEW p \in ConfigProperties, NEW v \in Settings[p], SetConfigProperty(p, v)
      PROVE  SettingsType'
  <2>1. v \in UNION {Settings[q] : q \in ConfigProperties}
    OBVIOUS
  <2>2. config' \in [ConfigProperties -> UNION {Settings[q] : q \in ConfigProperties}]
    BY <1>4, <2>1 DEF SetConfigProperty, SettingsType
  <2> QED BY <1>4, <2>2 DEF SetConfigProperty, SettingsType, trackerVars, stores
<1>5. ASSUME NEW b \in BOOLEAN, SetEnabled(b) PROVE SettingsType'
  <2>1. trackerEnabled' \in BOOLEAN
    BY <1>5, Zenon DEF SetEnabled, SettingsType
  <2> QED BY <1>5, <2>1 DEF SetEnabled, SettingsType, stores
<1>6. ASSUME NEW b \in BOOLEAN, TrackBlocked(b) PROVE SettingsType'
  <2>1. (ClearClientId /\ Retire) \/ UNCHANGED <<clientId, retired, spared>>
    BY <1>6 DEF TrackBlocked, ForgetAtConstruction
  <2>2. /\ clientId' \in Calls \cup {OldId, NoId}
        /\ retired' \cup spared' \in SUBSET (Calls \cup {OldId})
    BY <1>2, <2>1 DEF SettingsType
  <2> QED BY <1>3, <1>6, <2>2 DEF TrackBlocked, SettingsType
<1>7. ASSUME NEW s \in ConsentStates, SetConsentState(s) PROVE SettingsType'
  <2>1. \/ ClearClientId /\ Retire
        \/ UNCHANGED <<clientId, retired, spared>>
        \/ Spare /\ UNCHANGED clientId
    BY <1>7 DEF SetConsentState
  <2>2. /\ clientId' \in Calls \cup {OldId, NoId}
        /\ retired' \cup spared' \in SUBSET (Calls \cup {OldId})
    BY <1>2, <2>1 DEF SettingsType, Spare, Held
  <2> QED BY <1>7, <2>2 DEF SetConsentState, SettingsType, trackerVars
<1>8. CASE ResetClientId
  BY <1>2, <1>8 DEF ResetClientId, SettingsType, trackerVars
<1>9. ASSUME NEW c \in Calls, Pass(c) PROVE SettingsType'
  <2>1. clientId' \in Calls \cup {OldId, NoId}
    BY <1>9 DEF Pass, SettingsType
  <2> QED BY <1>3, <1>9, <2>1 DEF Pass, SettingsType
<1>10. ASSUME NEW c \in Calls, TrackUnbuildable(c) \/ TrackRefused(c) \/ TrackSent(c)
       PROVE  SettingsType'
  BY <1>9, <1>10 DEF TrackUnbuildable, TrackRefused, TrackSent
<1>11. CASE Restart
  <2>1. DefaultConfig \in [ConfigProperties -> UNION {Settings[p] : p \in ConfigProperties}]
    BY QmlAssumption DEF DefaultConfig, ConfigProperties
  <2> QED BY <1>11, <2>1 DEF Restart, SettingsType, stores
<1>12. CASE ResetCircuitBreaker \/ TrackEventNotNumeric \/ TrackWithoutTracker
  BY <1>1, <1>12 DEF ResetCircuitBreaker, TrackEventNotNumeric, TrackWithoutTracker
<1>13. CASE StepNext \/ (\E c \in Calls, result \in Results : Settle(c, result))
  BY <1>1, <1>13 DEF StepNext, ApplyRequestResult, ApplyDispatchResult, Notify, EmitDispatchFinished,
                     Settle
<1>14. CASE UNCHANGED vars
  BY <1>1, <1>14 DEF vars
<1> QED
  BY NextCases, <1>4, <1>5, <1>6, <1>7, <1>8, <1>10, <1>11, <1>12, <1>13, <1>14

LEMMA CountTypeStep ==
    ASSUME CountType, [Next]_vars
    PROVE  CountType'
<1>1. /\ IsFiniteSet(inFlight) /\ Cardinality(inFlight) \in Nat
      /\ Cardinality(made) \in Nat
  BY FS_Subset, FS_CardinalityType DEF CountType
<1>2. ASSUME UNCHANGED dispatching PROVE CountType'
  BY <1>2 DEF CountType, dispatching
<1>3. ASSUME NEW c \in Calls, Pass(c) PROVE
        /\ made' \in SUBSET Calls /\ c \in made' /\ made \subseteq made'
        /\ IsFiniteSet(made') /\ Cardinality(made') = Cardinality(made) + 1
        /\ c \notin made /\ failures' = failures
  <2>1. c \notin made /\ made' = made \cup {c} /\ failures' = failures
    BY <1>3 DEF Pass
  <2>2. IsFiniteSet(made \cup {c}) /\ Cardinality(made \cup {c}) = Cardinality(made) + 1
    BY <2>1, FS_AddElement DEF CountType
  <2> QED BY <2>1, <2>2 DEF CountType
<1>4. ASSUME NEW c \in Calls, TrackUnbuildable(c) \/ TrackRefused(c) PROVE CountType'
  <2>1. Pass(c) /\ inFlight' = inFlight
    BY <1>4 DEF TrackUnbuildable, TrackRefused
  <2> QED BY <1>1, <1>3, <2>1 DEF CountType
<1>5. ASSUME NEW c \in Calls, TrackSent(c) PROVE CountType'
  <2>1. Pass(c) /\ inFlight' = inFlight \cup {c}
    BY <1>5 DEF TrackSent
  <2>2. c \notin inFlight
    BY <1>3, <2>1 DEF CountType
  <2>3. Cardinality(inFlight') = Cardinality(inFlight) + 1
    BY <1>1, <2>1, <2>2, FS_AddElement
  <2> QED BY <1>1, <1>3, <2>1, <2>3 DEF CountType
<1>6. ASSUME NEW c \in Calls, NEW result \in Results, Settle(c, result) PROVE CountType'
  <2>1. /\ c \in inFlight /\ inFlight' = inFlight \ {c} /\ made' = made
        /\ failures' = 0 \/ failures' = failures + 1
    BY <1>6 DEF Settle
  <2>2. Cardinality(inFlight') = Cardinality(inFlight) - 1
    BY <1>1, <2>1, FS_RemoveElement
  <2>3. IsFiniteSet(inFlight') /\ Cardinality(inFlight') \in Nat
    BY <1>1, <2>1, FS_Subset, FS_CardinalityType
  <2> QED BY <1>1, <2>1, <2>2, <2>3 DEF CountType
<1>7. CASE ResetCircuitBreaker
  <2>1. failures' = 0 /\ inFlight' = inFlight /\ made' = made
    BY <1>7 DEF ResetCircuitBreaker
  <2> QED BY <1>1, <2>1 DEF CountType
<1>8. CASE Restart
  <2>1. failures' = 0 /\ inFlight' = {} /\ made' = made
    BY <1>8 DEF Restart
  <2> QED BY <1>1, <2>1, FS_EmptySet DEF CountType
<1>9. CASE StepNext \/ UNCHANGED vars
  BY <1>2, <1>9 DEF StepNext, ApplyRequestResult, ApplyDispatchResult, Notify, EmitDispatchFinished,
                    vars
<1>10. CASE ResetClientId \/ TrackEventNotNumeric \/ TrackWithoutTracker
  BY <1>2, <1>10 DEF ResetClientId, TrackEventNotNumeric, TrackWithoutTracker
<1>11. ASSUME NEW p, NEW v, SetConfigProperty(p, v) PROVE CountType'
  BY <1>2, <1>11 DEF SetConfigProperty
<1>12. ASSUME NEW b, SetEnabled(b) \/ TrackBlocked(b) PROVE CountType'
  BY <1>2, <1>12 DEF SetEnabled, TrackBlocked
<1>13. ASSUME NEW s, SetConsentState(s) PROVE CountType'
  BY <1>2, <1>13 DEF SetConsentState
<1> QED
  BY NextCases, <1>4, <1>5, <1>6, <1>7, <1>8, <1>9, <1>10, <1>11, <1>12, <1>13

----------------------------------------------------------------------------
(* What the bindings show.                                                 *)

\* The properties that the steps fs are going to notify.
Announced(fs) == {fs[i].property : i \in {j \in DOMAIN fs : fs[j].signal = "changed"}}

LEMMA AnnouncedEmpty == Announced(<<>>) = {}
BY DEF Announced

LEMMA AnnouncedOne ==
    ASSUME NEW f
    PROVE  Announced(<<f>>) = IF f.signal = "changed" THEN {f.property} ELSE {}
BY DEF Announced

LEMMA ChangedIfAnnounced ==
    ASSUME NEW b \in BOOLEAN, NEW p
    PROVE  Announced(ChangedIf(b, p)) = IF b THEN {p} ELSE {}
<1>1. Changed(p).signal = "changed" /\ Changed(p).property = p
  BY DEF Changed
<1> QED BY <1>1, AnnouncedOne, AnnouncedEmpty DEF ChangedIf

\* Nothing that was to be notified is forgotten when a handler goes on.
LEMMA AnnouncedBoth ==
    ASSUME NEW fs \in Seq(Steps), NEW gs \in Seq(Steps)
    PROVE  Announced(fs \o gs) = Announced(fs) \cup Announced(gs)
<1> DEFINE m == Len(fs)
           n == Len(gs)
<1>1. /\ m \in Nat /\ n \in Nat
      /\ DOMAIN fs = 1..m /\ DOMAIN gs = 1..n /\ DOMAIN (fs \o gs) = 1..(m + n)
      /\ \A i \in 1..m : (fs \o gs)[i] = fs[i]
      /\ \A i \in 1..n : (fs \o gs)[m + i] = gs[i]
  OBVIOUS
<1>2. ASSUME NEW p \in Announced(fs \o gs) PROVE p \in Announced(fs) \cup Announced(gs)
  <2>1. PICK i \in 1..(m + n) : (fs \o gs)[i].signal = "changed" /\ (fs \o gs)[i].property = p
    BY <1>1 DEF Announced
  <2>2. CASE i \in 1..m
    BY <1>1, <2>1, <2>2 DEF Announced
  <2>3. CASE i \notin 1..m
    <3>1. i - m \in 1..n /\ i = m + (i - m)
      BY <1>1, <2>3
    <3>2. (fs \o gs)[i] = gs[i - m]
      BY <1>1, <3>1
    <3> QED BY <1>1, <2>1, <3>1, <3>2 DEF Announced
  <2> QED BY <2>2, <2>3
<1>3. ASSUME NEW p \in Announced(fs) PROVE p \in Announced(fs \o gs)
  <2>1. PICK i \in 1..m : fs[i].signal = "changed" /\ fs[i].property = p
    BY <1>1 DEF Announced
  <2>2. i \in 1..(m + n) /\ (fs \o gs)[i] = fs[i]
    BY <1>1
  <2> QED BY <1>1, <2>1, <2>2 DEF Announced
<1>4. ASSUME NEW p \in Announced(gs) PROVE p \in Announced(fs \o gs)
  <2>1. PICK i \in 1..n : gs[i].signal = "changed" /\ gs[i].property = p
    BY <1>1 DEF Announced
  <2>2. m + i \in 1..(m + n) /\ (fs \o gs)[m + i] = gs[i]
    BY <1>1
  <2> QED BY <1>1, <2>1, <2>2 DEF Announced
<1> QED BY <1>2, <1>3, <1>4

\* The step that comes next notifies one property at most.
LEMMA AnnouncedRest ==
    ASSUME stack \in Seq(Steps), stack # <<>>
    PROVE  Announced(stack) \subseteq
             Announced(Rest) \cup IF Top.signal = "changed" THEN {Top.property} ELSE {}
<1> DEFINE n == Len(stack)
<1>1. n \in Nat /\ n > 0 /\ DOMAIN stack = 1..n
  OBVIOUS
<1>2. Rest = SubSeq(stack, 1, n - 1) /\ Top = stack[n]
  BY DEF Rest, Top
<1>3. DOMAIN Rest = 1..(n - 1)
  BY <1>1, <1>2
<1>4. \A i \in 1..(n - 1) : Rest[i] = stack[i]
  BY <1>1, <1>2
<1> HIDE DEF n
<1>5. ASSUME NEW p \in Announced(stack), p \notin Announced(Rest)
      PROVE  Top.signal = "changed" /\ Top.property = p
  <2>1. PICK i \in 1..n : stack[i].signal = "changed" /\ stack[i].property = p
    BY <1>1 DEF Announced
  <2>2. i \notin 1..(n - 1)
    BY <1>3, <1>4, <1>5, <2>1 DEF Announced
  <2>3. i = n
    BY <1>1, <2>1, <2>2
  <2> QED BY <1>2, <2>1, <2>3
<1> QED BY <1>5

\* What the actions change of the notified properties.
LEMMA CurrentKept ==
    ASSUME UNCHANGED <<config, enabled, consent, lastRequest, hasResult, lastDispatch>>
    PROVE  Current' = Current
BY DEF Current

\* The results the library words itself.
LEMMA OwnResults ==
    /\ {"RequestAccepted", "RequestDisabled", "RequestBlockedByPrivacy", "RequestInvalidConfig",
        "RequestInvalidPayload"} \subseteq RequestStatuses
    /\ {"", "config", "not numeric", "payload", "disabled", "privacy", "path", "open"}
         \subseteq Messages
BY QmlAssumption DEF RequestStatuses, OwnMessages

LEMMA BlockedStep ==
    ASSUME NEW complete
    PROVE  Blocked(complete) \in Steps /\ Blocked(complete).signal = "none"
<1>1. PICK s \in RequestStatuses, m \in Messages : Blocked(complete) = Return(s, m)
  BY OwnResults DEF Blocked
<1>2. Return(s, m) \in Steps /\ Return(s, m).signal = "none"
  BY DEF Steps, Return
<1> QED BY <1>1, <1>2

\* A tracking call and a settled request change no property before they return.
LEMMA SilentHandler ==
    ASSUME stack \in Seq(Steps),
           \/ TrackEventNotNumeric
           \/ TrackWithoutTracker
           \/ \E b \in BOOLEAN : TrackBlocked(b)
           \/ \E c \in Calls : TrackUnbuildable(c) \/ TrackRefused(c) \/ TrackSent(c)
           \/ \E c \in Calls, result \in Results : Settle(c, result)
           \/ ResetClientId
           \/ ResetCircuitBreaker
    PROVE  /\ Current' = Current /\ UNCHANGED <<shown, results>>
           /\ \E fs \in Seq(Steps) : stack' = stack \o fs
<1>1. UNCHANGED <<config, enabled, consent, results, shown>>
  BY DEF TrackEventNotNumeric, TrackWithoutTracker, TrackBlocked, TrackUnbuildable, TrackRefused,
         TrackSent, Pass, Settle, ResetClientId, ResetCircuitBreaker, stores
<1>2. Current' = Current
  BY <1>1, CurrentKept DEF results
<1>3. \A s \in RequestStatuses, m \in Messages : Return(s, m) \in Steps
  BY DEF Steps
<1>4. \A result \in ResultType : Told(result) \in Steps
  BY DEF Steps
<1>5. \/ UNCHANGED stack
      \/ \E f \in Steps : stack' = stack \o <<f>>
      \/ \E f, g \in Steps : stack' = stack \o <<f, g>>
  <2>1. CASE TrackEventNotNumeric \/ TrackWithoutTracker
    BY <1>3, <2>1, OwnResults DEF TrackEventNotNumeric, TrackWithoutTracker, Continue
  <2>2. CASE \E b \in BOOLEAN : TrackBlocked(b)
    BY <2>2, BlockedStep DEF TrackBlocked, Continue
  <2>3. CASE \E c \in Calls : TrackUnbuildable(c) \/ TrackSent(c)
    BY <1>3, <2>3, OwnResults DEF TrackUnbuildable, TrackSent, Continue
  <2>4. CASE \E c \in Calls : TrackRefused(c)
    <3>1. [status |-> "CircuitBreakerOpen", httpStatus |-> 0, message |-> "open"] \in ResultType
      BY OwnResults DEF ResultType
    <3> QED BY <1>3, <1>4, <2>4, <3>1, OwnResults DEF TrackRefused, Continue
  <2>5. CASE \E c \in Calls, result \in Results : Settle(c, result)
    BY <1>4, <2>5, QmlAssumption DEF Settle, Continue
  <2>6. CASE ResetClientId \/ ResetCircuitBreaker
    BY <2>6 DEF ResetClientId, ResetCircuitBreaker, control
  <2> QED BY <2>1, <2>2, <2>3, <2>4, <2>5, <2>6
<1>6. \E fs \in Seq(Steps) : stack' = stack \o fs
  <2>1. CASE UNCHANGED stack
    <3>1. <<>> \in Seq(Steps) /\ stack = stack \o <<>>
      OBVIOUS
    <3> QED BY <2>1, <3>1
  <2>2. ASSUME NEW f \in Steps, stack' = stack \o <<f>>
        PROVE  \E fs \in Seq(Steps) : stack' = stack \o fs
    <3>1. <<f>> \in Seq(Steps)
      OBVIOUS
    <3> QED BY <2>2, <3>1
  <2>3. ASSUME NEW f \in Steps, NEW g \in Steps, stack' = stack \o <<f, g>>
        PROVE  \E fs \in Seq(Steps) : stack' = stack \o fs
    <3>1. <<f, g>> \in Seq(Steps)
      OBVIOUS
    <3> QED BY <2>3, <3>1
  <2> QED BY <1>5, <2>1, <2>2, <2>3
<1> QED BY <1>1, <1>2, <1>6

\* A property that QML writes is notified by the handler that changes it.
LEMMA WritingHandler ==
    ASSUME SettingsType, SettingsAgree, stack \in Seq(Steps),
           \/ \E p \in ConfigProperties : \E v \in Settings[p] : SetConfigProperty(p, v)
           \/ \E b \in BOOLEAN : SetEnabled(b)
           \/ \E s \in ConsentStates : SetConsentState(s)
    PROVE  /\ UNCHANGED <<shown, results>>
           /\ \E fs \in Seq(Steps) :
                /\ stack' = stack \o fs
                /\ \A q \in Properties : Current'[q] # Current[q] => q \in Announced(fs)
<1> DEFINE Goal == \E fs \in Seq(Steps) :
                     /\ stack' = stack \o fs
                     /\ \A q \in Properties : Current'[q] # Current[q] => q \in Announced(fs)
<1>1. ASSUME NEW q \in Properties PROVE ChangedIf(TRUE, q) = <<Changed(q)>>
  BY DEF ChangedIf
<1>2. ASSUME NEW q \in Properties, stack' = stack \o <<Changed(q)>>,
             \A p \in Properties : Current'[p] # Current[p] => p = q
      PROVE  Goal
  <2>1. ChangedIf(TRUE, q) \in Seq(Steps) /\ Announced(ChangedIf(TRUE, q)) = {q}
    BY ChangedIfType, ChangedIfAnnounced
  <2> QED BY <1>1, <1>2, <2>1
<1>3. ASSUME NEW p \in ConfigProperties, NEW v \in Settings[p], SetConfigProperty(p, v)
      PROVE  Goal
  <2>1. p \in Properties
    BY DEF ConfigProperties, DefaultConfig, Properties
  <2>2. /\ config' = [config EXCEPT ![p] = v]
        /\ UNCHANGED <<enabled, consent, lastRequest, hasResult, lastDispatch>>
        /\ stack' = stack \o <<Changed(p)>>
    BY <1>3 DEF SetConfigProperty, stores, results, Continue
  <2>3. \A q \in ConfigProperties \ {p} : config'[q] = config[q]
    BY <2>2 DEF SettingsType
  <2>4. ASSUME NEW q \in Properties, q # p PROVE Current'[q] = Current[q]
    BY <2>2, <2>3, <2>4 DEF Current, Properties, ConfigProperties, DefaultConfig
  <2> QED BY <1>2, <2>1, <2>2, <2>4
<1>4. ASSUME NEW b \in BOOLEAN, SetEnabled(b) PROVE Goal
  <2>1. ~exists \/ trackerEnabled # b
    BY <1>4, Zenon DEF SetEnabled, SettingsAgree
  <2>2. ChangedIf(~exists \/ trackerEnabled # b, "enabled") = <<Changed("enabled")>>
    BY <2>1, Zenon DEF ChangedIf
  <2>3. /\ UNCHANGED <<config, consent, lastRequest, hasResult, lastDispatch>>
        /\ stack' = stack \o <<Changed("enabled")>>
    BY <1>4, <2>2 DEF SetEnabled, stores, results, Continue
  <2>4. ASSUME NEW q \in Properties, q # "enabled" PROVE Current'[q] = Current[q]
    BY <2>3, <2>4 DEF Current, Properties
  <2>5. "enabled" \in Properties
    BY DEF Properties
  <2> QED BY <1>2, <2>3, <2>4, <2>5
<1>5. ASSUME NEW s \in ConsentStates, SetConsentState(s) PROVE Goal
  <2>1. /\ UNCHANGED <<config, enabled, lastRequest, hasResult, lastDispatch>>
        /\ stack' = stack \o <<Changed("consentState")>>
    BY <1>5 DEF SetConsentState, results, Continue
  <2>2. ASSUME NEW q \in Properties, q # "consentState" PROVE Current'[q] = Current[q]
    BY <2>1, <2>2 DEF Current, Properties
  <2>3. "consentState" \in Properties
    BY DEF Properties
  <2> QED BY <1>2, <2>1, <2>2, <2>3
<1>6. UNCHANGED <<shown, results>>
  BY DEF SetConfigProperty, SetEnabled, SetConsentState
<1> QED BY <1>3, <1>4, <1>5, <1>6

\* A result that arrives announces what it changes, and a notification that is
\* delivered brings its property up to date.
LEMMA StepHandler ==
    ASSUME ResultsType, StepNext
    PROVE  /\ stack # <<>> /\ Top \in Steps /\ Rest \in Seq(Steps)
           /\ \E fs \in Seq(Steps) :
                /\ stack' = Rest \o fs
                /\ \A q \in Properties : Current'[q] # Current[q] => q \in Announced(fs)
           /\ shown' = IF Top.signal = "changed"
                       THEN [shown EXCEPT ![Top.property] = Current[Top.property]] ELSE shown
           /\ lastRequest' \in RequestResultType /\ lastDispatch' \in ResultType
           /\ hasResult' \in BOOLEAN
<1> DEFINE Announces == \E fs \in Seq(Steps) :
             /\ stack' = Rest \o fs
             /\ \A q \in Properties : Current'[q] # Current[q] => q \in Announced(fs)
<1>1. stack # <<>> /\ Top \in Steps /\ Rest \in Seq(Steps)
  <2>1. stack # <<>>
    BY DEF StepNext, ApplyRequestResult, ApplyDispatchResult, Notify, EmitDispatchFinished, NextUp
  <2> QED BY <2>1, TopType DEF ResultsType
<1>2. lastRequest' \in RequestResultType /\ lastDispatch' \in ResultType /\ hasResult' \in BOOLEAN
  <2>1. Top.signal = "none" => Top.result \in RequestResultType
    BY <1>1, StepFields
  <2>2. Top.signal = "Tracker::dispatchFinished" => Top.result \in ResultType
    BY <1>1, StepFields
  <2> QED BY <2>1, <2>2
          DEF StepNext, ApplyRequestResult, ApplyDispatchResult, Notify, EmitDispatchFinished,
              NextUp, Top, ResultsType, results
<1>3. shown' = IF Top.signal = "changed"
               THEN [shown EXCEPT ![Top.property] = Current[Top.property]] ELSE shown
  BY DEF StepNext, ApplyRequestResult, ApplyDispatchResult, Notify, EmitDispatchFinished, NextUp, Top
<1>4. <<>> \in Seq(Steps)
  OBVIOUS
<1>5. {"lastRequestMessage", "lastRequestStatus", "lastDispatchMessage", "lastDispatchHttpStatus",
       "lastDispatchStatus", "hasDispatchResult"} \subseteq Properties
  BY DEF Properties
<1>6. CASE ApplyRequestResult
  <2> DEFINE a == ChangedIf(lastRequest.message # Top.result.message, "lastRequestMessage")
             b == ChangedIf(lastRequest.status # Top.result.status, "lastRequestStatus")
  <2>1. a \in Seq(Steps) /\ b \in Seq(Steps) /\ a \o b \in Seq(Steps)
    <3>1. a \in Seq(Steps) /\ b \in Seq(Steps)
      BY <1>5, ChangedIfType
    <3> QED BY <3>1
  <2>2. Announced(a \o b) = Announced(a) \cup Announced(b)
    BY <2>1, AnnouncedBoth
  <2>3. /\ Announced(a) = IF lastRequest.message # Top.result.message
                          THEN {"lastRequestMessage"} ELSE {}
        /\ Announced(b) = IF lastRequest.status # Top.result.status
                          THEN {"lastRequestStatus"} ELSE {}
    BY ChangedIfAnnounced
  <2>4. /\ lastRequest' = Top.result /\ stack' = Rest \o (a \o b)
        /\ UNCHANGED <<config, enabled, consent, hasResult, lastDispatch>>
    BY <1>6 DEF ApplyRequestResult, Deliver, stores
  <2> HIDE DEF a, b
  <2>5. ASSUME NEW q \in Properties, Current'[q] # Current[q] PROVE q \in Announced(a \o b)
    <3>1. \/ q = "lastRequestMessage" /\ lastRequest.message # Top.result.message
          \/ q = "lastRequestStatus" /\ lastRequest.status # Top.result.status
      BY <2>4, <2>5 DEF Current, Properties
    <3> QED BY <2>2, <2>3, <3>1
  <2> QED BY <1>1, <1>2, <1>3, <2>1, <2>4, <2>5
<1>7. CASE ApplyDispatchResult
  <2> DEFINE differs(p) == ~hasResult \/ lastDispatch[p] # Top.result[p]
             z == <<DispatchFinished>>
             a == ChangedIf(differs("message"), "lastDispatchMessage")
             b == ChangedIf(differs("httpStatus"), "lastDispatchHttpStatus")
             c == ChangedIf(differs("status"), "lastDispatchStatus")
             d == ChangedIf(~hasResult, "hasDispatchResult")
  <2>1. DispatchFinished \in Steps
    BY DEF Steps
  <2>2. z \in Seq(Steps) /\ a \in Seq(Steps) /\ b \in Seq(Steps) /\ c \in Seq(Steps)
        /\ d \in Seq(Steps)
    <3>1. z \in Seq(Steps)
      BY <2>1
    <3>2. a \in Seq(Steps) /\ b \in Seq(Steps) /\ c \in Seq(Steps) /\ d \in Seq(Steps)
      BY <1>5, ChangedIfType
    <3> QED BY <3>1, <3>2
  <2>3. /\ (differs("message") => "lastDispatchMessage" \in Announced(a))
        /\ (differs("httpStatus") => "lastDispatchHttpStatus" \in Announced(b))
        /\ (differs("status") => "lastDispatchStatus" \in Announced(c))
        /\ (~hasResult => "hasDispatchResult" \in Announced(d))
    BY ChangedIfAnnounced
  <2>4. /\ hasResult' = TRUE /\ lastDispatch' = Top.result
        /\ stack' = Rest \o (z \o a \o b \o c \o d)
        /\ UNCHANGED <<config, enabled, consent, lastRequest>>
    BY <1>7 DEF ApplyDispatchResult, Deliver, stores
  <2>5. ASSUME NEW q \in Properties, Current'[q] # Current[q]
        PROVE  \/ q = "lastDispatchMessage" /\ differs("message")
               \/ q = "lastDispatchHttpStatus" /\ differs("httpStatus")
               \/ q = "lastDispatchStatus" /\ differs("status")
               \/ q = "hasDispatchResult" /\ ~hasResult
    <3>1. q \in {"lastDispatchMessage", "lastDispatchHttpStatus", "lastDispatchStatus",
                 "hasDispatchResult"}
      BY <2>4, <2>5 DEF Current, Properties
    <3>2. CASE q = "lastDispatchMessage"
      BY <2>4, <2>5, <3>2 DEF Current
    <3>3. CASE q = "lastDispatchHttpStatus"
      BY <2>4, <2>5, <3>3 DEF Current
    <3>4. CASE q = "lastDispatchStatus"
      BY <2>4, <2>5, <3>4 DEF Current
    <3>5. CASE q = "hasDispatchResult"
      <4>1. hasResult' # hasResult
        BY <2>5, <3>5 DEF Current
      <4> QED BY <2>4, <3>5, <4>1 DEF ResultsType
    <3> QED BY <3>1, <3>2, <3>3, <3>4, <3>5
  <2> HIDE DEF z, a, b, c, d
  <2>6. /\ z \o a \in Seq(Steps) /\ z \o a \o b \in Seq(Steps) /\ z \o a \o b \o c \in Seq(Steps)
        /\ z \o a \o b \o c \o d \in Seq(Steps)
    BY <2>2
  <2>7. Announced(a) \subseteq Announced(z \o a)
    BY <2>2, AnnouncedBoth
  <2>8. Announced(z \o a \o b) = Announced(z \o a) \cup Announced(b)
    BY <2>2, <2>6, AnnouncedBoth
  <2>9. Announced(z \o a \o b \o c) = Announced(z \o a \o b) \cup Announced(c)
    BY <2>2, <2>6, AnnouncedBoth
  <2>10. Announced(z \o a \o b \o c \o d) = Announced(z \o a \o b \o c) \cup Announced(d)
    BY <2>2, <2>6, AnnouncedBoth
  <2>11. \A q \in Properties :
           Current'[q] # Current[q] => q \in Announced(z \o a \o b \o c \o d)
    BY <2>3, <2>5, <2>7, <2>8, <2>9, <2>10
  <2>12. Announces
    BY <2>4, <2>6, <2>11
  <2> QED BY <1>1, <1>2, <1>3, <2>12
<1>8. CASE Notify \/ EmitDispatchFinished
  <2>1. stack' = Rest \o <<>>
        /\ UNCHANGED <<config, enabled, consent, lastRequest, hasResult, lastDispatch>>
    BY <1>8 DEF Notify, EmitDispatchFinished, Deliver, stores, results
  <2>2. Current' = Current
    BY <2>1, CurrentKept
  <2> QED BY <1>1, <1>2, <1>3, <1>4, <2>1, <2>2
<1> QED BY <1>6, <1>7, <1>8 DEF StepNext

LEMMA ResultsTypeStep ==
    ASSUME SettingsType, SettingsAgree, ResultsType, [Next]_vars
    PROVE  ResultsType'
<1>1. ASSUME UNCHANGED <<shown, results>>, \E fs \in Seq(Steps) : stack' = stack \o fs
      PROVE  ResultsType'
  BY <1>1 DEF ResultsType, results
<1>2. CASE StepNext
  <2>1. PICK fs \in Seq(Steps) : stack' = Rest \o fs /\ Rest \in Seq(Steps)
    BY <1>2, StepHandler
  <2>2. stack' \in Seq(Steps)
    BY <2>1
  <2>3. DOMAIN shown' = Properties
    BY <1>2, StepHandler DEF ResultsType
  <2>4. lastRequest' \in RequestResultType /\ lastDispatch' \in ResultType /\ hasResult' \in BOOLEAN
    BY <1>2, StepHandler
  <2> QED BY <2>2, <2>3, <2>4 DEF ResultsType
<1>3. CASE Restart
  <2>1. lastRequest' = NoRequest /\ lastDispatch' = NoDispatch /\ hasResult' = FALSE
        /\ stack' = stack /\ shown' = Current'
    BY <1>3 DEF Restart, control
  <2>2. NoRequest \in RequestResultType /\ NoDispatch \in ResultType
    BY OwnResults DEF NoRequest, NoDispatch, RequestResultType, ResultType
  <2> QED BY <2>1, <2>2, CurrentDomain DEF ResultsType
<1>4. CASE UNCHANGED vars
  BY <1>4 DEF ResultsType, vars, results, control
<1>5. stack \in Seq(Steps)
  BY DEF ResultsType
<1> QED
  BY NextCases, SilentHandler, WritingHandler, <1>1, <1>2, <1>3, <1>4, <1>5

TypeInv == SettingsType /\ CountType /\ ResultsType

LEMMA TypeInit ==
    ASSUME Init
    PROVE  TypeInv
<1>1. SettingsType
  <2>1. DefaultConfig \in [ConfigProperties -> UNION {Settings[p] : p \in ConfigProperties}]
    BY QmlAssumption DEF DefaultConfig, ConfigProperties
  <2> QED BY <2>1 DEF Init, SettingsType
<1>2. CountType
  BY FS_EmptySet DEF Init, CountType
<1>3. ResultsType
  <2>1. NoRequest \in RequestResultType /\ NoDispatch \in ResultType
    BY OwnResults DEF NoRequest, NoDispatch, RequestResultType, ResultType
  <2>2. <<>> \in Seq(Steps)
    OBVIOUS
  <2> QED BY <2>1, <2>2, CurrentDomain DEF Init, ResultsType
<1> QED BY <1>1, <1>2, <1>3 DEF TypeInv

LEMMA TypeInvImplies ==
    ASSUME TypeInv
    PROVE  TypeOK
<1>1. Cardinality(made) \in Nat /\ Cardinality(inFlight) \in Nat
  BY FS_Subset, FS_CardinalityType DEF TypeInv, CountType
<1>2. failures \in 0..Cardinality(made)
  BY <1>1 DEF TypeInv, CountType
<1> QED BY <1>2, CurrentDomain DEF TypeInv, SettingsType, CountType, ResultsType, TypeOK

LEMMA TypeInvCorrect == Spec => []TypeInv
<1>1. TypeInv /\ SettingsAgree /\ [Next]_vars => TypeInv'
  BY SettingsTypeStep, CountTypeStep, ResultsTypeStep DEF TypeInv
<1> QED BY <1>1, TypeInit, SettingsCorrect, PTL DEF Spec

\* Every reachable state of the singleton is well typed; only calls that were
\* made are in flight, and no two failures in a row are of one call.
THEOREM TypeCorrect == Spec => []TypeOK
BY TypeInvCorrect, TypeInvImplies, PTL

\* What a binding does not show yet stays announced, whatever the step.
LEMMA FreshStep ==
    ASSUME TypeInv, SettingsAgree, ShownFresh, [Next]_vars
    PROVE  ShownFresh'
<1>1. \A q \in Properties : shown[q] # Current[q] => q \in Announced(stack)
  BY CurrentDomain DEF ShownFresh, Announced
<1>2. SUFFICES ASSUME NEW q \in Properties, shown'[q] # Current'[q]
               PROVE  q \in Announced(stack')
  BY CurrentDomain DEF ShownFresh, Announced
<1>3. stack \in Seq(Steps) /\ DOMAIN shown = Properties
  BY DEF TypeInv, ResultsType
<1>4. ASSUME UNCHANGED shown,
             \E fs \in Seq(Steps) :
               /\ stack' = stack \o fs
               /\ \A p \in Properties : Current'[p] # Current[p] => p \in Announced(fs)
      PROVE  q \in Announced(stack')
  <2>1. PICK fs \in Seq(Steps) :
          /\ stack' = stack \o fs
          /\ \A p \in Properties : Current'[p] # Current[p] => p \in Announced(fs)
    BY <1>4
  <2>2. Announced(stack') = Announced(stack) \cup Announced(fs)
    BY <1>3, <2>1, AnnouncedBoth
  <2> QED BY <1>1, <1>2, <1>4, <2>1, <2>2
<1>5. CASE StepNext
  <2>1. PICK fs \in Seq(Steps) :
          /\ stack' = Rest \o fs
          /\ \A p \in Properties : Current'[p] # Current[p] => p \in Announced(fs)
    BY <1>5, StepHandler DEF TypeInv
  <2>2. /\ stack # <<>> /\ Rest \in Seq(Steps)
        /\ shown' = IF Top.signal = "changed"
                    THEN [shown EXCEPT ![Top.property] = Current[Top.property]] ELSE shown
    BY <1>5, StepHandler DEF TypeInv
  <2>3. Announced(stack') = Announced(Rest) \cup Announced(fs)
    BY <2>1, <2>2, AnnouncedBoth
  <2>4. CASE Current'[q] # Current[q]
    BY <2>1, <2>3, <2>4
  <2>5. CASE Current'[q] = Current[q]
    <3>1. ~(Top.signal = "changed" /\ Top.property = q) /\ shown'[q] = shown[q]
      BY <1>2, <1>3, <2>2, <2>5
    <3>2. q \in Announced(Rest)
      BY <1>1, <1>2, <1>3, <2>2, <2>5, <3>1, AnnouncedRest
    <3> QED BY <2>3, <3>2
  <2> QED BY <2>4, <2>5
<1>6. CASE Restart
  BY <1>2, <1>6 DEF Restart
<1>7. CASE UNCHANGED vars
  <2>1. Current' = Current /\ UNCHANGED <<shown, stack>>
    BY <1>7, CurrentKept DEF vars, stores, results, control
  <2> QED BY <1>1, <1>2, <2>1
<1>8. ASSUME Current' = Current, UNCHANGED shown, \E fs \in Seq(Steps) : stack' = stack \o fs
      PROVE  q \in Announced(stack')
  BY <1>4, <1>8
<1> QED
  BY NextCases, SilentHandler, WritingHandler, <1>3, <1>4, <1>5, <1>6, <1>7, <1>8 DEF TypeInv

\* A QML binding on any of the twelve properties shows its value or is about to
\* be notified: applyRequestResult() and applyDispatchResult() announce all that
\* they change, whatever slots track, configure or opt out in between.
THEOREM FreshCorrect == Spec => []ShownFresh
<1>1. Init => ShownFresh
  BY DEF Init, ShownFresh
<1>2. TypeInv /\ SettingsAgree /\ ShownFresh /\ [Next]_vars => ShownFresh'
  BY FreshStep
<1> QED BY <1>1, <1>2, TypeInvCorrect, SettingsCorrect, PTL DEF Spec
=============================================================================
