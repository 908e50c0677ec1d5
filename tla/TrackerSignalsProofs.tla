------------------------ MODULE TrackerSignalsProofs ------------------------
(***************************************************************************)
(* What the slots of the Tracker's signals can rely on: bindings that read *)
(* a property on each notification, and the statistics.  Everything here   *)
(* rests on which steps are on the stack after a push or a pop.            *)
(***************************************************************************)
EXTENDS TrackerProofs, FiniteSetTheorems, SequenceTheorems

----------------------------------------------------------------------------
(* The stack.                                                              *)

\* What the handlers of the tracker and of its dispatcher leave open.
Steps ==
    {D!Finished(r, s) : r \in Requests, s \in D!Statuses}
    \cup {D!DeleteLater(r) : r \in Requests}
    \cup {DispatchFinished(r, s) : r \in Requests, s \in D!Statuses}
    \cup {ConsentStateChanged(s) : s \in ConsentStates}
    \cup {EnabledChanged(b) : b \in BOOLEAN}
    \cup {StatsChanged}

\* A result carries its call, and is what the dispatcher made of it.
LEMMA StepFields ==
    ASSUME NEW f \in Steps, f.signal = "dispatchFinished"
    PROVE  f.request \in Requests /\ f.status \in D!Statuses
<1>1. CASE f \in {D!Finished(r, s) : r \in Requests, s \in D!Statuses}
  BY <1>1 DEF D!Finished
<1>2. CASE f \notin {D!Finished(r, s) : r \in Requests, s \in D!Statuses}
  BY <1>2 DEF Steps, D!DeleteLater, DispatchFinished, ConsentStateChanged, EnabledChanged, StatsChanged
<1> QED
  BY <1>1, <1>2

\* So does a reply to be deleted.
LEMMA DeletedType ==
    ASSUME NEW f \in Steps, f.signal = "none"
    PROVE  f.request \in Requests
<1>1. CASE f \in {D!DeleteLater(r) : r \in Requests}
  BY <1>1 DEF D!DeleteLater
<1>2. CASE f \notin {D!DeleteLater(r) : r \in Requests}
  BY <1>2 DEF Steps, D!Finished, DispatchFinished, ConsentStateChanged, EnabledChanged, StatsChanged
<1> QED
  BY <1>1, <1>2

\* A step that is pushed is announced, and nothing that was is lost.
LEMMA Pushed ==
    ASSUME stack \in Seq(Steps), NEW fs \in Seq(Steps), stack' = stack \o fs
    PROVE  /\ stack' \in Seq(Steps)
           /\ \A signal : Announced(signal) => Announced(signal)'
           /\ \A i \in DOMAIN fs : Announced(fs[i].signal)'
<1>1. stack' \in Seq(Steps)
  OBVIOUS
<1>2. \A i \in DOMAIN stack : i \in DOMAIN stack' /\ stack'[i] = stack[i]
  OBVIOUS
<1>3. \A i \in DOMAIN fs : Len(stack) + i \in DOMAIN stack' /\ stack'[Len(stack) + i] = fs[i]
  OBVIOUS
<1> QED
  BY <1>1, <1>2, <1>3 DEF Announced

\* The stack without its top.
LEMMA RestIs ==
    ASSUME stack \in Seq(Steps), stack # <<>>
    PROVE  /\ Rest \in Seq(Steps)
           /\ Len(Rest) = Len(stack) - 1
           /\ \A i \in 1..(Len(stack) - 1) : Rest[i] = stack[i]
<1>0. Len(stack) \in Nat /\ Len(stack) >= 1
  OBVIOUS
<1> DEFINE n == Len(stack) - 1
<1>1. n \in Nat
  BY <1>0
<1>2. \A i \in 1..n : stack[i] \in Steps
  BY <1>0
<1> HIDE DEF n
<1>3. /\ SubSeq(stack, 1, n) \in Seq(Steps)
      /\ Len(SubSeq(stack, 1, n)) = IF 1 <= n THEN n - 1 + 1 ELSE 0
      /\ \A i \in 1..(n - 1 + 1) : SubSeq(stack, 1, n)[i] = stack[1 + i - 1]
  BY <1>1, <1>2, SubSeqProperties
<1>4. ASSUME NEW i \in 1..n PROVE SubSeq(stack, 1, n)[i] = stack[i]
  <2>1. 1 + i - 1 = i /\ n - 1 + 1 = n
    BY <1>1
  <2> QED
    BY <1>1, <1>3, <2>1
<1>5. Len(SubSeq(stack, 1, n)) = n
  BY <1>1, <1>3
<1> QED
  BY <1>3, <1>4, <1>5 DEF Rest, n

\* A step that is delivered is the only one that is no longer announced.
LEMMA Popped ==
    ASSUME stack \in Seq(Steps), stack # <<>>, NEW fs \in Seq(Steps), stack' = Rest \o fs
    PROVE  /\ stack' \in Seq(Steps)
           /\ \A signal : Announced(signal) /\ signal # Top.signal => Announced(signal)'
           /\ \A i \in DOMAIN fs : Announced(fs[i].signal)'
<1>0. Len(stack) \in Nat /\ Len(stack) >= 1
  OBVIOUS
<1>1. /\ Rest \in Seq(Steps)
      /\ Len(Rest) = Len(stack) - 1
      /\ \A i \in 1..(Len(stack) - 1) : Rest[i] = stack[i]
  BY RestIs
<1>3. stack' \in Seq(Steps)
  BY <1>1
<1>4. \A i \in 1..(Len(stack) - 1) : i \in DOMAIN stack' /\ stack'[i] = stack[i]
  BY <1>0, <1>1
<1>5. \A i \in DOMAIN stack : i = Len(stack) \/ i \in 1..(Len(stack) - 1)
  BY <1>0
<1>6. \A i \in DOMAIN fs : Len(Rest) + i \in DOMAIN stack' /\ stack'[Len(Rest) + i] = fs[i]
  BY <1>1
<1>7. \A signal : Announced(signal) /\ signal # Top.signal => Announced(signal)'
  BY <1>0, <1>4, <1>5 DEF Announced, Top
<1> QED
  BY <1>3, <1>6, <1>7 DEF Announced

\* One step, as what is pushed.
LEMMA OneStep ==
    ASSUME NEW f \in Steps
    PROVE  <<f>> \in Seq(Steps) /\ \E i \in DOMAIN <<f>> : <<f>>[i].signal = f.signal
<1>1. 1 \in DOMAIN <<f>> /\ <<f>>[1] = f
  OBVIOUS
<1> QED
  BY <1>1

\* The breaker's signal has no slot, so it leaves no step.
LEMMA NoBreakerStep == D!BreakerEmission = <<>>
BY DEF D!BreakerEmission, D!Emission, D!BreakerChanged

\* The dispatcher's result does.
LEMMA ResultStep ==
    ASSUME NEW r \in Requests, NEW s \in D!Statuses
    PROVE  D!Emission(D!Finished(r, s)) = <<D!Finished(r, s)>> /\ D!Finished(r, s) \in Steps
BY DEF D!Emission, D!Finished, Steps


----------------------------------------------------------------------------
(* Bindings.                                                               *)

StackType == stack \in Seq(Steps)

\* What there is to come stays announced, and what changes is announced.
Told ==
    /\ \A signal : Announced(signal) => Announced(signal)'
    /\ consent' # consent => Announced("consentStateChanged")'
    /\ enabled' # enabled => Announced("enabledChanged")'
    /\ stats' # stats => Announced("statsChanged")'

LEMMA FreshKept ==
    ASSUME BindingsFresh, Told, UNCHANGED <<alive, shown>>
    PROVE  BindingsFresh'
BY DEF BindingsFresh, Told

\* A push of steps that tell of what changed.
LEMMA FreshPushed ==
    ASSUME StackType, BindingsFresh, UNCHANGED <<alive, shown>>,
           NEW fs \in Seq(Steps), stack' = stack \o fs,
           consent' # consent => \E i \in DOMAIN fs : fs[i].signal = "consentStateChanged",
           enabled' # enabled => \E i \in DOMAIN fs : fs[i].signal = "enabledChanged",
           stats' # stats => \E i \in DOMAIN fs : fs[i].signal = "statsChanged"
    PROVE  StackType' /\ BindingsFresh'
<1>1. /\ stack' \in Seq(Steps)
      /\ \A signal : Announced(signal) => Announced(signal)'
      /\ \A i \in DOMAIN fs : Announced(fs[i].signal)'
  BY Pushed DEF StackType
<1>2. Told
  BY <1>1 DEF Told
<1> QED
  BY <1>1, <1>2, FreshKept DEF StackType

\* Nothing moves that a binding shows.
LEMMA FreshUnchanged ==
    ASSUME StackType, BindingsFresh, UNCHANGED <<alive, shown, stack, consent, enabled, stats>>
    PROVE  StackType' /\ BindingsFresh'
BY DEF StackType, BindingsFresh, Announced

\* A slot of a signal that no binding listens to.
LEMMA FreshPopped ==
    ASSUME StackType, BindingsFresh, UNCHANGED <<alive, shown, consent, enabled>>,
           stack # <<>>, NEW fs \in Seq(Steps), stack' = Rest \o fs,
           Top.signal \notin {"consentStateChanged", "enabledChanged", "statsChanged"},
           stats' # stats => \E i \in DOMAIN fs : fs[i].signal = "statsChanged"
    PROVE  StackType' /\ BindingsFresh'
<1>1. /\ stack' \in Seq(Steps)
      /\ \A signal : Announced(signal) /\ signal # Top.signal => Announced(signal)'
      /\ \A i \in DOMAIN fs : Announced(fs[i].signal)'
  BY Popped DEF StackType
<1> QED
  BY <1>1 DEF StackType, BindingsFresh

\* The counters that a call moves.
LEMMA StatsTold ==
    ASSUME StackType, BindingsFresh, UNCHANGED <<alive, shown, consent, enabled>>,
           stack' = stack \o <<StatsChanged>>
    PROVE  StackType' /\ BindingsFresh'
<1>1. <<StatsChanged>> \in Seq(Steps)
  BY DEF Steps
<1>2. 1 \in DOMAIN <<StatsChanged>> /\ <<StatsChanged>>[1].signal = "statsChanged"
  BY DEF StatsChanged
<1> QED
  BY <1>1, <1>2, FreshPushed

\* The dispatcher's own events: what they push is theirs.
LEMMA FreshDispatcher ==
    ASSUME StackType, BindingsFresh, DispatcherEvent
    PROVE  StackType' /\ BindingsFresh'
<1>1. UNCHANGED trackerVars /\ UNCHANGED <<alive, called>>
  BY DispatcherFrame
<1>2. UNCHANGED <<shown, consent, enabled, stats>>
  BY <1>1 DEF trackerVars
<1>3. ASSUME NEW r \in Requests, NEW s \in D!Statuses, D!Settle(r, s)
      PROVE  StackType' /\ BindingsFresh'
  <2>1. stack' = stack \o (<<D!DeleteLater(r)>> \o <<D!Finished(r, s)>> \o <<>>)
    BY <1>3, NoBreakerStep, ResultStep DEF D!Settle, D!Continue
  <2>2. D!DeleteLater(r) \in Steps
    BY DEF Steps
  <2>3. <<D!DeleteLater(r)>> \o <<D!Finished(r, s)>> \o <<>> \in Seq(Steps)
    BY <2>2, ResultStep
  <2> QED
    BY <1>1, <1>2, <2>1, <2>3, FreshPushed
<1>4. ASSUME NEW r \in Requests, D!HandleTimeout(r)
      PROVE  StackType' /\ BindingsFresh'
  BY <1>3, <1>4 DEF D!HandleTimeout, D!Statuses
<1>5. ASSUME NEW r \in Requests, NEW c \in Completions, D!HandleReplyFinished(r, c)
      PROVE  StackType' /\ BindingsFresh'
  BY <1>3, <1>5 DEF D!HandleReplyFinished, D!Classify, D!Statuses
<1>6. ASSUME NEW r \in Requests, NEW c \in Completions, D!HandleReplyCancelled(r, c)
      PROVE  StackType' /\ BindingsFresh'
  BY <1>1, <1>2, <1>6, FreshUnchanged DEF D!HandleReplyCancelled, D!control
<1>7. CASE D!ReleaseReply
  <2>1. stack # <<>> /\ Top.signal = "none" /\ stack' = Rest \o <<>>
    BY <1>7 DEF D!ReleaseReply, D!NextUp, D!Deliver, D!Rest, Rest, Top
  <2>2. <<>> \in Seq(Steps)
    OBVIOUS
  <2> QED
    BY <1>1, <1>2, <2>1, <2>2, FreshPopped
<1> QED
  BY <1>4, <1>5, <1>6, <1>7 DEF DispatcherEvent

\* onDispatchFinished(): a failure is counted and told.
LEMMA FreshResult ==
    ASSUME TypeOK, StackType, BindingsFresh, OnDispatchFinished
    PROVE  StackType' /\ BindingsFresh'
<1> DEFINE told == <<DispatchFinished(Top.request, Top.status)>>
           fs == IF Top.status = "Success" THEN told ELSE told \o <<StatsChanged>>
<1>1. stack # <<>> /\ Top.signal = "dispatchFinished" /\ stack' = Rest \o fs
  BY DEF OnDispatchFinished, D!EmitDispatchFinished, D!NextUp, D!Deliver, D!Rest, Rest, Top
<1>2. Top \in Steps
  BY <1>1 DEF StackType, Top
<1>3. DispatchFinished(Top.request, Top.status) \in Steps
  BY <1>1, <1>2, StepFields DEF Steps
<1>4. fs \in Seq(Steps)
  <2>1. StatsChanged \in Steps
    BY DEF Steps
  <2> QED
    BY <1>3, <2>1
<1>5. stats' # stats => fs = told \o <<StatsChanged>>
  BY DEF OnDispatchFinished, TypeOK, StatsType
<1>6. fs = told \o <<StatsChanged>> => \E i \in DOMAIN fs : fs[i].signal = "statsChanged"
  <2>1. 2 \in DOMAIN (told \o <<StatsChanged>>) /\ (told \o <<StatsChanged>>)[2] = StatsChanged
    OBVIOUS
  <2>2. StatsChanged.signal = "statsChanged"
    BY DEF StatsChanged
  <2> HIDE DEF fs
  <2> QED
    BY <2>1, <2>2
<1>7. UNCHANGED <<alive, shown, consent, enabled>>
  BY DEF OnDispatchFinished, D!EmitDispatchFinished
<1> HIDE DEF fs
<1> QED
  BY <1>1, <1>4, <1>5, <1>6, <1>7, FreshPopped

\* A notification: the binding on it is read anew, the others wait for theirs.
LEMMA FreshEmit ==
    ASSUME TypeOK, StackType, BindingsFresh, EmitSignal
    PROVE  StackType' /\ BindingsFresh'
<1>1. UNCHANGED <<alive, consent, enabled, stats>>
  BY EmitFrame
<1>2. <<>> \in Seq(Steps)
  OBVIOUS
<1>3. ASSUME NEW signal, NEW field, NEW value, Notify(signal, field, value)
      PROVE  /\ stack # <<>> /\ Top.signal = signal /\ StackType'
             /\ shown' = [shown EXCEPT ![field] = value]
             /\ \A other : Announced(other) /\ other # signal => Announced(other)'
  <2>1. stack # <<>> /\ Top.signal = signal /\ stack' = Rest \o <<>>
    BY <1>3 DEF Notify, NextUp, Deliver, Top
  <2> QED
    BY <1>2, <1>3, <2>1, Popped DEF Notify, StackType
<1>4. CASE Notify("consentStateChanged", "consent", consent)
  <2>1. shown'.consent = consent /\ shown'.enabled = shown.enabled /\ shown'.stats = shown.stats
    BY <1>3, <1>4 DEF TypeOK
  <2> QED
    BY <1>1, <1>3, <1>4, <2>1 DEF BindingsFresh
<1>5. CASE Notify("enabledChanged", "enabled", enabled)
  <2>1. shown'.enabled = enabled /\ shown'.consent = shown.consent /\ shown'.stats = shown.stats
    BY <1>3, <1>5 DEF TypeOK
  <2> QED
    BY <1>1, <1>3, <1>5, <2>1 DEF BindingsFresh
<1>6. CASE Notify("statsChanged", "stats", stats)
  <2>1. shown'.stats = stats /\ shown'.consent = shown.consent /\ shown'.enabled = shown.enabled
    BY <1>3, <1>6 DEF TypeOK
  <2> QED
    BY <1>1, <1>3, <1>6, <2>1 DEF BindingsFresh
<1>7. CASE /\ NextUp("Tracker::dispatchFinished")
           /\ Deliver(<<>>)
           /\ UNCHANGED <<alive, config, breaker, called, pending, armed, reply, reports, seen,
                          trackerVars>>
  <2>1. stack # <<>> /\ Top.signal = "Tracker::dispatchFinished" /\ stack' = Rest \o <<>>
    BY <1>7 DEF NextUp, Deliver, Top
  <2> QED
    BY <1>2, <1>7, <2>1, FreshPopped DEF trackerVars
<1> QED
  BY <1>4, <1>5, <1>6, <1>7 DEF EmitSignal

LEMMA FreshStep ==
    TypeOK /\ TypeOK' /\ StackType /\ BindingsFresh /\ [Next]_vars => StackType' /\ BindingsFresh'
<1> SUFFICES ASSUME TypeOK, TypeOK', StackType, BindingsFresh, [Next]_vars
             PROVE  StackType' /\ BindingsFresh'
  OBVIOUS
<1>1. ASSUME NEW s \in ConsentStates, SetConsentState(s)
      PROVE  StackType' /\ BindingsFresh'
  <2>1. UNCHANGED <<alive, shown, enabled, stats>>
    BY <1>1 DEF SetConsentState
  <2>2. CASE consent' # consent
    <3>1. stack' = stack \o <<ConsentStateChanged(consent')>>
      BY <1>1, <2>2 DEF SetConsentState, Continue
    <3>2. ConsentStateChanged(consent') \in Steps
      BY DEF TypeOK, Steps
    <3>3. ConsentStateChanged(consent').signal = "consentStateChanged"
      BY DEF ConsentStateChanged
    <3>4. /\ <<ConsentStateChanged(consent')>> \in Seq(Steps)
          /\ \E i \in DOMAIN <<ConsentStateChanged(consent')>> :
                <<ConsentStateChanged(consent')>>[i].signal = "consentStateChanged"
      BY <3>2, <3>3, OneStep
    <3> QED
      BY <2>1, <3>1, <3>4, FreshPushed
  <2>3. CASE consent' = consent
    <3>1. stack' = stack
      BY <1>1, <2>3 DEF SetConsentState, Continue, StackType
    <3> QED
      BY <2>1, <2>3, <3>1, FreshUnchanged
  <2> QED
    BY <2>2, <2>3
<1>2. ASSUME NEW s \in ConsentStates, StoreConsent(s)
      PROVE  StackType' /\ BindingsFresh'
  BY <1>2 DEF StoreConsent, dispatcher, BindingsFresh, StackType
<1>3. ASSUME NEW b \in BOOLEAN, SetEnabled(b)
      PROVE  StackType' /\ BindingsFresh'
  <2>1. UNCHANGED <<alive, shown, consent, stats>>
    BY <1>3 DEF SetEnabled
  <2>2. stack' = stack \o <<EnabledChanged(b)>> /\ EnabledChanged(b) \in Steps
    BY <1>3 DEF SetEnabled, Continue, Steps
  <2>3. EnabledChanged(b).signal = "enabledChanged"
    BY DEF EnabledChanged
  <2>4. /\ <<EnabledChanged(b)>> \in Seq(Steps)
        /\ \E i \in DOMAIN <<EnabledChanged(b)>> : <<EnabledChanged(b)>>[i].signal = "enabledChanged"
    BY <2>2, <2>3, OneStep
  <2> QED
    BY <2>1, <2>2, <2>4, FreshPushed
<1>4. ASSUME NEW b \in BOOLEAN, TrackBlocked(b)
      PROVE  StackType' /\ BindingsFresh'
  BY <1>4, StatsTold DEF TrackBlocked, RecordBlocked, Continue
<1>5. ASSUME NEW id \in HostIds \cup {NoId}, SetClientId(id)
      PROVE  StackType' /\ BindingsFresh'
  BY <1>5, FreshUnchanged DEF SetClientId, dispatcher
<1>6. CASE ResetClientId \/ ForceNewVisit
  BY <1>6, FreshUnchanged DEF ResetClientId, ForceNewVisit, dispatcher
<1>7. CASE ResetCircuitBreaker
  <2>1. stack' = stack
    BY <1>7, NoBreakerStep DEF ResetCircuitBreaker, D!ResetCircuitBreaker, D!Continue, StackType
  <2> QED
    BY <1>7, <2>1, FreshUnchanged DEF ResetCircuitBreaker, D!ResetCircuitBreaker, trackerVars
<1>8. ASSUME NEW r \in Requests, NEW pv, NEW p, Send(r, pv, p)
      PROVE  StackType' /\ BindingsFresh'
  BY <1>8, StatsTold DEF Send, D!Dispatch, D!CreateReply, RecordSent, Continue
<1>9. ASSUME NEW r \in Requests, TrackRefused(r)
      PROVE  StackType' /\ BindingsFresh'
  <2>1. stack' = stack \o <<D!Finished(r, "CircuitBreakerOpen")>>
        /\ D!Finished(r, "CircuitBreakerOpen") \in Steps
    BY <1>9, ResultStep DEF TrackRefused, D!DispatchBlocked, D!Continue, D!Statuses
  <2>2. UNCHANGED <<alive, shown, consent, enabled, stats>>
    BY <1>9 DEF TrackRefused, D!DispatchBlocked
  <2>3. <<D!Finished(r, "CircuitBreakerOpen")>> \in Seq(Steps)
    BY <2>1, OneStep
  <2> QED
    BY <2>1, <2>2, <2>3, FreshPushed
<1>10. ASSUME NEW r \in Requests, NEW b \in BOOLEAN, TrackUnbuildable(r, b)
       PROVE  StackType' /\ BindingsFresh'
  BY <1>10, StatsTold DEF TrackUnbuildable, RecordBlocked, Continue
<1>11. CASE Destroy
  BY <1>11 DEF Destroy, D!Destroy, D!control, BindingsFresh, StackType
<1>12. CASE Construct
  BY <1>12 DEF Construct, BindingsFresh, StackType
<1>13. CASE DispatcherEvent
  BY <1>13, FreshDispatcher
<1>14. CASE OnDispatchFinished
  BY <1>14, FreshResult
<1>15. CASE EmitSignal
  BY <1>15, FreshEmit
<1>16. CASE UNCHANGED vars
  BY <1>16, FreshUnchanged DEF vars, dispatcher, trackerVars
<1> QED
  BY NextCases, <1>1, <1>2, <1>3, <1>4, <1>5, <1>6, <1>7, <1>8, <1>9, <1>10, <1>11, <1>12, <1>13,
     <1>14, <1>15, <1>16 DEF TrackPageView, TrackEvent, SendPing

\* A binding on consent, on the switch or on the statistics shows the property,
\* or its notification is still to come: setConsentState(), setEnabled(), the
\* tracking calls, onDispatchFinished().
THEOREM BindingsCorrect == Spec => []BindingsFresh
<1>1. Init => StackType /\ BindingsFresh
  BY DEF Init, D!Init, StackType, BindingsFresh
<1> QED
  BY <1>1, InitType, TypeStep, FreshStep, PTL DEF Spec

----------------------------------------------------------------------------
(* Calls and their results.                                                *)

\* The steps of a stack.
On(fs) == {fs[i] : i \in DOMAIN fs}

IsResult(f) == f.signal = "dispatchFinished"

\* A result to come is the first of a call that is over, of this tracker; a
\* reply to be deleted is one that there was.
Due(f) ==
    /\ IsResult(f) => /\ f.request \in called \ (past \cup pending)
                      /\ reports[f.request] = <<>>
    /\ f.signal = "none" => reply[f.request] # "none"

\* No call has two of them.
Single(fs) ==
    \A i, j \in DOMAIN fs :
        IsResult(fs[i]) /\ IsResult(fs[j]) /\ fs[i].request = fs[j].request => i = j

CallInv ==
    /\ ReplyType /\ reports \in [Requests -> Seq(D!Statuses)]
    /\ IsFiniteSet(called)
    /\ \A r \in Requests \ called : reply[r] = "none" /\ reports[r] = <<>>
    /\ \A r \in pending : reply[r] # "none" /\ reports[r] = <<>> /\ r \notin past
    /\ ~alive => stack = <<>> /\ pending = {}
    /\ \A f \in On(stack) : Due(f)
    /\ Single(stack)

\* A push of steps that are due, about other calls than those below.
LEMMA DuePushed ==
    ASSUME StackType, Single(stack), NEW fs \in Seq(Steps), stack' = stack \o fs,
           \A f \in On(stack) \cup On(fs) : Due(f)', Single(fs),
           \A f \in On(stack), g \in On(fs) : IsResult(f) /\ IsResult(g) => f.request # g.request
    PROVE  (\A f \in On(stack) : Due(f))' /\ Single(stack)'
<1>1. stack \in Seq(Steps) /\ Len(stack) \in Nat
  BY DEF StackType
<1>2. \A i \in DOMAIN stack' :
        \/ i \in DOMAIN stack /\ stack'[i] = stack[i]
        \/ \E k \in DOMAIN fs : i = Len(stack) + k /\ stack'[i] = fs[k]
  <2> SUFFICES ASSUME NEW i \in DOMAIN stack', i \notin DOMAIN stack
               PROVE  \E k \in DOMAIN fs : i = Len(stack) + k /\ stack'[i] = fs[k]
    BY <1>1
  <2>1. i - Len(stack) \in DOMAIN fs /\ i = Len(stack) + (i - Len(stack))
    BY <1>1
  <2> QED
    BY <1>1, <2>1
<1>3. On(stack') \subseteq On(stack) \cup On(fs)
  BY <1>2 DEF On
<1>4. ASSUME NEW i \in DOMAIN stack', NEW j \in DOMAIN stack',
             IsResult(stack'[i]), IsResult(stack'[j]), stack'[i].request = stack'[j].request
      PROVE  i = j
  BY <1>2, <1>4 DEF Single, On
<1>5. Single(stack')
  BY <1>4 DEF Single
<1> QED
  BY <1>3, <1>5 DEF On, Single, IsResult

\* A pop, with a push of steps that are no results.
LEMMA DuePopped ==
    ASSUME StackType, stack # <<>>, Single(stack), NEW fs \in Seq(Steps), stack' = Rest \o fs,
           \A f \in On(Rest) : Due(f)',
           \A f \in On(fs) : ~IsResult(f) /\ f.signal # "none"
    PROVE  (\A f \in On(stack) : Due(f))' /\ Single(stack)'
<1>1. Rest \in Seq(Steps) /\ Len(Rest) \in Nat /\ Len(Rest) = Len(stack) - 1 /\ Len(stack) \in Nat
  BY RestIs DEF StackType
<1>2. \A i \in DOMAIN stack' :
        \/ i \in DOMAIN Rest /\ i \in DOMAIN stack /\ stack'[i] = Rest[i] /\ Rest[i] = stack[i]
        \/ \E k \in DOMAIN fs : stack'[i] = fs[k]
  <2> SUFFICES ASSUME NEW i \in DOMAIN stack'
               PROVE  \/ /\ i \in DOMAIN Rest /\ i \in DOMAIN stack
                         /\ stack'[i] = Rest[i] /\ Rest[i] = stack[i]
                      \/ \E k \in DOMAIN fs : stack'[i] = fs[k]
    OBVIOUS
  <2>1. CASE i \in DOMAIN Rest
    <3>1. i \in 1..(Len(stack) - 1) /\ i \in DOMAIN stack
      BY <1>1, <2>1
    <3>2. Rest[i] = stack[i]
      BY <3>1, RestIs DEF StackType
    <3> QED
      BY <1>1, <2>1, <3>1, <3>2
  <2>2. CASE i \notin DOMAIN Rest
    <3>1. i - Len(Rest) \in DOMAIN fs /\ i = Len(Rest) + (i - Len(Rest))
      BY <1>1, <2>2
    <3> QED
      BY <1>1, <3>1
  <2> QED
    BY <2>1, <2>2
<1>3. \A f : ~IsResult(f) /\ f.signal # "none" => Due(f)'
  BY DEF Due, IsResult
<1>4. On(stack') \subseteq On(Rest) \cup On(fs)
  BY <1>2 DEF On
<1>5. \A f \in On(stack') : Due(f)'
  BY <1>3, <1>4
<1>6. ASSUME NEW i \in DOMAIN stack', NEW j \in DOMAIN stack',
             IsResult(stack'[i]), IsResult(stack'[j]), stack'[i].request = stack'[j].request
      PROVE  i = j
  BY <1>2, <1>6 DEF Single, On
<1>7. Single(stack')
  BY <1>6 DEF Single
<1> QED
  BY <1>5, <1>7 DEF On, Single, IsResult

\* What is under the top, and what the top is.
LEMMA UnderTop ==
    ASSUME StackType, stack # <<>>, Single(stack)
    PROVE  /\ On(Rest) \subseteq On(stack) /\ Top \in On(stack) /\ Top \in Steps
           /\ \A f \in On(Rest) : IsResult(f) /\ IsResult(Top) => f.request # Top.request
<1>1. Len(Rest) = Len(stack) - 1 /\ Len(stack) \in Nat /\ Len(stack) >= 1 /\ Rest \in Seq(Steps)
  BY RestIs DEF StackType
<1>2. ASSUME NEW i \in DOMAIN Rest PROVE i \in DOMAIN stack /\ i # Len(stack) /\ Rest[i] = stack[i]
  <2>1. i \in 1..(Len(stack) - 1)
    BY <1>1
  <2> QED
    BY <1>1, <2>1, RestIs DEF StackType
<1>3. Len(stack) \in DOMAIN stack /\ Top = stack[Len(stack)]
  BY <1>1 DEF Top, StackType
<1> QED
  BY <1>2, <1>3 DEF On, Single, StackType

\* Steps that neither the dispatcher's bookkeeping nor a result is part of.
Plain(fs) == \A f \in On(fs) : ~IsResult(f) /\ f.signal # "none"

\* Handlers of the tracker alone: a push of its signals, or no push.
LEMMA CallsPushed ==
    ASSUME StackType, CallInv, UNCHANGED <<alive, called, pending, reply, reports, past>>,
           NEW fs \in Seq(Steps), stack' = stack \o fs, Plain(fs), alive \/ fs = <<>>
    PROVE  CallInv'
<1>1. \A f : Due(f) => Due(f)'
  BY DEF Due, IsResult
<1>2. \A f \in On(stack) \cup On(fs) : Due(f)'
  BY <1>1 DEF CallInv, Plain, Due, IsResult
<1>3. Single(fs)
  BY DEF Single, Plain, On
<1>4. (\A f \in On(stack) : Due(f))' /\ Single(stack)'
  BY <1>2, <1>3, DuePushed DEF CallInv, Plain
<1>5. ~alive => stack' = <<>>
  BY DEF CallInv
<1> QED
  BY <1>4, <1>5 DEF CallInv, ReplyType

LEMMA CallsUnchanged ==
    ASSUME CallInv, UNCHANGED <<alive, called, pending, reply, reports, past, stack>>
    PROVE  CallInv'
BY DEF CallInv, ReplyType, Single, On, Due, IsResult

\* A slot of the host.
LEMMA CallsPopped ==
    ASSUME StackType, CallInv, UNCHANGED <<alive, called, pending, reply, reports, past>>,
           stack # <<>>, stack' = Rest \o <<>>
    PROVE  CallInv'
<1>1. \A f : Due(f) => Due(f)'
  BY DEF Due, IsResult
<1>2. \A f \in On(Rest) : Due(f)'
  BY <1>1, UnderTop DEF CallInv
<1>3. <<>> \in Seq(Steps) /\ On(<<>>) = {}
  BY DEF On
<1>4. (\A f \in On(stack) : Due(f))' /\ Single(stack)'
  BY <1>2, <1>3, DuePopped DEF CallInv
<1> QED
  BY <1>4 DEF CallInv, ReplyType

\* dispatch() by the tracker: refused, or sent with StatsChanged to come.
LEMMA CallsRefused ==
    ASSUME TypeOK, StackType, CallInv, NEW r \in Requests, TrackRefused(r)
    PROVE  CallInv'
<1> DEFINE g == D!Finished(r, "CircuitBreakerOpen")
<1>1. /\ alive /\ r \notin called /\ called' = called \cup {r}
      /\ UNCHANGED <<alive, pending, reply, reports, past>>
      /\ stack' = stack \o <<g>> /\ g \in Steps
  BY ResultStep DEF TrackRefused, D!DispatchBlocked, D!CanRun, D!Continue, D!Statuses
<1>2. g.signal = "dispatchFinished" /\ g.request = r
  BY DEF D!Finished
<1>3. r \notin past \cup pending /\ reports[r] = <<>>
  BY <1>1 DEF TypeOK, CallInv
<1>4. On(<<g>>) = {g} /\ <<g>> \in Seq(Steps) /\ Single(<<g>>)
  BY <1>1 DEF On, Single
<1> HIDE DEF g
<1>5. \A f \in On(stack) : Due(f)' /\ (IsResult(f) => f.request # r)
  BY <1>1 DEF CallInv, Due, IsResult
<1>6. Due(g)'
  BY <1>1, <1>2, <1>3 DEF Due, IsResult
<1>7. (\A f \in On(stack) : Due(f))' /\ Single(stack)'
  BY <1>1, <1>2, <1>4, <1>5, <1>6, DuePushed DEF CallInv
<1>8. IsFiniteSet(called')
  BY <1>1, FS_AddElement DEF CallInv
<1> QED
  BY <1>1, <1>7, <1>8 DEF CallInv, ReplyType

LEMMA CallsSent ==
    ASSUME TypeOK, StackType, CallInv, NEW r \in Requests, NEW pv, NEW p, Send(r, pv, p)
    PROVE  CallInv'
<1>1. /\ alive /\ r \notin called /\ called' = called \cup {r} /\ pending' = pending \cup {r}
      /\ UNCHANGED <<alive, reports, past>>
      /\ reply' = [reply EXCEPT ![r] = "running"]
      /\ stack' = stack \o <<StatsChanged>>
  BY DEF Send, D!Dispatch, D!CreateReply, D!CanRun, RecordSent, Continue
<1>2. StatsChanged \in Steps /\ StatsChanged.signal = "statsChanged"
  BY DEF Steps, StatsChanged
<1>3. On(<<StatsChanged>>) = {StatsChanged} /\ <<StatsChanged>> \in Seq(Steps) /\ Single(<<StatsChanged>>)
  BY <1>2 DEF On, Single
<1>4. r \notin past /\ reports[r] = <<>>
  BY <1>1 DEF TypeOK, CallInv
<1>5. reply'[r] = "running" /\ \A q \in Requests \ {r} : reply'[q] = reply[q]
  BY <1>1 DEF CallInv, ReplyType
<1>6. Kept /\ ReplyType'
  BY <1>1, <1>5 DEF Kept, CallInv, ReplyType
<1>7. ASSUME NEW f \in On(stack), f \in Steps PROVE Due(f)'
  <2>1. f.signal = "none" => f.request \in Requests
    BY <1>7, DeletedType
  <2> QED
    BY <1>1, <1>6, <1>7, <2>1 DEF CallInv, Due, IsResult, Kept
<1>8. On(stack) \subseteq Steps
  BY DEF On, StackType
<1>9. Due(StatsChanged)'
  BY <1>2 DEF Due, IsResult
<1>10. (\A f \in On(stack) : Due(f))' /\ Single(stack)'
  BY <1>1, <1>2, <1>3, <1>7, <1>8, <1>9, DuePushed DEF CallInv, IsResult
<1>11. IsFiniteSet(called')
  BY <1>1, FS_AddElement DEF CallInv
<1> QED
  BY <1>1, <1>4, <1>5, <1>6, <1>10, <1>11 DEF CallInv, TypeOK

\* A request settles: it is pending no more, and its result and its reply are due.
LEMMA CallsSettled ==
    ASSUME TypeOK, StackType, CallInv, UNCHANGED past,
           NEW r \in Requests, NEW s \in D!Statuses, D!Settle(r, s)
    PROVE  CallInv'
<1> DEFINE d == D!DeleteLater(r)
           g == D!Finished(r, s)
           fs == <<d>> \o <<g>> \o <<>>
<1>1. /\ alive /\ r \in pending /\ pending' = pending \ {r}
      /\ UNCHANGED <<alive, called, reports, past>>
      /\ reply' = [reply EXCEPT ![r] = "finished"]
      /\ stack' = stack \o fs
  BY NoBreakerStep, ResultStep DEF D!Settle, D!CleanupReply, D!CanRun, D!Continue
<1>2. g.signal = "dispatchFinished" /\ g.request = r /\ d.signal = "none" /\ d.request = r
  BY DEF D!Finished, D!DeleteLater
<1>3. g \in Steps /\ d \in Steps
  BY ResultStep DEF Steps
<1> HIDE DEF d, g
<1>4. fs \in Seq(Steps) /\ Len(fs) = 2 /\ fs[1] = d /\ fs[2] = g
  <2>1. /\ <<d>> \o <<g>> \in Seq(Steps) /\ Len(<<d>> \o <<g>>) = 2
        /\ (<<d>> \o <<g>>)[1] = d /\ (<<d>> \o <<g>>)[2] = g
    BY <1>3
  <2>2. fs = <<d>> \o <<g>>
    BY <2>1
  <2> QED
    BY <2>1, <2>2
<1>5. On(fs) = {d, g}
  <2>1. DOMAIN fs = {1, 2}
    BY <1>4
  <2> HIDE DEF fs
  <2> QED
    BY <1>4, <2>1 DEF On
<1>6. Single(fs)
  BY <1>2, <1>4 DEF Single, IsResult
<1>7. r \in called /\ r \notin past /\ reports[r] = <<>>
  BY <1>1 DEF TypeOK, CallInv
<1>8. reply'[r] = "finished" /\ \A q \in Requests \ {r} : reply'[q] = reply[q]
  BY <1>1 DEF CallInv, ReplyType
<1>9. Kept /\ ReplyType'
  BY <1>1, <1>8 DEF Kept, CallInv, ReplyType
<1>10. ASSUME NEW f \in On(stack), f \in Steps PROVE Due(f)' /\ (IsResult(f) => f.request # r)
  <2>1. f.signal = "none" => f.request \in Requests
    BY <1>10, DeletedType
  <2> QED
    BY <1>1, <1>9, <1>10, <2>1 DEF CallInv, Due, IsResult, Kept
<1>11. On(stack) \subseteq Steps
  BY DEF On, StackType
<1>12. Due(d)' /\ Due(g)'
  BY <1>1, <1>2, <1>7, <1>8 DEF Due, IsResult
<1> HIDE DEF fs
<1>13. (\A f \in On(stack) : Due(f))' /\ Single(stack)'
  BY <1>1, <1>2, <1>4, <1>5, <1>6, <1>10, <1>11, <1>12, DuePushed DEF CallInv, IsResult
<1> QED
  BY <1>1, <1>7, <1>8, <1>9, <1>13 DEF CallInv, TypeOK

\* The dispatcher's own events.
LEMMA CallsDispatcher ==
    ASSUME TypeOK, StackType, CallInv, DispatcherEvent
    PROVE  CallInv'
<1>1. UNCHANGED <<past, alive, called>>
  BY DispatcherFrame DEF trackerVars, history
<1>2. ASSUME NEW r \in Requests, D!HandleTimeout(r)
      PROVE  CallInv'
  BY <1>1, <1>2, CallsSettled DEF D!HandleTimeout, D!Statuses
<1>3. ASSUME NEW r \in Requests, NEW c \in Completions, D!HandleReplyFinished(r, c)
      PROVE  CallInv'
  BY <1>1, <1>3, CallsSettled DEF D!HandleReplyFinished, D!Classify, D!Statuses
<1>4. ASSUME NEW r \in Requests, NEW c \in Completions, D!HandleReplyCancelled(r, c)
      PROVE  CallInv'
  <2>1. /\ pending' = pending \ {r} /\ reply' = [reply EXCEPT ![r] = "released"]
        /\ UNCHANGED <<stack, reports>>
    BY <1>4 DEF D!HandleReplyCancelled, D!CleanupReply, D!control
  <2>2. Kept /\ ReplyType'
    BY <2>1 DEF Kept, CallInv, ReplyType
  <2>3. ASSUME NEW f \in On(stack), f \in Steps PROVE Due(f)'
    <3>1. f.signal = "none" => f.request \in Requests
      BY <2>3, DeletedType
    <3> QED
      BY <1>1, <2>1, <2>2, <2>3, <3>1 DEF CallInv, Due, IsResult, Kept
  <2>4. On(stack) \subseteq Steps
    BY DEF On, StackType
  <2>5. (\A f \in On(stack) : Due(f))' /\ Single(stack)'
    BY <2>1, <2>3, <2>4 DEF CallInv, On, Single, IsResult
  <2>6. \A q \in Requests \ called : q # r
    BY <1>4 DEF D!HandleReplyCancelled, TypeOK
  <2>7. \A q \in Requests \ {r} : reply'[q] = reply[q]
    BY <2>1 DEF CallInv, ReplyType
  <2> QED
    BY <1>1, <2>1, <2>2, <2>5, <2>6, <2>7 DEF CallInv, TypeOK
<1>5. CASE D!ReleaseReply
  <2>1. /\ stack # <<>> /\ Top.signal = "none" /\ stack' = Rest \o <<>>
        /\ reply' = [reply EXCEPT ![Top.request] = "released"]
        /\ UNCHANGED <<pending, reports>>
    BY <1>5 DEF D!ReleaseReply, D!NextUp, D!Deliver, D!Rest, D!Top, Rest, Top
  <2>2. Kept /\ ReplyType'
    BY <2>1 DEF Kept, CallInv, ReplyType
  <2>3. Top \in On(stack) /\ Top \in Steps /\ On(Rest) \subseteq On(stack)
    BY <2>1, UnderTop DEF CallInv
  <2>4. Top.request \in Requests /\ reply[Top.request] # "none"
    BY <2>1, <2>3, DeletedType DEF CallInv, Due
  <2>5. ASSUME NEW f \in On(Rest), f \in Steps PROVE Due(f)'
    <3>1. f.signal = "none" => f.request \in Requests
      BY <2>5, DeletedType
    <3>2. Due(f)
      BY <2>3 DEF CallInv
    <3> QED
      BY <1>1, <2>1, <2>2, <3>1, <3>2 DEF Due, IsResult, Kept
  <2>6. On(stack) \subseteq Steps
    BY DEF On, StackType
  <2>7. <<>> \in Seq(Steps) /\ On(<<>>) = {}
    BY DEF On
  <2>8. (\A f \in On(stack) : Due(f))' /\ Single(stack)'
    BY <2>1, <2>3, <2>5, <2>6, <2>7, DuePopped DEF CallInv
  <2>9. \A q \in Requests \ called : q # Top.request
    BY <2>4 DEF CallInv
  <2>10. \A q \in Requests : q # Top.request => reply'[q] = reply[q]
    BY <2>1 DEF CallInv, ReplyType
  <2> QED
    BY <1>1, <2>1, <2>2, <2>8, <2>9, <2>10 DEF CallInv, TypeOK, Kept
<1> QED
  BY <1>2, <1>3, <1>4, <1>5 DEF DispatcherEvent

\* onDispatchFinished(): what it takes from the stack, and what it tells.
LEMMA ResultTaken ==
    ASSUME StackType, CallInv, OnDispatchFinished
    PROVE  /\ stack # <<>> /\ IsResult(Top)
           /\ Top.request \in called \ (past \cup pending) /\ Top.request \in Requests
           /\ Top.status \in D!Statuses /\ reports[Top.request] = <<>>
           /\ reports' = [reports EXCEPT ![Top.request] = <<Top.status>>]
           /\ UNCHANGED <<alive, called, pending, reply, past>>
<1>1. stack # <<>> /\ Top.signal = "dispatchFinished"
  BY DEF OnDispatchFinished, D!EmitDispatchFinished, D!NextUp, Top
<1>2. Top \in On(stack) /\ Top \in Steps
  BY <1>1, UnderTop DEF CallInv
<1>3. /\ Top.request \in called \ (past \cup pending) /\ Top.request \in Requests
      /\ Top.status \in D!Statuses /\ reports[Top.request] = <<>>
  BY <1>1, <1>2, StepFields DEF CallInv, Due, IsResult
<1>4. reports' = [reports EXCEPT ![Top.request] = Append(reports[Top.request], Top.status)]
  BY DEF OnDispatchFinished, D!EmitDispatchFinished, D!Top, Top
<1>5. Append(<<>>, Top.status) = <<Top.status>>
  BY <1>3
<1>6. UNCHANGED <<alive, called, pending, reply, past>>
  BY DEF OnDispatchFinished, D!EmitDispatchFinished, history
<1> QED
  BY <1>1, <1>3, <1>4, <1>5, <1>6 DEF IsResult

LEMMA CallsResult ==
    ASSUME TypeOK, StackType, CallInv, OnDispatchFinished
    PROVE  CallInv'
<1> DEFINE told == <<DispatchFinished(Top.request, Top.status)>>
           fs == IF Top.status = "Success" THEN told ELSE told \o <<StatsChanged>>
<1>1. stack' = Rest \o fs
  BY DEF OnDispatchFinished, D!EmitDispatchFinished, D!Deliver, D!Rest, Rest, D!Top, Top
<1>2. DispatchFinished(Top.request, Top.status) \in Steps /\ StatsChanged \in Steps
  BY ResultTaken DEF Steps
<1> DEFINE f1 == DispatchFinished(Top.request, Top.status)
<1>3. fs \in Seq(Steps) /\ On(fs) \subseteq {f1, StatsChanged}
  <2>1. told \in Seq(Steps) /\ Len(told) = 1 /\ told[1] = f1 /\ told = <<f1>>
    BY <1>2
  <2>0. f1 \in Steps
    BY <1>2
  <2> HIDE DEF f1, told
  <2>2. CASE Top.status = "Success"
    <3>1. DOMAIN told = {1} /\ fs = told
      BY <2>1, <2>2
    <3> QED
      BY <2>1, <3>1 DEF On
  <2>3. CASE Top.status # "Success"
    <3>1. /\ <<f1>> \o <<StatsChanged>> \in Seq(Steps) /\ Len(<<f1>> \o <<StatsChanged>>) = 2
          /\ (<<f1>> \o <<StatsChanged>>)[1] = f1 /\ (<<f1>> \o <<StatsChanged>>)[2] = StatsChanged
      BY <2>0, <1>2
    <3>2. fs = <<f1>> \o <<StatsChanged>>
      BY <2>1, <2>3
    <3> HIDE DEF fs
    <3>3. DOMAIN fs = {1, 2} /\ fs[1] = f1 /\ fs[2] = StatsChanged /\ fs \in Seq(Steps)
      <4>1. fs \in Seq(Steps) /\ Len(fs) = 2 /\ fs[1] = f1 /\ fs[2] = StatsChanged
        BY <3>1, <3>2, Zenon
      <4> QED
        BY <4>1
    <3> QED
      BY <3>3 DEF On
  <2> QED
    BY <2>2, <2>3
<1>4. \A f \in On(fs) : ~IsResult(f) /\ f.signal # "none"
  BY <1>3 DEF IsResult, DispatchFinished, StatsChanged
<1>5. stack # <<>> /\ IsResult(Top) /\ On(Rest) \subseteq On(stack)
      /\ \A f \in On(Rest) : IsResult(f) => f.request # Top.request
  <2>1. stack # <<>> /\ IsResult(Top) /\ Single(stack)
    BY ResultTaken DEF CallInv
  <2> QED
    BY <2>1, UnderTop
<1>6. \A q \in Requests : q # Top.request => reports'[q] = reports[q]
  BY ResultTaken DEF CallInv
<1>7. ASSUME NEW f \in On(Rest) PROVE Due(f)'
  <2>1. Due(f) /\ UNCHANGED <<called, past, pending, reply>>
    BY <1>5, ResultTaken DEF CallInv
  <2>2. IsResult(f) => f.request \in Requests /\ f.request # Top.request
    BY <1>5, <2>1 DEF Due, TypeOK
  <2> QED
    BY <1>6, <2>1, <2>2 DEF Due, IsResult
<1> HIDE DEF fs
<1>8. (\A f \in On(stack) : Due(f))' /\ Single(stack)'
  BY <1>1, <1>3, <1>4, <1>5, <1>7, DuePopped DEF CallInv
<1>9. reports' \in [Requests -> Seq(D!Statuses)]
  <2>1. <<Top.status>> \in Seq(D!Statuses)
    BY ResultTaken
  <2> QED
    BY <2>1, ResultTaken DEF CallInv
<1>10. \A q \in (Requests \ called) \cup pending : reports'[q] = reports[q]
  BY <1>6, ResultTaken DEF TypeOK
<1>11. alive
  BY <1>5 DEF CallInv
<1> QED
  BY <1>8, <1>9, <1>10, <1>11, ResultTaken DEF CallInv, ReplyType

LEMMA CallStep ==
    ASSUME TypeOK, StackType, CallInv, [Next]_vars
    PROVE  CallInv'
<1>1. Plain(<<>>) /\ <<>> \in Seq(Steps)
  BY DEF Plain, On
<1>2. ASSUME NEW f \in Steps, ~IsResult(f), f.signal # "none"
      PROVE  Plain(<<f>>) /\ <<f>> \in Seq(Steps)
  BY <1>2 DEF Plain, On
<1>3. ASSUME NEW s \in ConsentStates, SetConsentState(s)
      PROVE  CallInv'
  <2>1. UNCHANGED <<alive, called, pending, reply, reports, past>> /\ alive
    BY <1>3 DEF SetConsentState, D!CanRun
  <2>2. CASE consent' # consent
    <3>1. stack' = stack \o <<ConsentStateChanged(consent')>>
      BY <1>3, <2>2 DEF SetConsentState, Continue
    <3>2. ConsentStateChanged(consent') \in Steps
      BY <1>3 DEF SetConsentState, Stored, TypeOK, Steps
    <3>3. ~IsResult(ConsentStateChanged(consent')) /\ ConsentStateChanged(consent').signal # "none"
      BY DEF ConsentStateChanged, IsResult
    <3> QED
      BY <1>2, <2>1, <3>1, <3>2, <3>3, CallsPushed
  <2>3. CASE consent' = consent
    <3>1. stack' = stack
      BY <1>3, <2>3 DEF SetConsentState, Continue, StackType
    <3> QED
      BY <2>1, <3>1, CallsUnchanged
  <2> QED
    BY <2>2, <2>3
<1>4. ASSUME NEW s \in ConsentStates, StoreConsent(s)
      PROVE  CallInv'
  BY <1>4, CallsUnchanged DEF StoreConsent, dispatcher
<1>5. ASSUME NEW b \in BOOLEAN, SetEnabled(b)
      PROVE  CallInv'
  <2>1. UNCHANGED <<alive, called, pending, reply, reports, past>> /\ alive
    BY <1>5 DEF SetEnabled, history, D!CanRun
  <2>2. stack' = stack \o <<EnabledChanged(b)>> /\ EnabledChanged(b) \in Steps
    BY <1>5 DEF SetEnabled, Continue, Steps
  <2>3. ~IsResult(EnabledChanged(b)) /\ EnabledChanged(b).signal # "none"
    BY DEF EnabledChanged, IsResult
  <2> QED
    BY <1>2, <2>1, <2>2, <2>3, CallsPushed
<1>6. /\ StatsChanged \in Steps /\ ~IsResult(StatsChanged) /\ StatsChanged.signal # "none"
  BY DEF Steps, StatsChanged, IsResult
<1>7. ASSUME NEW b \in BOOLEAN, TrackBlocked(b)
      PROVE  CallInv'
  <2>1. UNCHANGED <<alive, called, pending, reply, reports, past>> /\ alive
        /\ stack' = stack \o <<StatsChanged>>
    BY <1>7 DEF TrackBlocked, RecordBlocked, Continue, history, D!CanRun
  <2> QED
    BY <1>2, <1>6, <2>1, CallsPushed
<1>8. ASSUME NEW r \in Requests, NEW b \in BOOLEAN, TrackUnbuildable(r, b)
      PROVE  CallInv'
  <2>1. UNCHANGED <<alive, called, pending, reply, reports, past>> /\ alive
        /\ stack' = stack \o <<StatsChanged>>
    BY <1>8 DEF TrackUnbuildable, RecordBlocked, Continue, D!CanRun
  <2> QED
    BY <1>2, <1>6, <2>1, CallsPushed
<1>9. ASSUME NEW id \in HostIds \cup {NoId}, SetClientId(id)
      PROVE  CallInv'
  BY <1>9, CallsUnchanged DEF SetClientId, dispatcher, history
<1>10. CASE ResetClientId \/ ForceNewVisit
  BY <1>10, CallsUnchanged DEF ResetClientId, ForceNewVisit, dispatcher, history
<1>11. CASE ResetCircuitBreaker
  <2>1. stack' = stack
    BY <1>11, NoBreakerStep DEF ResetCircuitBreaker, D!ResetCircuitBreaker, D!Continue, StackType
  <2> QED
    BY <1>11, <2>1, CallsUnchanged
       DEF ResetCircuitBreaker, D!ResetCircuitBreaker, trackerVars, history
<1>12. ASSUME NEW r \in Requests, NEW pv, NEW p, Send(r, pv, p)
       PROVE  CallInv'
  BY <1>12, CallsSent
<1>13. ASSUME NEW r \in Requests, TrackRefused(r)
       PROVE  CallInv'
  BY <1>13, CallsRefused
<1>14. CASE Destroy
  <2>1. /\ stack' = <<>> /\ stack = <<>> /\ pending' = {} /\ UNCHANGED <<called, reports, past>>
        /\ reply' = [r \in Requests |-> IF r \in pending THEN "released" ELSE reply[r]]
    BY <1>14 DEF Destroy, D!Destroy, D!control, trackerVars, history
  <2>2. ReplyType' /\ \A r \in Requests \ called : reply'[r] = "none"
    BY <2>1 DEF CallInv, ReplyType, TypeOK
  <2> QED
    BY <2>1, <2>2 DEF CallInv, On, Single
<1>15. CASE Construct
  <2>1. /\ stack' = <<>> /\ stack = <<>> /\ pending' = {}
        /\ UNCHANGED <<called, reply, reports>>
    BY <1>15 DEF Construct, CallInv
  <2> QED
    BY <2>1 DEF CallInv, ReplyType, On, Single
<1>16. CASE DispatcherEvent
  BY <1>16, CallsDispatcher
<1>17. CASE OnDispatchFinished
  BY <1>17, CallsResult
<1>18. CASE EmitSignal
  <2>1. stack # <<>> /\ stack' = Rest \o <<>>
    BY <1>18 DEF EmitSignal, Notify, NextUp, Deliver
  <2> QED
    BY <1>18, <2>1, CallsPopped, EmitFrame DEF history
<1>19. CASE UNCHANGED vars
  BY <1>19, CallsUnchanged DEF vars, dispatcher, trackerVars, history
<1> QED
  BY NextCases, <1>3, <1>4, <1>5, <1>7, <1>8, <1>9, <1>10, <1>11, <1>12, <1>13, <1>14, <1>15, <1>16,
     <1>17, <1>18, <1>19 DEF TrackPageView, TrackEvent, SendPing

\* The requests of this tracker that went out, and the results of it that are no success.
SentSet == {r \in called \ past : reply[r] # "none"}
FailedSet == {r \in called \ past : reports[r] # <<>> /\ reports[r][1] # "Success"}

LEMMA AccountFinite ==
    ASSUME CallInv
    PROVE  IsFiniteSet(SentSet) /\ IsFiniteSet(FailedSet)
<1>1. SentSet \in SUBSET called /\ FailedSet \in SUBSET called
  BY DEF SentSet, FailedSet
<1> QED
  BY <1>1, FS_Subset DEF CallInv

\* Nothing is sent, and no result is told.
LEMMA AccountKept ==
    ASSUME StatsAccount, UNCHANGED <<alive, past>>, stats'.sent = stats.sent,
           stats'.failed = stats.failed, SentSet' = SentSet, FailedSet' = FailedSet
    PROVE  StatsAccount'
BY DEF StatsAccount, SentSet, FailedSet

LEMMA AccountIdle ==
    ASSUME StatsAccount, UNCHANGED <<alive, called, past, reply, reports>>,
           stats'.sent = stats.sent, stats'.failed = stats.failed
    PROVE  StatsAccount'
BY DEF StatsAccount

LEMMA AccountSent ==
    ASSUME TypeOK, CallInv, StatsAccount, NEW r \in Requests, NEW pv, NEW p, Send(r, pv, p)
    PROVE  StatsAccount'
<1>1. /\ alive /\ alive' /\ r \notin called /\ called' = called \cup {r}
      /\ UNCHANGED <<reports, past>>
      /\ reply' = [reply EXCEPT ![r] = "running"]
      /\ stats' = [stats EXCEPT !.sent = @ + 1]
  BY DEF Send, D!Dispatch, D!CreateReply, D!CanRun, RecordSent
<1>2. r \notin past /\ reports[r] = <<>> /\ called \subseteq Requests
  BY <1>1 DEF TypeOK, CallInv
<1>3. reply'[r] = "running" /\ \A q \in Requests \ {r} : reply'[q] = reply[q]
  BY <1>1 DEF CallInv, ReplyType
<1>4. SentSet' = SentSet \cup {r} /\ r \notin SentSet /\ FailedSet' = FailedSet
  BY <1>1, <1>2, <1>3 DEF SentSet, FailedSet
<1>5. Cardinality(SentSet') = Cardinality(SentSet) + 1
  BY <1>4, AccountFinite, FS_AddElement
<1>6. stats'.sent = stats.sent + 1 /\ stats'.failed = stats.failed
  BY <1>1 DEF TypeOK, StatsType
<1>7. stats.sent = Cardinality(SentSet) /\ stats.failed = Cardinality(FailedSet)
  BY <1>1 DEF StatsAccount, SentSet, FailedSet
<1>8. stats'.sent = Cardinality(SentSet') /\ stats'.failed = Cardinality(FailedSet')
  BY <1>4, <1>5, <1>6, <1>7
<1> QED
  BY <1>8 DEF StatsAccount, SentSet, FailedSet

LEMMA AccountRefused ==
    ASSUME TypeOK, CallInv, StatsAccount, NEW r \in Requests, TrackRefused(r)
    PROVE  StatsAccount'
<1>1. /\ r \notin called /\ called' = called \cup {r}
      /\ UNCHANGED <<alive, reports, reply, past, stats>>
  BY DEF TrackRefused, D!DispatchBlocked, D!CanRun
<1>2. reply[r] = "none" /\ reports[r] = <<>>
  BY <1>1 DEF CallInv
<1>3. SentSet' = SentSet /\ FailedSet' = FailedSet
  BY <1>1, <1>2 DEF SentSet, FailedSet
<1> QED
  BY <1>1, <1>3, AccountKept

\* The dispatcher's events are about replies that there are.
LEMMA AccountDispatcher ==
    ASSUME TypeOK, StackType, CallInv, StatsAccount, DispatcherEvent
    PROVE  StatsAccount'
<1>1. UNCHANGED <<alive, called, past, stats>>
  BY DispatcherFrame DEF trackerVars, history
<1>2. UNCHANGED reports
  BY DEF DispatcherEvent, D!HandleTimeout, D!HandleReplyFinished, D!HandleReplyCancelled,
         D!Settle, D!ReleaseReply
<1>3. \E q \in Requests : \E v \in {"finished", "released"} :
         reply[q] # "none" /\ reply' = [reply EXCEPT ![q] = v]
  <2>1. CASE D!ReleaseReply
    <3>1. stack # <<>> /\ Top.signal = "none" /\ reply' = [reply EXCEPT ![Top.request] = "released"]
      BY <2>1 DEF D!ReleaseReply, D!NextUp, D!Top, Top
    <3>2. Top \in On(stack) /\ Top \in Steps
      BY <3>1, UnderTop DEF CallInv
    <3>3. Top.request \in Requests /\ reply[Top.request] # "none"
      BY <3>1, <3>2, DeletedType DEF CallInv, Due
    <3> QED
      BY <3>1, <3>3
  <2>2. CASE ~D!ReleaseReply
    <3>1. \E q \in pending : \E v \in {"finished", "released"} : reply' = [reply EXCEPT ![q] = v]
      BY <2>2 DEF DispatcherEvent, D!HandleTimeout, D!HandleReplyFinished, D!HandleReplyCancelled,
                  D!Settle
    <3> QED
      BY <3>1 DEF CallInv, TypeOK
  <2> QED
    BY <2>1, <2>2
<1>4. \A q \in Requests : reply'[q] = "none" <=> reply[q] = "none"
  BY <1>3 DEF CallInv, ReplyType
<1>5. SentSet' = SentSet /\ FailedSet' = FailedSet
  BY <1>1, <1>2, <1>4 DEF SentSet, FailedSet, TypeOK
<1> QED
  BY <1>1, <1>5, AccountKept

LEMMA AccountResult ==
    ASSUME TypeOK, StackType, CallInv, StatsAccount, OnDispatchFinished
    PROVE  StatsAccount'
<1> DEFINE r == Top.request
           s == Top.status
<1>1. /\ r \in called \ past /\ r \in Requests /\ reports[r] = <<>>
      /\ reports' = [reports EXCEPT ![r] = <<s>>]
      /\ UNCHANGED <<alive, called, pending, reply, past>>
      /\ stack # <<>>
  BY ResultTaken
<1>2. stats' = [stats EXCEPT !.failed = IF s = "Success" THEN @ ELSE @ + 1]
  BY DEF OnDispatchFinished
<1> HIDE DEF r, s
<1>3. alive
  BY <1>1 DEF CallInv
<1>4. reports'[r] = <<s>> /\ \A q \in Requests \ {r} : reports'[q] = reports[q]
  BY <1>1 DEF CallInv
<1>5. <<s>> # <<>> /\ <<s>>[1] = s
  OBVIOUS
<1>6. SentSet' = SentSet
  BY <1>1 DEF SentSet
<1>7. r \notin FailedSet /\ FailedSet' = IF s = "Success" THEN FailedSet ELSE FailedSet \cup {r}
  BY <1>1, <1>4, <1>5 DEF FailedSet, TypeOK
<1>8. Cardinality(FailedSet') = IF s = "Success" THEN Cardinality(FailedSet)
                                               ELSE Cardinality(FailedSet) + 1
  BY <1>7, AccountFinite, FS_AddElement
<1>9. stats'.sent = stats.sent
      /\ stats'.failed = IF s = "Success" THEN stats.failed ELSE stats.failed + 1
  BY <1>2 DEF TypeOK, StatsType
<1>10. stats.sent = Cardinality(SentSet) /\ stats.failed = Cardinality(FailedSet)
  BY <1>3 DEF StatsAccount, SentSet, FailedSet
<1>11. stats'.sent = Cardinality(SentSet') /\ stats'.failed = Cardinality(FailedSet')
  BY <1>6, <1>8, <1>9, <1>10
<1> QED
  BY <1>11 DEF StatsAccount, SentSet, FailedSet

LEMMA AccountStep ==
    ASSUME TypeOK, StackType, CallInv, StatsAccount, [Next]_vars
    PROVE  StatsAccount'
<1>1. ASSUME NEW s \in ConsentStates, SetConsentState(s) \/ StoreConsent(s)
      PROVE  StatsAccount'
  BY <1>1, AccountIdle DEF SetConsentState, StoreConsent, dispatcher
<1>2. ASSUME NEW b \in BOOLEAN, SetEnabled(b)
      PROVE  StatsAccount'
  BY <1>2, AccountIdle DEF SetEnabled, history
<1>3. RecordBlocked => stats'.sent = stats.sent /\ stats'.failed = stats.failed
  BY DEF RecordBlocked, TypeOK, StatsType
<1>4. ASSUME NEW b \in BOOLEAN, TrackBlocked(b)
      PROVE  StatsAccount'
  BY <1>3, <1>4, AccountIdle DEF TrackBlocked, history
<1>5. ASSUME NEW r \in Requests, NEW b \in BOOLEAN, TrackUnbuildable(r, b)
      PROVE  StatsAccount'
  BY <1>3, <1>5, AccountIdle DEF TrackUnbuildable
<1>6. ASSUME NEW id \in HostIds \cup {NoId}, SetClientId(id)
      PROVE  StatsAccount'
  BY <1>6, AccountIdle DEF SetClientId, dispatcher, history
<1>7. CASE ResetClientId \/ ForceNewVisit
  BY <1>7, AccountIdle DEF ResetClientId, ForceNewVisit, dispatcher, history
<1>8. CASE ResetCircuitBreaker
  BY <1>8, AccountIdle DEF ResetCircuitBreaker, D!ResetCircuitBreaker, trackerVars, history
<1>9. ASSUME NEW r \in Requests, NEW pv, NEW p, Send(r, pv, p)
      PROVE  StatsAccount'
  BY <1>9, AccountSent
<1>10. ASSUME NEW r \in Requests, TrackRefused(r)
       PROVE  StatsAccount'
  BY <1>10, AccountRefused
<1>11. CASE Destroy
  BY <1>11 DEF Destroy, D!Destroy, StatsAccount
<1>12. CASE Construct
  <2>1. called' \ past' = {} /\ stats' = NoStats
    BY <1>12 DEF Construct
  <2> QED
    BY <2>1, FS_EmptySet DEF StatsAccount, NoStats
<1>13. CASE DispatcherEvent
  BY <1>13, AccountDispatcher
<1>14. CASE OnDispatchFinished
  BY <1>14, AccountResult
<1>15. CASE EmitSignal
  BY <1>15, EmitFrame, AccountIdle DEF history
<1>16. CASE UNCHANGED vars
  BY <1>16, AccountIdle DEF vars, dispatcher, trackerVars, history
<1> QED
  BY NextCases, <1>1, <1>2, <1>4, <1>5, <1>6, <1>7, <1>8, <1>9, <1>10, <1>11, <1>12, <1>13, <1>14,
     <1>15, <1>16 DEF TrackPageView, TrackEvent, SendPing

\* The statistics agree with the dispatcher at every moment a slot can read
\* them: recordSent() after dispatch(), the counting of onDispatchFinished().
THEOREM StatsCorrect == Spec => []StatsAccount
<1>1. Init => StackType /\ BindingsFresh
  BY DEF Init, D!Init, StackType, BindingsFresh
<1>2. Init => CallInv /\ StatsAccount
  <2> SUFFICES ASSUME Init PROVE CallInv /\ StatsAccount
    OBVIOUS
  <2>1. /\ called = {} /\ pending = {} /\ stack = <<>> /\ stats = NoStats
        /\ reply = [r \in Requests |-> "none"] /\ reports = [r \in Requests |-> <<>>]
    BY DEF Init, D!Init
  <2>2. ReplyType /\ reports \in [Requests -> Seq(D!Statuses)]
    BY <2>1 DEF ReplyType
  <2>3. CallInv
    BY <2>1, <2>2, FS_EmptySet DEF CallInv, On, Single
  <2>4. StatsAccount
    BY <2>1, FS_EmptySet DEF StatsAccount, NoStats
  <2> QED
    BY <2>3, <2>4
<1>3. TypeOK /\ StackType /\ CallInv /\ StatsAccount /\ [Next]_vars => CallInv' /\ StatsAccount'
  BY CallStep, AccountStep
<1> QED
  BY <1>1, <1>2, <1>3, InitType, TypeStep, FreshStep, PTL DEF Spec
=============================================================================
