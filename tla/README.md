# MatomoQt in TLA+

A verification development for the Matomo SDK for Qt: models of its components,
model-checked with TLC on small instances, and theorems about them checked by
TLAPS. File names below are relative to the repository (`src/core/...`,
`include/MatomoQt/...`).

## The system

An application embeds the SDK, creates a `Tracker` (in QML, the `MatomoTracker`
singleton does it), and calls it to report page views, events and pings. The
SDK gates every call by consent, builds a URL, sends it with Qt's network access
manager and reports the result by a signal. Everything runs on one thread, under
Qt's event loop.

| Component | State | Operations | Talks to |
|---|---|---|---|
| `NetworkDispatcher` | configuration, consecutive failures, breaker flag, pending replies with their timers | `dispatch`, `setConfig`, `resetCircuitBreaker`, destructor; events: reply finished, timer fired | `QNetworkAccessManager` (injected or its own), `QTimer`; signals `dispatchFinished`, `circuitBreakerChanged`, `configChanged` |
| `Tracker` | configuration, enabled flag, current page view ID and path, new-visit flag, statistics | `trackPageView`, `trackEvent`, `sendPing`, `setConsentState`, `setEnabled`, `setClientId`, `resetClientId`, `forceNewVisit`, `resetCircuitBreaker`, constructor, destructor | the two stores, `PrivacyController`, `RequestBuilder`, its own `NetworkDispatcher`; signals `statsChanged`, `consentStateChanged`, `enabledChanged`, `dispatchFinished` |
| `PrivacyController` | none | `isTrackingAllowed(mode, state)` | - |
| `RequestBuilder`, payload types | configuration | `buildPageView`, `buildEvent`, `buildPing`, `setConfig` | - |
| Consent and client ID stores | one value each, in memory or in a `QSettings` | read, write, clear | borrowed by trackers, of which several may share them, and by the host |
| `MatomoTracker` (QML) | configuration, the tracker once there is one, last request and dispatch result | properties, tracking calls, consent calls | stores, `Tracker`, QML bindings |
| `UserAgentBuilder` | none | `currentDesktopInfo`, `buildDesktopUserAgent`, `architectureFromQt` | `QSysInfo`, `QOperatingSystemVersion`, `/etc/os-release` |

### What is hard

* **Slots in the middle of handlers.** Qt runs the slots of a signal before
  `emit` returns. A slot may call the component that emits, or run an event loop
  of its own (a modal dialog), which delivers replies and timeouts while the
  handler that emitted is still open. `handleReplyFinished` emits up to two
  signals from two places, `setConfig` two, `onDispatchFinished` two.
* **Timers against replies.** The timeout of a request and its late answer race,
  and `abort()` emits `finished()` from inside the timeout handler.
* **Order of results.** Requests settle in any order; the breaker is fed by
  results of requests that were sent before it opened or was reset.
* **Refusal after acceptance.** The breaker may refuse a call that was validated
  and built: what the tracker remembers of a visit must not run ahead of it.
* **Consent over time.** Consent changes between calls, while requests are in
  flight, over restarts, and while there is no tracker.
* **Stores that are shared and late.** Several trackers and the host use one pair
  of stores. `QSettings` writes to disk some time after a change, and the two
  stores may be in two files, so a crash may keep one change and lose another.
* **Texts of any shape.** Product names, versions and `os-release` values have
  separators, quotes and backslashes in any place; what is made of them must
  remain a well-formed User-Agent.

PROJECT.json lists these hazards with their lines and the properties for them.

## Modules

| Module | Models | Uses |
|---|---|---|
| `Handlers` | handlers on one thread, interrupted by the slots of their signals | - |
| `NetworkDispatcher` | `src/core/NetworkDispatcher.cpp` | `Handlers` |
| `DispatchContract` | what a dispatcher promises its host (abstract) | - |
| `MCNetworkDispatcher` | instances for TLC | `NetworkDispatcher` |
| `NetworkDispatcherProofs` | theorems about the dispatcher | `NetworkDispatcher`, TLAPS |
| `DispatchContractProofs` | the theorem that the dispatcher implements its contract | `NetworkDispatcherProofs` |
| `PrivacyController` | `src/core/PrivacyController.cpp` | - |
| `Tracker` | `src/core/Tracker.cpp` with stores of its own | `Handlers`, `NetworkDispatcher` (INSTANCE), `PrivacyController` |
| `MCTracker` | instances for TLC | `Tracker` |
| `TrackerProofs` | theorems about consent, identity and page views | `Tracker`, TLAPS |
| `TrackerSignalsProofs` | theorems about what slots of the signals read | `TrackerProofs`, TLAPS |
| `RequestBuilder` | `src/core/RequestBuilder.cpp` and the payload types, as operators | - |
| `TrackingRequest` | the query of a call, from `Tracker` over the builder to the dispatcher, or of a host's own builder | `RequestBuilder` |
| `MCTrackingRequest` | instances for TLC | `TrackingRequest` |
| `TrackingRequestProofs` | theorems about the request of a call | `TrackingRequest`, TLAPS |
| `QmlMatomoTracker` | `src/qml/QmlMatomoTracker.cpp` | `Handlers`, `PrivacyController` |
| `MCQmlMatomoTracker` | instances for TLC | `QmlMatomoTracker` |
| `QmlMatomoTrackerProofs` | theorems about the singleton | `QmlMatomoTracker`, TLAPS |
| `SharedStores` | the `QSettings` stores, with several trackers on them, late writes and crashes | `PrivacyController` |
| `MCSharedStores` | instances for TLC | `SharedStores` |
| `SharedStoresProofs` | theorems about shared stores | `SharedStores`, TLAPS |
| `UserAgentBuilder` | `src/core/UserAgentBuilder.cpp` | - |
| `MCUserAgentBuilder` | instances for TLC | `UserAgentBuilder` |
| `UserAgentBuilderProofs` | theorems about User-Agents | `UserAgentBuilder`, TLAPS |

### Handlers

A handler is one action up to its first `emit`. What it does after that, in this
code mostly further emits, is pushed on `stack`, and the top of the stack is the
next step. While a step's slot may run, `inSlot` is TRUE and every operation and
every event is enabled again, on top of the stack: that is a slot calling back or
running an event loop. `Depth` bounds how many steps may be open below host code.

### NetworkDispatcher

One value of `Requests` stands for one call of `dispatch()`. `pending` is the set
of keys of `m_pendingReplies`, `armed` those whose timer runs, `reply` the life
of each `QNetworkReply` (`none`, `running`, `finished` but not yet given to
`deleteLater()`, `released`), `failures` and `open` are `m_consecutiveFailures`
and `m_circuitBreakerOpen`.

The steps on the stack are emits and the final `deleteLater()` of a reply. A
signal that nobody is connected to (`Connected`) leaves no step.

The completions of a reply are the cases `handleReplyFinished` tells apart.
`OperationCanceledError` stands for an abort by somebody else, such as an
injected access manager or its transfer timeout: the dispatcher's own aborts
never reach that branch, because the entry is gone (`handleTimeout`) or the reply
is disconnected (destructor).

The histories `reports`, `settled` and `seen` record what the host was told and
how requests settled since the last reset. They feed the properties only.

Not modelled: the `rand` parameter, messages, HTTP codes beyond success or not,
`m_nam` (its replies only), and the destruction of the object from one of its own
slots, which C++ and Qt leave undefined.

### Tracker

`D` is an instance of `NetworkDispatcher` that shares its stack: the result runs
`onDispatchFinished`, whose emits are pushed as steps. Only `dispatchFinished` of
the dispatcher is connected. Each tracking call has three outcomes of the code:
blocked before a client ID exists (`TrackBlocked`), built and not accepted
(`TrackUnbuildable`), or handed to the dispatcher, which refuses it
(`TrackRefused`) or sends it (`TrackPageView`, `TrackEvent`, `SendPing`). A
client ID or page view ID the tracker generates is named by the call that
generated it, so IDs never collide by chance.

`setup` holds what is fixed for a run: the privacy mode, whether the
configuration is usable, and whether the stores keep what they are given (a
`QSettings` store without settings does not). The stores outlive the tracker:
`Destroy` and `Construct` are a restart, and `StoreConsent` is the host writing
to the consent store while there is no tracker. `said` is the last consent the
host asked for, `retired` the IDs that an opt-out or a reset should have taken away
(`Retire`, whether `ClearVisitorIdentity` does so or not), `shown` what a
QML-like binding on each notification signal last read, and `wire` the request
that a step puts on the network (cleared when `statsChanged` is delivered).

`ConsentHonoured` compares what is sent with the last word of the visitor. A store
that keeps nothing answers "Unknown" whatever was said to it; there the property
asks that nothing is sent where consent is required. In the exempt mode tracking
then goes on, also after an opt-out, which the code allows and no document denies.

### RequestBuilder and TrackingRequest

A call as one step from a payload to a query or a rejection: the checks of
`isValid()`, `mergeDimensions`, the builder, `addTrackerParameters` and
`addCacheBuster`, in the order of the code. `owner` says whose builder it is: a
tracker adds its dimensions before and its parameters after it, a host gets what
the builder makes and may change its configuration between calls (`SetConfig`).
Texts are values of a small set with a table for `trimmed()` and a set for what
parses as a relative reference; a URL is what the code asks of it; a query is the
sequence of its parameters. `Turns` is the loop of `addCustomDimensions`, turn by
turn, and `InOrder` the order in which a `QMap` gives its keys. Consent, stores and breaker are in `Tracker`, which
takes the outcome "cannot be built" as an input. Percent-encoding is Qt's and left
out.

### SharedStores

`consent` and `clientId` are what `QSettings` has in memory and answers with;
`onDisk` is what the files hold. `SyncConsent` and `SyncClientId` write one of
them, at any time and in any order: stores in one file are the case in which the
two come together. `Crash` starts the application on what the files hold. A
consent value is kept as the file has it, so that `ReadConsent` and `StoreConsent`
are the conversions of the code, and what the files hold at first is anything. What
that says of the visitor is told by `Tells`, which knows what `setConsentState()`
writes (`Writes`) and not how it is read: a number beyond the enumeration or a text
is no answer, so a reading that makes a grant of it breaks `ConsentHonoured`. The
stores in memory are the same without a disk.

Of a tracker, `SharedStores` has what touches the stores: constructor, destructor,
`setConsentState`, `setClientId`, `resetClientId` and a tracking call that passes
validation. Page views, new-visit flag and breaker are in `Tracker`. The host may
write to the consent store at any time (`HostStoresConsent`), also under living
trackers, which are not told.

`past` is the history that the properties read: the last word (`said`), the client
IDs a tracker cleared (`cleared`), those in the store when a tracker was told of an
opt-out (`refused`), and those that went out since the visitor last got another one
(`sent`). `pastOnDisk` is how much of it a crash leaves: the removal of an ID is
remembered if the client ID file was written since, an opt-out if the consent file
was. `ClearedStaysCleared` then says of two files that one of the two is enough:
if only the opt-out reached the disk, the constructor of the next tracker clears
the ID that came back. Nothing of the kind holds for what the host wrote by itself
while trackers live: no tracker clears an ID for it until the next is built.

### UserAgentBuilder

A text is a sequence of characters, and a word that the code only copies is one
character. `JoinedTurns` is the loop of `tokenPart` and `osVersionPart` turn by turn
(`Add`), `UnescapeTurns` that of `unquoteOsReleaseValue`; the other
operators have the names of their functions. An info comes from a machine
(`CurrentDesktopInfo`, with its `os-release` as lines of a key and a name that is
written plain or quoted) or from the host (`HostInfo`), and `Build` makes the text.

The properties compare the text with what was given, by means of their own.
`Normalises` asks for a function that gives each character of a token the place
it stands for, in order: what is kept is all there, and two characters have a
separator between them exactly when they were apart. `DistroAsNamed` starts from
the name, writes it down as `os-release` prescribes, and finds it again in the
User-Agent.

Three assumptions say what the constants are. `CharacterAssumption` separates the
classes of characters as Qt does. `HostAssumption` gives what a host fills in the
types of `UserAgentInfo`. `MachineAssumption` is the format of `os-release`: a name
with quotes or backslashes is itself in quotes. Without it no reading is right, as
`NAME="a` has none; what the code makes of such a file is not stated.

Two limits of the code that no property objects to: the name of the distribution
is trimmed and otherwise copied, so a parenthesis or semicolon in it would change
the comment; and in a version a character that is neither digit nor separator is
dropped, so `10.0 SP1` reads `10.01`.

### QmlMatomoTracker

The singleton with its own stores. `config` and `enabled` are its own fields,
`trackerConfig` and `trackerEnabled` those of the tracker it builds
(`EnsureTracker`). Each write or call is one action up to the first notification
signal; the signals of `applyRequestResult` and `applyDispatchResult` are steps on
the stack. Of the tracker it keeps what shows through it: the gate, the client ID
and the breaker. A call that gets past the gate is one of `Calls`, and what it
generates is named by it. `shown` is what a binding on every notification signal
last read. `Messages` are the texts a result may carry: those the library words
itself (`OwnMessages`) and what Qt says of a reply. `Restart` is the application
starting again on the same settings.
`retired` records the IDs that were reset, and those in the store when a tracker was
told of an opt-out or was built on one; `spared` those in the store when the visitor
opted out without a tracker. Both are written next to the operation and not by it, so
a tracker whose constructor forgets to clear (`ForgetAtConstruction`) sends what is
in `retired`.

### DispatchContract

The abstract specification: calls are idle, sent, decided, answered; a gate shuts
with a failure and opens with a success or a reset; every verdict is told once.
`NetworkDispatcher!Contract` instantiates it with a refinement mapping. A call
that would be neither in flight nor answered nor about to be has the phase
"lost", which the contract does not have, so losing a result breaks the
refinement.

## Runs

| Run | Question | Bounds |
|---|---|---|
| `dispatcher_safety` | Is no call answered twice, is the breaker right at every moment and its signal honest, does no reply leak, also when somebody else aborts replies? | 3 requests, breaker limits 2, 1 and off, timeouts on and off, slots on 2 open steps |
| `dispatcher_contract` | Is every call answered when nobody else aborts, and does every step keep the contract? | 3 requests, slots on 3 open steps |
| `dispatcher_liveness` | Is every request with a timeout answered, does every verdict arrive? | 2 requests, handlers not interrupted |
| `dispatcher_result_lost` | Is "the result is always reported" true of the code? No: see findings | 2 requests |
| `dispatcher_late_success` | Does an open breaker block "until reset"? No: see findings | 2 requests |
| `tracker_identity` | Do consent, identity, page views and the new-visit flag hold over restarts, refusals, and requests in flight? | 2 calls that pass validation, 2 paths, 1 host ID, 6 setups, handlers not interrupted |
| `tracker_slots` | Are statistics and bindings right when slots call back? | 2 calls that pass validation, 1 blocked call per tracker, slots on 1 open step |
| `request` | Does a request carry the dimensions the header documents? Is no parameter repeated? Do the repeated checks of configuration, payload and ID agree? | slots at and beyond the limits, up to 3 dimensions a call, blank and repeated ones; every field good, blank or wrong; builders of a tracker and of a host |
| `qml` | Does QML show the settings the tracker obeys, and is no binding left stale when slots call back? Do removed IDs stay removed? | 2 calls, 2 results, every setting unset or one good value, 2 privacy modes, breaker limit 1, slots on 2 open steps |
| `qml_opt_out` | Does an opt-out always drop the ID? No: see findings | 1 call |
| `stores` | Do consent, cleared IDs and the one ID of a visitor hold for all trackers on a pair of stores, late writes and crashes included? | 2 trackers, 2 calls, 1 host ID, an old ID, 5 values a consent file may hold |
| `user_agent` | Is every User-Agent well-formed, and does it say what was given? | product names and versions of the system of up to 4 characters, product and Qt versions of up to 3; `os-release` names of up to 4 characters, files of up to 2 lines |

Three requests are enough for the dispatcher: a breaker of limit 2 needs two
results to open and a third request in flight to be late. Depth 2 holds the
longest handler (`circuitBreakerChanged`, `dispatchFinished`, `deleteLater`) with
a slot in its first emit. Two calls are enough for the tracker: one sets the
state that an opt-out, a refusal or a restart should clear or keep, the other
shows whether it did. `MaxBlocked` bounds the blocked calls, which change nothing
but a counter. Depth 2 of `qml` is a slot of the first signals of a result that
has another result or a change of a setting open on top of it. Two trackers and
two calls are enough for the stores: one stores what the other should obey, clear
or send again. Four characters hold a separator at both ends of a word and two in
its middle, or a quoted quote and a backslash. Runs with symmetric sets declare
them as symmetry sets; none of these runs checks liveness.

`CHECK_DEADLOCK` stays on everywhere: a destroyed dispatcher stutters (`Gone`), a
destroyed tracker may be built again.

### Fairness

`FairSpec` assumes weak fairness of the steps of open handlers (a C++ function
that was called goes on to its end, and its slots return) and strong fairness of
`HandleTimeout` (Qt delivers a due single-shot timer sooner or later; strong,
because host code that runs in between disables and enables it again). Nothing is
assumed of the network or of the host's calls.

### Findings

* `dispatcher_result_lost`: a reply that finishes with `OperationCanceledError`
  without the dispatcher having aborted it is cleaned up and forgotten, no
  `dispatchFinished`, no failure counted (`NetworkDispatcher.cpp:161`). The header
  says the result is always reported.
* `dispatcher_late_success`: a request that was in flight when the breaker opened
  closes it by succeeding (`NetworkDispatcher.cpp:204`). The header says it blocks
  until reset.

* `qml_opt_out`: before there is a tracker, `denyConsent()` and
  `withdrawConsent()` of the QML singleton store the state and leave the persisted
  client ID (`QmlMatomoTracker.cpp:143`). If the visitor agrees again before the
  first tracking call, that call carries the old ID; with a tracker it would get a
  fresh one, as `tst_tracker.cpp` expects of a denial.

The first two are places where the documentation promises more than the code
does; the third is a difference between two paths of the code.

## Proofs

`NetworkDispatcherProofs` proves for every value of the constants:

* `TypeCorrect`: `TypeOK`. It is inductive with no help.
* `BreakerCorrect`: `BreakerMatchesHistory`. The strengthening `BreakerInv` says
  that `failures` is the length of the run of failures at the end of `settled`
  and that the flag is the comparison of it with the limit. The configuration
  changes only with a reset, which empties both.
* `OneResultCorrect`: `AtMostOneResult`, whose four conjuncts are inductive
  together: a call in flight or not yet made has no result and none to come, and
  a handler adds one for a call it has just removed from `pending`.
* `ReportedCorrect`: `ResultAlwaysReported`, under two assumptions that the
  findings show to be needed: no completion is an abort by somebody else, and the
  host listens to `dispatchFinished`.
* `RepliesCorrect`: `RepliesReleased`, with the strengthening `ReleaseInv` that
  each reply has at most one open `deleteLater()`.
* `SignalsCorrect`: `BreakerSignalsHonest`, for a host that is connected to the
  signal (without a slot nobody is told). The strengthening `SignalInv` says where
  the signal is: only on top of the stack, and while it waits no slot runs. So the
  host has heard of the last change before the next can come (`HeardWhenRunning`).

The stack is the hard part: the lemmas `PlacesAbove` and its like say which steps
of a kind are on a stack after a push or a pop, and everything about steps to
come rests on them.

`DispatchContractProofs` proves `ContractCorrect`: `NetworkDispatcher` implements
`DispatchContract`. The view the contract has of a call depends on that call alone
(`ViewKept`), so a step accounts only for the call it touches. A dispatch that
sends maps to `Send`, one that is blocked or has no URL to `Refuse`, the end of a
reply and a timeout to `Succeed` or `Fail`, `EmitDispatchFinished` to `Answer`,
`setConfig` and `resetCircuitBreaker` to `Reset`, the destructor to `Destroy`, and
everything else to a stutter. The mapping needs two of the invariants above:
`AtMostOneResult`, so that a call has one phase and one verdict, and
`ResultAlwaysReported`, so that none is lost. The theorem therefore has the two
assumptions of `ReportedCorrect`; the run `dispatcher_result_lost` shows what
happens without the first.

`TrackerProofs` proves, for any calls, IDs, paths and setups, over the dispatcher
as it is and not an abstraction of it:

* `ConsentCorrect`: `ConsentHonoured`. The invariant `ConsentInv` says that the
  store holds `Word`, the last word or none, through every operation and while
  there is no tracker; that only `Send` puts a request on the wire is
  `OnlySendSends`, and its guard does the rest.
* `TypeCorrect`: `TypeOK`, inductive by itself.
* `IdentityCorrect`: `NoStaleIdentity`. `IdentityInv` keeps the stored ID and the
  current page view ID out of the retired ones, and says that an ID not minted yet
  is nowhere: without that a generated ID could be one that was taken away.
* `NewVisitCorrect`: `NewVisitOnce`, from the request on the wire being one that
  was made, so that a new one is told from it.
* `PageViewCorrect`: `PageViewReal`, with `ReplyType` and the fact `Kept` that the
  dispatcher never forgets that there was a reply.

`TrackerSignalsProofs` proves what a slot of the tracker's signals can rely on:

* `BindingsCorrect`: `BindingsFresh`. A push keeps every notification announced and
  announces what its handler changed, a pop takes away only the one whose slot
  reads the property anew.
* `StatsCorrect`: `StatsAccount`. It needs `CallInv`: no two results to come are of
  one call, a result to come is the first of its call, and a reply to be deleted is
  one there was. Then a result adds exactly one call to those that failed, and the
  two cardinalities move as the counters do. That there are finitely many calls is
  part of `CallInv`, not an assumption on `Requests`.

`QmlMatomoTrackerProofs` proves:

* `TypeCorrect`: `TypeOK`. That the failures in a row are at most as many as the
  calls is not inductive; `CountType` says that the failures and the calls in flight
  together are at most as many as the calls made, and that a call settles once.
* `FreshCorrect`: `ShownFresh`. A handler announces all it changes and leaves what
  was announced before; a notification goes only when its slot reads the property
  anew. `setEnabled` leaves its notification to the tracker once there is one, and
  the tracker notifies if its own switch changes: `SettingsAgree` makes the two
  switches equal.
* `SettingsCorrect`: `SettingsAgree`, which is inductive: with a tracker the setters
  of the configuration return early, and `setEnabled` writes both switches.
* `RetiredCorrect`: `RetiredStaysRetired`. The strengthening `IdentityInv` says that
  the stored ID is not among the removed ones and that no ID is stored or removed
  before the call that generates it. Without the second half a generated ID could
  be one that was removed. It rests on the model's assumption that generated IDs
  do not collide with each other or with the one found in the store.

`TrackingRequestProofs` proves `DimensionsCorrect`, `NoParameterTwiceCorrect` and
`AcceptedCorrect`, the three properties of requests, for any texts, configurations,
payloads and lists of dimensions. Each call is one step; the strengthening
`AnswerInv` says what its answer is: accepted if `Acceptable`, then a query that
repeats nothing and has the `Documented` dimensions, and empty otherwise. What it
rests on:

* `AllTurns`: the loop of `addCustomDimensions` accepts a list exactly if every
  slot is in range and none has two values, and adds exactly those with a value. Its
  invariant is `AfterTurn`; that the loop is defined at all is `LoopExists`.
* `MergeDef`: merging adds the slots the call leaves free, each once, whatever their
  order (`InOrderDef`: a finite set of numbers can be put in order).
* `QueryConcat`: pieces that share no name make a query without a repeated parameter.

The inductions are over sets of numbers (`Induction`, from the least element of a
set), since the library's induction theorems cannot be used here. `CallAssumption`
gives the payloads and configurations the types they have in the code, and says
that a `QMap` has finitely many keys.

`SharedStoresProofs` proves, for any number of trackers and calls and anything
the files hold at first:

* `StoresCorrect`: the inductive invariant `StoresInv`, which is about the process,
  the disk, and what a crash would make of the one from the other. `WordKept` ties
  the last word to what the store reads, in memory and on disk; for the files the
  application starts on, `ReadTells` shows that the two agree. `GoneIds` keeps
  cleared IDs out of both, and says of an ID that was refused that it may be back
  after a crash, but only with the opt-out and before there is a tracker. `SentIds`
  says that what was sent is what is stored, and `IdsMade` that an ID a call will
  generate is not in use yet.
* `ConsentCorrect`, `ClearedCorrect`, `OneVisitorCorrect`: `ConsentHonoured` from
  `WordKept`, `ClearedStaysCleared` from `GoneIds` and `IdsMade`, `OneVisitor` from
  `SentIds`.

Like the proof about retired IDs, it rests on generated IDs not colliding.

`UserAgentBuilderProofs` proves the four properties of User-Agents, for texts of any
length and characters, any machines and infos:

* `TokensAreFaithful`: `TokensFaithful`. `StandsFor` is the invariant of the loop of
  `tokenPart` and `osVersionPart`: the text so far stands, place by place, for the
  characters read so far. It allows for a separator at its end, which is the one
  there must be before the next character that is kept. `TurnStands` is one turn,
  `LoopStands` all of them; cutting off the last separator then gives `Normalises`.
* `UserAgentIsWellFormed`: `UserAgentWellFormed`. A token is tight, that is, it has no
  two loose places side by side (`TokenTight`), and tight texts with one character between
  them make a tight text (`TightParts`). `ProductsFollow` shows that the last
  parenthesis ends the comment, whatever name a distribution has.
* `WindowsVersionIsKnown`: `WindowsVersionKnown`. `WindowsVersion` is about the version
  cut before its second dot; its dots are counted by cardinality. `WindowsComments`
  finds it again in the whole text: no mark comes before its end.
* `DistroIsAsNamed`: `DistroAsNamed`. `ReadsBack` says that unescaping undoes escaping,
  by an invariant of the two loops together: after the turns that read what was
  written of the first n characters, those n characters have been read. `NameRead`
  adds the quotes and the blanks at the ends, `DistroRead` the lines.

That the loops are defined at all is `JoinedLoopExists` and its like. The
invariant of the specification, `IInv`, is small: there is one info at a time, it is
text and agrees with the machine it was read from, and the User-Agent is built of
it. It is inductive; without its first part a new info could come while the text of
another is still there.

Only model-checked:

* liveness: `TimerResolves`, and `ImplementsFairContract`, whose safety part is
  `ContractCorrect`. Fairness and ENABLED are beyond the proof system.
* the three properties of the findings, which the code violates.

Every other property of the passing runs is a theorem.

## Plan

Done, in this order: `NetworkDispatcher` with its contract and proofs, `Tracker`
over it with its proofs, the request of a call, the QML singleton,
`UserAgentBuilder`, the shared stores with their proofs, and the proofs of the
contract, the breaker's signal, the singleton's bindings, the request and the
User-Agent. What could come next, most important first:

1. The page views of several trackers on one pair of stores: an opt-out told to one
   leaves those of the others in memory.
2. The tracker's liveness: every accepted and sent call is told of in the end.

## Not modelled

Logging, messages, version and enumerations, and the QML registration code are
formatting and declarations without state. The examples and tests are users of the
SDK. `QSettings`, `QNetworkAccessManager`, `QTimer` and `/etc/os-release` are
external and modelled by how the code uses them. Left out of what is modelled:
percent-encoding of queries, the `rand` value, HTTP codes beyond success or not, and
the destruction of an object from one of its own slots.
