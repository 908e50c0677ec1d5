------------------------- MODULE NetworkDispatcher -------------------------
(***************************************************************************)
(* The NetworkDispatcher of the core library: one GET request per call of  *)
(* dispatch(), a single-shot timer per request, and a circuit breaker fed  *)
(* by the results.  Everything runs on one thread, so what interleaves is  *)
(* the events of the event loop (a reply finishes, a timer fires) and the  *)
(* host's slots.  In this code nothing follows an emit but further emits   *)
(* and deleteLater(), so steps of these kinds are all a handler leaves     *)
(* open.                                                                   *)
(***************************************************************************)
EXTENDS Integers, Sequences, Handlers

CONSTANTS
    Requests,       \* the calls of dispatch(), one value each
    Configs,        \* the configurations the host may set
    DefaultConfig,  \* the one a new dispatcher has
    Completions,    \* the ways a network reply may finish
    Connected       \* the signals some slot is connected to

ConfigType == [timeoutMs : Int, maxConsecutiveFailures : Int]

ReplyErrors ==
    {"NoError", "OperationCanceledError", "SslHandshakeFailedError", "OtherError"}

CompletionType == [error : ReplyErrors, httpStatus : Nat]

Statuses == {"Success", "NetworkError", "Timeout", "SslError", "CircuitBreakerOpen"}

Signals == {"dispatchFinished", "circuitBreakerChanged", "configChanged"}

ASSUME DispatcherAssumption ==
    /\ Configs \subseteq ConfigType
    /\ DefaultConfig \in Configs
    /\ Completions \subseteq CompletionType
    /\ Connected \subseteq Signals
    /\ Depth \in Nat

VARIABLES
    alive,      \* the object has not been destroyed
    config,     \* m_config
    failures,   \* m_consecutiveFailures
    open,       \* m_circuitBreakerOpen
    called,     \* the calls of dispatch() made so far
    pending,    \* the keys of m_pendingReplies
    armed,      \* the pending replies whose QTimer is running
    reply,      \* the QNetworkReply of each call
    reports,    \* history: the results dispatchFinished delivered, by call
    settled,    \* history: how each request settled since the last reset
    seen        \* history: the value circuitBreakerChanged last carried

breaker == <<failures, open, settled>>
vars == <<alive, config, breaker, called, pending, armed, reply, control, reports, seen>>

----------------------------------------------------------------------------
(* What a handler leaves open.                                             *)

BreakerChanged(b) == [signal |-> "circuitBreakerChanged", open |-> b]
ConfigChanged == [signal |-> "configChanged"]
Finished(r, s) == [signal |-> "dispatchFinished", request |-> r, status |-> s]
DeleteLater(r) == [signal |-> "none", request |-> r]

Frames ==
    {BreakerChanged(b) : b \in BOOLEAN} \cup {ConfigChanged}
        \cup {Finished(r, s) : r \in Requests, s \in Statuses}
        \cup {DeleteLater(r) : r \in Requests}

\* Emitting a signal nobody is connected to does nothing.
Emission(f) == IF f.signal \in Connected THEN <<f>> ELSE <<>>

\* Fault: setOpen() without its early return.
BreakerEmissionAlways == Emission(BreakerChanged(open'))

\* setOpen() emits only when the flag changes.
BreakerEmission == IF open' = open THEN <<>> ELSE Emission(BreakerChanged(open'))

\* Host code and event handlers that a living dispatcher may meet.
CanRun ==
    /\ alive
    /\ HostRuns

----------------------------------------------------------------------------
(* The circuit breaker.                                                    *)

ResetBreaker ==
    /\ failures' = 0
    /\ open' = FALSE

RecordSuccess ==
    /\ failures' = 0
    /\ open' = FALSE

Trips(n) == config.maxConsecutiveFailures > 0 /\ n >= config.maxConsecutiveFailures

\* Fault: the breaker is checked before the failure is counted.
RecordFailureLate ==
    /\ failures' = failures + 1
    /\ open' = IF Trips(failures) THEN TRUE ELSE open

RecordFailure ==
    /\ failures' = failures + 1
    /\ open' = IF Trips(failures + 1) THEN TRUE ELSE open

Record(status) == IF status = "Success" THEN RecordSuccess ELSE RecordFailure

----------------------------------------------------------------------------
(* The host's calls.                                                       *)

\* dispatch() while the breaker is open.
DispatchBlocked(r) ==
    /\ CanRun
    /\ r \notin called
    /\ open
    /\ called' = called \cup {r}
    /\ Continue(Emission(Finished(r, "CircuitBreakerOpen")))
    /\ UNCHANGED <<alive, config, breaker, pending, armed, reply, reports, seen>>

\* dispatch() of an empty or malformed URL: no failure is recorded.
DispatchInvalidUrl(r) ==
    /\ CanRun
    /\ r \notin called
    /\ ~open
    /\ called' = called \cup {r}
    /\ Continue(Emission(Finished(r, "NetworkError")))
    /\ UNCHANGED <<alive, config, breaker, pending, armed, reply, reports, seen>>

\* A GET goes out, its timer starts if there is a timeout.
CreateReply(r) ==
    /\ called' = called \cup {r}
    /\ pending' = pending \cup {r}
    /\ armed' = IF config.timeoutMs > 0 THEN armed \cup {r} ELSE armed
    /\ reply' = [reply EXCEPT ![r] = "running"]
    /\ UNCHANGED <<alive, config, breaker, reports, seen>>

\* Fault: dispatch() without the check of the breaker.
DispatchUnchecked(r) ==
    /\ CanRun
    /\ r \notin called
    /\ CreateReply(r)

\* dispatch() of a valid URL: the only branch that returns true.  Nothing is
\* emitted, what the caller does next is up to the caller.
Dispatch(r) ==
    /\ CanRun
    /\ r \notin called
    /\ ~open
    /\ CreateReply(r)

DispatchSend(r) == Dispatch(r) /\ UNCHANGED control

SetConfig(c) ==
    /\ CanRun
    /\ c # config
    /\ config' = c
    /\ ResetBreaker
    /\ settled' = <<>>
    /\ Continue(Emission(ConfigChanged) \o BreakerEmission)
    /\ UNCHANGED <<alive, called, pending, armed, reply, reports, seen>>

ResetCircuitBreaker ==
    /\ CanRun
    /\ ResetBreaker
    /\ settled' = <<>>
    /\ Continue(BreakerEmission)
    /\ UNCHANGED <<alive, config, called, pending, armed, reply, reports, seen>>

\* Fault: the replies are left to the access manager.
DestroyLeavingReplies ==
    /\ alive
    /\ stack = <<>>
    /\ alive' = FALSE
    /\ pending' = {}
    /\ armed' = {}
    /\ UNCHANGED <<config, breaker, called, reply, control, reports, seen>>

\* ~NetworkDispatcher(): the timers stop, the replies are disconnected,
\* aborted and deleted, and no result is emitted.
Destroy ==
    /\ alive
    /\ stack = <<>>
    /\ alive' = FALSE
    /\ pending' = {}
    /\ armed' = {}
    /\ reply' = [r \in Requests |-> IF r \in pending THEN "released" ELSE reply[r]]
    /\ UNCHANGED <<config, breaker, called, control, reports, seen>>

----------------------------------------------------------------------------
(* The events.                                                             *)

\* Faults: the timer is not stopped; nothing is cleaned up.
CleanupReplyTimerRuns(r) == pending' = pending \ {r} /\ UNCHANGED armed
CleanupReplyForgotten(r) == UNCHANGED <<pending, armed>>

\* cleanupReply(): the timer stops and the entry goes.
CleanupReply(r) ==
    /\ pending' = pending \ {r}
    /\ armed' = armed \ {r}

\* Both handlers: clean up, feed the breaker, then emit what changed, the
\* result, and leave the reply to the event loop.
Settle(r, status) ==
    /\ CanRun
    /\ r \in pending
    /\ CleanupReply(r)
    /\ reply' = [reply EXCEPT ![r] = "finished"]
    /\ Record(status)
    /\ settled' = Append(settled, status)
    /\ Continue(<<DeleteLater(r)>> \o Emission(Finished(r, status)) \o BreakerEmission)
    /\ UNCHANGED <<alive, config, called, reports, seen>>

Succeeds(c) == c.error = "NoError" /\ c.httpStatus \in 200..299

Classify(c) ==
    IF Succeeds(c) THEN "Success"
    ELSE IF c.error = "SslHandshakeFailedError" THEN "SslError"
    ELSE "NetworkError"

\* QNetworkReply::finished, with a result to report.
HandleReplyFinished(r, c) ==
    /\ reply[r] = "running"
    /\ c.error # "OperationCanceledError"
    /\ Settle(r, Classify(c))

\* Fault: an early return that skips deleteLater().
HandleReplyCancelledEarlyReturn(r, c) ==
    /\ CanRun
    /\ reply[r] = "running"
    /\ r \in pending
    /\ c.error = "OperationCanceledError"
    /\ CleanupReply(r)
    /\ reply' = [reply EXCEPT ![r] = "finished"]
    /\ UNCHANGED <<alive, config, breaker, called, control, reports, seen>>

\* QNetworkReply::finished of a reply that somebody else aborted (the
\* injected access manager, its transfer timeout): no result, no failure.
HandleReplyCancelled(r, c) ==
    /\ CanRun
    /\ reply[r] = "running"
    /\ r \in pending
    /\ c.error = "OperationCanceledError"
    /\ CleanupReply(r)
    /\ reply' = [reply EXCEPT ![r] = "released"]
    /\ UNCHANGED <<alive, config, breaker, called, control, reports, seen>>

\* Fault: the result is left to the finished() that abort() emits.
HandleTimeoutSilent(r) ==
    /\ CanRun
    /\ r \in armed
    /\ r \in pending
    /\ CleanupReply(r)
    /\ reply' = [reply EXCEPT ![r] = "released"]
    /\ UNCHANGED <<alive, config, breaker, called, control, reports, seen>>

\* QTimer::timeout.  abort() emits finished() at once, and handleReplyFinished
\* returns early because the entry is gone already.
HandleTimeout(r) ==
    /\ r \in armed
    /\ Settle(r, "Timeout")

----------------------------------------------------------------------------
(* The open steps, from the top of the stack.                              *)

EmitBreakerChanged ==
    /\ NextUp("circuitBreakerChanged")
    /\ seen' = Top.open
    /\ Deliver(<<>>)
    /\ UNCHANGED <<alive, config, breaker, called, pending, armed, reply, reports>>

EmitConfigChanged ==
    /\ NextUp("configChanged")
    /\ Deliver(<<>>)
    /\ UNCHANGED <<alive, config, breaker, called, pending, armed, reply, reports, seen>>

\* Fault: the results wait, for ever, until the breaker closes.
EmitDispatchFinishedHeld(slotSteps) ==
    /\ NextUp("dispatchFinished")
    /\ IF open THEN UNCHANGED <<reports, control>>
       ELSE /\ reports' = [reports EXCEPT ![Top.request] = Append(@, Top.status)]
            /\ Deliver(slotSteps)
    /\ UNCHANGED <<alive, config, breaker, called, pending, armed, reply, seen>>

\* slotSteps: what the connected slot does in its turn (see Tracker).
EmitDispatchFinished(slotSteps) ==
    /\ NextUp("dispatchFinished")
    /\ reports' = [reports EXCEPT ![Top.request] = Append(@, Top.status)]
    /\ Deliver(slotSteps)
    /\ UNCHANGED <<alive, config, breaker, called, pending, armed, reply, seen>>

ReleaseReply ==
    /\ NextUp("none")
    /\ reply' = [reply EXCEPT ![Top.request] = "released"]
    /\ Deliver(<<>>)
    /\ UNCHANGED <<alive, config, breaker, called, pending, armed, reports, seen>>

----------------------------------------------------------------------------

Init ==
    /\ alive = TRUE
    /\ config = DefaultConfig
    /\ failures = 0
    /\ open = FALSE
    /\ called = {}
    /\ pending = {}
    /\ armed = {}
    /\ reply = [r \in Requests |-> "none"]
    /\ stack = <<>>
    /\ inSlot = FALSE
    /\ reports = [r \in Requests |-> <<>>]
    /\ settled = <<>>
    /\ seen = FALSE

HostNext ==
    \/ \E r \in Requests : DispatchBlocked(r) \/ DispatchInvalidUrl(r) \/ DispatchSend(r)
    \/ \E c \in Configs : SetConfig(c)
    \/ ResetCircuitBreaker
    \/ Destroy

EventNext ==
    \E r \in Requests :
        \/ HandleTimeout(r)
        \/ \E c \in Completions : HandleReplyFinished(r, c) \/ HandleReplyCancelled(r, c)

StepNext ==
    \/ EmitBreakerChanged
    \/ EmitConfigChanged
    \/ EmitDispatchFinished(<<>>)
    \/ ReleaseReply

\* A destroyed dispatcher does nothing more.
Gone == ~alive /\ UNCHANGED vars

Next == HostNext \/ EventNext \/ StepNext \/ Gone

Spec == Init /\ [][Next]_vars

\* Handlers run to their end, and the event loop does not pass over a timer
\* that is due for ever, however often the host calls in between.
Fairness ==
    /\ WF_vars(StepNext)
    /\ \A r \in Requests : SF_vars(HandleTimeout(r))

FairSpec == Spec /\ Fairness

----------------------------------------------------------------------------
(* Properties.                                                             *)

\* Every variable keeps its type; a timer runs only for a pending reply.
TypeOK ==
    /\ alive \in BOOLEAN
    /\ config \in Configs
    /\ failures \in Nat
    /\ open \in BOOLEAN
    /\ called \in SUBSET Requests
    /\ pending \in SUBSET called
    /\ armed \in SUBSET pending
    /\ reply \in [Requests -> {"none", "running", "finished", "released"}]
    /\ stack \in Seq(Frames)
    /\ inSlot \in BOOLEAN
    /\ reports \in [Requests -> Seq(Statuses)]
    /\ settled \in Seq(Statuses)
    /\ seen \in BOOLEAN

\* The breaker is open exactly when the last maxConsecutiveFailures requests
\* settled since the last reset all failed, also while a slot runs in the
\* middle of a handler, and whatever was in flight when the host reset it.
BreakerMatchesHistory ==
    LET n == config.maxConsecutiveFailures
        m == Len(settled)
    IN  open <=> /\ n > 0
                 /\ m >= n
                 /\ \A i \in (m - n + 1)..m : settled[i] # "Success"

\* A host that only follows circuitBreakerChanged knows the breaker: the last
\* value it got is the current one, unless the signal is the next step of the
\* running handler, and no signal repeats the value before it.
BreakerSignalsHonest ==
    IF NextUp("circuitBreakerChanged")
    THEN Top.open = open /\ seen # open
    ELSE seen = open

\* Where the steps of one kind that concern r are among fs.
Places(fs, signal, r) ==
    {i \in DOMAIN fs : fs[i].signal = signal /\ fs[i].request = r}

\* The results of r that have yet to be emitted.
Awaiting(r) == Places(stack, "dispatchFinished", r)

\* No call of dispatch() is ever answered twice: not by a timeout and a late
\* reply, not by a slot that runs an event loop between the two emits.
AtMostOneResult ==
    \A r \in Requests :
        /\ Len(reports[r]) <= 1
        /\ \A i, j \in Awaiting(r) : i = j
        /\ reports[r] # <<>> => Awaiting(r) = {}
        /\ r \in pending \/ r \notin called => reports[r] = <<>> /\ Awaiting(r) = {}

\* "The result is always reported": while the dispatcher lives, a call that
\* was made and is no longer in flight has been answered, or its answer is
\* among the next steps of a running handler.
ResultAlwaysReported ==
    alive => \A r \in called \ pending : reports[r] # <<>> \/ Awaiting(r) # {}

\* No reply leaks and none is freed in use: the network works for the pending
\* ones only, every other one has been released or will be by the handler
\* that has it, and none survives the dispatcher.
RepliesReleased ==
    \A r \in Requests :
        /\ reply[r] = "running" <=> r \in pending
        /\ reply[r] = "finished" <=> Places(stack, "none", r) # {}
        /\ ~alive => reply[r] \in {"none", "released"}

\* "blocks further dispatch until reset": an open breaker closes only when the
\* host resets it or sets another configuration.
OpenUntilReset ==
    [][open /\ ~open' => ResetCircuitBreaker \/ \E c \in Configs : SetConfig(c)]_vars

\* A request sent with a timeout is answered in the end, whatever the network
\* does, unless the dispatcher is destroyed first.
TimerResolves ==
    \A r \in Requests : (r \in armed) ~> (reports[r] # <<>> \/ ~alive)
\* The contract's view of a dispatcher.  A call that is neither in flight nor
\* answered nor about to be is "lost", which is not a phase of the contract;
\* after the destruction it is one that was sent and stays undecided.
Phase(r) ==
    CASE r \notin called -> "idle"
      [] reports[r] # <<>> -> "answered"
      [] reports[r] = <<>> /\ Awaiting(r) # {} -> "decided"
      [] OTHER -> IF alive /\ r \notin pending THEN "lost" ELSE "sent"

Verdict(r) ==
    IF reports[r] # <<>> THEN reports[r][1]
    ELSE IF Awaiting(r) # {} THEN stack[CHOOSE i \in Awaiting(r) : TRUE].status
    ELSE "none"

Contract == INSTANCE DispatchContract WITH
    phase <- [r \in Requests |-> Phase(r)],
    verdict <- [r \in Requests |-> Verdict(r)],
    shut <- open,
    gone <- ~alive

\* The dispatcher keeps its promise: timers, replies, the failure counter and
\* the slots that call back implement the contract.
ImplementsContract == Contract!Spec

\* With handlers that run to their end, every verdict reaches the host.
ImplementsFairContract == Contract!FairSpec
=============================================================================
