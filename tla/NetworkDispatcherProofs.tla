----------------------- MODULE NetworkDispatcherProofs -----------------------
(***************************************************************************)
(* What NetworkDispatcher guarantees for any set of calls, configurations  *)
(* and completions, any depth of nested slots and whatever the host is     *)
(* connected to.                                                           *)
(***************************************************************************)
EXTENDS NetworkDispatcher, TLAPS

----------------------------------------------------------------------------
(* Frames and what the handlers push.                                      *)

\* The kind of a step tells what it carries.
LEMMA FrameFields ==
    ASSUME NEW f \in Frames
    PROVE  /\ f.signal = "dispatchFinished" =>
                /\ f.request \in Requests /\ f.status \in Statuses
                /\ f = Finished(f.request, f.status)
           /\ f.signal = "none" => f.request \in Requests /\ f = DeleteLater(f.request)
           /\ f.signal = "circuitBreakerChanged" => f.open \in BOOLEAN
<1>1. CASE f \in {BreakerChanged(b) : b \in BOOLEAN}
  BY <1>1 DEF BreakerChanged
<1>2. CASE f = ConfigChanged
  BY <1>2 DEF ConfigChanged
<1>3. CASE f \in {Finished(r, s) : r \in Requests, s \in Statuses}
  BY <1>3 DEF Finished
<1>4. CASE f \in {DeleteLater(r) : r \in Requests}
  BY <1>4 DEF DeleteLater
<1> QED BY <1>1, <1>2, <1>3, <1>4 DEF Frames

\* An emission is a sequence of at most one step.
LEMMA EmissionType ==
    ASSUME NEW f \in Frames
    PROVE  Emission(f) \in Seq(Frames)
BY DEF Emission

LEMMA BreakerEmissionType ==
    ASSUME open' \in BOOLEAN
    PROVE  BreakerEmission \in Seq(Frames)
<1>1. BreakerChanged(open') \in Frames
  BY DEF Frames
<1> QED BY <1>1, EmissionType DEF BreakerEmission

\* Both ways of moving the stack keep its type.
LEMMA StackType ==
    ASSUME stack \in Seq(Frames), inSlot \in BOOLEAN, NEW fs \in Seq(Frames)
    PROVE  /\ Continue(fs) => stack' \in Seq(Frames) /\ inSlot' \in BOOLEAN
           /\ stack # <<>> /\ Deliver(fs) => stack' \in Seq(Frames) /\ inSlot' \in BOOLEAN
<1>1. stack # <<>> => Rest \in Seq(Frames)
  BY DEF Rest
<1>2. Continue(fs) => stack' \in Seq(Frames)
  BY DEF Continue
<1>3. stack # <<>> /\ Deliver(fs) => stack' \in Seq(Frames)
  BY <1>1 DEF Deliver
<1>4. Continue(fs) \/ Deliver(fs) => inSlot' \in BOOLEAN
  BY Zenon DEF Continue, Deliver
<1> QED BY <1>2, <1>3, <1>4

\* The step that comes next is one of the frames.
LEMMA TopType ==
    ASSUME stack \in Seq(Frames), stack # <<>>
    PROVE  Top \in Frames /\ Len(stack) \in DOMAIN stack
BY DEF Top

----------------------------------------------------------------------------
(* Type correctness.                                                       *)

LEMMA RecordType ==
    ASSUME failures \in Nat, open \in BOOLEAN, config \in Configs, NEW s, Record(s)
    PROVE  failures' \in Nat /\ open' \in BOOLEAN
<1>1. failures' = 0 \/ failures' = failures + 1
  BY Zenon DEF Record, RecordSuccess, RecordFailure
<1>2. open' = FALSE \/ open' = TRUE \/ open' = open
  BY Zenon DEF Record, RecordSuccess, RecordFailure
<1>3. open' \in BOOLEAN
  BY <1>2, Zenon
<1> QED BY <1>1, <1>3

LEMMA SettleType ==
    ASSUME TypeOK, NEW r \in Requests, NEW s \in Statuses, Settle(r, s)
    PROVE  TypeOK'
<1>1. failures' \in Nat /\ open' \in BOOLEAN
  BY RecordType DEF TypeOK, Settle
<1>2. settled' \in Seq(Statuses)
  BY DEF TypeOK, Settle
<1>3. DeleteLater(r) \in Frames /\ Finished(r, s) \in Frames
  BY DEF Frames
<1>4. <<DeleteLater(r)>> \o Emission(Finished(r, s)) \o BreakerEmission \in Seq(Frames)
  BY <1>1, <1>3, EmissionType, BreakerEmissionType
<1>5. stack' \in Seq(Frames) /\ inSlot' \in BOOLEAN
  BY <1>4, StackType DEF TypeOK, Settle
<1>6. reply' \in [Requests -> {"none", "running", "finished", "released"}]
  BY DEF TypeOK, Settle
<1>7. pending' \in SUBSET called' /\ armed' \in SUBSET pending'
  BY DEF TypeOK, Settle, CleanupReply
<1> QED BY <1>1, <1>2, <1>5, <1>6, <1>7 DEF TypeOK, Settle

LEMMA TypeStep ==
    ASSUME TypeOK, [Next]_vars
    PROVE  TypeOK'
<1>1. ASSUME NEW r \in Requests, DispatchBlocked(r) PROVE TypeOK'
  <2>1. Emission(Finished(r, "CircuitBreakerOpen")) \in Seq(Frames)
    BY EmissionType DEF Frames, Statuses
  <2>2. stack' \in Seq(Frames) /\ inSlot' \in BOOLEAN
    BY <1>1, <2>1, StackType DEF TypeOK, DispatchBlocked
  <2> QED BY <1>1, <2>2 DEF TypeOK, DispatchBlocked, breaker
<1>2. ASSUME NEW r \in Requests, DispatchInvalidUrl(r) PROVE TypeOK'
  <2>1. Emission(Finished(r, "NetworkError")) \in Seq(Frames)
    BY EmissionType DEF Frames, Statuses
  <2>2. stack' \in Seq(Frames) /\ inSlot' \in BOOLEAN
    BY <1>2, <2>1, StackType DEF TypeOK, DispatchInvalidUrl
  <2> QED BY <1>2, <2>2 DEF TypeOK, DispatchInvalidUrl, breaker
<1>3. ASSUME NEW r \in Requests, DispatchSend(r) PROVE TypeOK'
  BY <1>3 DEF TypeOK, DispatchSend, Dispatch, CreateReply, breaker, control
<1>4. ASSUME NEW c \in Configs, SetConfig(c) PROVE TypeOK'
  <2>1. open' \in BOOLEAN /\ failures' \in Nat
    BY <1>4 DEF SetConfig, ResetBreaker
  <2>2. Emission(ConfigChanged) \o BreakerEmission \in Seq(Frames)
    BY <2>1, EmissionType, BreakerEmissionType DEF Frames
  <2>3. stack' \in Seq(Frames) /\ inSlot' \in BOOLEAN
    BY <1>4, <2>2, StackType DEF TypeOK, SetConfig
  <2> QED BY <1>4, <2>1, <2>3 DEF TypeOK, SetConfig
<1>5. CASE ResetCircuitBreaker
  <2>1. open' \in BOOLEAN /\ failures' \in Nat
    BY <1>5 DEF ResetCircuitBreaker, ResetBreaker
  <2>2. stack' \in Seq(Frames) /\ inSlot' \in BOOLEAN
    BY <1>5, <2>1, BreakerEmissionType, StackType DEF TypeOK, ResetCircuitBreaker
  <2> QED BY <1>5, <2>1, <2>2 DEF TypeOK, ResetCircuitBreaker
<1>6. CASE Destroy
  BY <1>6 DEF TypeOK, Destroy, breaker, control
<1>7. ASSUME NEW r \in Requests, HandleTimeout(r) PROVE TypeOK'
  BY <1>7, SettleType DEF HandleTimeout, Statuses
<1>8. ASSUME NEW r \in Requests, NEW c \in Completions, HandleReplyFinished(r, c)
      PROVE  TypeOK'
  <2>1. Classify(c) \in Statuses
    BY DEF Classify, Statuses
  <2> QED BY <1>8, <2>1, SettleType DEF HandleReplyFinished
<1>9. ASSUME NEW r \in Requests, NEW c \in Completions, HandleReplyCancelled(r, c)
      PROVE  TypeOK'
  BY <1>9 DEF TypeOK, HandleReplyCancelled, CleanupReply, breaker, control
<1>10. ASSUME NextUp("circuitBreakerChanged") \/ NextUp("configChanged")
               \/ NextUp("dispatchFinished") \/ NextUp("none"),
              Deliver(<<>>)
       PROVE  stack' \in Seq(Frames) /\ inSlot' \in BOOLEAN
  <2>1. stack # <<>> /\ <<>> \in Seq(Frames)
    BY <1>10 DEF NextUp
  <2> QED BY <1>10, <2>1, StackType DEF TypeOK
<1>11. CASE EmitBreakerChanged
  BY <1>10, <1>11, TopType, FrameFields DEF TypeOK, EmitBreakerChanged, NextUp, Top, breaker
<1>12. CASE EmitConfigChanged
  BY <1>10, <1>12 DEF TypeOK, EmitConfigChanged, breaker
<1>13. CASE EmitDispatchFinished(<<>>)
  <2>1. Top.request \in Requests /\ Top.status \in Statuses
    BY <1>13, TopType, FrameFields DEF TypeOK, EmitDispatchFinished, NextUp, Top
  <2>2. reports' \in [Requests -> Seq(Statuses)]
    BY <1>13, <2>1 DEF TypeOK, EmitDispatchFinished
  <2> QED BY <1>10, <1>13, <2>2 DEF TypeOK, EmitDispatchFinished, breaker
<1>14. CASE ReleaseReply
  <2>1. Top.request \in Requests
    BY <1>14, TopType, FrameFields DEF TypeOK, ReleaseReply, NextUp, Top
  <2> QED BY <1>10, <1>14, <2>1 DEF TypeOK, ReleaseReply, breaker
<1>15. CASE UNCHANGED vars
  BY <1>15 DEF TypeOK, vars, breaker, control
<1>16. CASE HostNext
  BY <1>1, <1>2, <1>3, <1>4, <1>5, <1>6, <1>16 DEF HostNext
<1>17. CASE EventNext
  BY <1>7, <1>8, <1>9, <1>17 DEF EventNext
<1>18. CASE StepNext
  BY <1>11, <1>12, <1>13, <1>14, <1>18 DEF StepNext
<1> QED BY <1>15, <1>16, <1>17, <1>18 DEF Next, Gone

LEMMA TypeInit ==
    ASSUME Init
    PROVE  TypeOK
<1>1. \A S : <<>> \in Seq(S)
  OBVIOUS
<1>2. reply \in [Requests -> {"none", "running", "finished", "released"}]
  BY DEF Init
<1>3. reports \in [Requests -> Seq(Statuses)]
  BY <1>1 DEF Init
<1> QED BY <1>1, <1>2, <1>3, DispatcherAssumption, Zenon DEF Init, TypeOK

\* Every reachable state of a dispatcher is well typed, and a timer never runs
\* for a request that is not pending.
THEOREM TypeCorrect == Spec => []TypeOK
BY TypeInit, TypeStep, PTL DEF Spec

----------------------------------------------------------------------------
(* The circuit breaker.                                                    *)

\* The strengthening: the counter is the length of the run of failures that ends the
\* history, and the flag is what the counter says, at every step.
BreakerInv ==
    LET m == Len(settled)
    IN  /\ failures <= m
        /\ \A i \in (m - failures + 1)..m : settled[i] # "Success"
        /\ failures < m => settled[m - failures] = "Success"
        /\ open <=> Trips(failures)

\* A reset forgets the history, and no history trips the breaker.
LEMMA ResetBreakerInv ==
    ASSUME ResetBreaker, settled' = <<>>, config' \in Configs
    PROVE  BreakerInv'
<1>1. failures' = 0 /\ Len(settled') = 0
  BY DEF ResetBreaker
<1>2. ~Trips(failures)'
  BY <1>1, DispatcherAssumption DEF Trips, ConfigType
<1>3. ~open'
  BY Zenon DEF ResetBreaker
<1>4. open' <=> Trips(failures)'
  BY <1>2, <1>3, Zenon
<1> QED BY <1>1, <1>4 DEF BreakerInv

\* A request that settles extends the history by what it adds to the counter.
LEMMA SettleBreakerInv ==
    ASSUME TypeOK, BreakerInv, NEW r \in Requests, NEW s \in Statuses, Settle(r, s)
    PROVE  BreakerInv'
<1> DEFINE m == Len(settled)
<1>1. /\ settled' \in Seq(Statuses) /\ Len(settled') = m + 1
      /\ settled'[m + 1] = s /\ \A i \in 1..m : settled'[i] = settled[i]
      /\ m \in Nat /\ failures \in Nat /\ config' = config
  BY DEF Settle, TypeOK
<1>2. /\ config.maxConsecutiveFailures \in Int
      /\ failures <= m
      /\ \A i \in (m - failures + 1)..m : settled[i] # "Success"
      /\ failures < m => settled[m - failures] = "Success"
  BY DispatcherAssumption DEF BreakerInv, TypeOK, ConfigType
<1>3. CASE s = "Success"
  <2>1. failures' = 0 /\ ~open'
    BY <1>3, Zenon DEF Settle, Record, RecordSuccess
  <2>2. ~Trips(failures)'
    BY <1>1, <1>2, <2>1 DEF Trips
  <2>3. open' <=> Trips(failures)'
    BY <2>1, <2>2, Zenon
  <2> QED BY <1>1, <1>3, <2>1, <2>3 DEF BreakerInv
<1>4. CASE s # "Success"
  <2>1. failures' = failures + 1
    BY <1>4, Zenon DEF Settle, Record, RecordFailure
  <2>2. open' = IF Trips(failures + 1) THEN TRUE ELSE open
    BY <1>4, Zenon DEF Settle, Record, RecordFailure
  <2>3. Trips(failures)' <=> Trips(failures + 1)
    BY <1>1, <2>1 DEF Trips
  <2>4. Trips(failures) => Trips(failures + 1)
    BY <1>1, <1>2 DEF Trips
  <2>5. open <=> Trips(failures)
    BY Zenon DEF BreakerInv
  <2>6. open' <=> Trips(failures)'
    BY <2>2, <2>3, <2>4, <2>5, Zenon
  <2>7. /\ failures' <= Len(settled')
        /\ Len(settled') - failures' = m - failures
    BY <1>1, <1>2, <2>1
  <2>8. \A i \in (m - failures + 1)..(m + 1) : settled'[i] # "Success"
    BY <1>1, <1>2, <1>4
  <2>9. failures' < Len(settled') => settled'[m - failures] = "Success"
    BY <1>1, <1>2, <2>1
  <2> QED BY <1>1, <2>6, <2>7, <2>8, <2>9 DEF BreakerInv
<1> QED BY <1>3, <1>4

LEMMA BreakerStep ==
    ASSUME TypeOK, BreakerInv, [Next]_vars
    PROVE  BreakerInv'
<1>1. CASE UNCHANGED <<config, breaker>>
  BY <1>1 DEF BreakerInv, breaker, Trips
<1>2. ASSUME NEW c \in Configs, SetConfig(c) PROVE BreakerInv'
  BY <1>2, ResetBreakerInv DEF SetConfig
<1>3. CASE ResetCircuitBreaker
  BY <1>3, ResetBreakerInv DEF ResetCircuitBreaker, TypeOK
<1>4. ASSUME NEW r \in Requests, HandleTimeout(r) PROVE BreakerInv'
  BY <1>4, SettleBreakerInv DEF HandleTimeout, Statuses
<1>5. ASSUME NEW r \in Requests, NEW c \in Completions, HandleReplyFinished(r, c)
      PROVE  BreakerInv'
  <2>1. Classify(c) \in Statuses
    BY DEF Classify, Statuses
  <2> QED BY <1>5, <2>1, SettleBreakerInv DEF HandleReplyFinished
<1>6. CASE HostNext
  BY <1>1, <1>2, <1>3, <1>6
     DEF HostNext, DispatchBlocked, DispatchInvalidUrl, DispatchSend, Dispatch, CreateReply, Destroy
<1>7. CASE EventNext
  BY <1>1, <1>4, <1>5, <1>7 DEF EventNext, HandleReplyCancelled
<1>8. CASE StepNext \/ Gone \/ UNCHANGED vars
  BY <1>1, <1>8
     DEF StepNext, EmitBreakerChanged, EmitConfigChanged, EmitDispatchFinished,
         ReleaseReply, Gone, vars
<1> QED BY <1>6, <1>7, <1>8 DEF Next

\* The counter and the flag agree with the history, so the flag does.
LEMMA BreakerInvImplies ==
    ASSUME TypeOK, BreakerInv
    PROVE  BreakerMatchesHistory
<1> DEFINE n == config.maxConsecutiveFailures
           m == Len(settled)
           Tripped == n > 0 /\ m >= n /\ \A i \in (m - n + 1)..m : settled[i] # "Success"
<1>1. n \in Int /\ m \in Nat /\ failures \in Nat
  BY DispatcherAssumption DEF TypeOK, ConfigType
<1>2. /\ failures <= m
      /\ \A i \in (m - failures + 1)..m : settled[i] # "Success"
      /\ failures < m => settled[m - failures] = "Success"
  BY DEF BreakerInv
<1>3. Trips(failures) <=> n > 0 /\ failures >= n
  BY DEF Trips
<1>4. n > 0 /\ failures >= n => Tripped
  BY <1>1, <1>2
<1>5. ASSUME Tripped, failures < n PROVE FALSE
  <2>1. failures < m /\ m - failures \in (m - n + 1)..m
    BY <1>1, <1>5
  <2> QED BY <1>2, <1>5, <2>1
<1>6. Tripped => n > 0 /\ failures >= n
  BY <1>1, <1>5
<1>7. open <=> Trips(failures)
  BY Zenon DEF BreakerInv
<1> QED BY <1>3, <1>4, <1>6, <1>7, Zenon DEF BreakerMatchesHistory

\* Whatever the host, the network and the timers do, and in whatever order
\* slots and handlers interleave, the breaker is open exactly when the last
\* maxConsecutiveFailures requests settled since the last reset all failed.
THEOREM BreakerCorrect == Spec => []BreakerMatchesHistory
<1>1. Init => BreakerInv
  <2>1. Init => failures = 0 /\ settled = <<>> /\ ~open /\ config \in Configs
    BY DispatcherAssumption, Zenon DEF Init
  <2>2. Init => ~Trips(failures)
    BY <2>1, DispatcherAssumption DEF Trips, ConfigType
  <2>3. Init => (open <=> Trips(failures))
    BY <2>1, <2>2, Zenon
  <2> QED BY <2>1, <2>3 DEF BreakerInv
<1>2. TypeOK /\ BreakerInv /\ [Next]_vars => BreakerInv'
  BY BreakerStep
<1>3. TypeOK /\ BreakerInv => BreakerMatchesHistory
  BY BreakerInvImplies
<1> QED BY <1>1, <1>2, <1>3, TypeCorrect, PTL DEF Spec

----------------------------------------------------------------------------
(* The steps on the stack.                                                 *)

\* The places S of some steps, once n others lie below them.
Shift(n, S) == {n + i : i \in S}

LEMMA ShiftFacts ==
    ASSUME NEW n
    PROVE  Shift(n, {}) = {} /\ \A i : Shift(n, {i}) = {n + i}
BY DEF Shift

\* What a handler adds to the stack lies above what was there.
LEMMA PlacesAbove ==
    ASSUME NEW fs \in Seq(Frames), NEW gs \in Seq(Frames), NEW signal, NEW r
    PROVE  Places(fs \o gs, signal, r)
             = Places(fs, signal, r) \cup Shift(Len(fs), Places(gs, signal, r))
<1> DEFINE m == Len(fs)
           n == Len(gs)
<1>1. /\ m \in Nat /\ n \in Nat
      /\ DOMAIN fs = 1..m /\ DOMAIN gs = 1..n /\ DOMAIN (fs \o gs) = 1..(m + n)
      /\ \A i \in 1..m : (fs \o gs)[i] = fs[i]
      /\ \A i \in 1..n : (fs \o gs)[m + i] = gs[i]
  OBVIOUS
<1>2. ASSUME NEW i \in Places(fs \o gs, signal, r), i \notin Places(fs, signal, r)
      PROVE  i \in Shift(m, Places(gs, signal, r))
  <2>1. i \in (m + 1)..(m + n)
    BY <1>1, <1>2 DEF Places
  <2>2. i - m \in 1..n /\ i = m + (i - m)
    BY <1>1, <2>1
  <2>3. i - m \in Places(gs, signal, r)
    BY <1>1, <1>2, <2>2 DEF Places
  <2> QED BY <2>2, <2>3 DEF Shift
<1>3. Places(fs, signal, r) \subseteq Places(fs \o gs, signal, r)
  BY <1>1 DEF Places
<1>4. ASSUME NEW j \in Places(gs, signal, r)
      PROVE  m + j \in Places(fs \o gs, signal, r)
  BY <1>1 DEF Places
<1> QED BY <1>2, <1>3, <1>4 DEF Shift

\* Steps on top that do not concern r change nothing for r.
LEMMA PlacesUnder ==
    ASSUME NEW fs \in Seq(Frames), NEW gs \in Seq(Frames), NEW signal, NEW r
    PROVE  Places(gs, signal, r) = {} => Places(fs \o gs, signal, r) = Places(fs, signal, r)
<1>1. Places(fs \o gs, signal, r)
        = Places(fs, signal, r) \cup Shift(Len(fs), Places(gs, signal, r))
  BY PlacesAbove
<1> QED BY <1>1, ShiftFacts

\* The step that is done leaves the stack, and no other moves.
LEMMA PlacesPopped ==
    ASSUME stack \in Seq(Frames), stack # <<>>, Deliver(<<>>), NEW signal, NEW r
    PROVE  Places(stack, signal, r)' = Places(stack, signal, r) \ {Len(stack)}
<1> DEFINE n == Len(stack)
<1>1. n \in Nat /\ n > 0
  OBVIOUS
<1>2. stack' = SubSeq(stack, 1, n - 1) \o <<>>
  BY DEF Deliver, Rest
<1>3. SubSeq(stack, 1, n - 1) \in Seq(Frames)
  BY <1>1
<1>4. stack' = SubSeq(stack, 1, n - 1)
  BY <1>2, <1>3
<1>5. DOMAIN stack' = 1..(n - 1) /\ \A i \in 1..(n - 1) : stack'[i] = stack[i]
  BY <1>1, <1>4
<1>6. DOMAIN stack = 1..n
  OBVIOUS
<1> QED BY <1>1, <1>5, <1>6 DEF Places

\* A signal leaves at most one step.
LEMMA EmissionPlaces ==
    ASSUME NEW f \in Frames, NEW signal, NEW r
    PROVE  Places(Emission(f), signal, r)
             = IF f.signal \in Connected /\ f.signal = signal /\ f.request = r THEN {1} ELSE {}
BY DEF Emission, Places

\* The breaker's signal concerns no call.
LEMMA BreakerPlaces ==
    ASSUME open' \in BOOLEAN, NEW signal \in {"dispatchFinished", "none"}, NEW r
    PROVE  Places(BreakerEmission, signal, r) = {}
<1>1. BreakerChanged(open') \in Frames /\ BreakerChanged(open').signal # signal
  BY DEF Frames, BreakerChanged
<1> QED BY <1>1, EmissionPlaces DEF BreakerEmission, Places
\* A settled request leaves one deleteLater(), and its result if anything is
\* connected; both concern r alone.
LEMMA SettlePlaces ==
    ASSUME TypeOK, NEW r \in Requests, NEW s \in Statuses, Settle(r, s), NEW q
    PROVE  /\ Places(stack, "dispatchFinished", q)'
                = Places(stack, "dispatchFinished", q)
                    \cup IF q = r /\ "dispatchFinished" \in Connected
                         THEN {Len(stack) + 2} ELSE {}
           /\ Places(stack, "none", q)'
                = Places(stack, "none", q) \cup IF q = r THEN {Len(stack) + 1} ELSE {}
<1> DEFINE ds == <<DeleteLater(r)>>
           es == Emission(Finished(r, s))
           bs == BreakerEmission
           Told == q = r /\ "dispatchFinished" \in Connected
<1>1. open' \in BOOLEAN
  BY RecordType DEF TypeOK, Settle
<1>2. DeleteLater(r) \in Frames /\ Finished(r, s) \in Frames
  BY DEF Frames
<1>3. ds \in Seq(Frames) /\ es \in Seq(Frames) /\ bs \in Seq(Frames) /\ stack \in Seq(Frames)
  BY <1>1, <1>2, EmissionType, BreakerEmissionType DEF TypeOK
<1>4. ds \o es \in Seq(Frames) /\ Len(ds) = 1 /\ Len(stack) \in Nat
  BY <1>3
<1>5. Places(bs, "dispatchFinished", q) = {} /\ Places(bs, "none", q) = {}
  BY <1>1, BreakerPlaces
<1>6. /\ Places(ds, "dispatchFinished", q) = {}
      /\ Places(ds, "none", q) = IF q = r THEN {1} ELSE {}
  BY DEF Places, DeleteLater
<1>7. Finished(r, s).signal = "dispatchFinished" /\ Finished(r, s).request = r
  BY DEF Finished
<1>8. /\ Places(es, "dispatchFinished", q) = IF Told THEN {1} ELSE {}
      /\ Places(es, "none", q) = {}
  BY <1>2, <1>7, EmissionPlaces
<1>9. stack' = stack \o (ds \o es \o bs)
  BY DEF Settle, Continue
<1>10. \A k : Places(stack, k, q)' = Places(stack', k, q)
  BY DEF Places
<1> HIDE DEF ds, es, bs, Told
<1>11. \A k : Places(ds \o es, k, q) = Places(ds, k, q) \cup Shift(Len(ds), Places(es, k, q))
  BY <1>3, PlacesAbove
<1>12. PICK gs \in Seq(Frames) : gs = ds \o es
  BY <1>4
<1>13. /\ Places(gs, "dispatchFinished", q) = IF Told THEN {2} ELSE {}
       /\ Places(gs, "none", q) = IF q = r THEN {1} ELSE {}
  <2>1. Shift(1, {}) = {} /\ Shift(1, {1}) = {2}
    BY DEF Shift
  <2> QED BY <1>4, <1>6, <1>8, <1>11, <1>12, <2>1
<1>14. PICK hs \in Seq(Frames) :
         /\ hs = gs \o bs
         /\ Places(hs, "dispatchFinished", q) = Places(gs, "dispatchFinished", q)
         /\ Places(hs, "none", q) = Places(gs, "none", q)
  <2>1. \A k : Places(bs, k, q) = {} => Places(gs \o bs, k, q) = Places(gs, k, q)
    BY <1>3, PlacesUnder
  <2>2. gs \o bs \in Seq(Frames)
    BY <1>3
  <2> QED BY <1>5, <2>1, <2>2
<1>15. \A k : Places(stack \o hs, k, q)
                = Places(stack, k, q) \cup Shift(Len(stack), Places(hs, k, q))
  BY <1>3, PlacesAbove
<1>16. \A k : Places(stack, k, q)' = Places(stack, k, q) \cup Shift(Len(stack), Places(hs, k, q))
  BY <1>9, <1>10, <1>12, <1>14, <1>15
<1>17. /\ Shift(Len(stack), {}) = {}
       /\ Shift(Len(stack), {1}) = {Len(stack) + 1}
       /\ Shift(Len(stack), {2}) = {Len(stack) + 2}
  BY ShiftFacts
<1> QED BY <1>13, <1>14, <1>16, <1>17 DEF Told

\* The host's own calls leave no deleteLater(), and no result but the one of
\* a refused call.
LEMMA RefusePlaces ==
    ASSUME TypeOK, NEW r \in Requests, NEW s \in Statuses,
           Continue(Emission(Finished(r, s))), NEW q
    PROVE  /\ Places(stack, "dispatchFinished", q)'
                = Places(stack, "dispatchFinished", q)
                    \cup IF q = r /\ "dispatchFinished" \in Connected
                         THEN {Len(stack) + 1} ELSE {}
           /\ Places(stack, "none", q)' = Places(stack, "none", q)
<1> DEFINE es == Emission(Finished(r, s))
<1>1. Finished(r, s) \in Frames
  BY DEF Frames
<1>2. es \in Seq(Frames) /\ stack \in Seq(Frames)
  BY <1>1, EmissionType DEF TypeOK
<1>3. /\ Finished(r, s).signal = "dispatchFinished" /\ Finished(r, s).request = r
  BY DEF Finished
<1>4. /\ Places(es, "dispatchFinished", q)
           = IF q = r /\ "dispatchFinished" \in Connected THEN {1} ELSE {}
      /\ Places(es, "none", q) = {}
  BY <1>1, <1>3, EmissionPlaces
<1> HIDE DEF es
<1>5. \A k : Places(stack \o es, k, q)
        = Places(stack, k, q) \cup Shift(Len(stack), Places(es, k, q))
  BY <1>2, PlacesAbove
<1>6. stack' = stack \o es
  BY DEF Continue, es
<1>7. \A k : Places(stack, k, q)' = Places(stack', k, q)
  BY DEF Places
<1> QED BY <1>4, <1>5, <1>6, <1>7, ShiftFacts

LEMMA ResetPlaces ==
    ASSUME TypeOK, NEW q, NEW signal \in {"dispatchFinished", "none"},
           (\E c \in Configs : SetConfig(c)) \/ ResetCircuitBreaker
    PROVE  Places(stack, signal, q)' = Places(stack, signal, q)
<1>1. open' \in BOOLEAN
  BY DEF SetConfig, ResetCircuitBreaker, ResetBreaker
<1>2. /\ BreakerEmission \in Seq(Frames)
      /\ Places(BreakerEmission, signal, q) = {}
  BY <1>1, BreakerEmissionType, BreakerPlaces
<1>3. ConfigChanged \in Frames /\ ConfigChanged.signal # signal
  BY DEF Frames, ConfigChanged
<1>4. /\ Emission(ConfigChanged) \in Seq(Frames)
      /\ Places(Emission(ConfigChanged), signal, q) = {}
  BY <1>3, EmissionType, EmissionPlaces
<1>5. Places(Emission(ConfigChanged) \o BreakerEmission, signal, q) = {}
  BY <1>2, <1>4, PlacesUnder
<1>6. Emission(ConfigChanged) \o BreakerEmission \in Seq(Frames)
  BY <1>2, <1>4
<1>7. PICK fs \in Seq(Frames) : stack' = stack \o fs /\ Places(fs, signal, q) = {}
  BY <1>2, <1>5, <1>6 DEF SetConfig, ResetCircuitBreaker, Continue
<1>8. stack \in Seq(Frames)
  BY DEF TypeOK
<1>9. \A gs \in Seq(Frames) : Places(stack \o gs, signal, q)
        = Places(stack, signal, q) \cup Shift(Len(stack), Places(gs, signal, q))
  BY <1>8, PlacesAbove
<1>10. Places(stack, signal, q)' = Places(stack', signal, q)
  BY DEF Places
<1> QED BY <1>7, <1>9, <1>10, ShiftFacts
\* The step that comes next is the last place of its kind.
LEMMA TopPlace ==
    ASSUME TypeOK, NEW signal \in {"dispatchFinished", "none"}, NextUp(signal)
    PROVE  /\ stack # <<>> /\ Len(stack) \in Places(stack, signal, Top.request)
           /\ \A k, q : k # signal \/ q # Top.request => Len(stack) \notin Places(stack, k, q)
           /\ Top.request \in Requests
<1>1. stack # <<>> /\ stack \in Seq(Frames) /\ stack[Len(stack)].signal = signal
  BY DEF NextUp, TypeOK
<1>2. Len(stack) \in DOMAIN stack
  BY <1>1
<1>3. Top.request \in Requests
  BY <1>1, TopType, FrameFields DEF Top
<1> QED BY <1>1, <1>2, <1>3 DEF Places, Top

----------------------------------------------------------------------------
(* Results.                                                                *)

\* What AtMostOneResult says of one call.
OneResult(r) ==
    /\ Len(reports[r]) <= 1
    /\ \A i, j \in Awaiting(r) : i = j
    /\ reports[r] # <<>> => Awaiting(r) = {}
    /\ r \in pending \/ r \notin called => reports[r] = <<>> /\ Awaiting(r) = {}

LEMMA OneResultStep ==
    ASSUME TypeOK, AtMostOneResult, [Next]_vars, NEW q \in Requests
    PROVE  OneResult(q)'
<1> USE DEF Awaiting
<1>0. OneResult(q)
  BY DEF AtMostOneResult, OneResult
<1>1. ASSUME NEW r \in Requests, DispatchBlocked(r) PROVE OneResult(q)'
  <2>1. Awaiting(q)' = Awaiting(q) \cup IF q = r /\ "dispatchFinished" \in Connected
                                         THEN {Len(stack) + 1} ELSE {}
    BY <1>1, RefusePlaces DEF DispatchBlocked, Statuses
  <2>2. r \notin pending
    BY <1>1 DEF DispatchBlocked, TypeOK
  <2> QED BY <1>0, <1>1, <2>1, <2>2 DEF OneResult, DispatchBlocked
<1>2. ASSUME NEW r \in Requests, DispatchInvalidUrl(r) PROVE OneResult(q)'
  <2>1. Awaiting(q)' = Awaiting(q) \cup IF q = r /\ "dispatchFinished" \in Connected
                                         THEN {Len(stack) + 1} ELSE {}
    BY <1>2, RefusePlaces DEF DispatchInvalidUrl, Statuses
  <2>2. r \notin pending
    BY <1>2 DEF DispatchInvalidUrl, TypeOK
  <2> QED BY <1>0, <1>2, <2>1, <2>2 DEF OneResult, DispatchInvalidUrl
<1>3. ASSUME NEW r \in Requests, DispatchSend(r) PROVE OneResult(q)'
  BY <1>0, <1>3 DEF OneResult, DispatchSend, Dispatch, CreateReply, control, Places
<1>4. CASE (\E c \in Configs : SetConfig(c)) \/ ResetCircuitBreaker
  <2>1. Awaiting(q)' = Awaiting(q)
    BY <1>4, ResetPlaces
  <2> QED BY <1>0, <1>4, <2>1 DEF OneResult, SetConfig, ResetCircuitBreaker
<1>5. CASE Destroy
  <2>1. Awaiting(q)' = Awaiting(q)
    BY <1>5 DEF Destroy, control, Places
  <2> QED BY <1>0, <1>5, <2>1 DEF OneResult, Destroy
<1>6. ASSUME NEW r \in Requests, NEW s \in Statuses, Settle(r, s) PROVE OneResult(q)'
  <2>1. Awaiting(q)' = Awaiting(q) \cup IF q = r /\ "dispatchFinished" \in Connected
                                         THEN {Len(stack) + 2} ELSE {}
    BY <1>6, SettlePlaces
  <2> QED BY <1>0, <1>6, <2>1 DEF OneResult, Settle, CleanupReply, TypeOK
<1>7. ASSUME NEW r \in Requests, NEW c \in Completions, HandleReplyCancelled(r, c)
      PROVE  OneResult(q)'
  <2>1. Awaiting(q)' = Awaiting(q)
    BY <1>7 DEF HandleReplyCancelled, control, Places
  <2> QED BY <1>0, <1>7, <2>1 DEF OneResult, HandleReplyCancelled, CleanupReply
<1>8. CASE EventNext
  <2>1. ASSUME NEW r \in Requests, HandleTimeout(r) PROVE OneResult(q)'
    BY <1>6, <2>1 DEF HandleTimeout, Statuses
  <2>2. ASSUME NEW r \in Requests, NEW c \in Completions, HandleReplyFinished(r, c)
        PROVE  OneResult(q)'
    <3>1. Classify(c) \in Statuses
      BY DEF Classify, Statuses
    <3> QED BY <1>6, <2>2, <3>1 DEF HandleReplyFinished
  <2> QED BY <1>7, <1>8, <2>1, <2>2 DEF EventNext
<1>9. CASE EmitDispatchFinished(<<>>)
  <2>1. /\ stack # <<>> /\ Len(stack) \in Awaiting(Top.request)
        /\ q # Top.request => Len(stack) \notin Awaiting(q)
    BY <1>9, TopPlace DEF EmitDispatchFinished
  <2>2. Awaiting(q)' = Awaiting(q) \ {Len(stack)}
    BY <1>9, <2>1, PlacesPopped DEF EmitDispatchFinished, TypeOK
  <2>3. reports' = [reports EXCEPT ![Top.request] = Append(@, Top.status)]
        /\ called' = called /\ pending' = pending
    BY <1>9 DEF EmitDispatchFinished
  <2>4. CASE q = Top.request
    <3>1. reports[q] = <<>> /\ Awaiting(q) = {Len(stack)}
      BY <1>0, <2>1, <2>4 DEF OneResult
    <3>2. reports'[q] = Append(<<>>, Top.status)
      BY <2>3, <2>4, <3>1 DEF TypeOK
    <3>3. Len(reports'[q]) <= 1 /\ reports'[q] # <<>>
      BY <3>2
    <3>4. Awaiting(q)' = {}
      BY <2>2, <3>1
    <3>5. q \in called' /\ q \notin pending'
      BY <1>0, <2>3, <3>1 DEF OneResult
    <3> QED BY <3>3, <3>4, <3>5, Zenon DEF OneResult
  <2>5. CASE q # Top.request
    <3>1. reports'[q] = reports[q] /\ Awaiting(q)' = Awaiting(q)
      BY <2>1, <2>2, <2>3, <2>5 DEF TypeOK
    <3> QED BY <1>0, <2>3, <3>1 DEF OneResult
  <2> QED BY <2>4, <2>5
<1>10. CASE EmitBreakerChanged \/ EmitConfigChanged \/ ReleaseReply
  <2>1. stack # <<>> /\ stack \in Seq(Frames) /\ Deliver(<<>>)
    BY <1>10 DEF EmitBreakerChanged, EmitConfigChanged, ReleaseReply, NextUp, TypeOK
  <2>2. Awaiting(q)' = Awaiting(q) \ {Len(stack)}
    BY <2>1, PlacesPopped
  <2> QED BY <1>0, <1>10, <2>2
          DEF OneResult, EmitBreakerChanged, EmitConfigChanged, ReleaseReply
<1>11. CASE Gone \/ UNCHANGED vars
  BY <1>0, <1>11 DEF OneResult, Gone, vars, control, Places
<1>12. CASE HostNext
  BY <1>1, <1>2, <1>3, <1>4, <1>5, <1>12 DEF HostNext
<1>13. CASE StepNext
  BY <1>9, <1>10, <1>13 DEF StepNext
<1> QED BY <1>8, <1>11, <1>12, <1>13 DEF Next

\* No call of dispatch() is answered twice, whatever slots do in between the
\* signals of a handler and however timers and replies race.
THEOREM OneResultCorrect == Spec => []AtMostOneResult
<1>1. Init => AtMostOneResult
  <2>1. ASSUME Init, NEW r \in Requests
        PROVE  OneResult(r)
    <3>1. reports[r] = <<>> /\ stack = <<>>
      BY <2>1 DEF Init
    <3>2. Awaiting(r) = {}
      BY <3>1 DEF Awaiting, Places
    <3> QED BY <3>1, <3>2 DEF OneResult
  <2> QED BY <2>1 DEF AtMostOneResult, OneResult
<1>2. TypeOK /\ AtMostOneResult /\ [Next]_vars => AtMostOneResult'
  BY OneResultStep DEF AtMostOneResult, OneResult
<1> QED BY <1>1, <1>2, TypeCorrect, PTL DEF Spec
\* The network reports cancellation of none of the replies: nobody but the
\* dispatcher aborts them, and no transfer timeout of the access manager does.
NoForeignAbort == \A c \in Completions : c.error # "OperationCanceledError"

LEMMA ReportedStep ==
    ASSUME NoForeignAbort, "dispatchFinished" \in Connected,
           TypeOK, ResultAlwaysReported, [Next]_vars,
           alive', NEW q \in called', q \notin pending'
    PROVE  reports'[q] # <<>> \/ Awaiting(q)' # {}
<1> USE DEF Awaiting
<1>0. alive /\ q \in Requests
  <2>1. alive
    BY DEF Next, HostNext, EventNext, StepNext, DispatchBlocked, DispatchInvalidUrl,
           DispatchSend, Dispatch, CreateReply, SetConfig, ResetCircuitBreaker, Destroy, HandleTimeout,
           HandleReplyFinished, HandleReplyCancelled, Settle, CanRun, HostRuns, EmitBreakerChanged,
           EmitConfigChanged, EmitDispatchFinished, ReleaseReply, Gone, vars
  <2>2. q \in Requests
    BY TypeStep DEF TypeOK
  <2> QED BY <2>1, <2>2
<1>1. q \in called /\ q \notin pending => reports[q] # <<>> \/ Awaiting(q) # {}
  BY <1>0 DEF ResultAlwaysReported
<1>2. ASSUME NEW r \in Requests, DispatchBlocked(r) \/ DispatchInvalidUrl(r)
      PROVE  reports'[q] # <<>> \/ Awaiting(q)' # {}
  <2>1. Awaiting(q)' = Awaiting(q) \cup IF q = r /\ "dispatchFinished" \in Connected
                                         THEN {Len(stack) + 1} ELSE {}
    BY <1>2, RefusePlaces DEF DispatchBlocked, DispatchInvalidUrl, Statuses
  <2> QED BY <1>1, <1>2, <2>1 DEF DispatchBlocked, DispatchInvalidUrl
<1>3. ASSUME NEW r \in Requests, DispatchSend(r)
      PROVE  reports'[q] # <<>> \/ Awaiting(q)' # {}
  BY <1>1, <1>3 DEF DispatchSend, Dispatch, CreateReply, control, Places
<1>4. CASE (\E c \in Configs : SetConfig(c)) \/ ResetCircuitBreaker
  <2>1. Awaiting(q)' = Awaiting(q)
    BY <1>4, ResetPlaces
  <2> QED BY <1>1, <1>4, <2>1 DEF SetConfig, ResetCircuitBreaker
<1>5. CASE Destroy
  BY <1>5 DEF Destroy
<1>6. ASSUME NEW r \in Requests, NEW s \in Statuses, Settle(r, s)
      PROVE  reports'[q] # <<>> \/ Awaiting(q)' # {}
  <2>1. Awaiting(q)' = Awaiting(q) \cup IF q = r /\ "dispatchFinished" \in Connected
                                         THEN {Len(stack) + 2} ELSE {}
    BY <1>6, SettlePlaces
  <2> QED BY <1>1, <1>6, <2>1 DEF Settle, CleanupReply
<1>7. CASE EventNext
  <2>1. ASSUME NEW r \in Requests, HandleTimeout(r)
        PROVE  reports'[q] # <<>> \/ Awaiting(q)' # {}
    BY <1>6, <2>1 DEF HandleTimeout, Statuses
  <2>2. ASSUME NEW r \in Requests, NEW c \in Completions, HandleReplyFinished(r, c)
        PROVE  reports'[q] # <<>> \/ Awaiting(q)' # {}
    <3>1. Classify(c) \in Statuses
      BY DEF Classify, Statuses
    <3> QED BY <1>6, <2>2, <3>1 DEF HandleReplyFinished
  <2>3. ASSUME NEW r \in Requests, NEW c \in Completions, HandleReplyCancelled(r, c)
        PROVE  FALSE
    BY <2>3 DEF HandleReplyCancelled, NoForeignAbort
  <2> QED BY <1>7, <2>1, <2>2, <2>3 DEF EventNext
<1>8. CASE EmitDispatchFinished(<<>>)
  <2>1. /\ stack # <<>> /\ Top.request \in Requests
        /\ q # Top.request => Len(stack) \notin Awaiting(q)
    BY <1>8, TopPlace DEF EmitDispatchFinished
  <2>2. Awaiting(q)' = Awaiting(q) \ {Len(stack)}
    BY <1>8, <2>1, PlacesPopped DEF EmitDispatchFinished, TypeOK
  <2>3. reports' = [reports EXCEPT ![Top.request] = Append(@, Top.status)]
    BY <1>8 DEF EmitDispatchFinished
  <2>4. CASE q = Top.request
    <3>1. reports'[q] = Append(reports[q], Top.status) /\ reports[q] \in Seq(Statuses)
      BY <1>0, <2>3, <2>4 DEF TypeOK
    <3>2. Len(reports'[q]) = Len(reports[q]) + 1 /\ Len(reports[q]) \in Nat
      BY <3>1
    <3> QED BY <3>2
  <2>5. CASE q # Top.request
    <3>1. reports'[q] = reports[q] /\ Awaiting(q)' = Awaiting(q)
      BY <1>0, <2>1, <2>2, <2>3, <2>5 DEF TypeOK
    <3> QED BY <1>1, <1>8, <3>1 DEF EmitDispatchFinished
  <2> QED BY <2>4, <2>5
<1>9. CASE EmitBreakerChanged \/ EmitConfigChanged \/ ReleaseReply
  <2>1. /\ stack # <<>> /\ stack \in Seq(Frames) /\ Deliver(<<>>)
        /\ stack[Len(stack)].signal # "dispatchFinished"
    BY <1>9 DEF EmitBreakerChanged, EmitConfigChanged, ReleaseReply, NextUp, TypeOK
  <2>2. Awaiting(q)' = Awaiting(q) \ {Len(stack)}
    BY <2>1, PlacesPopped
  <2>3. Len(stack) \notin Awaiting(q)
    BY <2>1 DEF Places
  <2> QED BY <1>1, <1>9, <2>2, <2>3 DEF EmitBreakerChanged, EmitConfigChanged, ReleaseReply
<1>10. CASE Gone \/ UNCHANGED vars
  BY <1>1, <1>10 DEF Gone, vars, control, Places
<1>11. CASE HostNext
  BY <1>2, <1>3, <1>4, <1>5, <1>11 DEF HostNext
<1>12. CASE StepNext
  BY <1>8, <1>9, <1>12 DEF StepNext
<1> QED BY <1>7, <1>10, <1>11, <1>12 DEF Next

\* "The result is always reported": true of every call while the dispatcher
\* lives, provided nobody else aborts its replies.
THEOREM ReportedCorrect ==
    ASSUME NoForeignAbort, "dispatchFinished" \in Connected
    PROVE  Spec => []ResultAlwaysReported
<1>1. Init => ResultAlwaysReported
  BY DEF Init, ResultAlwaysReported
<1>2. TypeOK /\ ResultAlwaysReported /\ [Next]_vars => ResultAlwaysReported'
  BY ReportedStep DEF ResultAlwaysReported
<1> QED BY <1>1, <1>2, TypeCorrect, PTL DEF Spec

----------------------------------------------------------------------------
(* Replies.                                                                *)

\* The strengthening: a handler leaves one deleteLater() at most, and a call that
\* was not made has no reply.
ReleaseInv ==
    /\ RepliesReleased
    /\ \A r \in Requests :
        /\ \A i, j \in Places(stack, "none", r) : i = j
        /\ r \notin called => reply[r] = "none"

\* What ReleaseInv says of one call.
OneReply(r) ==
    /\ reply[r] = "running" <=> r \in pending
    /\ reply[r] = "finished" <=> Places(stack, "none", r) # {}
    /\ ~alive => reply[r] \in {"none", "released"}
    /\ \A i, j \in Places(stack, "none", r) : i = j
    /\ r \notin called => reply[r] = "none"

LEMMA OneReplyStep ==
    ASSUME TypeOK, ReleaseInv, [Next]_vars, NEW q \in Requests
    PROVE  OneReply(q)'
<1> DEFINE Left(r) == Places(stack, "none", r)
<1>0. OneReply(q) /\ reply \in [Requests -> {"none", "running", "finished", "released"}]
  BY DEF ReleaseInv, RepliesReleased, OneReply, TypeOK
<1>1. ASSUME NEW r \in Requests, DispatchBlocked(r) \/ DispatchInvalidUrl(r)
      PROVE  OneReply(q)'
  <2>1. Left(q)' = Left(q)
    BY <1>1, RefusePlaces DEF DispatchBlocked, DispatchInvalidUrl, Statuses
  <2> QED BY <1>0, <1>1, <2>1 DEF OneReply, DispatchBlocked, DispatchInvalidUrl
<1>2. ASSUME NEW r \in Requests, DispatchSend(r) PROVE OneReply(q)'
  <2>1. Left(q)' = Left(q)
    BY <1>2 DEF DispatchSend, Dispatch, CreateReply, control, Places
  <2> QED BY <1>0, <1>2, <2>1 DEF OneReply, DispatchSend, Dispatch, CreateReply, CanRun, HostRuns
<1>3. CASE (\E c \in Configs : SetConfig(c)) \/ ResetCircuitBreaker
  <2>1. Left(q)' = Left(q)
    BY <1>3, ResetPlaces
  <2> QED BY <1>0, <1>3, <2>1 DEF OneReply, SetConfig, ResetCircuitBreaker
<1>4. CASE Destroy
  <2>1. Left(q)' = Left(q) /\ Left(q) = {}
    BY <1>4 DEF Destroy, control, Places
  <2> QED BY <1>0, <1>4, <2>1 DEF OneReply, Destroy, TypeOK
<1>5. ASSUME NEW r \in Requests, NEW s \in Statuses, Settle(r, s) PROVE OneReply(q)'
  <2>1. Left(q)' = Left(q) \cup IF q = r THEN {Len(stack) + 1} ELSE {}
    BY <1>5, SettlePlaces
  <2> QED BY <1>0, <1>5, <2>1 DEF OneReply, Settle, CleanupReply, CanRun, HostRuns, TypeOK
<1>6. ASSUME NEW r \in Requests, NEW c \in Completions, HandleReplyCancelled(r, c)
      PROVE  OneReply(q)'
  <2>1. Left(q)' = Left(q)
    BY <1>6 DEF HandleReplyCancelled, control, Places
  <2> QED BY <1>0, <1>6, <2>1 DEF OneReply, HandleReplyCancelled, CleanupReply, TypeOK
<1>7. CASE EventNext
  <2>1. ASSUME NEW r \in Requests, HandleTimeout(r) PROVE OneReply(q)'
    BY <1>5, <2>1 DEF HandleTimeout, Statuses
  <2>2. ASSUME NEW r \in Requests, NEW c \in Completions, HandleReplyFinished(r, c)
        PROVE  OneReply(q)'
    <3>1. Classify(c) \in Statuses
      BY DEF Classify, Statuses
    <3> QED BY <1>5, <2>2, <3>1 DEF HandleReplyFinished
  <2> QED BY <1>6, <1>7, <2>1, <2>2 DEF EventNext
<1>8. CASE ReleaseReply
  <2>1. /\ stack # <<>> /\ Top.request \in Requests
        /\ Len(stack) \in Left(Top.request)
        /\ q # Top.request => Len(stack) \notin Left(q)
    BY <1>8, TopPlace DEF ReleaseReply
  <2>2. Left(q)' = Left(q) \ {Len(stack)}
    BY <1>8, <2>1, PlacesPopped DEF ReleaseReply, TypeOK
  <2> QED BY <1>0, <1>8, <2>1, <2>2 DEF OneReply, ReleaseReply
<1>9. CASE EmitBreakerChanged \/ EmitConfigChanged \/ EmitDispatchFinished(<<>>)
  <2>1. /\ stack # <<>> /\ stack \in Seq(Frames) /\ Deliver(<<>>)
        /\ stack[Len(stack)].signal # "none"
    BY <1>9 DEF EmitBreakerChanged, EmitConfigChanged, EmitDispatchFinished, NextUp, TypeOK
  <2>2. Left(q)' = Left(q) \ {Len(stack)}
    BY <2>1, PlacesPopped
  <2>3. Len(stack) \notin Left(q)
    BY <2>1 DEF Places
  <2> QED BY <1>0, <1>9, <2>2, <2>3
          DEF OneReply, EmitBreakerChanged, EmitConfigChanged, EmitDispatchFinished
<1>10. CASE Gone \/ UNCHANGED vars
  BY <1>0, <1>10 DEF OneReply, Gone, vars, control, Places
<1>11. CASE HostNext
  BY <1>1, <1>2, <1>3, <1>4, <1>11 DEF HostNext
<1>12. CASE StepNext
  BY <1>8, <1>9, <1>12 DEF StepNext
<1> QED BY <1>7, <1>10, <1>11, <1>12 DEF Next

\* No reply is leaked, whichever of reply, timer, foreign abort or destruction
\* comes first, and no reply the network still uses is released.
THEOREM RepliesCorrect == Spec => []RepliesReleased
<1>1. Init => ReleaseInv
  <2>1. ASSUME Init, NEW r \in Requests PROVE OneReply(r)
    BY <2>1 DEF Init, OneReply, Places
  <2> QED BY <2>1 DEF ReleaseInv, RepliesReleased, OneReply
<1>2. TypeOK /\ ReleaseInv /\ [Next]_vars => ReleaseInv'
  BY OneReplyStep DEF ReleaseInv, RepliesReleased, OneReply
<1>3. ReleaseInv => RepliesReleased
  BY DEF ReleaseInv
<1> QED BY <1>1, <1>2, <1>3, TypeCorrect, PTL DEF Spec

----------------------------------------------------------------------------
(* What the host hears of the breaker.                                     *)

\* None of the steps fs tells the host of the breaker.
Silent(fs) == \A i \in DOMAIN fs : fs[i].signal # "circuitBreakerChanged"

\* The strengthening: circuitBreakerChanged is the last thing a handler emits,
\* and the slot it runs finds no other one open.
SignalInv ==
    /\ BreakerSignalsHonest
    /\ \A i \in DOMAIN stack :
         stack[i].signal = "circuitBreakerChanged" => i = Len(stack) /\ ~inSlot

\* Where host code and events run, the host has heard of everything.
LEMMA HeardWhenRunning ==
    ASSUME TypeOK, SignalInv, HostRuns
    PROVE  Silent(stack) /\ seen = open
<1>1. Silent(stack)
  <2>1. stack = <<>> => DOMAIN stack = {}
    OBVIOUS
  <2> QED BY <2>1 DEF SignalInv, HostRuns, Silent
<1>2. ~NextUp("circuitBreakerChanged")
  <2>1. stack # <<>> => Len(stack) \in DOMAIN stack
    BY DEF TypeOK
  <2> QED BY <1>1, <2>1 DEF NextUp, Silent
<1> QED BY <1>1, <1>2 DEF SignalInv, BreakerSignalsHonest

\* A handler that emits fs above what the breaker has to say.
LEMMA HandlerSignals ==
    ASSUME "circuitBreakerChanged" \in Connected, TypeOK, SignalInv, HostRuns,
           open' \in BOOLEAN, seen' = seen,
           NEW fs \in Seq(Frames), Silent(fs), Continue(fs \o BreakerEmission)
    PROVE  SignalInv'
<1> DEFINE bs == BreakerEmission
           n == Len(stack) + Len(fs)
<1>1. Silent(stack) /\ seen = open
  BY HeardWhenRunning
<1>2. BreakerChanged(open') \in Frames /\ bs \in Seq(Frames)
  BY BreakerEmissionType DEF Frames
<1>3. stack' = stack \o (fs \o bs) /\ inSlot' = (inSlot /\ fs \o bs = <<>>)
  BY DEF Continue
<1>4. stack \in Seq(Frames) /\ n \in Nat
  BY DEF TypeOK
<1>5. PICK gs \in Seq(Frames) : gs = stack \o fs
  <2>1. stack \o fs \in Seq(Frames)
    BY <1>4
  <2> QED BY <2>1
<1>6. Len(gs) = n /\ Silent(gs)
  <2>1. /\ Len(stack) \in Nat /\ Len(fs) \in Nat
        /\ DOMAIN stack = 1..Len(stack) /\ DOMAIN fs = 1..Len(fs)
        /\ Len(gs) = n /\ DOMAIN gs = 1..n
        /\ \A i \in 1..Len(stack) : gs[i] = stack[i]
        /\ \A i \in (Len(stack) + 1)..n : gs[i] = fs[i - Len(stack)]
    BY <1>4, <1>5
  <2>2. \A i \in (Len(stack) + 1)..n : i - Len(stack) \in 1..Len(fs)
    BY <2>1
  <2> QED BY <1>1, <2>1, <2>2 DEF Silent
<1>7. stack' = gs \o bs
  BY <1>2, <1>3, <1>4, <1>5
<1>8. CASE open' = open
  <2>1. bs = <<>>
    BY <1>8 DEF BreakerEmission
  <2>2. stack' = gs
    BY <1>7, <2>1
  <2>3. ~NextUp("circuitBreakerChanged")'
    <3>1. gs # <<>> => Len(gs) \in DOMAIN gs
      OBVIOUS
    <3> QED BY <1>6, <2>2, <3>1 DEF NextUp, Silent
  <2>4. BreakerSignalsHonest'
    BY <1>1, <1>8, <2>3 DEF BreakerSignalsHonest
  <2> QED BY <1>6, <2>2, <2>4 DEF SignalInv, Silent
<1>9. CASE open' # open
  <2>1. bs = <<BreakerChanged(open')>>
    BY <1>9 DEF BreakerEmission, Emission, BreakerChanged
  <2>2. bs # <<>> /\ Len(bs) = 1
    BY <2>1
  <2>3. ~inSlot'
    <3>1. fs \o bs # <<>>
      BY <1>2, <2>2
    <3> QED BY <1>3, <3>1
  <2>4. /\ Len(stack') = n + 1 /\ DOMAIN stack' = 1..(n + 1) /\ stack' # <<>>
        /\ stack'[n + 1] = BreakerChanged(open')
        /\ \A i \in 1..n : stack'[i] = gs[i]
    BY <1>4, <1>6, <1>7, <2>1
  <2>5. NextUp("circuitBreakerChanged")' /\ (Top.open)' = open'
    BY <2>4 DEF NextUp, Top, BreakerChanged
  <2>6. BreakerSignalsHonest'
    BY <1>1, <1>9, <2>5 DEF BreakerSignalsHonest
  <2>7. \A i \in DOMAIN stack' : i = Len(stack') \/ i \in DOMAIN gs
    BY <1>4, <1>6, <2>4
  <2> QED BY <1>6, <2>3, <2>4, <2>6, <2>7 DEF SignalInv, Silent
<1> QED BY <1>8, <1>9

\* A step that is done leaves the rest of the handlers as they were.
LEMMA DeliveredSignals ==
    ASSUME TypeOK, SignalInv, stack # <<>>, Deliver(<<>>), UNCHANGED open,
           seen' = IF NextUp("circuitBreakerChanged") THEN Top.open ELSE seen
    PROVE  SignalInv'
<1>1. seen' = open
  BY DEF SignalInv, BreakerSignalsHonest
<1>2. stack' = SubSeq(stack, 1, Len(stack) - 1) /\ stack' \in Seq(Frames)
  <2>1. Rest \in Seq(Frames)
    BY DEF Rest, TypeOK
  <2>2. Rest \o <<>> = Rest
    BY <2>1
  <2>3. stack' = Rest \o <<>>
    BY DEF Deliver
  <2>4. stack' = Rest
    BY <2>2, <2>3
  <2> QED BY <2>1, <2>4 DEF Rest
<1>3. /\ DOMAIN stack' = 1..(Len(stack) - 1)
      /\ Len(stack') \in DOMAIN stack' \/ stack' = <<>>
      /\ \A i \in DOMAIN stack' : stack'[i] = stack[i]
      /\ \A i \in DOMAIN stack' : i \in DOMAIN stack /\ i # Len(stack)
  <2>1. stack \in Seq(Frames) /\ Len(stack) \in Nat /\ Len(stack) > 0
    BY DEF TypeOK
  <2>2. DOMAIN stack' = 1..(Len(stack) - 1)
    BY <1>2, <2>1
  <2>3. \A i \in 1..(Len(stack) - 1) : stack'[i] = stack[i]
    BY <1>2, <2>1
  <2>4. \A i \in 1..(Len(stack) - 1) : i \in DOMAIN stack /\ i # Len(stack)
    BY <2>1
  <2>5. Len(stack') \in DOMAIN stack' \/ stack' = <<>>
    BY <1>2
  <2> QED BY <2>2, <2>3, <2>4, <2>5
<1>4. Silent(stack')
  BY <1>3 DEF SignalInv, Silent
<1>5. ~NextUp("circuitBreakerChanged")'
  BY <1>3, <1>4 DEF NextUp, Silent
<1> QED BY <1>1, <1>4, <1>5 DEF SignalInv, BreakerSignalsHonest, Silent

LEMMA SignalStep ==
    ASSUME "circuitBreakerChanged" \in Connected, TypeOK, SignalInv, [Next]_vars
    PROVE  SignalInv'
<1>1. \A f \in Frames : f.signal # "circuitBreakerChanged" => Silent(Emission(f))
  BY DEF Silent, Emission
<1>2. open' \in BOOLEAN
  BY TypeStep DEF TypeOK
<1>3. UNCHANGED open => BreakerEmission = <<>>
  BY DEF BreakerEmission
<1>4. CASE UNCHANGED <<control, open, seen>>
  BY <1>4 DEF SignalInv, BreakerSignalsHonest, control, NextUp, Top
<1>5. ASSUME NEW r \in Requests, DispatchBlocked(r) \/ DispatchInvalidUrl(r)
      PROVE  SignalInv'
  <2>1. PICK s \in Statuses : Continue(Emission(Finished(r, s)))
    BY <1>5 DEF DispatchBlocked, DispatchInvalidUrl, Statuses
  <2>2. Finished(r, s) \in Frames
    BY DEF Frames
  <2>3. Emission(Finished(r, s)) \in Seq(Frames) /\ Silent(Emission(Finished(r, s)))
    BY <1>1, <2>2, EmissionType DEF Finished
  <2>4. BreakerEmission = <<>>
    BY <1>3, <1>5 DEF DispatchBlocked, DispatchInvalidUrl, breaker
  <2>5. Emission(Finished(r, s)) \o BreakerEmission = Emission(Finished(r, s))
    BY <2>3, <2>4
  <2> QED BY <1>2, <1>5, <2>1, <2>3, <2>5, HandlerSignals
          DEF DispatchBlocked, DispatchInvalidUrl, CanRun
<1>6. ASSUME NEW c \in Configs, SetConfig(c) PROVE SignalInv'
  <2>1. ConfigChanged \in Frames
    BY DEF Frames
  <2>2. Emission(ConfigChanged) \in Seq(Frames) /\ Silent(Emission(ConfigChanged))
    BY <1>1, <2>1, EmissionType DEF ConfigChanged
  <2> QED BY <1>2, <1>6, <2>2, HandlerSignals DEF SetConfig, CanRun
<1>7. CASE ResetCircuitBreaker
  <2>1. <<>> \in Seq(Frames) /\ Silent(<<>>)
    BY DEF Silent
  <2>2. <<>> \o BreakerEmission = BreakerEmission
    BY <1>2, BreakerEmissionType
  <2> QED BY <1>2, <1>7, <2>1, <2>2, HandlerSignals DEF ResetCircuitBreaker, CanRun
<1>8. ASSUME NEW r \in Requests, NEW s \in Statuses, Settle(r, s) PROVE SignalInv'
  <2> DEFINE es == Emission(Finished(r, s))
  <2>1. DeleteLater(r) \in Frames /\ Finished(r, s) \in Frames
    BY DEF Frames
  <2>2. es \in Seq(Frames) /\ Silent(es)
    BY <1>1, <2>1, EmissionType DEF Finished
  <2>3. <<DeleteLater(r)>> \o es \in Seq(Frames)
    BY <2>1, <2>2
  <2>4. Silent(<<DeleteLater(r)>> \o es)
    BY DEF Silent, DeleteLater, Finished, Emission
  <2>5. Continue((<<DeleteLater(r)>> \o es) \o BreakerEmission) /\ HostRuns /\ seen' = seen
    BY <1>8 DEF Settle, CanRun
  <2> QED BY <1>2, <2>3, <2>4, <2>5, HandlerSignals
<1>9. CASE HostNext
  BY <1>4, <1>5, <1>6, <1>7, <1>9
     DEF HostNext, DispatchSend, Dispatch, CreateReply, Destroy, breaker
<1>10. CASE EventNext
  <2>1. ASSUME NEW r \in Requests, HandleTimeout(r) PROVE SignalInv'
    BY <1>8, <2>1 DEF HandleTimeout, Statuses
  <2>2. ASSUME NEW r \in Requests, NEW c \in Completions, HandleReplyFinished(r, c)
        PROVE  SignalInv'
    <3>1. Classify(c) \in Statuses
      BY DEF Classify, Statuses
    <3> QED BY <1>8, <2>2, <3>1 DEF HandleReplyFinished
  <2> QED BY <1>4, <1>10, <2>1, <2>2 DEF EventNext, HandleReplyCancelled, breaker
<1>11. CASE StepNext
  BY <1>11, DeliveredSignals
     DEF StepNext, EmitBreakerChanged, EmitConfigChanged, EmitDispatchFinished,
         ReleaseReply, NextUp, breaker
<1>12. CASE Gone \/ UNCHANGED vars
  BY <1>4, <1>12 DEF Gone, vars, breaker
<1> QED BY <1>9, <1>10, <1>11, <1>12 DEF Next

\* A host that follows circuitBreakerChanged, and nothing else, always knows
\* the breaker, up to the one signal that is the next step of the running
\* handler: slots that reset, reconfigure or dispatch in the middle of a
\* handler can neither reorder those signals nor repeat one.
THEOREM SignalsCorrect ==
    ASSUME "circuitBreakerChanged" \in Connected
    PROVE  Spec => []BreakerSignalsHonest
<1>1. Init => SignalInv
  <2>1. DOMAIN <<>> = {}
    OBVIOUS
  <2> QED BY <2>1 DEF Init, SignalInv, BreakerSignalsHonest, NextUp
<1>2. TypeOK /\ SignalInv /\ [Next]_vars => SignalInv'
  BY SignalStep
<1>3. SignalInv => BreakerSignalsHonest
  BY DEF SignalInv
<1> QED BY <1>1, <1>2, <1>3, TypeCorrect, PTL DEF Spec
=============================================================================
