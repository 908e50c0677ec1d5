----------------------- MODULE DispatchContractProofs -----------------------
(***************************************************************************)
(* NetworkDispatcher implements DispatchContract, for any set of calls,    *)
(* configurations and completions and any depth of nested slots.  Every    *)
(* action maps to one action of the contract, or to none:                  *)
(*                                                                         *)
(*     DispatchSend                           Send                         *)
(*     DispatchBlocked, DispatchInvalidUrl    Refuse                       *)
(*     HandleReplyFinished, HandleTimeout     Succeed or Fail              *)
(*     EmitDispatchFinished                   Answer                       *)
(*     SetConfig, ResetCircuitBreaker         Reset                        *)
(*     Destroy                                Destroy                      *)
(*     the other steps of a handler           none                         *)
(***************************************************************************)
EXTENDS NetworkDispatcherProofs

----------------------------------------------------------------------------
(* The contract's view of one call.                                        *)

LEMMA ChosenOne ==
    ASSUME NEW i
    PROVE  (CHOOSE j \in {i} : TRUE) = i
OBVIOUS

\* A call whose results, answer and state of flight stay what they are looks
\* the same to the contract.
LEMMA ViewKept ==
    ASSUME AtMostOneResult, NEW q \in Requests,
           reports'[q] = reports[q],
           q \in called' <=> q \in called,
           alive' /\ q \notin pending' <=> alive /\ q \notin pending,
           Awaiting(q)' = Awaiting(q),
           \A i \in Awaiting(q) : stack'[i] = stack[i]
    PROVE  Phase(q)' = Phase(q) /\ Verdict(q)' = Verdict(q)
<1>1. Phase(q)' = Phase(q)
  <2>1. CASE alive /\ q \notin pending
    <3>1. alive' /\ q \notin pending'
      BY <2>1
    <3> QED BY <2>1, <3>1 DEF Phase
  <2>2. CASE ~(alive /\ q \notin pending)
    <3>1. ~(alive' /\ q \notin pending')
      BY <2>2
    <3> QED BY <2>2, <3>1 DEF Phase
  <2> QED BY <2>1, <2>2
<1>2. CASE Awaiting(q) = {}
  <2>1. Awaiting(q)' = {}
    BY <1>2
  <2>2. Verdict(q) = IF reports[q] # <<>> THEN reports[q][1] ELSE "none"
    BY <1>2, Zenon DEF Verdict
  <2>3. Verdict(q)' = IF reports'[q] # <<>> THEN reports'[q][1] ELSE "none"
    BY <2>1, Zenon DEF Verdict
  <2> QED BY <1>1, <2>2, <2>3
<1>3. CASE Awaiting(q) # {}
  <2>1. PICK i : Awaiting(q) = {i}
    <3>1. PICK i : i \in Awaiting(q)
      BY <1>3
    <3>2. \A j \in Awaiting(q) : j = i
      BY <3>1 DEF AtMostOneResult
    <3>3. Awaiting(q) = {i}
      BY <3>1, <3>2
    <3> QED BY <3>3
  <2>2. (CHOOSE j \in Awaiting(q) : TRUE) = i /\ (CHOOSE j \in Awaiting(q)' : TRUE) = i
    BY <2>1, ChosenOne
  <2>3. Awaiting(q) # {} /\ Awaiting(q)' # {}
    BY <2>1
  <2>4. Verdict(q) = IF reports[q] # <<>> THEN reports[q][1] ELSE stack[i].status
    BY <2>2, <2>3, Zenon DEF Verdict
  <2>5. Verdict(q)' = IF reports'[q] # <<>> THEN reports'[q][1] ELSE stack'[i].status
    BY <2>2, <2>3, Zenon DEF Verdict
  <2>6. stack'[i] = stack[i]
    BY <2>1
  <2> QED BY <1>1, <2>4, <2>5, <2>6
<1> QED BY <1>2, <1>3

\* A call in flight is "sent" and has no verdict.
LEMMA SentView ==
    ASSUME TypeOK, AtMostOneResult, NEW r \in pending
    PROVE  Phase(r) = "sent" /\ Verdict(r) = "none"
<1>1. r \in Requests /\ r \in called /\ reports[r] = <<>> /\ Awaiting(r) = {}
  BY DEF TypeOK, AtMostOneResult
<1>2. Verdict(r) = "none"
  BY <1>1, Zenon DEF Verdict
<1>3. Phase(r) = "sent"
  BY <1>1 DEF Phase
<1> QED BY <1>2, <1>3

\* A call that was not made is "idle" and has no verdict.
LEMMA IdleView ==
    ASSUME AtMostOneResult, NEW r \in Requests, r \notin called
    PROVE  Phase(r) = "idle" /\ Verdict(r) = "none"
<1>1. reports[r] = <<>> /\ Awaiting(r) = {}
  BY DEF AtMostOneResult
<1> QED BY <1>1 DEF Phase, Verdict

\* A call whose answer has just been left to its handler is "decided".
LEMMA DecidedView ==
    ASSUME NEW r \in Requests, r \in called', reports'[r] = <<>>,
           NEW i, Awaiting(r)' = {i}
    PROVE  Phase(r)' = "decided" /\ Verdict(r)' = stack'[i].status
<1>1. Phase(r)' = "decided"
  BY DEF Phase
<1>2. (CHOOSE j \in Awaiting(r)' : TRUE) = i
  BY ChosenOne
<1> QED BY <1>1, <1>2 DEF Verdict

----------------------------------------------------------------------------
(* What a handler leaves untouched.                                        *)

\* What is added to the stack leaves the steps below where they are.
LEMMA BelowKept ==
    ASSUME TypeOK, NEW fs \in Seq(Frames), Continue(fs)
    PROVE  /\ \A i \in DOMAIN stack : stack'[i] = stack[i]
           /\ \A i \in DOMAIN fs : stack'[Len(stack) + i] = fs[i]
<1>1. stack' = stack \o fs /\ stack \in Seq(Frames)
  BY DEF Continue, TypeOK
<1> QED BY <1>1

\* The step that is done leaves the ones below it where they are.
LEMMA PoppedKept ==
    ASSUME TypeOK, stack # <<>>, Deliver(<<>>)
    PROVE  \A i \in DOMAIN stack : i # Len(stack) => stack'[i] = stack[i]
<1>1. stack' = Rest \o <<>>
  BY DEF Deliver
<1>2. stack \in Seq(Frames) /\ Len(stack) \in Nat /\ Len(stack) > 0
  BY DEF TypeOK
<1>3. Rest \in Seq(Frames)
  BY <1>2 DEF Rest
<1>4. Rest \o <<>> = Rest
  BY <1>3
<1>5. \A i \in 1..(Len(stack) - 1) : Rest[i] = stack[i]
  BY <1>2 DEF Rest
<1>6. \A i \in DOMAIN stack : i # Len(stack) => i \in 1..(Len(stack) - 1)
  BY <1>2
<1> QED BY <1>1, <1>4, <1>5, <1>6

LEMMA AwaitingPlaces ==
    ASSUME NEW q
    PROVE  Awaiting(q) \subseteq DOMAIN stack
BY DEF Awaiting, Places

----------------------------------------------------------------------------
(* The steps.                                                              *)

\* One call moves, and the contract sees no other one move.
LEMMA ViewMoved ==
    ASSUME NEW r \in Requests, NEW to, NEW v, Phase(r)' = to, Verdict(r)' = v,
           \A q \in Requests \ {r} : Phase(q)' = Phase(q) /\ Verdict(q)' = Verdict(q)
    PROVE  /\ [q \in Requests |-> Phase(q)]' = [[q \in Requests |-> Phase(q)] EXCEPT ![r] = to]
           /\ [q \in Requests |-> Verdict(q)]' = [[q \in Requests |-> Verdict(q)] EXCEPT ![r] = v]
OBVIOUS

\* No call moves.
LEMMA ViewStill ==
    ASSUME \A q \in Requests : Phase(q)' = Phase(q) /\ Verdict(q)' = Verdict(q)
    PROVE  UNCHANGED <<[q \in Requests |-> Phase(q)], [q \in Requests |-> Verdict(q)]>>
OBVIOUS

\* dispatch() that returns false is a refusal.
LEMMA RefuseStep ==
    ASSUME "dispatchFinished" \in Connected, TypeOK, AtMostOneResult,
           NEW r \in Requests, DispatchBlocked(r) \/ DispatchInvalidUrl(r)
    PROVE  Contract!Refuse(r)
<1> DEFINE s == IF open THEN "CircuitBreakerOpen" ELSE "NetworkError"
           fs == Emission(Finished(r, s))
<1>1. /\ alive /\ r \notin called /\ called' = called \cup {r}
      /\ UNCHANGED <<alive, open, pending, reports>>
  BY DEF DispatchBlocked, DispatchInvalidUrl, CanRun, breaker
<1>2. s \in Statuses /\ Continue(fs)
  BY DEF DispatchBlocked, DispatchInvalidUrl, Statuses
<1>3. Finished(r, s) \in Frames /\ Finished(r, s).status = s
  BY <1>2 DEF Frames, Finished
<1>4. fs \in Seq(Frames) /\ 1 \in DOMAIN fs /\ fs[1] = Finished(r, s)
  BY <1>3 DEF Emission, Finished
<1> HIDE DEF s, fs
<1>5. /\ \A i \in DOMAIN stack : stack'[i] = stack[i]
      /\ stack'[Len(stack) + 1] = Finished(r, s)
  BY <1>2, <1>4, BelowKept
<1>6. \A q : Awaiting(q)' = Awaiting(q) \cup IF q = r THEN {Len(stack) + 1} ELSE {}
  BY <1>2, RefusePlaces DEF Awaiting, fs
<1>7. Awaiting(r) = {} /\ reports[r] = <<>>
  BY <1>1 DEF AtMostOneResult
<1>8. ASSUME NEW q \in Requests \ {r}
      PROVE  Phase(q)' = Phase(q) /\ Verdict(q)' = Verdict(q)
  <2>1. Awaiting(q)' = Awaiting(q) /\ \A i \in Awaiting(q) : stack'[i] = stack[i]
    BY <1>5, <1>6, AwaitingPlaces
  <2> QED BY <1>1, <2>1, ViewKept
<1>9. Phase(r)' = "decided" /\ Verdict(r)' = s
  BY <1>1, <1>3, <1>5, <1>6, <1>7, DecidedView
<1>10. Phase(r) = "idle"
  BY <1>1, IdleView
<1>11. /\ [q \in Requests |-> Phase(q)]'
            = [[q \in Requests |-> Phase(q)] EXCEPT ![r] = "decided"]
       /\ [q \in Requests |-> Verdict(q)]'
            = [[q \in Requests |-> Verdict(q)] EXCEPT ![r] = s]
  BY <1>8, <1>9, ViewMoved
<1> QED BY <1>1, <1>10, <1>11 DEF Contract!Refuse, Contract!Move, s

\* dispatch() that returns true sends the call.
LEMMA SendStep ==
    ASSUME TypeOK, AtMostOneResult, NEW r \in Requests, DispatchSend(r)
    PROVE  Contract!Send(r)
<1>1. /\ alive /\ ~open /\ r \notin called
      /\ called' = called \cup {r} /\ pending' = pending \cup {r}
      /\ UNCHANGED <<alive, open, reports, stack>>
  BY DEF DispatchSend, Dispatch, CreateReply, CanRun, breaker, control
<1>2. \A q : Awaiting(q)' = Awaiting(q)
  BY <1>1 DEF Awaiting, Places
<1>3. Phase(r) = "idle" /\ Verdict(r) = "none"
  BY <1>1, IdleView
<1>4. ASSUME NEW q \in Requests \ {r}
      PROVE  Phase(q)' = Phase(q) /\ Verdict(q)' = Verdict(q)
  BY <1>1, <1>2, ViewKept
<1>5. reports[r] = <<>> /\ Awaiting(r) = {}
  BY <1>1 DEF AtMostOneResult
<1>6. reports'[r] = <<>> /\ Awaiting(r)' = {} /\ r \in called' /\ r \in pending'
  BY <1>1, <1>2, <1>5
<1>7. Phase(r)' = "sent"
  BY <1>6 DEF Phase
<1>8. Verdict(r)' = "none"
  BY <1>6, Zenon DEF Verdict
<1>9. [q \in Requests |-> Phase(q)]' = [[q \in Requests |-> Phase(q)] EXCEPT ![r] = "sent"]
  BY <1>4, <1>7, <1>8, ViewMoved
<1>10. [q \in Requests |-> Verdict(q)]' = [q \in Requests |-> Verdict(q)]
  BY <1>3, <1>4, <1>8
<1> QED BY <1>1, <1>3, <1>9, <1>10 DEF Contract!Send, Contract!Move

\* What settles a request decides the call, and the gate goes with the breaker.
LEMMA SettleMoves ==
    ASSUME "dispatchFinished" \in Connected, TypeOK, AtMostOneResult,
           NEW r \in Requests, NEW s \in Statuses, Settle(r, s)
    PROVE  /\ alive /\ UNCHANGED alive
           /\ Contract!Move(r, "sent", "decided")
           /\ [q \in Requests |-> Verdict(q)]'
                = [[q \in Requests |-> Verdict(q)] EXCEPT ![r] = s]
<1> DEFINE es == Emission(Finished(r, s))
           ds == <<DeleteLater(r)>>
           fs == ds \o es \o BreakerEmission
<1>1. /\ alive /\ r \in pending /\ pending' = pending \ {r} /\ Continue(fs)
      /\ UNCHANGED <<alive, called, reports>>
  BY DEF Settle, CanRun, CleanupReply
<1>2. DeleteLater(r) \in Frames /\ Finished(r, s) \in Frames /\ Finished(r, s).status = s
  BY DEF Frames, Finished
<1>3. es = <<Finished(r, s)>>
  BY DEF Emission, Finished
<1>4. BreakerEmission \in Seq(Frames)
  <2>1. open' \in BOOLEAN
    BY RecordType DEF TypeOK, Settle
  <2> QED BY <2>1, BreakerEmissionType
<1>5. /\ ds \o es \in Seq(Frames) /\ Len(ds \o es) = 2 /\ (ds \o es)[2] = Finished(r, s)
  BY <1>2, <1>3
<1>6. fs \in Seq(Frames) /\ 2 \in DOMAIN fs /\ fs[2] = Finished(r, s)
  BY <1>4, <1>5
<1> HIDE DEF fs, es, ds
<1>7. /\ \A i \in DOMAIN stack : stack'[i] = stack[i]
      /\ stack'[Len(stack) + 2] = Finished(r, s)
  BY <1>1, <1>6, BelowKept
<1>8. \A q : Awaiting(q)' = Awaiting(q) \cup IF q = r THEN {Len(stack) + 2} ELSE {}
  BY SettlePlaces DEF Awaiting
<1>9. r \in called /\ Awaiting(r) = {} /\ reports[r] = <<>>
  BY <1>1 DEF AtMostOneResult, TypeOK
<1>10. ASSUME NEW q \in Requests \ {r}
       PROVE  Phase(q)' = Phase(q) /\ Verdict(q)' = Verdict(q)
  <2>1. Awaiting(q)' = Awaiting(q) /\ \A i \in Awaiting(q) : stack'[i] = stack[i]
    BY <1>7, <1>8, AwaitingPlaces
  <2> QED BY <1>1, <2>1, ViewKept
<1>11. Phase(r)' = "decided" /\ Verdict(r)' = s
  BY <1>1, <1>2, <1>7, <1>8, <1>9, DecidedView
<1>12. Phase(r) = "sent"
  BY <1>1, SentView
<1>13. /\ [q \in Requests |-> Phase(q)]'
            = [[q \in Requests |-> Phase(q)] EXCEPT ![r] = "decided"]
       /\ [q \in Requests |-> Verdict(q)]'
            = [[q \in Requests |-> Verdict(q)] EXCEPT ![r] = s]
  BY <1>10, <1>11, ViewMoved
<1> QED BY <1>1, <1>12, <1>13 DEF Contract!Move

\* A success opens the gate, a failure may shut it.
LEMMA SettleStep ==
    ASSUME "dispatchFinished" \in Connected, TypeOK, AtMostOneResult,
           NEW r \in Requests, NEW s \in Statuses \ {"CircuitBreakerOpen"}, Settle(r, s)
    PROVE  Contract!Succeed(r) \/ Contract!Fail(r)
<1>1. Record(s) /\ s \in Statuses
  BY DEF Settle
<1>2. /\ alive /\ UNCHANGED alive
      /\ Contract!Move(r, "sent", "decided")
      /\ [q \in Requests |-> Verdict(q)]'
           = [[q \in Requests |-> Verdict(q)] EXCEPT ![r] = s]
  BY <1>1, SettleMoves
<1>3. CASE s = "Success"
  <2>1. open' = FALSE
    BY <1>1, <1>3, Zenon DEF Record, RecordSuccess
  <2>2. Contract!Succeed(r)
    BY <1>2, <1>3, <2>1 DEF Contract!Succeed
  <2> QED BY <2>2
<1>4. CASE s # "Success"
  <2>1. open' = TRUE \/ open' = open
    BY <1>1, <1>4, Zenon DEF Record, RecordFailure
  <2>2. open' \in {open, TRUE}
    BY <2>1, Zenon
  <2>3. s \in {"NetworkError", "Timeout", "SslError"}
    BY <1>4 DEF Statuses
  <2>4. Contract!Fail(r)
    BY <1>2, <2>2, <2>3, Zenon DEF Contract!Fail
  <2> QED BY <2>4
<1> QED BY <1>3, <1>4

\* dispatchFinished answers the call that comes next, with its verdict.
LEMMA AnswerStep ==
    ASSUME TypeOK, AtMostOneResult, EmitDispatchFinished(<<>>)
    PROVE  \E r \in Requests : Contract!Answer(r)
<1> DEFINE n == Len(stack)
<1>1. /\ stack # <<>> /\ n \in Places(stack, "dispatchFinished", Top.request)
      /\ \A q : q # Top.request => n \notin Places(stack, "dispatchFinished", q)
      /\ Top.request \in Requests
  BY TopPlace DEF EmitDispatchFinished
<1>2. PICK r \in Requests : r = Top.request
  BY <1>1
<1>3. n \in Awaiting(r) /\ \A q : q # r => n \notin Awaiting(q)
  BY <1>1, <1>2 DEF Awaiting
<1>4. /\ reports' = [reports EXCEPT ![r] = Append(@, Top.status)]
      /\ UNCHANGED <<alive, open, called, pending>>
      /\ Deliver(<<>>)
  BY <1>2 DEF EmitDispatchFinished, breaker
<1>5. /\ reports[r] = <<>> /\ Awaiting(r) = {n} /\ r \in called
  BY <1>3 DEF AtMostOneResult
<1>6. \A q : Awaiting(q)' = Awaiting(q) \ {n}
  BY <1>1, <1>4, PlacesPopped DEF Awaiting, TypeOK
<1>7. \A i \in DOMAIN stack : i # n => stack'[i] = stack[i]
  BY <1>1, <1>4, PoppedKept
<1> HIDE DEF n
<1>8. ASSUME NEW q \in Requests \ {r}
      PROVE  Phase(q)' = Phase(q) /\ Verdict(q)' = Verdict(q)
  <2>1. Awaiting(q)' = Awaiting(q) /\ \A i \in Awaiting(q) : stack'[i] = stack[i]
    BY <1>3, <1>6, <1>7, AwaitingPlaces
  <2>2. reports'[q] = reports[q]
    BY <1>4 DEF TypeOK
  <2> QED BY <1>4, <2>1, <2>2, ViewKept
<1>9. reports'[r] # <<>> /\ reports'[r][1] = Top.status
  <2>1. reports'[r] = Append(<<>>, Top.status)
    BY <1>4, <1>5 DEF TypeOK
  <2> QED BY <2>1
<1>10. Phase(r) = "decided" /\ Phase(r)' = "answered"
  BY <1>4, <1>5, <1>9 DEF Phase
<1>11. Verdict(r) = Top.status
  <2>1. (CHOOSE j \in Awaiting(r) : TRUE) = n /\ Awaiting(r) # {}
    BY <1>5, ChosenOne
  <2>2. Verdict(r) = stack[n].status
    BY <1>5, <2>1, Zenon DEF Verdict
  <2> QED BY <2>2 DEF Top, n
<1>12. Verdict(r)' = Top.status
  BY <1>9, Zenon DEF Verdict
<1>13. [q \in Requests |-> Phase(q)]'
         = [[q \in Requests |-> Phase(q)] EXCEPT ![r] = "answered"]
  BY <1>8, <1>10, <1>12, ViewMoved
<1>14. [q \in Requests |-> Verdict(q)]' = [q \in Requests |-> Verdict(q)]
  BY <1>8, <1>11, <1>12
<1>15. Contract!Answer(r)
  BY <1>4, <1>10, <1>13, <1>14 DEF Contract!Answer, Contract!Move
<1> QED BY <1>15

\* A reset and a new configuration open the gate, and touch no call.
LEMMA ResetStep ==
    ASSUME TypeOK, AtMostOneResult, (\E c \in Configs : SetConfig(c)) \/ ResetCircuitBreaker
    PROVE  Contract!Reset
<1>1. /\ alive /\ UNCHANGED <<alive, called, pending, reports>>
      /\ ResetBreaker
  BY DEF SetConfig, ResetCircuitBreaker, CanRun
<1>2. open' = FALSE
  BY <1>1, Zenon DEF ResetBreaker
<1>3. \A q : Awaiting(q)' = Awaiting(q)
  BY ResetPlaces DEF Awaiting
<1>4. PICK fs \in Seq(Frames) : Continue(fs)
  <2>1. open' \in BOOLEAN
    BY <1>2
  <2>2. BreakerEmission \in Seq(Frames) /\ Emission(ConfigChanged) \in Seq(Frames)
    BY <2>1, BreakerEmissionType, EmissionType DEF Frames
  <2>3. Emission(ConfigChanged) \o BreakerEmission \in Seq(Frames)
    BY <2>2
  <2> QED BY <2>2, <2>3 DEF SetConfig, ResetCircuitBreaker
<1>5. \A i \in DOMAIN stack : stack'[i] = stack[i]
  BY <1>4, BelowKept
<1>6. \A q \in Requests : Phase(q)' = Phase(q) /\ Verdict(q)' = Verdict(q)
  BY <1>1, <1>3, <1>5, ViewKept, AwaitingPlaces
<1> QED BY <1>1, <1>2, <1>6, ViewStill DEF Contract!Reset

\* The destruction is an event of its own: no handler has a verdict left, and
\* what was in flight stays undecided.
LEMMA DestroyStep ==
    ASSUME TypeOK, AtMostOneResult, ResultAlwaysReported, Destroy
    PROVE  Contract!Destroy
<1>1. /\ alive /\ alive' = FALSE /\ stack = <<>> /\ pending' = {}
      /\ UNCHANGED <<open, called, reports, stack>>
  BY DEF Destroy, breaker, control
<1>2. \A q : Awaiting(q) = {} /\ Awaiting(q)' = {}
  BY <1>1 DEF Awaiting, Places
<1>3. ASSUME NEW q \in Requests
      PROVE  /\ Phase(q) # "decided"
             /\ Phase(q)' = Phase(q) /\ Verdict(q)' = Verdict(q)
  <2>1. q \in called /\ q \notin pending => reports[q] # <<>>
    BY <1>1, <1>2 DEF ResultAlwaysReported
  <2>2. q \notin called => reports[q] = <<>>
    BY DEF AtMostOneResult
  <2>3. Phase(q) # "decided" /\ Phase(q)' = Phase(q)
    <3>1. CASE q \notin called
      BY <1>1, <1>2, <2>2, <3>1 DEF Phase
    <3>2. CASE q \in called /\ reports[q] # <<>>
      BY <1>1, <1>2, <3>2 DEF Phase
    <3>3. CASE q \in called /\ reports[q] = <<>>
      <4>1. q \in pending /\ ~(alive' /\ q \notin pending')
        BY <1>1, <2>1, <3>3
      <4> QED BY <1>1, <1>2, <3>3, <4>1 DEF Phase
    <3> QED BY <3>1, <3>2, <3>3
  <2>4. /\ Verdict(q) = IF reports[q] # <<>> THEN reports[q][1] ELSE "none"
        /\ Verdict(q)' = IF reports'[q] # <<>> THEN reports'[q][1] ELSE "none"
    BY <1>2, Zenon DEF Verdict
  <2> QED BY <1>1, <2>3, <2>4
<1>4. \A q \in Requests : [r \in Requests |-> Phase(r)][q] # "decided"
  BY <1>3
<1>5. UNCHANGED <<[q \in Requests |-> Phase(q)], [q \in Requests |-> Verdict(q)]>>
  BY <1>3, ViewStill
<1>6. ~(~alive) /\ (~alive)' = TRUE
  BY <1>1
<1> QED BY <1>1, <1>4, <1>5, <1>6 DEF Contract!Destroy

\* The other steps of a handler say nothing of a call.
LEMMA OtherStep ==
    ASSUME TypeOK, AtMostOneResult,
           EmitBreakerChanged \/ EmitConfigChanged \/ ReleaseReply
    PROVE  UNCHANGED Contract!contractVars
<1>1. /\ stack # <<>> /\ stack[Len(stack)].signal # "dispatchFinished" /\ Deliver(<<>>)
      /\ UNCHANGED <<alive, open, called, pending, reports>>
  BY DEF EmitBreakerChanged, EmitConfigChanged, ReleaseReply, NextUp, breaker
<1>2. \A q : Len(stack) \notin Awaiting(q) /\ Awaiting(q)' = Awaiting(q) \ {Len(stack)}
  <2>1. \A q : Len(stack) \notin Awaiting(q)
    BY <1>1 DEF Awaiting, Places
  <2>2. \A q : Awaiting(q)' = Awaiting(q) \ {Len(stack)}
    BY <1>1, PlacesPopped DEF Awaiting, TypeOK
  <2> QED BY <2>1, <2>2
<1>3. \A i \in DOMAIN stack : i # Len(stack) => stack'[i] = stack[i]
  BY <1>1, PoppedKept
<1>4. ASSUME NEW q \in Requests
      PROVE  Phase(q)' = Phase(q) /\ Verdict(q)' = Verdict(q)
  <2>1. Awaiting(q)' = Awaiting(q) /\ \A i \in Awaiting(q) : stack'[i] = stack[i]
    BY <1>2, <1>3, AwaitingPlaces
  <2> QED BY <1>1, <2>1, ViewKept
<1>5. UNCHANGED <<[q \in Requests |-> Phase(q)], [q \in Requests |-> Verdict(q)]>>
  BY <1>4, ViewStill
<1> QED BY <1>1, <1>5 DEF Contract!contractVars

LEMMA StutterStep ==
    ASSUME TypeOK, AtMostOneResult, UNCHANGED vars
    PROVE  UNCHANGED Contract!contractVars
<1>1. UNCHANGED <<alive, open, called, pending, reports, stack>>
  BY DEF vars, breaker, control
<1>2. \A q : Awaiting(q)' = Awaiting(q)
  BY <1>1 DEF Awaiting, Places
<1>3. \A q \in Requests : Phase(q)' = Phase(q) /\ Verdict(q)' = Verdict(q)
  BY <1>1, <1>2, ViewKept
<1>4. UNCHANGED <<[q \in Requests |-> Phase(q)], [q \in Requests |-> Verdict(q)]>>
  BY <1>3, ViewStill
<1> QED BY <1>1, <1>4 DEF Contract!contractVars

\* Every step of the dispatcher is a step of the contract or a stutter.
LEMMA ContractStep ==
    ASSUME NoForeignAbort, "dispatchFinished" \in Connected,
           TypeOK, AtMostOneResult, ResultAlwaysReported, [Next]_vars
    PROVE  [Contract!Next]_(Contract!contractVars)
<1>1. CASE HostNext
  <2>1. ASSUME NEW r \in Requests,
               DispatchBlocked(r) \/ DispatchInvalidUrl(r) \/ DispatchSend(r)
        PROVE  Contract!Next
    BY <2>1, RefuseStep, SendStep DEF Contract!Next
  <2>2. CASE (\E c \in Configs : SetConfig(c)) \/ ResetCircuitBreaker
    BY <2>2, ResetStep DEF Contract!Next
  <2>3. CASE Destroy
    BY <2>3, DestroyStep DEF Contract!Next
  <2> QED BY <1>1, <2>1, <2>2, <2>3 DEF HostNext
<1>2. CASE EventNext
  <2>1. ASSUME NEW r \in Requests, NEW s \in Statuses \ {"CircuitBreakerOpen"}, Settle(r, s)
        PROVE  Contract!Next
    BY <2>1, SettleStep DEF Contract!Next
  <2>2. ASSUME NEW r \in Requests, HandleTimeout(r) PROVE Contract!Next
    BY <2>1, <2>2 DEF HandleTimeout, Statuses
  <2>3. ASSUME NEW r \in Requests, NEW c \in Completions, HandleReplyFinished(r, c)
        PROVE  Contract!Next
    <3>1. Classify(c) \in Statuses \ {"CircuitBreakerOpen"}
      BY DEF Classify, Statuses
    <3> QED BY <2>1, <2>3, <3>1 DEF HandleReplyFinished
  <2>4. ASSUME NEW r \in Requests, NEW c \in Completions, HandleReplyCancelled(r, c)
        PROVE  FALSE
    BY <2>4 DEF HandleReplyCancelled, NoForeignAbort
  <2> QED BY <1>2, <2>2, <2>3, <2>4 DEF EventNext
<1>3. CASE StepNext
  <2>1. CASE EmitDispatchFinished(<<>>)
    BY <2>1, AnswerStep DEF Contract!Next
  <2> QED BY <1>3, <2>1, OtherStep DEF StepNext
<1>4. CASE Gone \/ UNCHANGED vars
  BY <1>4, StutterStep DEF Gone
<1> QED BY <1>1, <1>2, <1>3, <1>4 DEF Next

LEMMA ContractInit ==
    ASSUME Init
    PROVE  Contract!Init
<1>1. /\ called = {} /\ stack = <<>> /\ reports = [r \in Requests |-> <<>>]
      /\ open = FALSE /\ alive = TRUE
  BY DEF Init
<1>2. ASSUME NEW q \in Requests PROVE Phase(q) = "idle" /\ Verdict(q) = "none"
  <2>1. Awaiting(q) = {}
    BY <1>1 DEF Awaiting, Places
  <2>2. Verdict(q) = "none"
    BY <1>1, <2>1, Zenon DEF Verdict
  <2>3. q \notin called /\ reports[q] = <<>>
    BY <1>1
  <2>4. Phase(q) = "idle"
    BY <2>1, <2>3 DEF Phase
  <2> QED BY <2>2, <2>4
<1>3. (~alive) = FALSE
  BY <1>1
<1> QED BY <1>1, <1>2, <1>3 DEF Contract!Init

\* The dispatcher keeps its promise, whatever timers, replies and slots do and
\* however many calls there are: what it sends gets one verdict, every verdict
\* is told once, and the gate shuts only with a failure and opens only with a
\* success or by the host.  A reply that somebody else aborts is answered by
\* nobody, so nobody else may abort one.
THEOREM ContractCorrect ==
    ASSUME NoForeignAbort, "dispatchFinished" \in Connected
    PROVE  Spec => ImplementsContract
<1>1. Init => Contract!Init
  BY ContractInit
<1>2. TypeOK /\ AtMostOneResult /\ ResultAlwaysReported /\ [Next]_vars
        => [Contract!Next]_(Contract!contractVars)
  BY ContractStep
<1>3. Spec => []TypeOK /\ []AtMostOneResult /\ []ResultAlwaysReported
  BY TypeCorrect, OneResultCorrect, ReportedCorrect
<1> QED BY <1>1, <1>2, <1>3, PTL DEF Spec, ImplementsContract, Contract!Spec
============================================================================
