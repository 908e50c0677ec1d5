------------------------- MODULE SharedStoresProofs -------------------------
(***************************************************************************)
(* Theorems about trackers that share their stores, for every number of    *)
(* trackers and calls, whatever the files hold at first.                   *)
(***************************************************************************)
EXTENDS SharedStores, TLAPS

\* The store reads a value of ConsentState whatever the file holds.
LEMMA ReadType ==
    ASSUME NEW raw \in RawType
    PROVE ReadConsent(raw) \in ConsentStates
  <1>1. CASE raw.kind = "number" /\ raw.number \in 0..3
    <2>1. raw.number \in {0, 1, 2, 3}
      BY <1>1
    <2> QED
      BY <1>1, <2>1 DEF ReadConsent, ConsentValue, ConsentStates
  <1>2. CASE ~(raw.kind = "number" /\ raw.number \in 0..3)
    BY <1>2 DEF ReadConsent, ConsentStates
  <1> QED
    BY <1>1, <1>2

\* It reads back what it wrote.
LEMMA ReadWritten ==
    ASSUME NEW s \in ConsentStates, StoreConsent(s)
    PROVE consent' \in RawType /\ ReadConsent(consent') = s
  <1>1. PICK n \in 0..3 : ConsentValue[n + 1] = s /\ consent' = Code(n)
    BY DEF StoreConsent, Writes
  <1> QED
    BY <1>1 DEF Code, RawType, ReadConsent

\* What it reads of a file it has not written is what the file tells.
LEMMA ReadTells ==
    ASSUME NEW raw \in RawType, NEW s \in ConsentStates, Tells(raw, s)
    PROVE ReadConsent(raw) = s
  <1>1. CASE \E q \in ConsentStates : Writes(q, raw)
    <2>1. PICK n \in 0..3 : ConsentValue[n + 1] = s /\ raw = Code(n)
      BY <1>1 DEF Tells, Writes
    <2> QED
      BY <2>1 DEF Code, ReadConsent
  <1>2. CASE ~(\E q \in ConsentStates : Writes(q, raw))
    <2>1. s = "Unknown"
      BY <1>2 DEF Tells
    <2>2. CASE raw.kind = "number" /\ raw.number \in 0..3
      <3>1. raw = Code(raw.number)
        BY <2>2 DEF RawType, Code
      <3>2. Writes(ConsentValue[raw.number + 1], raw)
        BY <2>2, <3>1 DEF Writes
      <3>3. ConsentValue[raw.number + 1] \in ConsentStates
        BY <2>2, ReadType DEF ReadConsent
      <3> QED
        BY <1>2, <3>2, <3>3
    <2>3. CASE ~(raw.kind = "number" /\ raw.number \in 0..3)
      BY <2>1, <2>3 DEF ReadConsent
    <2> QED
      BY <2>2, <2>3
  <1> QED
    BY <1>1, <1>2

LEMMA InitCorrect == Init => StoresInv
  <1> SUFFICES ASSUME Init PROVE StoresInv
    OBVIOUS
  <1>1. consent \in RawType /\ onDisk.consent = consent /\ onDisk.clientId = clientId
    BY StoresAssumption DEF Init
  <1>2. PICK s \in ConsentStates :
            /\ Tells(consent, s)
            /\ past = [said |-> s, cleared |-> {}, refused |-> {}, sent |-> {}]
    BY DEF Init
  <1>3. TypeOK
    BY <1>1, <1>2, StoresAssumption DEF Init, TypeOK, Remembered, Ids, NoWire, PrivacyModes
  <1>4. WordKept /\ GoneIds /\ SentIds
    BY <1>1, <1>2, ReadTells DEF Init, WordKept, GoneIds, SentIds
  <1>5. IdsMade
    BY <1>1, <1>2, StoresAssumption DEF Init, IdsMade
  <1> QED
    BY <1>3, <1>4, <1>5 DEF StoresInv

----------------------------------------------------------------------------
(* The steps, one lemma each where more than one part of the invariant is  *)
(* at stake.                                                               *)

LEMMA ConstructStep ==
    ASSUME StoresInv, NEW t \in Trackers, NEW m \in PrivacyModes, Construct(t, m)
    PROVE StoresInv'
  <1> USE DEF StoresInv, Construct, ClearClientId, Quiet, disk, Held
  <1>1. CASE ReadConsent(consent) \in OptOuts
    <2>1. past.said \in OptOuts
      BY <1>1 DEF WordKept
    <2>2. TypeOK'
      BY <1>1, <2>1, StoresAssumption DEF TypeOK, Remembered, Ids, NoWire
    <2>3. WordKept' /\ SentIds'
      BY <1>1, <2>1 DEF TypeOK, Remembered, WordKept, SentIds
    <2>4. GoneIds'
      BY <1>1, <2>1, StoresAssumption DEF TypeOK, Remembered, Ids, GoneIds
    <2>5. IdsMade'
      BY <1>1, <2>1, StoresAssumption DEF TypeOK, Remembered, IdsMade
    <2> QED
      BY <2>2, <2>3, <2>4, <2>5
  <1>2. CASE ReadConsent(consent) \notin OptOuts
    <2>1. clientId' = clientId /\ past' = past
      BY <1>2 DEF WordKept
    <2>2. TypeOK' /\ WordKept' /\ SentIds' /\ IdsMade'
      BY <2>1 DEF TypeOK, NoWire, WordKept, SentIds, IdsMade
    <2>3. GoneIds'
      BY <1>2, <2>1 DEF GoneIds
    <2> QED
      BY <2>2, <2>3
  <1> QED
    BY <1>1, <1>2

LEMMA SetConsentStateStep ==
    ASSUME StoresInv, NEW t \in Trackers, NEW s \in ConsentStates, SetConsentState(t, s)
    PROVE StoresInv'
  <1> USE DEF StoresInv, SetConsentState, ClearClientId, Quiet, disk, trackers, Held
  <1>1. consent' \in RawType /\ ReadConsent(consent') = s
    BY ReadWritten
  <1>2. TypeOK'
    BY <1>1, StoresAssumption DEF TypeOK, Remembered, Ids, NoWire
  <1>3. WordKept' /\ SentIds'
    BY <1>1 DEF TypeOK, Remembered, WordKept, SentIds
  <1>4. GoneIds'
    BY <1>1, StoresAssumption DEF TypeOK, Remembered, Ids, GoneIds
  <1>5. IdsMade'
    BY StoresAssumption DEF TypeOK, Remembered, IdsMade
  <1> QED
    BY <1>2, <1>3, <1>4, <1>5

LEMMA ResetClientIdStep ==
    ASSUME StoresInv, NEW t \in Trackers, ResetClientId(t)
    PROVE StoresInv'
  <1> USE DEF StoresInv, ResetClientId, ClearClientId, Quiet, disk, trackers, Held
  <1>1. TypeOK'
    BY StoresAssumption DEF TypeOK, Remembered, Ids, NoWire
  <1>2. WordKept' /\ SentIds'
    BY DEF TypeOK, Remembered, WordKept, SentIds
  <1>3. GoneIds'
    BY StoresAssumption DEF TypeOK, Remembered, Ids, GoneIds
  <1>4. IdsMade'
    BY StoresAssumption DEF TypeOK, Remembered, IdsMade
  <1> QED
    BY <1>1, <1>2, <1>3, <1>4

LEMMA SetClientIdStep ==
    ASSUME StoresInv, NEW t \in Trackers, NEW id \in HostIds \cup {NoId}, SetClientId(t, id)
    PROVE StoresInv'
  <1> USE DEF StoresInv, SetClientId, Quiet, disk, trackers, Held
  <1>1. TypeOK'
    BY StoresAssumption DEF TypeOK, Remembered, Ids, NoWire
  <1>2. WordKept' /\ SentIds'
    BY StoresAssumption DEF TypeOK, Remembered, WordKept, SentIds
  <1>3. GoneIds'
    BY StoresAssumption DEF TypeOK, Remembered, Ids, GoneIds
  <1>4. IdsMade'
    BY StoresAssumption DEF TypeOK, Remembered, IdsMade
  <1> QED
    BY <1>1, <1>2, <1>3, <1>4

LEMMA TrackStep ==
    ASSUME StoresInv, NEW t \in Trackers, NEW c \in Calls, Track(t, c)
    PROVE StoresInv'
  <1> USE DEF StoresInv, Track, disk, trackers, Held
  <1>1. TypeOK'
    BY DEF TypeOK, Remembered, Ids
  <1>2. WordKept' /\ SentIds'
    BY StoresAssumption DEF TypeOK, Remembered, WordKept, SentIds
  <1>3. GoneIds'
    BY DEF TypeOK, Remembered, GoneIds, IdsMade
  <1>4. IdsMade'
    BY DEF TypeOK, Remembered, IdsMade
  <1> QED
    BY <1>1, <1>2, <1>3, <1>4

LEMMA HostStoresConsentStep ==
    ASSUME StoresInv, NEW s \in ConsentStates, HostStoresConsent(s)
    PROVE StoresInv'
  <1> USE DEF StoresInv, HostStoresConsent, Quiet, disk, trackers, Held
  <1>1. consent' \in RawType /\ ReadConsent(consent') = s
    BY ReadWritten
  <1>2. TypeOK'
    BY <1>1 DEF TypeOK, Remembered, NoWire
  <1>3. WordKept' /\ SentIds'
    BY <1>1 DEF TypeOK, Remembered, WordKept, SentIds
  <1>4. GoneIds'
    BY <1>1, StoresAssumption DEF TypeOK, Remembered, Ids, GoneIds
  <1>5. IdsMade'
    BY DEF TypeOK, Remembered, IdsMade
  <1> QED
    BY <1>2, <1>3, <1>4, <1>5

LEMMA SyncConsentStep ==
    ASSUME StoresInv, SyncConsent
    PROVE StoresInv'
  <1> USE DEF StoresInv, SyncConsent, Quiet, stored, trackers, Held
  <1>1. TypeOK'
    BY DEF TypeOK, Remembered, NoWire
  <1>2. WordKept' /\ SentIds'
    BY DEF TypeOK, Remembered, WordKept, SentIds
  <1>3. GoneIds'
    BY DEF TypeOK, Remembered, WordKept, GoneIds
  <1>4. IdsMade'
    BY DEF TypeOK, Remembered, IdsMade
  <1> QED
    BY <1>1, <1>2, <1>3, <1>4

LEMMA SyncClientIdStep ==
    ASSUME StoresInv, SyncClientId
    PROVE StoresInv'
  <1> USE DEF StoresInv, SyncClientId, Quiet, stored, trackers, Held
  <1>1. TypeOK'
    BY DEF TypeOK, Remembered, NoWire
  <1>2. WordKept' /\ SentIds'
    BY DEF TypeOK, Remembered, WordKept, SentIds
  <1>3. GoneIds'
    BY DEF TypeOK, Remembered, GoneIds
  <1>4. IdsMade'
    BY DEF TypeOK, Remembered, IdsMade
  <1> QED
    BY <1>1, <1>2, <1>3, <1>4

LEMMA CrashStep ==
    ASSUME StoresInv, Crash
    PROVE StoresInv'
  <1> USE DEF StoresInv, Crash, Quiet, disk, Held
  <1>1. TypeOK'
    BY DEF TypeOK, Remembered, NoWire, PrivacyModes
  <1>2. WordKept' /\ SentIds'
    BY DEF TypeOK, Remembered, WordKept, SentIds
  <1>3. GoneIds'
    BY DEF TypeOK, Remembered, GoneIds
  <1>4. IdsMade'
    BY DEF TypeOK, Remembered, IdsMade
  <1> QED
    BY <1>1, <1>2, <1>3, <1>4

----------------------------------------------------------------------------
(* The theorems.                                                           *)

\* The store's words, the visitor's IDs and what a crash would make of them,
\* over every operation on the stores.
THEOREM StoresCorrect == Spec => []StoresInv
<1>1. StoresInv /\ [Next]_vars => StoresInv'
  <2> SUFFICES ASSUME StoresInv, [Next]_vars PROVE StoresInv'
    OBVIOUS
  <2>1. ASSUME NEW t \in Trackers, Destroy(t)
        PROVE StoresInv'
    BY <2>1 DEF StoresInv, TypeOK, WordKept, GoneIds, SentIds, IdsMade, Destroy, Quiet, stored, disk,
                Held, NoWire, PrivacyModes
  <2>2. CASE UNCHANGED vars
    BY <2>2 DEF StoresInv, TypeOK, WordKept, GoneIds, SentIds, IdsMade, vars, stored, disk, trackers, Held
  <2> QED
    BY <2>1, <2>2, ConstructStep, SetConsentStateStep, ResetClientIdStep, SetClientIdStep, TrackStep,
       HostStoresConsentStep, SyncConsentStep, SyncClientIdStep, CrashStep DEF Next, TrackerNext
<1> QED
  BY <1>1, InitCorrect, PTL DEF Spec

\* All requests between two changes of the client ID carry the same one:
\* ensureClientId() reads the store that all trackers share.
THEOREM OneVisitorCorrect == Spec => []OneVisitor
<1>1. StoresInv => OneVisitor
  BY DEF StoresInv, SentIds, OneVisitor, Held
<1> QED
  BY <1>1, StoresCorrect, PTL

\* A step that sends is a tracking call.
LEMMA OnlyTrackSends ==
    ASSUME [Next]_vars, Sends
    PROVE \E t \in Trackers, c \in Calls : Track(t, c)
  BY DEF Next, TrackerNext, Sends, Quiet, vars, Construct, Destroy, SetConsentState, ResetClientId,
         SetClientId, HostStoresConsent, SyncConsent, SyncClientId, Crash

\* The visitor's last word holds for every tracker: isTrackingAllowed() is asked
\* about what the store reads at each call.
THEOREM ConsentCorrect == Spec => ConsentHonoured
<1>1. StoresInv /\ [Next]_vars => [Sends => IsTrackingAllowed(mode[wire'.by], past.said)]_vars
  <2> SUFFICES ASSUME StoresInv, [Next]_vars, Sends
               PROVE IsTrackingAllowed(mode[wire'.by], past.said)
    OBVIOUS
  <2>1. PICK t \in Trackers, c \in Calls : Track(t, c)
    BY OnlyTrackSends
  <2> QED
    BY <2>1 DEF Track, StoresInv, WordKept
<1> QED
  BY <1>1, StoresCorrect, PTL DEF Spec, ConsentHonoured

\* No request carries a cleared client ID, also over crashes: setConsentState(),
\* resetClientId() and the constructor clear it in the store all trackers read.
THEOREM ClearedCorrect == Spec => ClearedStaysCleared
<1>1. StoresInv /\ [Next]_vars => [Sends => wire'.id \notin past.cleared \cup past.refused]_vars
  <2> SUFFICES ASSUME StoresInv, [Next]_vars, Sends
               PROVE wire'.id \notin past.cleared \cup past.refused
    OBVIOUS
  <2>1. PICK t \in Trackers, c \in Calls : Track(t, c)
    BY OnlyTrackSends
  <2> QED
    BY <2>1 DEF Track, StoresInv, GoneIds, IdsMade
<1> QED
  BY <1>1, StoresCorrect, PTL DEF Spec, ClearedStaysCleared
=============================================================================
