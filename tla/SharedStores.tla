---------------------------- MODULE SharedStores ----------------------------
(***************************************************************************)
(* Several trackers on one consent store and one client ID store, which    *)
(* keep their values in QSettings.  QSettings answers from memory and      *)
(* writes to disk some time later: nothing in the code asks it to, and a   *)
(* crash in between loses what is not there yet.  The two stores may be in *)
(* two files, so that one gets to the disk without the other; in one file  *)
(* they go together, which is to sync one after the other.  Of a tracker   *)
(* only what touches the stores is kept, see Tracker for the rest.         *)
(***************************************************************************)
EXTENDS Integers, Sequences, PrivacyController

CONSTANTS
    Trackers,
    Calls,     \* the tracking calls that pass validation
    RawValues, \* what the file may hold as consent when the application first starts
    HostIds,   \* valid client IDs for setClientId()
    OldId,     \* a client ID from earlier
    NoId       \* the empty string

\* A value as the file holds it: none, a text, or a text that is a number.
RawType == [kind : {"absent", "text", "number"}, number : Int]
Code(n) == [kind |-> "number", number |-> n]

ASSUME StoresAssumption ==
    /\ RawValues \subseteq RawType
    /\ NoId \notin Calls \cup HostIds \cup {OldId}
    /\ Calls \cap (HostIds \cup {OldId}) = {}

VARIABLES
    consent,    \* MatomoQt/consentState, as QSettings has it in memory
    clientId,   \* MatomoQt/clientId, the same
    onDisk,     \* both of them in the files
    alive,      \* the trackers that exist
    mode,       \* their privacy modes; the others have none
    made,       \* history: the calls made
    wire,       \* history: the request that the step sends
    past,       \* history: what this process would remember of the visitor, see Remembered
    pastOnDisk  \* history: how much of that the files hold

stored == <<consent, clientId>>
disk == <<onDisk, pastOnDisk>>
trackers == <<alive, mode>>
vars == <<stored, disk, trackers, made, wire, past>>

Ids == Calls \cup HostIds \cup {OldId}
NoWire == [call |-> NoId, by |-> NoId, id |-> NoId]

\* The consent the host last asked for; the client IDs a tracker cleared; those
\* stored when a tracker was told of an opt-out; those that went out since the
\* visitor last got another one.
Remembered == [said : ConsentStates, cleared : SUBSET Ids, refused : SUBSET Ids, sent : SUBSET Ids]

Quiet == wire' = NoWire

----------------------------------------------------------------------------
(* The stores.                                                             *)

\* The values of ConsentState, in their order.
ConsentValue == <<"Unknown", "Granted", "Denied", "Withdrawn">>

\* Fault: the last value is taken for one too many.
ReadConsentTooStrict(raw) ==
    IF raw.kind = "number" /\ raw.number \in 0..2 THEN ConsentValue[raw.number + 1] ELSE "Unknown"

\* Fault: whatever is no other value is a grant.
ReadConsentByDefaultGranted(raw) ==
    IF raw.kind = "number" /\ raw.number \in {0, 2, 3} THEN ConsentValue[raw.number + 1]
    ELSE IF raw.kind = "number" THEN "Granted" ELSE "Unknown"

\* consentState() of the store: whatever is no value is Unknown.
ReadConsent(raw) ==
    IF raw.kind = "number" /\ raw.number \in 0..3 THEN ConsentValue[raw.number + 1] ELSE "Unknown"

\* setConsentState() of the store.
Writes(s, raw) == \E n \in 0..3 : ConsentValue[n + 1] = s /\ raw = Code(n)
StoreConsent(s) == Writes(s, consent')

\* Fault: the tracker that clears does not reach the file.
ClearClientIdNot == UNCHANGED clientId

\* clearClientId() of the store.
ClearClientId == clientId' = NoId

\* The ID the visitor has, if any.
Held == {clientId} \ {NoId}

----------------------------------------------------------------------------
(* Trackers.                                                               *)

\* Fault: an opt-out in the store is no reason to clear.
ConstructTrusting(t, m) ==
    /\ t \notin alive
    /\ alive' = alive \cup {t}
    /\ mode' = [mode EXCEPT ![t] = m]
    /\ UNCHANGED <<stored, past, disk, made>>
    /\ Quiet

\* The constructor clears what an opt-out left behind.
Construct(t, m) ==
    /\ t \notin alive
    /\ alive' = alive \cup {t}
    /\ mode' = [mode EXCEPT ![t] = m]
    /\ IF ReadConsent(consent) \in OptOuts THEN ClearClientId ELSE UNCHANGED clientId
    /\ past' = IF past.said \in OptOuts
               THEN [past EXCEPT !.cleared = @ \cup Held, !.sent = {}]
               ELSE past
    /\ UNCHANGED <<consent, disk, made>>
    /\ Quiet

Destroy(t) ==
    /\ t \in alive
    /\ alive' = alive \ {t}
    /\ mode' = [mode EXCEPT ![t] = "Disabled"]
    /\ UNCHANGED <<stored, disk, made, past>>
    /\ Quiet

\* Tracker::setConsentState()
SetConsentState(t, s) ==
    /\ t \in alive
    /\ ReadConsent(consent) # s
    /\ StoreConsent(s)
    /\ IF s \in OptOuts
       THEN /\ ClearClientId
            /\ past' = [said |-> s, cleared |-> past.cleared \cup Held,
                        refused |-> past.refused \cup Held, sent |-> {}]
       ELSE /\ UNCHANGED clientId
            /\ past' = [past EXCEPT !.said = s]
    /\ UNCHANGED <<disk, trackers, made>>
    /\ Quiet

ResetClientId(t) ==
    /\ t \in alive
    /\ ClearClientId
    /\ past' = [past EXCEPT !.cleared = @ \cup Held, !.sent = {}]
    /\ UNCHANGED <<consent, disk, trackers, made>>
    /\ Quiet

\* An ID the host chooses, which may be one the visitor had before, or none.
SetClientId(t, id) ==
    /\ t \in alive
    /\ clientId' = id
    /\ past' = [past EXCEPT !.cleared = @ \ {id}, !.refused = @ \ {id},
                            !.sent = IF id = clientId THEN @ ELSE {}]
    /\ UNCHANGED <<consent, disk, trackers, made>>
    /\ Quiet

\* Fault: the ID is for one call.
TrackAnew(t, c) ==
    /\ t \in alive /\ c \notin made
    /\ IsTrackingAllowed(mode[t], ReadConsent(consent))
    /\ made' = made \cup {c}
    /\ clientId' = c
    /\ wire' = [call |-> c, by |-> t, id |-> clientId']
    /\ past' = [past EXCEPT !.sent = @ \cup {clientId'}]
    /\ UNCHANGED <<consent, disk, trackers>>

\* validateTrackingCall(), ensureClientId(), buildOptions() and the request; an
\* ID that is generated is named by the call.
Track(t, c) ==
    /\ t \in alive /\ c \notin made
    /\ IsTrackingAllowed(mode[t], ReadConsent(consent))
    /\ made' = made \cup {c}
    /\ clientId' = IF clientId = NoId THEN c ELSE clientId
    /\ wire' = [call |-> c, by |-> t, id |-> clientId']
    /\ past' = [past EXCEPT !.sent = @ \cup {clientId'}]
    /\ UNCHANGED <<consent, disk, trackers>>

----------------------------------------------------------------------------
(* The host and the system.                                                *)

\* A host that writes to the consent store itself, as MatomoTracker does before
\* it has a tracker; no tracker is told.  With none alive, an answer other than
\* an opt-out takes back one that no tracker has seen since a crash.
HostStoresConsent(s) ==
    /\ StoreConsent(s)
    /\ past' = [past EXCEPT !.said = s,
                            !.refused = IF alive = {} /\ s \notin OptOuts THEN @ \ Held ELSE @]
    /\ UNCHANGED <<clientId, disk, trackers, made>>
    /\ Quiet

SyncConsent ==
    /\ onDisk' = [onDisk EXCEPT !.consent = consent]
    /\ pastOnDisk' = [pastOnDisk EXCEPT
            !.said = past.said,
            !.refused = IF past.said \in OptOuts THEN past.refused ELSE {}]
    /\ UNCHANGED <<stored, trackers, made, past>>
    /\ Quiet

SyncClientId ==
    /\ onDisk' = [onDisk EXCEPT !.clientId = clientId]
    /\ pastOnDisk' = [pastOnDisk EXCEPT !.cleared = past.cleared, !.sent = past.sent]
    /\ UNCHANGED <<stored, trackers, made, past>>
    /\ Quiet

\* The process dies and a new one starts on the files.  One that ends in order
\* destroys its trackers and syncs both before.
Crash ==
    /\ consent' = onDisk.consent /\ clientId' = onDisk.clientId
    /\ past' = [pastOnDisk EXCEPT !.sent = IF clientId = onDisk.clientId THEN past.sent ELSE @]
    /\ alive' = {} /\ mode' = [t \in Trackers |-> "Disabled"]
    /\ UNCHANGED <<disk, made>>
    /\ Quiet

\* History: s is the visitor's last word by a file that the application starts on.
\* What no setConsentState() has written there is no answer.
Tells(raw, s) ==
    IF \E q \in ConsentStates : Writes(q, raw) THEN Writes(s, raw) ELSE s = "Unknown"

Init ==
    /\ onDisk \in [consent : RawValues, clientId : {NoId, OldId}]
    /\ consent = onDisk.consent /\ clientId = onDisk.clientId
    /\ alive = {} /\ mode = [t \in Trackers |-> "Disabled"]
    /\ made = {} /\ wire = NoWire
    /\ \E s \in ConsentStates :
        /\ Tells(consent, s)
        /\ past = [said |-> s, cleared |-> {}, refused |-> {}, sent |-> {}]
    /\ pastOnDisk = past

TrackerNext(t) ==
    \/ \E m \in PrivacyModes : Construct(t, m)
    \/ Destroy(t)
    \/ \E s \in ConsentStates : SetConsentState(t, s)
    \/ ResetClientId(t)
    \/ \E id \in HostIds \cup {NoId} : SetClientId(t, id)
    \/ \E c \in Calls : Track(t, c)

Next ==
    \/ \E t \in Trackers : TrackerNext(t)
    \/ \E s \in ConsentStates : HostStoresConsent(s)
    \/ SyncConsent \/ SyncClientId \/ Crash

Spec == Init /\ [][Next]_vars

----------------------------------------------------------------------------
(* Properties.                                                             *)

\* Every variable keeps its type; no ID but a call's, the host's or the old one.
TypeOK ==
    /\ consent \in RawType /\ clientId \in Ids \cup {NoId}
    /\ onDisk \in [consent : RawType, clientId : Ids \cup {NoId}]
    /\ alive \in SUBSET Trackers /\ mode \in [Trackers -> PrivacyModes]
    /\ made \in SUBSET Calls
    /\ wire \in [call : Calls \cup {NoId}, by : Trackers \cup {NoId}, id : Ids \cup {NoId}]
    /\ past \in Remembered /\ pastOnDisk \in Remembered

Sends == wire' \notin {wire, NoWire}

\* No tracker sends against the visitor's last word, whichever tracker it was
\* given to or if the host stored it; after a crash, the last one on the disk.
ConsentHonoured == [][Sends => IsTrackingAllowed(mode[wire'.by], past.said)]_vars

\* No request carries a client ID that a tracker cleared, for a reset, an opt-out
\* or because it found one.  A crash brings back what is not on the disk, but an
\* ID of which either the removal or the opt-out is there stays away, though the
\* two may be in different files.
ClearedStaysCleared == [][Sends => wire'.id \notin past.cleared \cup past.refused]_vars

\* All that goes out while no ID is cleared or replaced carries the same one,
\* whichever tracker sends it, and after a crash if that ID was on the disk.
OneVisitor == \A a, b \in past.sent : a = b

\* What the properties rest on: the stores read the word, whatever the file held
\* at first and has held since.
WordKept == past.said = ReadConsent(consent) /\ pastOnDisk.said = ReadConsent(onDisk.consent)

\* An ID that was cleared is not stored; one that was refused may be, after a crash,
\* but with the opt-out, and no tracker has seen it yet.  On the disk a refusal lasts
\* as long as the opt-out.
GoneIds ==
    /\ clientId \notin past.cleared /\ onDisk.clientId \notin pastOnDisk.cleared
    /\ clientId \in past.refused => alive = {} /\ ReadConsent(consent) \in OptOuts
    /\ pastOnDisk.refused # {} => ReadConsent(onDisk.consent) \in OptOuts

\* What was sent is what is stored.
SentIds == past.sent \subseteq Held /\ pastOnDisk.sent \subseteq {onDisk.clientId} \ {NoId}

\* No ID is stored, cleared or refused before the call that generates it.
IdsMade ==
    Calls \cap ({clientId, onDisk.clientId} \cup past.cleared \cup past.refused
               \cup pastOnDisk.cleared \cup pastOnDisk.refused) \subseteq made

\* The inductive invariant: of the process, of the disk, and of what a crash
\* would make of the one from the other.
StoresInv == TypeOK /\ WordKept /\ GoneIds /\ SentIds /\ IdsMade
=============================================================================
