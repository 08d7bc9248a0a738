--------------------------- MODULE KeyDirectory ---------------------------
(***************************************************************************)
(* How this device learns other users' devices, composed across the glue: *)
(* `update_tracked_users` (lib.rs 521-532) starts tracking a user, the     *)
(* device-list part of `receive_sync_changes` (395-431) reports changes,   *)
(* the engine's KeysQuery goes out through `outgoing_requests` (242-259)   *)
(* and comes back through `mark_keys_query_as_sent` (282-308), and         *)
(* `request_device_verification` / `request_user_verification` (639-661)  *)
(* unwrap the engine's lookup of the device or identity they name. Every  *)
(* unwrap is a panic, and a panic aborts the process: `aborted`.           *)
(***************************************************************************)
EXTENDS Integers

CONSTANTS
    Users,               \* users whose devices it learns (model values)
    Own,                 \* the account's own user, one of Users: its
                         \* identity is UserIdentities::Own
    MaxChanges,          \* bound on device-list changes per user
    MaxFailures,         \* bound on users a server fails to answer for
    CallerAcksBeforeUse, \* TRUE: the caller acknowledges a KeysQuery answer
                         \* before offering its devices for verification
    Failed               \* a model value: the server failed for this user

ASSUME Own \in Users
ASSUME MaxChanges \in Nat /\ MaxFailures \in Nat /\ CallerAcksBeforeUse \in BOOLEAN

Versions == 0..MaxChanges   \* device list v: the newest device is device v
Unknown == -1               \* no device list received

VARIABLES
    ver,        \* server: each user's device-list version
    changed,    \* server: users whose change no sync has reported yet
    tracked,    \* engine: users it tracks
    dirty,      \* engine: tracked users whose device list must be queried
    querying,   \* engine: users of the KeysQuery in flight ({} if none)
    notified,   \* engine: newest version a sync or tracking told it of
    known,      \* engine: version of each user's device list it holds
    qstate,     \* caller: the KeysQuery is "none", "sent" or "answered"
    answer,     \* caller: the answer it holds, per queried user
    offered,    \* caller: newest device of each user it offers for verification
    requested,  \* users a verification flow was requested with
    failures,
    aborted

vars == <<ver, changed, tracked, dirty, querying, notified, known, qstate,
          answer, offered, requested, failures, aborted>>

TypeOK ==
    /\ ver \in [Users -> Versions] /\ changed \subseteq Users
    /\ tracked \subseteq Users /\ dirty \subseteq Users /\ querying \subseteq Users
    /\ notified \in [Users -> Versions \cup {Unknown}]
    /\ known \in [Users -> Versions \cup {Unknown}]
    /\ qstate \in {"none", "sent", "answered"}
    /\ answer \in [Users -> Versions \cup {Unknown, Failed}]
    /\ offered \in [Users -> Versions \cup {Unknown}] /\ requested \subseteq Users
    /\ failures \in 0..MaxFailures /\ aborted \in BOOLEAN

-----------------------------------------------------------------------------
(* Engine (spec.md 4.1 and 4.3; spec_modelled).                            *)

EngineTrackWithoutQuery(u) ==
    /\ tracked' = tracked \cup {u}
    /\ UNCHANGED <<dirty, notified>>

\* update_tracked_users: a user not tracked yet is tracked and must be queried.
EngineTrack(u) ==
    /\ tracked' = tracked \cup {u}
    /\ dirty' = IF u \in tracked THEN dirty ELSE dirty \cup {u}
    /\ notified' = IF u \in tracked THEN notified ELSE [notified EXCEPT ![u] = ver[u]]

\* A sync batch's device_lists.changed: tracked users become dirty.
EngineDeviceListsChanged(us) ==
    /\ dirty' = dirty \cup (us \cap tracked)
    /\ notified' = [u \in Users |-> IF u \in us \cap tracked THEN ver[u] ELSE notified[u]]

\* outgoing_requests creates a KeysQuery for the dirty users when none is in
\* flight.
EngineKeysQuery ==
    /\ querying = {} /\ dirty # {}
    /\ querying' = dirty
    /\ dirty' = {}

\* The KeysQuery response: the device lists it carries are stored, users the
\* server failed for are queried again, and a change reported while the
\* query was in flight stays to be queried.
EngineReceiveKeysQuery(devices, failed) ==
    /\ known' = [u \in Users |-> IF u \in DOMAIN devices THEN devices[u] ELSE known[u]]
    /\ dirty' = dirty \cup failed
    /\ querying' = {}

\* get_device / get_identity: the engine holds the device list with device v.
EngineHasDevice(u, v) == known[u] # Unknown /\ known[u] >= v

-----------------------------------------------------------------------------
(* Glue (lib.rs) and the caller that drives it.                            *)

\* The parsed response: the device lists of the users the server answered
\* for, and the users it failed for (device_keys and failures, 287-298).
DevicesOf(resp) == [u \in {w \in DOMAIN resp : resp[w] # Failed} |-> resp[u]]
FailuresOf(resp) == {u \in DOMAIN resp : resp[u] = Failed}

MarkKeysQueryAsSentFailuresAsDevices(resp) ==
    EngineReceiveKeysQuery(resp, FailuresOf(resp))
MarkKeysQueryAsSentDropsFailures(resp) ==
    EngineReceiveKeysQuery(DevicesOf(resp), {})

\* mark_keys_query_as_sent: every field is an Option defaulted to empty
\* (297-301), and the engine takes the response.
MarkKeysQueryAsSent(resp) == EngineReceiveKeysQuery(DevicesOf(resp), FailuresOf(resp))

\* The caller's record of the newest device per user, after an answer.
Learn(resp) ==
    [u \in Users |-> IF u \in DOMAIN DevicesOf(resp) /\ DevicesOf(resp)[u] > offered[u]
                     THEN DevicesOf(resp)[u] ELSE offered[u]]

\* update_tracked_users with one user.
UpdateTrackedUsers(u) ==
    /\ ~aborted /\ u \notin tracked
    /\ EngineTrack(u)
    /\ UNCHANGED <<ver, changed, querying, known, qstate, answer, offered, requested, failures, aborted>>

\* A user's devices change on the server (a device added).
ServerChange(u) ==
    /\ ver[u] < MaxChanges
    /\ ver' = [ver EXCEPT ![u] = @ + 1]
    /\ changed' = changed \cup {u}
    /\ UNCHANGED <<tracked, dirty, querying, notified, known, qstate, answer, offered, requested, failures, aborted>>

\* receive_sync_changes with a batch whose device_lists.changed reports the
\* pending changes (414).
ReceiveDeviceLists ==
    /\ ~aborted /\ changed # {}
    /\ EngineDeviceListsChanged(changed)
    /\ changed' = {}
    /\ UNCHANGED <<ver, tracked, querying, known, qstate, answer, offered, requested, failures, aborted>>

\* outgoing_requests: the new KeysQuery, which the caller sends; when one is in
\* flight or nobody is dirty, nothing the caller has not sent already.
DrainKeysQuery ==
    /\ ~aborted
    /\ \/ /\ qstate = "none"
          /\ EngineKeysQuery
          /\ qstate' = "sent"
          /\ UNCHANGED <<ver, changed, tracked, notified, known, answer, offered, requested, failures, aborted>>
       \/ /\ qstate # "none" \/ dirty = {}
          /\ UNCHANGED vars

\* The server answers with each queried user's current device list, or fails
\* for some of them. A caller that does not acknowledge first offers the
\* devices at once.
ServerAnswer ==
    /\ qstate = "sent"
    /\ \E F \in SUBSET querying :
        /\ F # {} => failures < MaxFailures
        /\ failures' = IF F = {} THEN failures ELSE failures + 1
        /\ answer' = [u \in Users |-> IF u \in F THEN Failed
                                      ELSE IF u \in querying THEN ver[u] ELSE Unknown]
    /\ qstate' = "answered"
    /\ offered' = IF CallerAcksBeforeUse THEN offered
                  ELSE Learn([u \in querying |-> answer'[u]])
    /\ UNCHANGED <<ver, changed, tracked, dirty, querying, notified, known, requested, aborted>>

\* The caller acknowledges the answer and offers its devices.
AcknowledgeKeysQuery ==
    /\ ~aborted /\ qstate = "answered"
    /\ MarkKeysQueryAsSent([u \in querying |-> answer[u]])
    /\ offered' = Learn([u \in querying |-> answer[u]])
    /\ qstate' = "none"
    /\ answer' = [u \in Users |-> Unknown]
    /\ UNCHANGED <<ver, changed, tracked, notified, requested, failures, aborted>>

\* request_device_verification for the newest device offered (get_device
\* ..unwrap().unwrap(), 643) or request_user_verification (get_identity
\* ..unwrap().unwrap(), 654): a lookup the engine cannot answer panics.
RequestDeviceVerification(u) ==
    IF EngineHasDevice(u, offered[u]) THEN requested' = requested \cup {u} /\ UNCHANGED aborted
    ELSE aborted' = TRUE /\ UNCHANGED requested
\* ... and only UserIdentities::Other is verified in a room: the own
\* identity reaches panic!() (658).
RequestUserVerification(u) ==
    IF EngineHasDevice(u, 0) /\ u # Own
    THEN requested' = requested \cup {u} /\ UNCHANGED aborted
    ELSE aborted' = TRUE /\ UNCHANGED requested

\* request_user_verification_content, the content of the in-room request the
\* caller sends itself: the same get_identity, unwrapped (666) ...
ContentLookupFails(u) == ~EngineHasDevice(u, 0)

\* ... and the request content for UserIdentities::Other, the empty string for
\* the own identity (667-671).
RequestUserVerificationContent(u) == IF u = Own THEN "" ELSE "request"

\* In-room verification of a user: the caller asks for the content; with an
\* empty one it stops, otherwise it sends it and passes the sent event to
\* request_user_verification.
VerifyInRoom(u) ==
    CASE ContentLookupFails(u) -> aborted' = TRUE /\ UNCHANGED requested
      [] RequestUserVerificationContent(u) = "" -> UNCHANGED <<requested, aborted>>
      [] OTHER -> RequestUserVerification(u)

\* The user picks an offered device or user to verify.
Verify(u) ==
    /\ ~aborted /\ offered[u] # Unknown /\ u \notin requested
    /\ RequestDeviceVerification(u) \/ VerifyInRoom(u)
    /\ UNCHANGED <<ver, changed, tracked, dirty, querying, notified, known, qstate, answer, offered, failures>>

-----------------------------------------------------------------------------
Init ==
    /\ ver = [u \in Users |-> 0] /\ changed = {}
    /\ tracked = {} /\ dirty = {} /\ querying = {}
    /\ notified = [u \in Users |-> Unknown] /\ known = [u \in Users |-> Unknown]
    /\ qstate = "none" /\ answer = [u \in Users |-> Unknown]
    /\ offered = [u \in Users |-> Unknown] /\ requested = {}
    /\ failures = 0 /\ aborted = FALSE

Next ==
    \/ \E u \in Users : UpdateTrackedUsers(u) \/ ServerChange(u) \/ Verify(u)
    \/ ReceiveDeviceLists \/ DrainKeysQuery \/ ServerAnswer \/ AcknowledgeKeysQuery

\* The sync loop, the transport and the server; tracking, changes and the
\* user's choice to verify are not fair.
Fairness ==
    /\ WF_vars(ReceiveDeviceLists) /\ WF_vars(DrainKeysQuery)
    /\ WF_vars(ServerAnswer) /\ WF_vars(AcknowledgeKeysQuery)

Spec == Init /\ [][Next]_vars /\ Fairness

-----------------------------------------------------------------------------
(* Properties.                                                             *)

\* A device-list change the engine was told of is never forgotten: while a
\* tracked user's stored list is older than the newest version a sync (or
\* tracking) reported, the user is still to be queried or being queried,
\* even when the change arrived while a KeysQuery was in flight.
ChangedUserRequeried ==
    \A u \in tracked : known[u] < notified[u] => u \in dirty \cup querying

\* No verification request panics: a device or user the caller offers is one
\* the engine can look up (get_device/get_identity unwrapped at 643, 654,
\* 666), and the empty content request_user_verification_content gives for
\* the own user keeps the caller from request_user_verification's panic.
NoAbort == ~aborted

\* Every tracked user's device list eventually matches the server's for good,
\* across failed queries and changes during a query.
DirectoryConverges == <>[](\A u \in tracked : known[u] = ver[u])
====
