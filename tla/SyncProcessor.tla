-------------------------- MODULE SyncProcessor --------------------------
(***************************************************************************)
(* The Sync Change Processor (spec.md 4.3) across the glue:                *)
(* `receive_sync_changes` (lib.rs 395-431) hands one sync batch to the     *)
(* engine and surfaces the verification requests among its to-device       *)
(* events; the caller keeps its sync token in memory and saves it now and *)
(* then. The process may crash at any moment, and every unwrap is a panic  *)
(* that aborts it; a restart is `init` (37-56) and the caller resuming     *)
(* from its saved token. The remote member's room key arrives as one of    *)
(* the to-device events and its room event in the timeline, possibly      *)
(* earlier; the caller decrypts with `decrypt_room_event` (506-519) and    *)
(* retries what came back empty.                                           *)
(***************************************************************************)
EXTENDS Naturals

CONSTANTS
    N,            \* batches the server has for this device
    Requests,     \* batches whose to-device events carry a verification request
    MaxCrashes,   \* bound on crashes from outside (kill, power loss)
    NoToDevice,   \* batches whose sync response has no to_device object
    KeyBatch,     \* the batch whose to-device events carry the room key
    Timeline      \* batches whose timeline carries an event encrypted with it

ASSUME /\ N \in Nat \ {0} /\ MaxCrashes \in Nat
       /\ Requests \cup {KeyBatch} \subseteq (1..N) \ NoToDevice
       /\ Timeline \subseteq 1..N

VARIABLES
    applied,    \* engine store: batches whose to-device events it applied
    engLast,    \* engine memory: last token processed in this lifetime
    flows,      \* engine memory: batches whose verification request it holds
    token,      \* caller memory: last batch processed
    saved,      \* caller disk: the token it saved
    surfaced,   \* batches whose request has reached the caller (history)
    shown,      \* caller memory: timeline events it decrypted
    utd,        \* caller memory: timeline events it could not decrypt yet
    savedTl,    \* caller disk: its timeline cache, [shown, utd]
    up,         \* the process is running
    crashes

vars == <<applied, engLast, flows, token, saved, surfaced, shown, utd, savedTl, up, crashes>>

TypeOK ==
    /\ applied \subseteq 1..N /\ flows \subseteq Requests /\ surfaced \subseteq Requests
    /\ engLast \in 0..N /\ token \in 0..N /\ saved \in 0..N
    /\ shown \subseteq Timeline /\ utd \subseteq Timeline
    /\ savedTl \in [shown : SUBSET Timeline, utd : SUBSET Timeline]
    /\ up \in BOOLEAN /\ crashes \in 0..MaxCrashes

-----------------------------------------------------------------------------
(* Engine (spec.md 4.3; spec_modelled).                                    *)

EngineReceiveNextToken(b, toDevice) ==
    /\ applied' = IF toDevice THEN applied \cup {b} ELSE applied
    /\ flows' = IF toDevice /\ b \in Requests THEN flows \cup {b} ELSE flows
    /\ engLast' = b + 1

\* The engine applies a batch's to-device events, creating the verification
\* request one carries, and refuses a token it processed in this lifetime.
EngineAccepts(b) == b > engLast
EngineReceive(b, toDevice) ==
    /\ applied' = IF toDevice THEN applied \cup {b} ELSE applied
    /\ flows' = IF toDevice /\ b \in Requests THEN flows \cup {b} ELSE flows
    /\ engLast' = b

\* get_verification_request: the engine holds the flow (after the batch).
HasRequest(b) == b \in flows'

\* decrypt_room_event: the engine decrypts an event of the remote member once
\* its store holds the room key (after the batch).
EngineDecrypts == KeyBatch \in applied'

-----------------------------------------------------------------------------
(* Glue (lib.rs).                                                          *)

ToDeviceEventsWrongKey(b) == FALSE

\* The batch's to-device events reach the engine: events["events"] of the
\* to_device object, or none when the response has no to_device (409-413).
ToDeviceEvents(b) == b \notin NoToDevice

\* The lookup of a request event by its sender and transaction id (426).
LookupRequest(b) == HasRequest(b)

DecryptRoomEventWrongRoom(e) == FALSE

\* decrypt_room_event: TRUE for the decrypted event, FALSE for the empty
\* string into which every engine error is turned (513-517).
DecryptRoomEvent(e) == EngineDecrypts

\* The caller decrypts the batch's timeline events and retries the ones it
\* could not decrypt before.
DecryptTimeline(b) ==
    LET todo == utd \cup (Timeline \cap {b})
        ok == {e \in todo : DecryptRoomEvent(e)}
    IN /\ shown' = shown \cup ok
       /\ utd' = todo \ ok

\* The request events among the events the engine returned.
RequestEvents(b) == IF ToDeviceEvents(b) /\ b \in Requests THEN {b} ELSE {}

\* receive_sync_changes for batch b and the caller taking its result: an
\* engine error is unwrapped (420), the lookup of each request event is
\* unwrapped (426); on return the requests reach the caller and it moves its
\* token to b.
ReceiveSyncChanges(b) ==
    IF ~EngineAccepts(b)
    THEN up' = FALSE /\ UNCHANGED <<applied, engLast, flows, token, surfaced, shown, utd>>
    ELSE /\ EngineReceive(b, ToDeviceEvents(b))
         /\ IF \A r \in RequestEvents(b) : LookupRequest(r)
            THEN /\ surfaced' = surfaced \cup RequestEvents(b)
                 /\ token' = b /\ up' = TRUE
                 /\ DecryptTimeline(b)
            ELSE up' = FALSE /\ UNCHANGED <<token, surfaced, shown, utd>>

\* init after a crash (37-56): a new engine over the same store; its memory
\* is gone. The caller resumes from the token and the timeline it saved.
Restart ==
    /\ ~up
    /\ up' = TRUE
    /\ engLast' = 0 /\ flows' = {}
    /\ token' = saved
    /\ shown' = savedTl.shown /\ utd' = savedTl.utd
    /\ UNCHANGED <<applied, saved, surfaced, savedTl, crashes>>

-----------------------------------------------------------------------------
(* Caller (libQuotient's sync loop, environment).                         *)

\* The next batch after the caller's token; once the caller has caught up, a
\* long poll that the server answers with nothing new.
Sync ==
    /\ up
    /\ \/ token < N /\ ReceiveSyncChanges(token + 1) /\ UNCHANGED <<saved, savedTl, crashes>>
       \/ token = N /\ UNCHANGED vars

\* The process dies inside receive_sync_changes after the engine applied the
\* batch and before the call returned.
CrashInSync ==
    /\ up /\ token < N /\ crashes < MaxCrashes
    /\ EngineAccepts(token + 1)
    /\ EngineReceive(token + 1, ToDeviceEvents(token + 1))
    /\ up' = FALSE /\ crashes' = crashes + 1
    /\ UNCHANGED <<token, saved, surfaced, shown, utd, savedTl>>

\* The process dies between calls.
Crash ==
    /\ up /\ crashes < MaxCrashes
    /\ up' = FALSE /\ crashes' = crashes + 1
    /\ UNCHANGED <<applied, engLast, flows, token, saved, surfaced, shown, utd, savedTl>>

\* The caller saves its state: the sync token and its timeline cache.
Save ==
    /\ up /\ saved # token
    /\ saved' = token
    /\ savedTl' = [shown |-> shown, utd |-> utd]
    /\ UNCHANGED <<applied, engLast, flows, token, surfaced, shown, utd, up, crashes>>

Init ==
    /\ applied = {} /\ engLast = 0 /\ flows = {}
    /\ token = 0 /\ saved = 0 /\ surfaced = {}
    /\ shown = {} /\ utd = {} /\ savedTl = [shown |-> {}, utd |-> {}]
    /\ up = TRUE /\ crashes = 0

Next == Sync \/ CrashInSync \/ Crash \/ Save \/ Restart

\* The sync loop, saving and restarting are the caller's own loop; crashes
\* are not fair.
Fairness == WF_vars(Sync) /\ WF_vars(Save) /\ WF_vars(Restart)

Spec == Init /\ [][Next]_vars /\ Fairness

-----------------------------------------------------------------------------
(* Properties.                                                             *)

\* No to-device event is lost: every batch up to the token the caller saved
\* had its to-device events applied by the engine, and its verification
\* request surfaced by receive_sync_changes, across crashes at any point.
NoEventLost ==
    \A b \in 1..saved :
        /\ b \notin NoToDevice => b \in applied
        /\ b \in Requests => b \in surfaced
        /\ b \in Timeline => b \in savedTl.shown \cup savedTl.utd

\* Every room event the remote member sent is eventually decrypted in the
\* saved timeline, though it may arrive before its key, and a crash may
\* fall between the key's batch and the retry.
EventuallyDecrypted == <>(Timeline \subseteq savedTl.shown)
====
