# TLA+ models of the matrix-rust-sdk-crypto glue of libQuotient

The repository's Rust source (`src/matrix-rust-sdk-crypto/src/lib.rs`, 925 lines)
is a `cxx` bridge: libQuotient's C++ code holds a `Box<CryptoMachine>` and calls
the functions declared in the `ffi` module (lib.rs:831-925); each one blocks on
a Tokio runtime and forwards to matrix-sdk-crypto's `OlmMachine` (the
*crypto engine*, not part of this repository). The glue decides nothing
cryptographic itself; what it does decide is **what happens at the boundary**:
which engine call a C++ call becomes, how arguments are mapped, what is
returned to the caller and what stays queued in the engine, and — everywhere —
that an unexpected engine answer is an `unwrap()`/`expect()`/`panic!()`. A
Rust panic cannot unwind through a `cxx` `extern "Rust"` function: it aborts
the whole process. The models therefore treat every such line as an
*abort* of the process, followed (where it matters) by a restart through
`init`.

The engine's behaviour is modelled from `spec.md` (sections 3, 4 and 7),
marked `spec_modelled` in `PROJECT.json`; every glue function is modelled from
its lines in lib.rs.

## Inventory

| Component (spec.md name) | Code | State | Operations |
|---|---|---|---|
| Machine lifecycle | `init` 37-56, `Drop` 28-35 | Tokio runtime, `Option<ManuallyDrop<OlmMachine>>` opened on a SQLite store | open (panics if the store or user id fails), close |
| Request Ledger | `outgoing_requests` 242-259, `mark_*_as_sent` 261-393, `OutgoingRequest` accessors 94-239 | the engine's pending outgoing requests, keyed by request id | drain (snapshot, error swallowed into an empty list), acknowledge per kind (parse response, forward, unwrap) |
| Session Establishment Planner | `get_missing_sessions` 459-485, `share_room_key` 433-457, `KeysClaimRequest` 58-74, `ToDeviceRequest` 76-92 | engine: which devices have Olm sessions and which hold the room key | plan a key claim (empty id `""` when nothing is missing, no lock: `//TODO lock`), share a room key |
| Sync Change Processor | `receive_sync_changes` 395-431, `update_tracked_users` 521-532 | engine: sessions, device lists, one-time-key counts | apply a sync batch, surface inbound verification requests (`get_verification_request(..).unwrap()`) |
| Verification Session Manager | `request_device_verification` 639-647, `request_user_verification` 649-661, `accept_verification` 534-538, `start_sas` 556-562, `accept_sas` 564-579, `sas_emoji` 626-637, `confirm_verification` 540-554, `verification_get_state` 582-599, `sas_get_state` 601-624, `receive_verification_event` 684-688 | engine: per (user, flow id) the outer request phase and the inner SAS phase | the calls above; the C++ client polls the two state codes and calls the one the codes call for |
| Room-event crypto | `encrypt_room_event` 487-504, `decrypt_room_event` 506-519, `get_room_event_encryption_info` 676-682, `EncryptionInfo::is_verified` 823-829 | none of its own | encrypt, decrypt (errors become `""`), verification verdict |
| FFI declarations | `ffi` 831-925 | none | the C++-visible signatures; the `mark_*_as_sent` ones are declared `(request_id, response)` while the implementations take `(response, request_id)` |

How they interact. libQuotient's sync loop feeds each sync response to
`receive_sync_changes`; the engine updates its state and queues outgoing
requests (key uploads, key queries, to-device replies of verification flows);
the C++ transport drains them with `outgoing_requests`, sends them and reports
each answer through the `mark_*_as_sent` matching `request_type`. Application
calls (verification, room-key sharing, claiming one-time keys) return their
requests *to the caller* instead of queueing them: the caller must send those
itself, on a path that is not ordered with the drained queue.

What is hard here:
- **stale state across calls** — the client reads `verification_get_state` /
  `sas_get_state`, the user reacts, and meanwhile a sync batch applies the
  remote's cancel; the next glue call then panics (lib.rs:537, 559, 544-552,
  566-577, 628-630);
- **ordering across two send paths** — a MAC returned by `confirm_verification`
  and a `done` the engine queues when the remote MAC arrives reach the network
  in either order;
- **crash and restart** — an abort loses the engine's in-memory flows and
  queue and the caller's unsent requests; the remote is left waiting;
- **argument mapping** at the FFI boundary (`mark_*_as_sent`);
- **no lock** around `get_missing_sessions` (lib.rs:459): two overlapping
  plans claim the same device's one-time key twice;
- **snapshot drains** — `outgoing_requests` does not mark anything as in
  flight, so a second drain before an acknowledgment yields the same requests.

Properties that make each component correct: a flow that nobody cancels
ends Done on both devices, and any flow eventually settles (Verification);
every pending request is eventually acknowledged exactly once and no
acknowledgment aborts the process (Ledger); every device ends with a session
and the current room key (Planner); every batch up to the saved token had
its to-device events applied and its verification request surfaced at least
once, and an event that came before its room key is decrypted in the end
(Sync); a device-list change or a failed query is queried again, and every
list converges (KeyDirectory). The caller's handle on a surfaced request, like
the engine's in-memory flow, does not survive a crash; "surfaced" is a
history, not a promise that the request is still held.

## Modules

### `Verification` (written)

One SAS verification flow between the local device, driven through the glue,
and a remote device running the same engine.

- Engine (spec.md 4.4, `spec_modelled`): `Receive(e, m)` is the reaction of
  an engine to one received event (`request`, `ready`, `start`, `accept`,
  `key`, `mac`, `done`, `cancel`), returning the new flow record and the
  events it queues in reply; an unexpected event cancels the flow and an event
  for an unknown flow is answered with a cancel. `CanAccept`, `CanStart`,
  `CanAcceptSas`, `HasEmoji`, `Confirmed` are the guards and effects of the
  engine's API calls. Both peers use them.
- Glue (lib.rs): one operator per glue function. A call whose engine guard
  fails is `Abort` — the panic lines named in `PROJECT.json`. `confirm`
  outside KeysExchanged is a nondeterministic choice between the engine
  failing (a panic at `.unwrap()`) and it returning nothing.
  `ReceiveSyncChanges` takes a batch (a prefix of at most `MaxBatch` events)
  of the local inbox, folds it through `Receive`, queues the replies and hands
  an inbound request to the client.
- In a room (`room`): the caller sends the request event itself (with
  `request_user_verification_content`) and then creates the flow with
  `RequestUserVerification` (649-661), which returns no event to send; both
  steps are one action of the caller. The flow's events then arrive as
  timeline events, which the caller passes one at a time to
  `ReceiveVerificationEvent` (684-688), and `ReceiveSyncChanges` no longer
  sees them. The remote chooses the transport of a flow it starts. The
  caller is assumed to pass only the remote's events, in timeline order.
- Client (libQuotient, environment): `Poll` reads both state codes; each
  `Client*` action makes the call the last reading calls for, and uses the
  reading up. `ClientSend` sends requests a call returned; `TransportSend`
  sends the engine's queue in order. `Restart` is `init` after an abort: the
  engine's flows (in memory) and both queues are gone; events already on the
  way stay with the server.
- Trust: `trusted` is the engine's record that the remote device is
  verified, set when the local SAS reaches Done (`Trusts`, spec.md 8,
  `spec_modelled`). It is kept in the store, so `Restart` keeps it.
  `GetRoomEventEncryptionInfo` (676-682) and `IsVerified` (823-829) read it
  for an event the remote device sent. No property checks them: `trusted`
  is set exactly when the local SAS is Done, which `BothEndDone` reaches.
- Remote (environment): accepts, starts SAS if it sent the request, accepts an
  inbound SAS, confirms, cancels (only when `RemoteMayCancel`), and receives
  events in order.

Constants: `SingleSendQueue` — TRUE when the caller pushes the requests glue
calls return into the same FIFO as the drained queue (the discipline under
which the protocol works), FALSE when it sends them on their own path as the
glue leaves it to; `RemoteMayCancel`; `MaxBatch` = 2 (a batch of two lets a
cancel and the event before it arrive together).

Runs:

| run | constants | checks | result |
|---|---|---|---|
| `verification_ordered` | single queue, no cancel | `BothEndDone` | pass (367 states): any flow nobody cancels, to-device or in a room, ends Done on both devices |
| `verification_cancel` | two send paths, remote may cancel | `TypeOK`, `FlowSettles` | pass (1,583 states): every flow settles on both devices, across cancels, stale calls, crashes and the two unordered send paths |
| `verification_abort` | single queue, remote may cancel | `NoAbort` | violation: poll Requested, remote cancel arrives, `accept_verification` panics |
| `verification_reorder` | two send paths, no cancel | `BothEndDone` | violation: the returned MAC is overtaken by the queued `done`; the remote cancels |

Fairness: weak fairness on the sync loop, the transport, the caller's sends,
polling, restart after a crash, and on each user's response to the prompt in
front of them (the liveness claims are about users who answer). Starting a flow
and cancelling are not fair: they are choices. `CHECK_DEADLOCK FALSE` because
a finished flow is the end of this one-flow system.

Bounds: one flow, two devices; the protocol itself bounds the queues (each
event is sent at most once per side). A batch of two is enough for every
interleaving of receipt with polling.

### `RequestLedger` and `AbstractLedger` (written)

The engine's pending outgoing requests and the C++ transport that drains and
acknowledges them.

- Engine (spec.md 3 and 4.1, `spec_modelled`): `pending[i]` is the kind of the
  pending request with id `i` (or `"none"`), `issued` the ids ever assigned;
  `EngineEnqueue` creates a request with a fresh id; `MarkRequestAsSent` is the
  engine's acknowledgment, which fails for an id that is not pending or a
  response of another kind.
- Glue (lib.rs): `RequestType` is `request_type` (101-111);
  `OutgoingRequests` the snapshot `outgoing_requests` returns (243-250), and
  `Drain` the whole call including the store error printed and turned into an
  empty list (251-256). One operator per `mark_*_as_sent` (261-393), with the
  parameters in the implementation's order `(response, request_id)`: it holds
  when the call returns and is false when a parse (`ParsesAs`, the `Response`
  structs: only KeysUpload and KeysBackup have required fields), the
  `EventId::parse`, or the engine's result `unwrap()` panics.
  `mark_to_device_as_sent` ignores its response.
- A string argument is a record: a request id, a JSON body answering a kind,
  or an event id. This is the one distinction the parses make.
- Caller (the C++ transport, environment): `Drain` sends the requests of a
  snapshot. When `CallerDedups` holds it skips those already in flight;
  otherwise it re-sends up to `MaxSends` copies. `Deliver` is the server
  answering a copy, and `Fail` a send failing, after which a later drain
  retries it. `Acknowledge` calls the function `CallerTable[code]` names,
  with the arguments in the bridge's declared order when
  `CallerFollowsBridge` holds and in the implementation's order otherwise.
  A panic sets `aborted`, and nothing moves after it.
- `AbstractLedger` is spec.md 3's promise. An id is created once and is then
  pending until exactly one acknowledgment, and every pending id is
  eventually acknowledged. `RequestLedger` implements it under the mapping
  `pending <- PendingIds`, `done <- issued \ PendingIds`. This is checked
  as `LedgerRefinement == Ledger!Spec`, the abstract fairness included.

| run | constants | checks | result |
|---|---|---|---|
| `ledger_pass` | implementation order, deduplicating caller | `TypeOK`, `NoAbort`, `LedgerRefinement` | pass (131,854 states): no acknowledgment panics, and every request is acknowledged exactly once and eventually, across failures and store errors |
| `ledger_bridge_order` | declared order | `NoAbort` | violation: the first acknowledgment hands the engine the response as the id and panics |
| `ledger_redrain` | caller sends every drained request | `NoAbort` | violation: two drains before the answer, two sends, and the second acknowledgment panics |

Fairness: weak fairness on draining, on the server answering each request,
and on the caller acknowledging each answer. These are the transport's loop
and the server. Failures and store errors are not fair: each is a bounded
environment choice. Deadlock is checked, because draining is always
enabled.

Bounds: 3 ids, each of any of the 7 kinds, so the run covers two requests
of the same kind and all seven `mark_*_as_sent` functions. `MaxSends` = 2 is
the least bound at which a duplicate exists. One failure and one store error
each exercise their path. More of either adds only repetitions.

### `SessionPlanner` (written)

One room and its members' devices. A caller plans key claims, sends them and
acknowledges them, shares the room key, and encrypts the messages it sends.

- Engine (spec.md 4.2, `spec_modelled`). `MissingSessions` is every device
  without a session. It includes devices a pending claim already covers,
  because planning is idempotent (spec.md 8). `ReceiveKeysClaimResponse`
  creates a session with each device whose key came back. `ShareTargets` is
  the set of devices with a session that lack the current room key.
  `RotateRoomKey` starts a new group session, which nobody holds yet (a
  member left). `Expired` is a group session that is missing or has
  encrypted `RotationMsgs` messages. `EngineShareRoomKey` replaces such a
  session before sharing. `CanEncrypt` and `EngineEncrypt` are the engine's
  encryption: it refuses an expired session and counts each message.
- Glue (lib.rs). `GetMissingSessions` stands for 458-485: a claim under a
  fresh id, or the `""` sentinel when nothing is missing, which the caller
  does not send. `MarkKeysClaimAsSent` stands for 310-328 and
  `ShareRoomKey` for 433-457. `EncryptRoomEvent` is 487-504: the engine's
  refusal is unwrapped at 500 and aborts the process.
- Server and remote devices (environment). `ServerClaim` hands out one
  published key per claimed device that has one. `RemoteUpload` publishes a
  new key when a device has run out.
- Caller. `Plan` asks for missing sessions and sends the claim. When
  `CallerSerialises` holds, it does so only with no claim of its own
  outstanding: this is the lock that lib.rs 458 leaves as a TODO.
  `AcknowledgeClaim` acknowledges a claim. `AcknowledgeShare` marks a
  delivered room-key request; after a rotation the request carries a stale
  key, so its recipients do not count as holders. A message is queued, made
  ready by a share, and then sent by `Send` through `EncryptRoomEvent`. A
  serialising caller readies one message per share and shares only when no
  message is ready. Otherwise a share may ready every queued message.

| run | constants | checks | result |
|---|---|---|---|
| `planner_pass` | serialising caller | `TypeOK`, `AllDevicesReached` | pass (230,112 states): every device ends with a session and the current key, across key exhaustion, replenishment, rotation and expiry |
| `planner_overlap` | no serialisation | `NoDoubleClaim` | violation: two plans in a row both claim both devices |

Fairness: weak fairness on the caller's send loop, on the server, and on a
device replenishing its keys, which it does when sync reports a low count.
Rotation is not fair.

Bounds: three devices in `planner_pass` (two in `planner_overlap`), two ids
and one rotation. Two ids are the fewest that allow an overlapping claim.
With three devices, claims can cover different devices and still overlap in
some. Both a device with a published key and one
without are initial states. Three messages and a rotation period of two
(abstracting the default of 100): three is the fewest for which one share
covering several messages runs past the period. No run checks the abort: with the
serialising caller it cannot happen by the caller's guard alone, and
`planner_overlap` checks one property.

### `SyncProcessor` (written)

A stream of `N` sync batches, fed to `receive_sync_changes` by the caller's
sync loop. Some batches carry a verification request. Some have no
`to_device` object at all (`NoToDevice`). One carries a remote member's room
key (`KeyBatch`). Some carry a room event encrypted with that key in their
timeline (`Timeline`), possibly before the key arrives. The process may
crash at any point.

- Engine (spec.md 4.3, `spec_modelled`). `EngineReceive` applies a batch's
  to-device events to the store, which is persisted in `applied`, and creates
  the request a batch carries, which is held in memory in `flows`.
  `EngineAccepts` refuses a token already processed in this lifetime:
  spec.md says "within one process lifetime", so `engLast` is memory.
  `EngineDecrypts` holds once the store has the room key.
- Glue (lib.rs). `ToDeviceEvents` is the extraction at 409-413: it yields
  no events when `to_device` is absent. `LookupRequest` is the lookup at 426.
  `DecryptRoomEvent` is 506-519: every engine error becomes the empty
  string. `ReceiveSyncChanges` is the whole call:
  an engine error is unwrapped (420), an unfound request is unwrapped (426),
  and on return the caller gets the requests and moves its in-memory token.
  `Restart` is `init`: a new engine over the same store, with empty memory,
  and the caller resuming from its saved token. Neither panic branch is
  reachable: the engine holds every request it just created, and a new
  engine accepts every token, so no property is spent on them.
- Caller (environment). `Sync` processes the next batch; once caught up, it
  is a long poll that brings nothing new. After the call it decrypts the
  batch's timeline events (`DecryptTimeline`). It retries the ones that came
  back empty. `Save` persists the token and the timeline cache: decrypted
  events, and those still to retry. A restart resumes from both.
  `CrashInSync` kills the process after the engine applied a batch and
  before the call returned. `Crash` kills it between calls. Both are bounded
  by `MaxCrashes`.

| run | constants | checks | result |
|---|---|---|---|
| `sync_pass` | `N` = 3; batch 1 has no `to_device` and an event; a request in batch 2; the key and another event in batch 3; 2 crashes | `TypeOK`, `NoEventLost`, `EventuallyDecrypted` | pass (150 states): nothing below the saved token was skipped; the event that came before its key is decrypted in the end |

Fairness: weak fairness on the sync loop, on saving and on restarting, all of
which are the caller's loop. Crashes are not fair. Bounds: three batches, so
that there is a batch before and after the request, and an event before
its key; two crashes, so that one can fall inside the call and another on
the replay.

### `KeyDirectory` (written)

How the device learns other users' devices, across four glue functions and
the caller that drives them.

- Engine (spec.md 4.1 and 4.3, `spec_modelled`). `EngineTrack` tracks a user
  and marks it dirty. `EngineDeviceListsChanged` marks tracked users dirty.
  `EngineKeysQuery` turns the dirty set into the one KeysQuery in flight.
  `EngineReceiveKeysQuery` stores the device lists of an answer and marks the
  users the server failed for dirty again. `EngineHasDevice` is
  `get_device`/`get_identity`.
- Glue (lib.rs). `UpdateTrackedUsers` is 521-532. `ReceiveDeviceLists` is the
  device-list part of `receive_sync_changes` (400-414). `DrainKeysQuery` is
  `outgoing_requests` (242-259) yielding the KeysQuery. `MarkKeysQueryAsSent`
  (282-308) splits the parsed response into device lists (`DevicesOf`) and
  failures (`FailuresOf`). `RequestDeviceVerification` and
  `RequestUserVerification` (639-661) panic when the lookup finds nothing,
  and `RequestUserVerification` also for the account's own identity
  (`UserIdentities::Own`, 658; the constant `Own`). `VerifyInRoom` is the
  caller's in-room path: `request_user_verification_content` unwraps the
  same lookup (`ContentLookupFails`, 665-666) and returns "" for the own
  identity (`RequestUserVerificationContent`, 667-671); a caller that
  stops on "" never reaches the panic at 658.
- Server and caller (environment). `ServerChange` adds a device to a user.
  `ServerAnswer` answers the KeysQuery, failing for some users (at most
  `MaxFailures` times). `AcknowledgeKeysQuery` calls `mark_keys_query_as_sent`
  and then offers the devices it learnt. `Verify` requests a verification with
  an offered device, or with the user in a room through `VerifyInRoom`.

Constant `CallerAcksBeforeUse`: TRUE when the caller offers devices only after
acknowledging the answer; FALSE when it offers them as soon as the answer
arrives.

| run | constants | checks | result |
|---|---|---|---|
| `keydir_pass` | caller acknowledges first | `TypeOK`, `ChangedUserRequeried`, `DirectoryConverges` | pass (33,834 states): a change synced during a query, or a user the server failed for, is queried again; every tracked user's list converges |
| `keydir_eager` | caller offers on arrival | `NoAbort` | violation: the device is offered before the engine stored it, and `request_device_verification` panics at 643 |

Fairness: weak fairness on the sync loop, the drain, the server's answer and
the acknowledgment, which are the caller's loops and the server's job.
Tracking, device changes and verification are choices, not fair. Bounds: two
users, one of them the own user (`Own = a`), so that a query covers a user
that fails and one that does not, and in-room verification meets both
identity variants; two
changes per user, so that a change can arrive while a query is in flight and
again after it; one failed answer.

## Plan

In order (most important behaviour first):

1. `Verification`: done.
2. `RequestLedger`: done. Drains, failed sends, retries and the seven
   acknowledgments with the FFI argument mapping. Violations: the declared
   argument order, and a caller that re-sends drained requests. Left: a
   restart that loses the engine's in-memory requests.
3. `AbstractLedger` and the refinement: done.
4. `SessionPlanner`: done. No double claim (violation without a lock),
   every device reached, and `encrypt_room_event` within the group
   session's rotation period. Left: a property for spec.md 8's "no redundant
   room-key resend" while a share is in flight, which needs several
   outstanding share requests.
5. `SyncProcessor`: done for to-device events, verification requests,
   crashes and replay, a missing `to_device` object, and
   `decrypt_room_event` with keys arriving after their events. The device-list deltas are in `KeyDirectory`.
6. `KeyDirectory`: done. `is_verified` after SAS Done is in `Verification`.
   Next: `CryptoGlue`, a composition in which a verification flow's
   engine-queued replies travel through `RequestLedger` (drained and
   acknowledged with `mark_to_device_as_sent`) rather than straight onto the
   network.
7. A restart in `Verification` that also loses requests the ledger had
   drained but not acknowledged.

## Not modelled

- The `OutgoingRequest`, `KeysClaimRequest`, `ToDeviceRequest`,
  `CreatedSession`, `OutgoingKeyVerificationRequest`, `KeyVerificationRequest`
  and `Emoji` accessors (lib.rs 58-239, 691-821): pure serialisation of fields
  into JSON strings; no state.
- The ciphertexts of room events: cryptography of the engine. The models
  keep only whether a group session can encrypt and whether the room key is
  held.
- `unused_fallback_keys: None` (416): the fallback-key rotation has no state
  in the models (the engine keeps it).
- The `OutgoingKeyVerificationRequest` accessors that panic on the wrong
  variant (736): the models carry no request variants, only events; which
  accessor the C++ caller reads is a matter of the C++ code.
- `build.rs`: the cxx build script; it has no runtime behaviour.
- `init` failures (store open, bad user id): an abort before any state exists.
