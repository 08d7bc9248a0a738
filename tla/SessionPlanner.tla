-------------------------- MODULE SessionPlanner --------------------------
(***************************************************************************)
(* The Session Establishment Planner (spec.md 4.2) across the glue: the    *)
(* caller plans a one-time-key claim with `get_missing_sessions` (lib.rs   *)
(* 458-485), sends it and acknowledges the answer with                     *)
(* `mark_keys_claim_as_sent` (310-328), and distributes the room key with  *)
(* `share_room_key` (433-457), and encrypts the room messages it sends     *)
(* with `encrypt_room_event` (487-504). One room, the devices of its       *)
(* members.                                                                *)
(***************************************************************************)
EXTENDS Naturals, FiniteSets

CONSTANTS
    Devices,          \* the members' devices (model values)
    Ids,              \* request ids (model values): bounds claims in flight
    CallerSerialises, \* TRUE: the caller plans only when no claim of its own
                      \* is outstanding (the lock lib.rs 458 leaves to it),
                      \* and shares the room key once for each message
    MaxRotations,     \* bound on room-key rotations from membership changes
    Msgs,             \* room messages the caller sends (model values)
    RotationMsgs,     \* messages a group session encrypts before it expires
                      \* (EncryptionSettings::default(), 445)
    None              \* a model value: no claim pending under an id

Idle == [st |-> "idle", keys |-> {}]
Sent == [st |-> "sent", keys |-> {}]

VARIABLES
    session,       \* engine: devices with an Olm session
    otk,           \* server: one-time keys published by each device
    pendingClaim,  \* engine: devices each pending claim covers, or None
    net,           \* caller: each id's claim: idle, sent, or answered with keys
    holders,       \* engine: devices holding the current room key
    sharing,       \* caller: devices of the room-key request on the network
    shareEpoch,    \* the group session whose key that request carries
    rotations,
    epoch,         \* engine: the current group session (0: none yet)
    count,         \* engine: messages it has encrypted
    msg,           \* caller: each message queued, ready (key shared) or sent
    aborted

MaxEpoch == 1 + MaxRotations + Cardinality(Msgs)

vars == <<session, otk, pendingClaim, net, holders, sharing, shareEpoch, rotations,
          epoch, count, msg, aborted>>
roomVars == <<epoch, count, msg, aborted>>

TypeOK ==
    /\ session \subseteq Devices
    /\ otk \in [Devices -> 0..1]
    /\ pendingClaim \in [Ids -> (SUBSET Devices \ {{}}) \cup {None}]
    /\ net \in [Ids -> [st : {"idle", "sent", "answered"}, keys : SUBSET Devices]]
    /\ holders \subseteq Devices /\ sharing \subseteq Devices
    /\ shareEpoch \in 0..MaxEpoch /\ rotations \in 0..MaxRotations
    /\ epoch \in 0..MaxEpoch /\ count \in 0..RotationMsgs
    /\ msg \in [Msgs -> {"queued", "ready", "sent"}] /\ aborted \in BOOLEAN

-----------------------------------------------------------------------------
(* Engine (spec.md 4.2; spec_modelled).                                    *)

\* get_missing_sessions: every device without a usable session, whether or
\* not a claim for it is already pending (planning is idempotent, spec.md 8).
MissingSessions == Devices \ session

\* The claim response: a session is created with each device whose key the
\* server returned.
ReceiveKeysClaimResponse(keys) == session' = session \cup keys

\* share_room_key: the devices with a session that do not hold the current
\* room key.
ShareTargets == session \ holders

\* The group session is missing or has encrypted its share of messages.
Expired == epoch = 0 \/ count >= RotationMsgs

\* share_room_key first ensures a usable group session: a missing or expired
\* one is replaced by a new session, whose key nobody holds.
EngineShareRoomKey ==
    /\ epoch' = IF Expired THEN epoch + 1 ELSE epoch
    /\ count' = IF Expired THEN 0 ELSE count
    /\ holders' = IF Expired THEN {} ELSE holders

\* encrypt_room_event: a group session must exist and not be expired; it
\* counts the message.
CanEncrypt == ~Expired
EngineEncrypt == count' = count + 1

\* The group session is rotated (a member left): nobody holds the new key.
RotateRoomKey ==
    /\ rotations < MaxRotations /\ epoch # 0
    /\ rotations' = rotations + 1
    /\ epoch' = epoch + 1 /\ count' = 0
    /\ holders' = {}
    /\ UNCHANGED <<session, otk, pendingClaim, net, sharing, shareEpoch, msg, aborted>>

-----------------------------------------------------------------------------
(* Glue (lib.rs) and the caller that drives it.                            *)

GetMissingSessionsNoSentinel(i) ==
    /\ pendingClaim' = [pendingClaim EXCEPT ![i] = MissingSessions]
    /\ net' = [net EXCEPT ![i] = Sent]

\* get_missing_sessions called with every member: the engine's claim under a
\* fresh id, or the id "" when nothing is missing (478-482), which the caller
\* does not send.
GetMissingSessions(i) ==
    IF MissingSessions = {}
    THEN UNCHANGED <<pendingClaim, net>>
    ELSE /\ pendingClaim' = [pendingClaim EXCEPT ![i] = MissingSessions]
         /\ net' = [net EXCEPT ![i] = Sent]

Plan ==
    /\ ~aborted
    /\ CallerSerialises => \A j \in Ids : net[j] = Idle
    /\ \E i \in Ids :
        /\ pendingClaim[i] = None /\ net[i] = Idle
        /\ GetMissingSessions(i)
    /\ UNCHANGED <<session, otk, holders, sharing, shareEpoch, rotations>>
    /\ UNCHANGED roomVars

\* The server hands out one published key of each claimed device that has one.
ServerClaim(i) ==
    /\ net[i] = Sent
    /\ LET keys == {d \in pendingClaim[i] : otk[d] > 0} IN
       /\ net' = [net EXCEPT ![i] = [st |-> "answered", keys |-> keys]]
       /\ otk' = [d \in Devices |-> IF d \in keys THEN otk[d] - 1 ELSE otk[d]]
    /\ UNCHANGED <<session, pendingClaim, holders, sharing, shareEpoch, rotations>>
    /\ UNCHANGED roomVars

\* A device whose keys ran out publishes a new one.
RemoteUpload(d) ==
    /\ otk[d] = 0
    /\ otk' = [otk EXCEPT ![d] = 1]
    /\ UNCHANGED <<session, pendingClaim, net, holders, sharing, shareEpoch, rotations>>
    /\ UNCHANGED roomVars

MarkKeysClaimAsSentDropsKeys(i) ==
    /\ ReceiveKeysClaimResponse({})
    /\ pendingClaim' = [pendingClaim EXCEPT ![i] = None]

\* mark_keys_claim_as_sent with the answer: the engine takes the returned
\* keys and the claim is no longer pending.
MarkKeysClaimAsSent(i) ==
    /\ ReceiveKeysClaimResponse(net[i].keys)
    /\ pendingClaim' = [pendingClaim EXCEPT ![i] = None]

AcknowledgeClaim(i) ==
    /\ ~aborted /\ net[i].st = "answered"
    /\ MarkKeysClaimAsSent(i)
    /\ net' = [net EXCEPT ![i] = Idle]
    /\ UNCHANGED <<otk, holders, sharing, shareEpoch, rotations>>
    /\ UNCHANGED roomVars

\* share_room_key with every member, when no room-key request of the caller
\* is on the network: the engine ensures a usable session and returns the
\* requests for the devices without its key (441-448, the engine error
\* unwrapped), which the caller sends. The messages it shared for are ready
\* to encrypt: one at a time, or every queued one at once.
ShareRoomKey ==
    /\ ~aborted /\ sharing = {}
    /\ CallerSerialises => \A m \in Msgs : msg[m] # "ready"
    /\ EngineShareRoomKey
    /\ sharing' = session \ holders'
    /\ shareEpoch' = epoch'
    /\ \E R \in SUBSET {m \in Msgs : msg[m] = "queued"} :
        /\ CallerSerialises => Cardinality(R) <= 1
        /\ msg' = [m \in Msgs |-> IF m \in R THEN "ready" ELSE msg[m]]
    /\ UNCHANGED <<session, otk, pendingClaim, net, rotations, aborted>>

\* The room-key request is delivered and acknowledged (mark_to_device_as_sent);
\* its recipients hold the current key unless it was rotated meanwhile.
AcknowledgeShare ==
    /\ ~aborted /\ sharing # {}
    /\ holders' = IF shareEpoch = epoch THEN holders \cup sharing ELSE holders
    /\ sharing' = {}
    /\ UNCHANGED <<session, otk, pendingClaim, net, shareEpoch, rotations>>
    /\ UNCHANGED roomVars

\* encrypt_room_event for a message the caller shared the key for: the
\* engine's error is unwrapped (500), so a missing or expired group session
\* aborts the process.
EncryptRoomEvent(m) ==
    /\ IF CanEncrypt
       THEN EngineEncrypt /\ msg' = [msg EXCEPT ![m] = "sent"] /\ UNCHANGED aborted
       ELSE aborted' = TRUE /\ UNCHANGED <<count, msg>>
    /\ UNCHANGED epoch

Send(m) ==
    /\ ~aborted /\ msg[m] = "ready"
    /\ EncryptRoomEvent(m)
    /\ UNCHANGED <<session, otk, pendingClaim, net, holders, sharing, shareEpoch, rotations>>

-----------------------------------------------------------------------------
\* Any number of keys may already be published; nothing else has happened.
Init ==
    /\ session = {}
    /\ otk \in [Devices -> 0..1]
    /\ pendingClaim = [i \in Ids |-> None]
    /\ net = [i \in Ids |-> Idle]
    /\ holders = {} /\ sharing = {} /\ shareEpoch = 0
    /\ rotations = 0
    /\ epoch = 0 /\ count = 0 /\ msg = [m \in Msgs |-> "queued"] /\ aborted = FALSE

Next ==
    \/ Plan
    \/ ShareRoomKey
    \/ AcknowledgeShare
    \/ RotateRoomKey
    \/ \E i \in Ids : ServerClaim(i) \/ AcknowledgeClaim(i)
    \/ \E d \in Devices : RemoteUpload(d)
    \/ \E m \in Msgs : Send(m)

\* The caller's send loop plans, shares and acknowledges; the server answers;
\* a device that runs out of one-time keys publishes more (it learns its
\* count from sync). Rotation is not fair.
Fairness ==
    /\ WF_vars(Plan) /\ WF_vars(ShareRoomKey) /\ WF_vars(AcknowledgeShare)
    /\ \A i \in Ids : WF_vars(ServerClaim(i)) /\ WF_vars(AcknowledgeClaim(i))
    /\ \A d \in Devices : WF_vars(RemoteUpload(d))
    /\ \A m \in Msgs : WF_vars(Send(m))

Spec == Init /\ [][Next]_vars /\ Fairness

-----------------------------------------------------------------------------
(* Properties.                                                             *)

\* No device's one-time key is claimed twice: two claims the engine has
\* pending never cover the same device (spec.md 4.2; the `//TODO lock` on
\* get_missing_sessions, lib.rs 458).
NoDoubleClaim ==
    \A i, j \in Ids :
        (i # j /\ pendingClaim[i] # None /\ pendingClaim[j] # None)
            => pendingClaim[i] \cap pendingClaim[j] = {}

\* Every member's device eventually has a session and holds the current room
\* key for good: planning, claiming, the claim acknowledgment and sharing
\* together reach every device, across key exhaustion and rotation.
AllDevicesReached == <>[](session = Devices /\ holders = Devices)
====
