--------------------------- MODULE RequestLedger ---------------------------
(***************************************************************************)
(* The Request Ledger (spec.md 4.1) across the glue: the engine's pending  *)
(* outgoing requests, the C++ transport draining them with                 *)
(* `outgoing_requests` (lib.rs 242-259), sending them, and acknowledging   *)
(* each answer through the `mark_*_as_sent` function its `request_type`    *)
(* code selects (lib.rs 101-111, 261-393). Every `unwrap()` of those       *)
(* functions is a panic, and a panic in a cxx `extern "Rust"` function     *)
(* aborts the process: `aborted`.                                          *)
(***************************************************************************)
EXTENDS Integers, FiniteSets

CONSTANTS
    Ids,                  \* request ids the engine may assign (model values)
    CallerFollowsBridge,  \* TRUE: the caller passes (request_id, response), the
                          \* order the ffi block declares (lib.rs 852-858)
    CallerDedups,         \* TRUE: the caller skips drained requests it already
                          \* has in flight
    MaxSends,             \* bound on copies of one request in flight
    MaxFailures,          \* bound on failed sends (each is retried)
    MaxStoreErrors        \* bound on `outgoing_requests` store errors

ASSUME MaxSends \in Nat \ {0} /\ MaxFailures \in Nat /\ MaxStoreErrors \in Nat

Kinds == {"KeysUpload", "KeysQuery", "KeysClaim", "ToDevice",
          "SignatureUpload", "RoomMessage", "KeysBackup"}
None == "none"
NoCode == -1

VARIABLES
    pending,      \* engine: kind of the pending request with each id, or None
    issued,       \* engine: ids ever assigned (an id is never reused)
    sending,      \* caller: copies of each request on the network
    answered,     \* caller: answers received and not yet acknowledged
    codeOf,       \* caller: the request_type code read when the id was drained
    failures, storeErrors,
    aborted       \* the process aborted on a panic

vars == <<pending, issued, sending, answered, codeOf, failures, storeErrors, aborted>>

TypeOK ==
    /\ pending \in [Ids -> Kinds \cup {None}]
    /\ issued \subseteq Ids
    /\ sending \in [Ids -> 0..MaxSends] /\ answered \in [Ids -> 0..MaxSends]
    /\ codeOf \in [Ids -> 0..6 \cup {NoCode}]
    /\ failures \in 0..MaxFailures /\ storeErrors \in 0..MaxStoreErrors
    /\ aborted \in BOOLEAN

-----------------------------------------------------------------------------
(* Engine (spec.md 3 and 4.1; spec_modelled).                              *)

\* The engine creates a request with a fresh id.
EngineEnqueue(i, k) ==
    /\ ~aborted
    /\ i \notin issued
    /\ pending' = [pending EXCEPT ![i] = k]
    /\ issued' = issued \cup {i}
    /\ UNCHANGED <<sending, answered, codeOf, failures, storeErrors, aborted>>

\* mark_request_as_sent succeeds only for a pending id whose kind matches the
\* response (UnknownRequestError, MalformedResponseError otherwise).
MarkRequestAsSent(requestId, k) == requestId.t = "id" /\ pending[requestId.v] = k

-----------------------------------------------------------------------------
(* Glue (lib.rs).                                                          *)

\* A string argument: a request id, a JSON body answering a request of kind
\* v, or an event id.
IdArg(i) == [t |-> "id", v |-> i]
ServerResponse(k) ==
    IF k = "RoomMessage" THEN [t |-> "event", v |-> k] ELSE [t |-> "body", v |-> k]

\* Deserialising a response: the required fields of KeysUpload
\* (one_time_key_counts) and KeysBackup (etag, count) exist only in an answer
\* of that kind; the other structs have only Option fields and parse any
\* JSON object; an id or an event id is not JSON.
ParsesAs(response, k) ==
    /\ response.t = "body"
    /\ k \in {"KeysUpload", "KeysBackup"} => response.v = k

\* Each mark_*_as_sent with the parameters in the implementation's order; TRUE
\* when it returns, FALSE when one of its unwraps panics.
MarkKeysUploadAsSent(response, requestId) ==
    ParsesAs(response, "KeysUpload") /\ MarkRequestAsSent(requestId, "KeysUpload")
MarkKeysQueryAsSent(response, requestId) ==
    ParsesAs(response, "KeysQuery") /\ MarkRequestAsSent(requestId, "KeysQuery")
MarkKeysClaimAsSent(response, requestId) ==
    ParsesAs(response, "KeysClaim") /\ MarkRequestAsSent(requestId, "KeysClaim")
MarkToDeviceAsSent(response, requestId) ==
    MarkRequestAsSent(requestId, "ToDevice")
MarkSignatureUploadAsSent(response, requestId) ==
    ParsesAs(response, "SignatureUpload") /\ MarkRequestAsSent(requestId, "SignatureUpload")
MarkRoomMessageAsSent(eventId, requestId) ==
    eventId.t = "event" /\ MarkRequestAsSent(requestId, "RoomMessage")
MarkKeysBackupAsSent(response, requestId) ==
    ParsesAs(response, "KeysBackup") /\ MarkRequestAsSent(requestId, "KeysBackup")

MarkAsSent(fn, a1, a2) ==
    CASE fn = "KeysUpload"      -> MarkKeysUploadAsSent(a1, a2)
      [] fn = "KeysQuery"       -> MarkKeysQueryAsSent(a1, a2)
      [] fn = "KeysClaim"       -> MarkKeysClaimAsSent(a1, a2)
      [] fn = "ToDevice"        -> MarkToDeviceAsSent(a1, a2)
      [] fn = "SignatureUpload" -> MarkSignatureUploadAsSent(a1, a2)
      [] fn = "RoomMessage"     -> MarkRoomMessageAsSent(a1, a2)
      [] fn = "KeysBackup"      -> MarkKeysBackupAsSent(a1, a2)

RequestTypeOffByOne(k) ==
    CASE k = "KeysUpload" -> 1 [] k = "KeysQuery" -> 2 [] k = "KeysClaim" -> 3
      [] k = "ToDevice" -> 4 [] k = "SignatureUpload" -> 5 [] k = "RoomMessage" -> 6
      [] k = "KeysBackup" -> 7
RequestTypeSwapped(k) ==
    CASE k = "KeysUpload" -> 0 [] k = "KeysQuery" -> 1 [] k = "KeysClaim" -> 2
      [] k = "ToDevice" -> 4 [] k = "SignatureUpload" -> 3 [] k = "RoomMessage" -> 5
      [] k = "KeysBackup" -> 6

\* OutgoingRequest::request_type: the code the caller dispatches on.
RequestType(k) ==
    CASE k = "KeysUpload" -> 0 [] k = "KeysQuery" -> 1 [] k = "KeysClaim" -> 2
      [] k = "ToDevice" -> 3 [] k = "SignatureUpload" -> 4 [] k = "RoomMessage" -> 5
      [] k = "KeysBackup" -> 6

OutgoingRequestsSkipsBackup ==
    {i \in Ids : pending[i] \notin {None, "KeysBackup"}}

\* outgoing_requests on success: a snapshot of the pending requests; nothing
\* is marked as in flight.
OutgoingRequests == {i \in Ids : pending[i] # None}

-----------------------------------------------------------------------------
(* Caller: the C++ transport (environment).                                *)

\* The caller's switch on request_type: which mark_*_as_sent answers a code.
CallerTable ==
    [c \in 0..6 |-> << "KeysUpload", "KeysQuery", "KeysClaim", "ToDevice",
                       "SignatureUpload", "RoomMessage", "KeysBackup" >>[c + 1]]

\* The requests of a drain the caller puts on the network.
ToSend(snapshot) ==
    {i \in snapshot : IF CallerDedups THEN sending[i] + answered[i] = 0
                                      ELSE sending[i] + answered[i] < MaxSends}

\* A drain: outgoing_requests either fails in the store and returns an empty
\* list (lib.rs 251-256), or returns the snapshot, whose requests the caller
\* sends after reading each one's request_type.
Drain ==
    /\ ~aborted
    /\ \/ /\ storeErrors < MaxStoreErrors
          /\ storeErrors' = storeErrors + 1
          /\ UNCHANGED <<sending, codeOf>>
       \/ LET new == ToSend(OutgoingRequests) IN
          /\ sending' = [i \in Ids |-> IF i \in new THEN sending[i] + 1 ELSE sending[i]]
          /\ codeOf' = [i \in Ids |-> IF i \in new THEN RequestType(pending[i]) ELSE codeOf[i]]
          /\ UNCHANGED storeErrors
    /\ UNCHANGED <<pending, issued, answered, failures, aborted>>

\* The server answers one copy of a request.
Deliver(i) ==
    /\ ~aborted
    /\ sending[i] > 0
    /\ sending' = [sending EXCEPT ![i] = @ - 1]
    /\ answered' = [answered EXCEPT ![i] = @ + 1]
    /\ UNCHANGED <<pending, issued, codeOf, failures, storeErrors, aborted>>

\* A send fails; the request stays pending and goes out on a later drain.
Fail(i) ==
    /\ ~aborted
    /\ sending[i] > 0 /\ failures < MaxFailures
    /\ sending' = [sending EXCEPT ![i] = @ - 1]
    /\ failures' = failures + 1
    /\ UNCHANGED <<pending, issued, answered, codeOf, storeErrors, aborted>>

\* The caller reports an answer through the mark_*_as_sent its code selects,
\* in the argument order it follows; the call returns or panics.
Acknowledge(i) ==
    /\ ~aborted
    /\ answered[i] > 0
    /\ LET fn   == CallerTable[codeOf[i]]
           args == IF CallerFollowsBridge THEN <<IdArg(i), ServerResponse(fn)>>
                                          ELSE <<ServerResponse(fn), IdArg(i)>>
       IN IF MarkAsSent(fn, args[1], args[2])
          THEN /\ pending' = [pending EXCEPT ![args[2].v] = None]
               /\ UNCHANGED aborted
          ELSE /\ aborted' = TRUE
               /\ UNCHANGED pending
    /\ answered' = [answered EXCEPT ![i] = @ - 1]
    /\ UNCHANGED <<issued, sending, codeOf, failures, storeErrors>>

-----------------------------------------------------------------------------
Init ==
    /\ pending = [i \in Ids |-> None]
    /\ issued = {}
    /\ sending = [i \in Ids |-> 0] /\ answered = [i \in Ids |-> 0]
    /\ codeOf = [i \in Ids |-> NoCode]
    /\ failures = 0 /\ storeErrors = 0
    /\ aborted = FALSE

Next ==
    \/ \E i \in Ids, k \in Kinds : EngineEnqueue(i, k)
    \/ Drain
    \/ \E i \in Ids : Deliver(i) \/ Fail(i) \/ Acknowledge(i)

\* The transport keeps draining, the server answers every request, and the
\* caller acknowledges every answer. Failures and store errors are not fair.
Fairness ==
    /\ WF_vars(Drain)
    /\ \A i \in Ids : WF_vars(Deliver(i)) /\ WF_vars(Acknowledge(i))

Spec == Init /\ [][Next]_vars /\ Fairness

-----------------------------------------------------------------------------
(* Properties.                                                             *)

\* No acknowledgment panics: every mark_*_as_sent call the transport makes,
\* for every request outgoing_requests hands it, returns (lib.rs 261-393).
NoAbort == ~aborted

\* Refinement: the ledger behaves as spec.md 3 says. Each request is pending
\* from creation until exactly one acknowledgment, and every pending request
\* is eventually acknowledged, through drains, failed sends and retries.
PendingIds == {i \in Ids : pending[i] # None}
Ledger == INSTANCE AbstractLedger WITH pending <- PendingIds, done <- issued \ PendingIds
LedgerRefinement == Ledger!Spec
=============================================================================
