---------------------------- MODULE Verification ----------------------------
(***************************************************************************)
(* One SAS device-verification flow between this device ("local", driven *)
(* by the C++ client through the glue functions of lib.rs) and another    *)
(* device ("remote", a well-behaved matrix-sdk-crypto client).            *)
(*                                                                         *)
(* The crypto engine (OlmMachine) is not part of this repository: its     *)
(* verification state machine is modelled from spec.md section 4.4 and is *)
(* the same for both peers.  The glue functions are modelled from lib.rs: *)
(* every unwrap(), expect() and panic!() of a glue call is an "abort" of  *)
(* the process (a Rust panic cannot unwind through the cxx boundary).     *)
(*                                                                         *)
(* Messages produced by an API call are returned to the caller, who must  *)
(* send them; messages the engine produces while receiving events are     *)
(* queued in the engine and reach the network through outgoing_requests.  *)
(* A flow travels either as to-device events, which the local engine gets *)
(* in sync batches, or as events of a room the two users share, which the *)
(* caller hands to receive_verification_event one by one.                 *)
(***************************************************************************)
EXTENDS Naturals, Sequences, SequencesExt

CONSTANTS
    SingleSendQueue,  \* TRUE: the caller pushes requests returned by glue calls
                      \* into the same FIFO as the drained outgoing requests
    RemoteMayCancel,  \* TRUE: the remote user may cancel at any non-terminal state
    MaxBatch          \* most to-device events one sync batch carries

ASSUME SingleSendQueue \in BOOLEAN /\ RemoteMayCancel \in BOOLEAN
ASSUME MaxBatch \in Nat \ {0}

Local  == "local"
Remote == "remote"
Peers  == {Local, Remote}

ReqStates == {"absent", "Created", "Requested", "Ready", "Transitioned", "Done", "Cancelled"}
SasStates == {"none", "Started", "Accepted", "KeysExchanged", "Confirmed", "Done", "Cancelled"}
Msgs      == {"request", "ready", "start", "accept", "key", "mac", "done", "cancel"}
Terminal  == {"Done", "Cancelled"}

\* The engine's record of the flow: outer phase, inner SAS phase, whether this
\* peer sent the request (ours) and the SAS start (byUs), and whether the other
\* side's MAC has arrived.
Flow == [req : ReqStates, sas : SasStates, ours : BOOLEAN, byUs : BOOLEAN, theirMac : BOOLEAN]
NoFlow == [req |-> "absent", sas |-> "none", ours |-> FALSE, byUs |-> FALSE, theirMac |-> FALSE]

\* The client's last reading of verification_get_state / sas_get_state.
Unpolled == [v |-> 7, s |-> 7]

VARIABLES
    eng,        \* eng[p]: the flow as peer p's engine holds it
    net,        \* net[p]: to-device events on their way to p, in order
    outbox,     \* requests returned by glue calls, not yet sent by the caller
    queued,     \* the local engine's outgoing queue (outgoing_requests)
    seen,       \* the client's last polled state codes
    known,      \* "none", "ours" or "theirs": the client holds a handle on the flow
    emojiShown, \* sas_emoji has returned the emoji to the local user
    confirmed,  \* confirmed[p]: the user of p confirmed the comparison
    aborted,    \* a glue call panicked: the process is gone
    trusted,    \* the local store records the remote device as verified
    room        \* the flow's events travel in a room, not to-device

vars == <<eng, net, outbox, queued, seen, known, emojiShown, confirmed, aborted, trusted, room>>

TypeOK ==
    /\ eng \in [Peers -> Flow]
    /\ net \in [Peers -> Seq(Msgs)]
    /\ outbox \in Seq(Msgs) /\ queued \in Seq(Msgs)
    /\ seen \in [v : 0..7, s : 0..7]
    /\ known \in {"none", "ours", "theirs"}
    /\ emojiShown \in BOOLEAN /\ confirmed \in [Peers -> BOOLEAN] /\ aborted \in BOOLEAN
    /\ trusted \in BOOLEAN /\ room \in BOOLEAN

-----------------------------------------------------------------------------
(* The engine's verification state machine (spec.md 4.4).                  *)

CancelFlow(e) ==
    [e EXCEPT !.req = "Cancelled", !.sas = IF @ = "none" THEN "none" ELSE "Cancelled"]

Result(e, out) == [e |-> e, out |-> out]

\* One received verification event m: the new flow and the events the engine
\* queues in reply.  An event the current phase does not expect cancels the
\* flow (reason "unexpected message"); one for a flow the engine does not know
\* is answered with a cancel (reason "unknown transaction").
Receive(e, m) ==
    CASE e.req \in Terminal -> Result(e, <<>>)
      [] m = "cancel" -> Result(IF e.req = "absent" THEN e ELSE CancelFlow(e), <<>>)
      [] e.req = "absent" ->
            IF m = "request" THEN Result([NoFlow EXCEPT !.req = "Requested"], <<>>)
                             ELSE Result(e, <<"cancel">>)
      [] m = "ready" /\ e.req = "Created" -> Result([e EXCEPT !.req = "Ready"], <<>>)
      [] m = "start" /\ e.req = "Ready" ->
            Result([e EXCEPT !.req = "Transitioned", !.sas = "Started", !.byUs = FALSE], <<>>)
      [] m = "accept" /\ e.sas = "Started" /\ e.byUs ->
            Result([e EXCEPT !.sas = "Accepted"], <<"key">>)
      [] m = "key" /\ e.sas = "Accepted" ->
            Result([e EXCEPT !.sas = "KeysExchanged"], IF e.byUs THEN <<>> ELSE <<"key">>)
      [] m = "mac" /\ e.sas = "KeysExchanged" /\ ~e.theirMac ->
            Result([e EXCEPT !.theirMac = TRUE], <<>>)
      [] m = "mac" /\ e.sas = "Confirmed" ->
            Result([e EXCEPT !.sas = "Done", !.theirMac = TRUE], <<"done">>)
      [] m = "done" /\ e.sas = "Done" -> Result([e EXCEPT !.req = "Done"], <<>>)
      [] OTHER -> Result(CancelFlow(e), <<"cancel">>)

\* Folding a batch of events through Receive, collecting the replies.
ReceiveAll(e, batch) ==
    FoldLeft(LAMBDA acc, m : LET r == Receive(acc.e, m) IN Result(r.e, acc.out \o r.out),
             Result(e, <<>>), batch)

\* The engine marks the other device verified when the SAS is Done.
Trusts(e) == e.sas = "Done"

\* The API calls of the engine: which phase each one needs.
CanAccept(e)  == e.req \in {"Requested", "Ready"}
CanStart(e)   == e.req = "Ready"
CanAcceptSas(e) == e.req = "Transitioned" /\ e.sas = "Started" /\ ~e.byUs
HasEmoji(e)   == e.req = "Transitioned" /\ e.sas = "KeysExchanged"

\* Sas::confirm in KeysExchanged: a MAC, and "done" too if their MAC is in.
Confirmed(e) ==
    IF e.theirMac THEN Result([e EXCEPT !.sas = "Done"], <<"mac", "done">>)
                  ELSE Result([e EXCEPT !.sas = "Confirmed"], <<"mac">>)

-----------------------------------------------------------------------------
(* The glue functions of lib.rs, called by the local client.               *)

\* What the caller does with the requests a glue call returns.
Hand(msgs) ==
    IF SingleSendQueue THEN queued' = queued \o msgs /\ UNCHANGED outbox
                       ELSE outbox' = outbox \o msgs /\ UNCHANGED queued

\* The local engine takes a new flow state; a SAS that reached Done marks the
\* other device verified in the store (spec.md 8), which outlives the process.
SetLocal(e) ==
    /\ eng' = [eng EXCEPT ![Local] = e]
    /\ trusted' = (trusted \/ Trusts(e))

\* A panic inside a glue call: nothing of the call takes effect.
Abort == aborted' = TRUE /\ UNCHANGED <<eng, trusted, outbox, queued>>

\* verification_get_state and sas_get_state: the codes the client reads.
VerificationGetState(e) ==
    CASE e.req = "absent" -> 6 [] e.req = "Created" -> 0 [] e.req = "Requested" -> 1
      [] e.req = "Ready" -> 2 [] e.req = "Transitioned" -> 3 [] e.req = "Done" -> 4
      [] e.req = "Cancelled" -> 5

SasGetState(e) ==
    IF e.req # "Transitioned" THEN 6
    ELSE CASE e.sas = "Started" -> 0 [] e.sas = "Accepted" -> 1
           [] e.sas = "KeysExchanged" -> 2 [] e.sas = "Confirmed" -> 3
           [] e.sas = "Done" -> 4 [] e.sas = "Cancelled" -> 5

\* get_room_event_encryption_info for an event the remote device sent: the
\* engine's EncryptionInfo, of which only the verification state matters here
\* (a read; it changes nothing).
GetRoomEventEncryptionInfo ==
    [verification_state |-> IF trusted THEN "Verified" ELSE "Unverified"]

\* EncryptionInfo::is_verified: the state matched against Verified.
IsVerified == GetRoomEventEncryptionInfo.verification_state = "Verified"

\* request_user_verification for the request event the caller sent to the
\* room with request_user_verification_content: a fresh flow in Created
\* (649-661; the identity lookups are KeyDirectory's).
RequestUserVerification ==
    /\ SetLocal([NoFlow EXCEPT !.req = "Created", !.ours = TRUE])
    /\ UNCHANGED <<outbox, queued, aborted>>

\* request_device_verification: a fresh flow in Created and its request event.
RequestDeviceVerification ==
    /\ SetLocal([NoFlow EXCEPT !.req = "Created", !.ours = TRUE])
    /\ Hand(<<"request">>)
    /\ UNCHANGED aborted

\* Mutant: the request accept() returned is dropped instead of handed back.
AcceptVerificationDropsRequest ==
    IF CanAccept(eng[Local])
    THEN SetLocal([eng[Local] EXCEPT !.req = "Ready"]) /\ Hand(<<>>) /\ UNCHANGED aborted
    ELSE Abort

\* accept_verification: get_verification_request(..).unwrap().accept().unwrap()
AcceptVerification ==
    IF CanAccept(eng[Local])
    THEN SetLocal([eng[Local] EXCEPT !.req = "Ready"]) /\ Hand(<<"ready">>) /\ UNCHANGED aborted
    ELSE Abort

\* Mutant: start_sas keeps the Sas (result.0) and drops its request (result.1).
StartSasDropsRequest ==
    IF CanStart(eng[Local])
    THEN /\ SetLocal([eng[Local] EXCEPT !.req = "Transitioned", !.sas = "Started", !.byUs = TRUE])
         /\ Hand(<<>>) /\ UNCHANGED aborted
    ELSE Abort

\* start_sas: get_verification_request(..).unwrap().start_sas().await.unwrap().unwrap()
StartSas ==
    IF CanStart(eng[Local])
    THEN /\ SetLocal([eng[Local] EXCEPT !.req = "Transitioned", !.sas = "Started", !.byUs = TRUE])
         /\ Hand(<<"start">>) /\ UNCHANGED aborted
    ELSE Abort

\* accept_sas: panics unless Transitioned, then sas.accept().unwrap()
AcceptSas ==
    IF CanAcceptSas(eng[Local])
    THEN SetLocal([eng[Local] EXCEPT !.sas = "Accepted"]) /\ Hand(<<"accept">>) /\ UNCHANGED aborted
    ELSE Abort

\* sas_emoji: panics unless Transitioned, then sas.emoji().expect(..)
SasEmoji ==
    IF HasEmoji(eng[Local]) THEN UNCHANGED <<eng, trusted, outbox, queued, aborted>> ELSE Abort

\* Mutant: the Vec of requests confirm returns is handed on as one request.
ConfirmVerificationAsOne ==
    LET e == eng[Local] IN
    \/ /\ HasEmoji(e)
       /\ SetLocal(Confirmed(e).e) /\ Hand(<<Confirmed(e).out>>) /\ UNCHANGED aborted
    \/ /\ ~HasEmoji(e)
       /\ \/ Abort
          \/ e.req = "Transitioned" /\ UNCHANGED <<eng, trusted, outbox, queued, aborted>>

\* confirm_verification: panics unless Transitioned; sas.confirm().await.unwrap().0
\* outside KeysExchanged the engine either fails (a panic) or returns nothing.
ConfirmVerification ==
    LET e == eng[Local] IN
    \/ /\ HasEmoji(e)
       /\ SetLocal(Confirmed(e).e) /\ Hand(Confirmed(e).out) /\ UNCHANGED aborted
    \/ /\ ~HasEmoji(e)
       /\ \/ Abort
          \/ e.req = "Transitioned" /\ UNCHANGED <<eng, trusted, outbox, queued, aborted>>

\* receive_sync_changes: a batch of to-device events goes through the engine;
\* each verification request event in it is handed to the client through
\* get_verification_request(..).unwrap().  Replies join the outgoing queue.
ReceiveSyncChanges ==
    /\ ~aborted /\ ~room
    /\ \E k \in 1..Len(net[Local]) :
         LET batch == SubSeq(net[Local], 1, k)
             r     == ReceiveAll(eng[Local], batch)
         IN /\ k <= MaxBatch
            /\ SetLocal(r.e)
            /\ net' = [net EXCEPT ![Local] = SubSeq(@, k + 1, Len(@))]
            /\ queued' = queued \o r.out
            /\ known' = IF Contains(batch, "request") THEN "theirs" ELSE known
    /\ UNCHANGED <<outbox, seen, emojiShown, confirmed, aborted, room>>

ReceiveVerificationEventDropsReplies ==
    /\ ~aborted /\ room /\ net[Local] # <<>>
    /\ SetLocal(Receive(eng[Local], Head(net[Local])).e)
    /\ net' = [net EXCEPT ![Local] = Tail(@)]
    /\ known' = IF Head(net[Local]) = "request" THEN "theirs" ELSE known
    /\ UNCHANGED <<queued, outbox, seen, emojiShown, confirmed, aborted, room>>

\* receive_verification_event: one event of the room's timeline goes through
\* the engine (686, which unwraps an error the engine does not return here); replies join the outgoing queue as
\* room messages. The caller saw a request event in the timeline itself.
ReceiveVerificationEvent ==
    /\ ~aborted /\ room /\ net[Local] # <<>>
    /\ LET r == Receive(eng[Local], Head(net[Local])) IN
         /\ SetLocal(r.e)
         /\ net' = [net EXCEPT ![Local] = Tail(@)]
         /\ queued' = queued \o r.out
    /\ known' = IF Head(net[Local]) = "request" THEN "theirs" ELSE known
    /\ UNCHANGED <<outbox, seen, emojiShown, confirmed, aborted, room>>

-----------------------------------------------------------------------------
(* The local client: it polls the state codes and makes the call the codes *)
(* it read call for; the reading may be stale by the time of the call.     *)

Poll ==
    /\ known # "none" /\ ~aborted
    /\ seen' = [v |-> VerificationGetState(eng[Local]), s |-> SasGetState(eng[Local])]
    /\ UNCHANGED <<eng, trusted, net, outbox, queued, known, emojiShown, confirmed, aborted, room>>

\* A call made on the strength of the last reading, which it uses up.
Call(Guard, Glue) ==
    /\ known # "none" /\ ~aborted /\ Guard
    /\ Glue
    /\ seen' = Unpolled
    /\ UNCHANGED <<net, known, room>>

\* The caller starts a flow to-device, or in the room: there it sends the
\* request event and creates the flow with its event id in one step.
ClientRequest ==
    /\ known = "none" /\ ~aborted
    /\ \A p \in Peers : eng[p].req = "absent" /\ net[p] = <<>>
    /\ \/ RequestDeviceVerification /\ room' = FALSE /\ UNCHANGED net
       \/ /\ RequestUserVerification /\ room' = TRUE
          /\ net' = [net EXCEPT ![Remote] = <<"request">>]
    /\ known' = "ours"
    /\ UNCHANGED <<seen, emojiShown, confirmed>>

ClientAccept    == Call(seen.v = 1, AcceptVerification) /\ UNCHANGED <<emojiShown, confirmed>>
ClientStartSas  == Call(seen.v = 2 /\ known = "ours", StartSas) /\ UNCHANGED <<emojiShown, confirmed>>
ClientAcceptSas == Call(seen.s = 0 /\ known = "theirs", AcceptSas) /\ UNCHANGED <<emojiShown, confirmed>>

ClientShowEmoji ==
    /\ Call(seen.s = 2 /\ ~emojiShown, SasEmoji)
    /\ emojiShown' = ~aborted'
    /\ UNCHANGED confirmed

ClientConfirm ==
    /\ Call(seen.s = 2 /\ emojiShown /\ ~confirmed[Local], ConfirmVerification)
    /\ confirmed' = [confirmed EXCEPT ![Local] = eng'[Local] # eng[Local]]
    /\ UNCHANGED emojiShown

\* The caller sends the oldest request a glue call returned to it.
ClientSend ==
    /\ outbox # <<>> /\ ~aborted
    /\ net' = [net EXCEPT ![Remote] = Append(@, Head(outbox))]
    /\ outbox' = Tail(outbox)
    /\ UNCHANGED <<eng, trusted, queued, seen, known, emojiShown, confirmed, aborted, room>>

\* The transport sends the oldest request of the outgoing queue.
TransportSend ==
    /\ queued # <<>> /\ ~aborted
    /\ net' = [net EXCEPT ![Remote] = Append(@, Head(queued))]
    /\ queued' = Tail(queued)
    /\ UNCHANGED <<eng, trusted, outbox, seen, known, emojiShown, confirmed, aborted, room>>

\* init after the abort: the engine's verification flows and its outgoing
\* queue lived in memory, and the caller's unsent requests died with it.
Restart ==
    /\ aborted
    /\ SetLocal(NoFlow)
    /\ outbox' = <<>> /\ queued' = <<>>
    /\ seen' = Unpolled /\ known' = "none" /\ emojiShown' = FALSE /\ aborted' = FALSE
    /\ UNCHANGED <<net, confirmed, room>>

-----------------------------------------------------------------------------
(* The remote device: a correct client of the same engine.                 *)

RemoteStep(e, out) ==
    /\ eng' = [eng EXCEPT ![Remote] = e] /\ UNCHANGED trusted
    /\ net' = [net EXCEPT ![Local] = @ \o out]

RemoteRequest ==
    /\ \A p \in Peers : eng[p].req = "absent" /\ net[p] = <<>>
    /\ known = "none" /\ outbox = <<>> /\ queued = <<>>
    /\ RemoteStep([NoFlow EXCEPT !.req = "Created", !.ours = TRUE], <<"request">>)
    /\ room' \in BOOLEAN
    /\ UNCHANGED <<outbox, queued, seen, known, emojiShown, confirmed, aborted>>

RemoteUser ==
    LET e == eng[Remote] IN
    /\ \/ CanAccept(e) /\ e.req = "Requested"
          /\ RemoteStep([e EXCEPT !.req = "Ready"], <<"ready">>) /\ UNCHANGED confirmed
       \/ CanStart(e) /\ e.ours
          /\ RemoteStep([e EXCEPT !.req = "Transitioned", !.sas = "Started", !.byUs = TRUE], <<"start">>)
          /\ UNCHANGED confirmed
       \/ CanAcceptSas(e)
          /\ RemoteStep([e EXCEPT !.sas = "Accepted"], <<"accept">>) /\ UNCHANGED confirmed
       \/ HasEmoji(e)
          /\ RemoteStep(Confirmed(e).e, Confirmed(e).out)
          /\ confirmed' = [confirmed EXCEPT ![Remote] = TRUE]
    /\ UNCHANGED <<outbox, queued, seen, known, emojiShown, aborted, room>>

RemoteCancel ==
    /\ RemoteMayCancel
    /\ eng[Remote].req \notin Terminal \cup {"absent"}
    /\ RemoteStep(CancelFlow(eng[Remote]), <<"cancel">>)
    /\ UNCHANGED <<outbox, queued, seen, known, emojiShown, confirmed, aborted, room>>

RemoteReceive ==
    /\ net[Remote] # <<>>
    /\ LET r == Receive(eng[Remote], Head(net[Remote])) IN
         /\ eng' = [eng EXCEPT ![Remote] = r.e] /\ UNCHANGED trusted
         /\ net' = [net EXCEPT ![Remote] = Tail(@), ![Local] = @ \o r.out]
    /\ UNCHANGED <<outbox, queued, seen, known, emojiShown, confirmed, aborted, room>>

-----------------------------------------------------------------------------

Init ==
    /\ eng = [p \in Peers |-> NoFlow]
    /\ net = [p \in Peers |-> <<>>]
    /\ outbox = <<>> /\ queued = <<>>
    /\ seen = Unpolled /\ known = "none"
    /\ emojiShown = FALSE /\ confirmed = [p \in Peers |-> FALSE] /\ aborted = FALSE
    /\ trusted = FALSE /\ room = FALSE

Client ==
    \/ Poll \/ ClientRequest \/ ClientAccept \/ ClientStartSas \/ ClientAcceptSas
    \/ ClientShowEmoji \/ ClientConfirm \/ ClientSend

Next ==
    \/ Client \/ ReceiveSyncChanges \/ ReceiveVerificationEvent \/ TransportSend \/ Restart
    \/ RemoteRequest \/ RemoteUser \/ RemoteCancel \/ RemoteReceive

\* The sync loop, the transport, the caller's sends, polling and an app
\* restart after a crash keep happening; both users answer the prompts in
\* front of them.  Starting a flow and cancelling one are free choices.
Fairness ==
    /\ WF_vars(ReceiveSyncChanges) /\ WF_vars(ReceiveVerificationEvent) /\ WF_vars(TransportSend) /\ WF_vars(ClientSend)
    /\ WF_vars(Restart) /\ WF_vars(Poll)
    /\ WF_vars(ClientAccept) /\ WF_vars(ClientStartSas) /\ WF_vars(ClientAcceptSas)
    /\ WF_vars(ClientShowEmoji) /\ WF_vars(ClientConfirm)
    /\ WF_vars(RemoteUser) /\ WF_vars(RemoteReceive)

Spec == Init /\ [][Next]_vars /\ Fairness

-----------------------------------------------------------------------------
(* Properties                                                              *)

\* No glue call the client makes on the strength of the state it just polled
\* brings the process down (lib.rs unwraps and panics on unexpected states).
NoAbort == ~aborted

\* Once a flow exists and nobody cancels it, both devices end up Done: the
\* events each side sends arrive in an order the other side accepts.
FlowBegun == \E p \in Peers : eng[p].req # "absent"
BothEndDone == FlowBegun ~> (\A p \in Peers : eng[p].req = "Done")

\* Whatever happens (a cancel, a crash of this process), the flow eventually
\* settles on both devices: finished, or forgotten by a restarted engine.
FlowSettles == <>[](\A p \in Peers : eng[p].req \in Terminal \cup {"absent"})
=============================================================================
