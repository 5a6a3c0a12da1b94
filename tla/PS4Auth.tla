------------------------------ MODULE PS4Auth ------------------------------
(***************************************************************************)
(* The PS4 authentication exchange of output/usb/ps4/auth.cpp and the 0xF0, *)
(* 0xF1 and 0xF2 feature reports of output/usb/ps4/hid.cpp.                 *)
(*                                                                         *)
(* Two threads share auth_state (one atomic word), nonce and               *)
(* nonce_signature without a lock: the USB control pipe, which runs one     *)
(* report handler at a time, and the main work queue, which runs            *)
(* sign_nonce.  Every load, memcpy and compare-and-swap of either thread is *)
(* a step of its own, so the model has every interleaving of the two.       *)
(*                                                                         *)
(* A refused request (wrong state, wrong part, wrong id, bad size or CRC)   *)
(* returns before any assignment: it is a stuttering step.                  *)
(***************************************************************************)
EXTENDS Naturals, Sequences

CONSTANTS
    NonceParts,       \* packets a nonce is sent in (5 in the code)
    SignatureChunks,  \* packets a signature is read in (19 in the code)
    ByteValues,       \* values of a uint8_t (256 in the code)
    NonceIds,         \* nonce ids the host uses
    Payloads,         \* contents of a nonce packet
    ZeroPayload,      \* what a part of the buffer holds at boot
    NoSignature,      \* contents of nonce_signature that sign nothing
    KeyStates         \* provisioning states the device may boot in

Parts == 0 .. NonceParts - 1

ASSUME PartsAssumption == NonceParts \in Nat /\ NonceParts > 1
ASSUME ChunksAssumption == /\ SignatureChunks \in Nat /\ ByteValues \in Nat
                           /\ 1 < SignatureChunks /\ SignatureChunks < ByteValues
ASSUME IdsAssumption == 0 \in NonceIds
ASSUME PayloadAssumption == /\ ZeroPayload \in Payloads
                            /\ NoSignature \notin [Parts -> Payloads]
ASSUME KeyAssumption == KeyStates \subseteq {"no_partition", "no_key", "key"}

VARIABLES
    auth_state,       \* atomic_u32<AuthState>
    nonce,            \* the 256-byte nonce buffer, one payload per packet
    nonce_signature,  \* the nonce it is the signature of, or NoSignature
    key,              \* what provisioning_data_get() offers
    work,             \* k_work_sign is pending on k_main_work_q
    usb_pc, usb,      \* the control-pipe handler: where it is, its locals
    sign_pc, sign,    \* sign_nonce: where it is, its locals
    sent,             \* F1 replies composed for the current signature
    status            \* the last F2 reply, until the host acts on it

handlerVars == <<usb_pc, usb>>
signVars == <<sign_pc, sign>>
vars == <<auth_state, nonce, nonce_signature, key, work,
          usb_pc, usb, sign_pc, sign, sent, status>>

AuthStateType == {"ReceivingNonce", "WaitingToSign", "Signing", "SendingSignature"}
AuthState == [type: AuthStateType, nonce_id: NonceIds, next_part: 0 .. ByteValues - 1]
Nonces == [Parts -> Payloads]
Signatures == Nonces \cup {NoSignature}

\* A composed F1 reply: the header fields, where the payload was copied from
\* and the signature it was copied out of.
Chunk == [nonce_id: NonceIds, part: 0 .. ByteValues - 1,
          offset: 0 .. ByteValues - 1, signature: Signatures]

\* The locals of a handler: the state it loaded, the packet of an F0 request,
\* and the header and payload of an F1 reply.
Handler == [current: AuthState, nonce_id: NonceIds, part: Parts, data: Payloads,
            header: AuthState, signature: Signatures]

BootState == [type |-> "ReceivingNonce", nonce_id |-> 0, next_part |-> 0]
NoStatus == [known |-> FALSE, ready |-> FALSE, nonce_id |-> 0]

Init ==
    /\ auth_state = BootState
    /\ nonce = [p \in Parts |-> ZeroPayload]
    /\ nonce_signature = NoSignature
    /\ key \in KeyStates
    /\ work = FALSE
    /\ usb_pc = "idle"
    /\ usb = [current |-> BootState, nonce_id |-> 0, part |-> 0, data |-> ZeroPayload,
              header |-> BootState, signature |-> NoSignature]
    /\ sign_pc = "idle"
    /\ sign = [current |-> BootState, hashed |-> [p \in Parts |-> ZeroPayload]]
    /\ sent = << >>
    /\ status = NoStatus

-----------------------------------------------------------------------------
(* SetReport(0xF0): set_nonce                                              *)

\* Mutant: set_nonce forgets to look at the state.
AcceptsInAnyState(nonce_id, part) ==
    /\ key = "key"
    /\ part < NonceParts
    /\ part # 0 => nonce_id = auth_state.nonce_id

\* Mutant: a new nonce is let in while a signature is being read.
AcceptsWhileSending(nonce_id, part) ==
    /\ key = "key"
    /\ auth_state.type \in {"ReceivingNonce", "SendingSignature"}
    /\ part < NonceParts
    /\ part # 0 => nonce_id = auth_state.nonce_id

\* Every early return of set_nonce: an accepted packet passes all of them.
Accepts(nonce_id, part) ==
    /\ key = "key"
    /\ auth_state.type = "ReceivingNonce"
    /\ part < NonceParts
    /\ part # 0 => nonce_id = auth_state.nonce_id

\* The handler has passed its checks on the state it loaded.
SetNonce(nonce_id, part, data) ==
    /\ usb_pc = "idle"
    /\ Accepts(nonce_id, part)
    /\ usb' = [usb EXCEPT !.current = auth_state, !.nonce_id = nonce_id,
                          !.part = part, !.data = data]
    /\ usb_pc' = "nonce_copy"
    /\ UNCHANGED <<auth_state, nonce, nonce_signature, key, work, signVars, sent, status>>

\* memcpy of the packet into its place in the buffer.
SetNonceCopy ==
    /\ usb_pc = "nonce_copy"
    /\ nonce' = [nonce EXCEPT ![usb.part] = usb.data]
    /\ usb_pc' = "nonce_cas"
    /\ UNCHANGED <<auth_state, nonce_signature, key, work, usb, signVars, sent, status>>

\* The state set_nonce moves to: the last part completes the nonce, part 0
\* names it, the parts between are counted (in a uint8_t, never compared).
AfterPart(state, nonce_id, part) ==
    IF part = NonceParts - 1 THEN [state EXCEPT !.type = "WaitingToSign"]
    ELSE IF part = 0 THEN [state EXCEPT !.nonce_id = nonce_id]
    ELSE [state EXCEPT !.next_part = (@ + 1) % ByteValues]

\* Mutant: the work item is never submitted.
SetNonceCasNoSubmit ==
    /\ usb_pc = "nonce_cas"
    /\ auth_state = usb.current
    /\ auth_state' = AfterPart(usb.current, usb.nonce_id, usb.part)
    /\ usb_pc' = "idle"
    /\ UNCHANGED <<nonce, nonce_signature, key, work, usb, signVars, sent, status>>

\* The compare-and-swap; a failed one returns false.
SetNonceCas ==
    /\ usb_pc = "nonce_cas"
    /\ \/ /\ auth_state = usb.current
          /\ auth_state' = AfterPart(usb.current, usb.nonce_id, usb.part)
          /\ usb_pc' = IF usb.part = NonceParts - 1 THEN "nonce_submit" ELSE "idle"
       \/ /\ auth_state # usb.current
          /\ usb_pc' = "idle"
          /\ UNCHANGED auth_state
    /\ UNCHANGED <<nonce, nonce_signature, key, work, usb, signVars, sent, status>>

\* k_work_submit_to_queue(&k_main_work_q, &k_work_sign)
SetNonceSubmit ==
    /\ usb_pc = "nonce_submit"
    /\ work' = TRUE
    /\ usb_pc' = "idle"
    /\ UNCHANGED <<auth_state, nonce, nonce_signature, key, usb, signVars, sent, status>>

-----------------------------------------------------------------------------
(* sign_nonce, on the main work queue                                      *)

\* The work queue clears the pending flag and runs the handler, which loads
\* the state and leaves at once unless a nonce waits.
SignStart ==
    /\ work /\ sign_pc = "idle"
    /\ work' = FALSE
    /\ IF auth_state.type = "WaitingToSign"
       THEN sign' = [sign EXCEPT !.current = auth_state] /\ sign_pc' = "claim"
       ELSE UNCHANGED signVars
    /\ UNCHANGED <<auth_state, nonce, nonce_signature, key, handlerVars, sent, status>>

\* The first compare-and-swap: WaitingToSign -> Signing.
SignClaim ==
    /\ sign_pc = "claim"
    /\ \/ /\ auth_state = sign.current
          /\ auth_state' = [sign.current EXCEPT !.type = "Signing"]
          /\ sign' = [sign EXCEPT !.current = auth_state']
          /\ sign_pc' = "hash"
       \/ /\ auth_state # sign.current
          /\ sign_pc' = "idle"
          /\ UNCHANGED <<auth_state, sign>>
    /\ UNCHANGED <<nonce, nonce_signature, key, work, handlerVars, sent, status>>

\* mbedtls_sha256_ret over the nonce buffer.
SignHash ==
    /\ sign_pc = "hash"
    /\ sign' = [sign EXCEPT !.hashed = nonce]
    /\ sign_pc' = "sign"
    /\ UNCHANGED <<auth_state, nonce, nonce_signature, key, work, handlerVars, sent, status>>

\* Mutant: a failed hash puts the nonce back, and nobody submits the work again.
SignHashFailsRequeue ==
    /\ sign_pc = "hash"
    /\ sign_pc' = "idle"
    /\ auth_state' = [auth_state EXCEPT !.type = "WaitingToSign"]
    /\ UNCHANGED <<nonce, nonce_signature, key, work, handlerVars, sign, sent, status>>

SignHashFails ==
    /\ sign_pc = "hash"
    /\ sign_pc' = "idle"
    /\ UNCHANGED <<auth_state, nonce, nonce_signature, key, work, handlerVars, sign, sent, status>>

\* mbedtls_rsa_rsassa_pss_sign into nonce_signature.
SignSign ==
    /\ sign_pc = "sign"
    /\ nonce_signature' = sign.hashed
    /\ sign_pc' = "publish"
    /\ UNCHANGED <<auth_state, nonce, key, work, handlerVars, sign, sent, status>>

\* Mutant: the return after a failed signature is missing.
SignSignFailsGoesOn ==
    /\ sign_pc = "sign"
    /\ nonce_signature' = NoSignature
    /\ sign_pc' = "publish"
    /\ UNCHANGED <<auth_state, nonce, key, work, handlerVars, sign, sent, status>>

\* It works in place, so a failure leaves nothing of use in the buffer.
SignSignFails ==
    /\ sign_pc = "sign"
    /\ nonce_signature' = NoSignature
    /\ sign_pc' = "idle"
    /\ UNCHANGED <<auth_state, nonce, key, work, handlerVars, sign, sent, status>>

\* Mutant: the part counter of the received nonce is kept.
PublishedNoReset(state) == [state EXCEPT !.type = "SendingSignature"]

\* The state sign_nonce publishes: the signature is read from its first chunk.
Published(state) == [state EXCEPT !.type = "SendingSignature", !.next_part = 0]

\* The last compare-and-swap: Signing -> SendingSignature.
SignPublish ==
    /\ sign_pc = "publish"
    /\ \/ /\ auth_state = sign.current
          /\ auth_state' = Published(sign.current)
          /\ sent' = << >>
       \/ /\ auth_state # sign.current
          /\ UNCHANGED <<auth_state, sent>>
    /\ sign_pc' = "idle"
    /\ UNCHANGED <<nonce, nonce_signature, key, work, handlerVars, sign, status>>

-----------------------------------------------------------------------------
(* GetFeatureReport(0xF1): get_next_signature_chunk                        *)

\* The report handler loads the state once for the reply's header ...
GetSignature ==
    /\ usb_pc = "idle"
    /\ auth_state.type = "SendingSignature"
    /\ usb' = [usb EXCEPT !.header = auth_state]
    /\ usb_pc' = "chunk_load"
    /\ UNCHANGED <<auth_state, nonce, nonce_signature, key, work, signVars, sent, status>>

\* ... and get_next_signature_chunk loads it again for the payload.
ChunkLoad ==
    /\ usb_pc = "chunk_load"
    /\ IF auth_state.type = "SendingSignature"
       THEN usb' = [usb EXCEPT !.current = auth_state] /\ usb_pc' = "chunk_copy"
       ELSE usb_pc' = "idle" /\ UNCHANGED usb
    /\ UNCHANGED <<auth_state, nonce, nonce_signature, key, work, signVars, sent, status>>

\* copy_signature(buf, next_part * 56); module CopySignature has its loop.
ChunkCopy ==
    /\ usb_pc = "chunk_copy"
    /\ usb' = [usb EXCEPT !.signature = nonce_signature]
    /\ usb_pc' = "chunk_cas"
    /\ UNCHANGED <<auth_state, nonce, nonce_signature, key, work, signVars, sent, status>>

\* Mutant: the old part number is compared, so one chunk too many is read.
AfterChunkOneMore(state) ==
    IF state.next_part = SignatureChunks
    THEN [state EXCEPT !.type = "ReceivingNonce", !.next_part = 0]
    ELSE [state EXCEPT !.next_part = @ + 1]

\* The state after a chunk: the one after the last starts a new exchange.
AfterChunk(state) ==
    IF state.next_part + 1 = SignatureChunks
    THEN [state EXCEPT !.type = "ReceivingNonce", !.next_part = 0]
    ELSE [state EXCEPT !.next_part = @ + 1]

\* The compare-and-swap; on success the reply goes to the host.
ChunkCas ==
    /\ usb_pc = "chunk_cas"
    /\ \/ /\ auth_state = usb.current
          /\ auth_state' = AfterChunk(usb.current)
          /\ sent' = Append(sent, [nonce_id |-> usb.header.nonce_id,
                                   part |-> usb.header.next_part,
                                   offset |-> usb.current.next_part,
                                   signature |-> usb.signature])
          /\ status' = NoStatus
       \/ /\ auth_state # usb.current
          /\ UNCHANGED <<auth_state, sent, status>>
    /\ usb_pc' = "idle"
    /\ UNCHANGED <<nonce, nonce_signature, key, work, usb, signVars>>

(* GetFeatureReport(0xF2): a single load of the state                      *)
GetSigningState ==
    /\ usb_pc = "idle"
    /\ status' = [known |-> TRUE, ready |-> auth_state.type = "SendingSignature",
                  nonce_id |-> auth_state.nonce_id]
    /\ UNCHANGED <<auth_state, nonce, nonce_signature, key, work, handlerVars, signVars, sent>>

-----------------------------------------------------------------------------

Sign == \/ SignStart \/ SignClaim
        \/ SignHash \/ SignHashFails
        \/ SignSign \/ SignSignFails
        \/ SignPublish

\* The steps a handler takes once it has been called.
Handle == \/ SetNonceCopy \/ SetNonceCas \/ SetNonceSubmit
          \/ ChunkLoad \/ ChunkCopy \/ ChunkCas

\* What the host may ask for at any time.
Host == \/ \E i \in NonceIds, p \in 0 .. NonceParts, d \in Payloads : SetNonce(i, p, d)
        \/ GetSignature
        \/ GetSigningState

Next == Sign \/ Handle \/ Host

Spec == Init /\ [][Next]_vars

\* A handler that was called runs to its end, and the main work queue runs
\* what is submitted to it.  Nothing obliges the host to ask for anything.
Fairness == WF_vars(Handle) /\ WF_vars(Sign)

FairSpec == Spec /\ Fairness
-----------------------------------------------------------------------------
(* Properties                                                              *)

UsbPc == {"idle", "nonce_copy", "nonce_cas", "nonce_submit",
          "chunk_load", "chunk_copy", "chunk_cas"}
SignPc == {"idle", "claim", "hash", "sign", "publish"}

\* Every variable has its type; the locals of both threads too.
TypeOK ==
    /\ auth_state \in AuthState
    /\ nonce \in Nonces
    /\ nonce_signature \in Signatures
    /\ key \in KeyStates
    /\ work \in BOOLEAN
    /\ usb_pc \in UsbPc
    /\ usb \in Handler
    /\ sign_pc \in SignPc
    /\ sign \in [current: AuthState, hashed: Nonces]
    /\ sent \in Seq(Chunk)
    /\ status \in [known: BOOLEAN, ready: BOOLEAN, nonce_id: NonceIds]

\* No compare-and-swap of either thread ever fails: from its load to its CAS
\* nobody else moves auth_state, so "auth state changed while receiving
\* nonce?" and its siblings in auth.cpp are unreachable.
CasNeverFails ==
    /\ usb_pc \in {"nonce_copy", "nonce_cas", "chunk_copy", "chunk_cas"} => auth_state = usb.current
    /\ sign_pc # "idle" => auth_state = sign.current

\* A nonce that waits to be signed has its work item pending, about to be
\* submitted or already running: the wakeup of sign_nonce is not lost.
WorkNotLost ==
    auth_state.type = "WaitingToSign" =>
        work \/ usb_pc = "nonce_submit" \/ sign_pc = "claim"

\* The signature offered to the host is that of the nonce in the buffer, and
\* a signing key is there to assemble the reply from (copy_signature and
\* sign_nonce follow pd->ps4_key unchecked).
SignatureOfNonce ==
    /\ auth_state.type = "SendingSignature" => nonce_signature = nonce
    /\ auth_state.type # "ReceivingNonce" => key = "key"

\* The replies composed for a signature are its chunks 0, 1, 2, ..., none
\* skipped or repeated, each headed by the part its payload was copied from,
\* all of one nonce id and cut from one signature.
SentInOrder ==
    /\ \A i \in 1 .. Len(sent) :
          /\ sent[i].part = i - 1 /\ sent[i].offset = i - 1
          /\ sent[i].nonce_id = sent[1].nonce_id
          /\ sent[i].signature = sent[1].signature /\ sent[i].signature # NoSignature
    /\ auth_state.type = "SendingSignature" => Len(sent) = auth_state.next_part

\* A "ready" answer to 0xF2 still holds when the host acts on it with 0xF1:
\* nothing but a chunk read ends the offer, and the nonce id is the same.
StatusNotStale ==
    status.known /\ status.ready =>
        auth_state.type = "SendingSignature" /\ auth_state.nonce_id = status.nonce_id

\* The nonce buffer is written only while a nonce is being received, never
\* under the signer's hash.
NonceFrozen ==
    [][nonce' # nonce => auth_state.type = "ReceivingNonce" /\ sign_pc = "idle"]_vars

\* A signing that failed: sign_nonce returned and left the state behind.
SignFailed == auth_state.type = "Signing" /\ sign_pc = "idle"

\* Every complete nonce is signed, or its signing fails.
NonceAnswered ==
    auth_state.type = "WaitingToSign" ~> (auth_state.type = "SendingSignature" \/ SignFailed)

\* What auth.h says of Signing: it is left "when done, or ... upon error".
SigningLeft == auth_state.type = "Signing" ~> auth_state.type # "Signing"

\* The exchange the host sees, hidden threads and buffers removed.
ExchangePhase == CASE auth_state.type = "ReceivingNonce" -> "receiving"
                   [] auth_state.type = "SendingSignature" -> "sending"
                   [] SignFailed -> "failed"
                   [] OTHER -> "pending"
ExchangeChallenge == IF auth_state.type = "ReceivingNonce" THEN NoSignature ELSE nonce
ExchangeAnswer == [i \in 1 .. Len(sent) |-> [part |-> sent[i].part, of |-> sent[i].signature]]

Exchange == INSTANCE AuthExchange WITH
    Challenges <- Nonces,
    NoChallenge <- NoSignature,
    Chunks <- SignatureChunks,
    phase <- ExchangePhase,
    challenge <- ExchangeChallenge,
    answer <- ExchangeAnswer

\* The two threads together implement the exchange of AuthExchange.
ImplementsExchange == Exchange!AFairSpec
=============================================================================
