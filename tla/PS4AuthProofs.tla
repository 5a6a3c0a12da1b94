--------------------------- MODULE PS4AuthProofs ---------------------------
(***************************************************************************)
(* Proofs about PS4Auth, for every number of parts and chunks and any sets  *)
(* of nonce ids and payloads.                                              *)
(***************************************************************************)
EXTENDS PS4Auth, TLAPS

\* What the control-pipe handler knows at each of its steps.
UsbInv ==
    /\ usb_pc \in {"nonce_copy", "nonce_cas"} =>
          usb.current.type = "ReceivingNonce" /\ key = "key"
    /\ usb_pc = "nonce_submit" => auth_state.type = "WaitingToSign" /\ ~work /\ sign_pc = "idle"
    /\ usb_pc = "chunk_load" => usb.header = auth_state /\ auth_state.type = "SendingSignature"
    /\ usb_pc \in {"chunk_copy", "chunk_cas"} =>
          usb.header = usb.current /\ usb.current.type = "SendingSignature"
    /\ usb_pc = "chunk_cas" => usb.signature = nonce

\* What sign_nonce knows at each of its steps, and what its work item means.
SignInv ==
    /\ sign_pc = "claim" => sign.current.type = "WaitingToSign"
    /\ sign_pc \in {"hash", "sign", "publish"} => sign.current.type = "Signing"
    /\ sign_pc \in {"sign", "publish"} => sign.hashed = nonce
    /\ sign_pc = "publish" => nonce_signature = nonce
    /\ work => auth_state.type = "WaitingToSign" /\ sign_pc = "idle"

\* The replies of the current signature, tied to the state that counts them.
SentInv ==
    auth_state.type = "SendingSignature" =>
        /\ auth_state.next_part = Len(sent)
        /\ auth_state.next_part < SignatureChunks
        /\ \A i \in 1 .. Len(sent) : sent[i].nonce_id = auth_state.nonce_id
                                     /\ sent[i].signature = nonce

\* The inductive invariant.
IInv == /\ TypeOK /\ CasNeverFails /\ WorkNotLost /\ SignatureOfNonce
        /\ SentInOrder /\ StatusNotStale
        /\ UsbInv /\ SignInv /\ SentInv
-----------------------------------------------------------------------------

\* What sign_nonce publishes: the same nonce id, read from chunk 0.
LEMMA PublishedFields ==
  ASSUME NEW s \in AuthState
  PROVE  /\ Published(s) \in AuthState
         /\ Published(s).type = "SendingSignature"
         /\ Published(s).next_part = 0
         /\ Published(s).nonce_id = s.nonce_id
<1>1. 0 \in 0 .. ByteValues - 1
  BY ChunksAssumption
<1> QED
  BY <1>1 DEF Published, AuthState, AuthStateType

\* What a chunk read leaves: the next chunk of the same signature, or the
\* wait for the next nonce.
LEMMA AfterChunkFields ==
  ASSUME NEW s \in AuthState, s.type = "SendingSignature", s.next_part < SignatureChunks
  PROVE  /\ AfterChunk(s) \in AuthState
         /\ AfterChunk(s).nonce_id = s.nonce_id
         /\ \/ AfterChunk(s).type = "ReceivingNonce"
            \/ /\ AfterChunk(s).type = "SendingSignature"
               /\ AfterChunk(s).next_part = s.next_part + 1
               /\ s.next_part + 1 < SignatureChunks
<1>1. s.next_part \in Nat /\ 0 \in 0 .. ByteValues - 1
  BY ChunksAssumption DEF AuthState
<1>2. CASE s.next_part + 1 = SignatureChunks
  BY <1>1, <1>2 DEF AfterChunk, AuthState, AuthStateType
<1>3. CASE s.next_part + 1 # SignatureChunks
  <2>1. s.next_part + 1 \in 0 .. ByteValues - 1 /\ s.next_part + 1 < SignatureChunks
    BY <1>1, <1>3, ChunksAssumption
  <2> QED
    BY <1>3, <2>1 DEF AfterChunk, AuthState
<1> QED
  BY <1>2, <1>3

\* The invariant holds at boot.
LEMMA InitInv == Init => IInv
<1> SUFFICES ASSUME Init PROVE IInv
  OBVIOUS
<1> USE PartsAssumption, ChunksAssumption, IdsAssumption, PayloadAssumption
<1>1. TypeOK
  <2>1. BootState \in AuthState
    BY DEF BootState, AuthState, AuthStateType
  <2>2. nonce \in Nonces /\ nonce_signature \in Signatures
    BY DEF Init, Nonces, Signatures
  <2>3. usb \in Handler
    BY <2>1 DEF Init, Handler, Parts, Signatures
  <2>4. sign \in [current: AuthState, hashed: Nonces]
    BY <2>1 DEF Init, Nonces
  <2>5. sent \in Seq(Chunk) /\ status \in [known: BOOLEAN, ready: BOOLEAN, nonce_id: NonceIds]
    BY DEF Init, NoStatus
  <2> QED
    BY <2>1, <2>2, <2>3, <2>4, <2>5 DEF Init, TypeOK, UsbPc, SignPc
<1>2. CasNeverFails /\ WorkNotLost /\ SignatureOfNonce /\ StatusNotStale
  BY DEF Init, CasNeverFails, WorkNotLost, SignatureOfNonce, StatusNotStale, BootState, NoStatus
<1>3. SentInOrder /\ SentInv
  BY DEF Init, SentInOrder, SentInv, BootState
<1>4. UsbInv /\ SignInv
  BY DEF Init, UsbInv, SignInv, BootState
<1> QED
  BY <1>1, <1>2, <1>3, <1>4 DEF IInv

\* Every step preserves it.
LEMMA NextInv == IInv /\ [Next]_vars => IInv'
<1> SUFFICES ASSUME IInv, [Next]_vars PROVE IInv'
  OBVIOUS
<1> USE PartsAssumption, ChunksAssumption, IdsAssumption, PayloadAssumption
<1> USE DEF IInv, handlerVars, signVars
<1>0. ASSUME NEW i \in NonceIds, NEW p \in 0 .. NonceParts, NEW d \in Payloads, SetNonce(i, p, d)
      PROVE IInv'
  <2> USE <1>0 DEF SetNonce, Accepts
  <2>1. TypeOK'
    <3>1. p \in Parts
      BY DEF Parts
    <3>2. usb' \in Handler
      BY <3>1 DEF TypeOK, Handler
    <3> QED
      BY <3>2 DEF TypeOK, UsbPc
  <2>2. (CasNeverFails /\ WorkNotLost /\ SignatureOfNonce /\ StatusNotStale)'
    BY DEF TypeOK, Handler, CasNeverFails, WorkNotLost, SignatureOfNonce, StatusNotStale
  <2>3. (SentInOrder /\ SentInv)'
    BY DEF SentInOrder, SentInv
  <2>4. (UsbInv /\ SignInv)'
    BY DEF TypeOK, Handler, UsbInv, SignInv
  <2> QED
    BY <2>1, <2>2, <2>3, <2>4
<1>1. CASE SetNonceCopy
  <2> USE <1>1 DEF SetNonceCopy
  <2>1. TypeOK'
    <3>1. nonce' \in Nonces
      BY DEF TypeOK, Nonces, Handler
    <3> QED
      BY <3>1 DEF TypeOK, UsbPc
  <2>2. (CasNeverFails /\ WorkNotLost /\ SignatureOfNonce /\ StatusNotStale)'
    BY DEF TypeOK, SignPc, CasNeverFails, WorkNotLost, SignatureOfNonce, StatusNotStale, UsbInv, SignInv
  <2>3. (SentInOrder /\ SentInv)'
    BY DEF SentInOrder, SentInv, UsbInv, CasNeverFails
  <2>4. (UsbInv /\ SignInv)'
    BY DEF TypeOK, SignPc, CasNeverFails, UsbInv, SignInv
  <2> QED
    BY <2>1, <2>2, <2>3, <2>4
<1>2. CASE SetNonceCas
  <2> USE <1>2 DEF SetNonceCas, AfterPart
  <2>0. sign_pc = "idle" /\ ~work /\ auth_state = usb.current /\ key = "key"
        /\ auth_state \in AuthState /\ auth_state.type = "ReceivingNonce"
    BY DEF TypeOK, SignPc, CasNeverFails, UsbInv, SignInv
<2>1. TypeOK'
    <3>1. auth_state' \in AuthState
      BY DEF TypeOK, AuthState, AuthStateType, Handler
    <3> QED
      BY <3>1 DEF TypeOK, UsbPc
  <2>2. (CasNeverFails /\ WorkNotLost /\ SignatureOfNonce /\ StatusNotStale)'
    BY <2>0 DEF AuthState, CasNeverFails, WorkNotLost, SignatureOfNonce, StatusNotStale
  <2>3. (SentInOrder /\ SentInv)'
    BY DEF TypeOK, AuthState, Handler, SentInOrder, SentInv, UsbInv, CasNeverFails
  <2>4. (UsbInv /\ SignInv)'
    BY <2>0 DEF AuthState, UsbInv, SignInv
  <2> QED
    BY <2>1, <2>2, <2>3, <2>4
<1>3. CASE SetNonceSubmit
  <2> USE <1>3 DEF SetNonceSubmit
  <2>1. TypeOK'
    BY DEF TypeOK, UsbPc, SignPc
  <2>2. (CasNeverFails /\ WorkNotLost /\ SignatureOfNonce /\ StatusNotStale)'
    BY DEF TypeOK, AuthState, Handler, CasNeverFails, WorkNotLost, SignatureOfNonce, StatusNotStale, UsbInv, SignInv
  <2>3. (SentInOrder /\ SentInv)'
    BY DEF SentInOrder, SentInv, SignInv, CasNeverFails
  <2>4. (UsbInv /\ SignInv)'
    BY DEF TypeOK, AuthState, Handler, CasNeverFails, WorkNotLost, SignatureOfNonce, UsbInv, SignInv
  <2> QED
    BY <2>1, <2>2, <2>3, <2>4
<1>4. CASE SignStart
  <2> USE <1>4 DEF SignStart
  <2>1. TypeOK'
    <3>1. sign' \in [current: AuthState, hashed: Nonces]
      BY DEF TypeOK
    <3> QED
      BY <3>1 DEF TypeOK, SignPc
  <2>2. (CasNeverFails /\ WorkNotLost /\ SignatureOfNonce /\ StatusNotStale)'
    BY DEF TypeOK, AuthState, Handler, CasNeverFails, WorkNotLost, SignatureOfNonce, StatusNotStale, UsbInv, SignInv
  <2>3. (SentInOrder /\ SentInv)'
    BY DEF SentInOrder, SentInv, SignInv, CasNeverFails
  <2>4. (UsbInv /\ SignInv)'
    BY DEF TypeOK, AuthState, Handler, CasNeverFails, WorkNotLost, SignatureOfNonce, UsbInv, SignInv
  <2> QED
    BY <2>1, <2>2, <2>3, <2>4
<1>5. CASE SignClaim
  <2> USE <1>5 DEF SignClaim
  <2>1. TypeOK'
    <3>1. auth_state' \in AuthState
      BY DEF TypeOK, AuthState, AuthStateType
    <3>2. sign' \in [current: AuthState, hashed: Nonces]
      BY <3>1 DEF TypeOK
    <3> QED
      BY <3>1, <3>2 DEF TypeOK, SignPc
  <2>2. (CasNeverFails /\ WorkNotLost /\ SignatureOfNonce /\ StatusNotStale)'
    BY DEF TypeOK, AuthState, Handler, CasNeverFails, WorkNotLost, SignatureOfNonce, StatusNotStale, UsbInv, SignInv
  <2>3. (SentInOrder /\ SentInv)'
    BY DEF TypeOK, AuthState, SentInOrder, SentInv, SignInv, CasNeverFails
  <2>4. (UsbInv /\ SignInv)'
    BY DEF TypeOK, AuthState, Handler, CasNeverFails, WorkNotLost, SignatureOfNonce, UsbInv, SignInv
  <2> QED
    BY <2>1, <2>2, <2>3, <2>4
<1>6. CASE SignHash
  <2> USE <1>6 DEF SignHash
  <2>1. TypeOK'
    <3>1. sign' \in [current: AuthState, hashed: Nonces]
      BY DEF TypeOK
    <3> QED
      BY <3>1 DEF TypeOK, SignPc
  <2>2. (CasNeverFails /\ WorkNotLost /\ SignatureOfNonce /\ StatusNotStale)'
    BY DEF TypeOK, AuthState, Handler, CasNeverFails, WorkNotLost, SignatureOfNonce, StatusNotStale, UsbInv, SignInv
  <2>3. (SentInOrder /\ SentInv)'
    BY DEF SentInOrder, SentInv, SignInv, CasNeverFails
  <2>4. (UsbInv /\ SignInv)'
    BY DEF TypeOK, AuthState, Handler, CasNeverFails, WorkNotLost, SignatureOfNonce, UsbInv, SignInv
  <2> QED
    BY <2>1, <2>2, <2>3, <2>4
<1>7. CASE SignHashFails
  <2> USE <1>7 DEF SignHashFails
  <2>1. TypeOK'
    BY DEF TypeOK, UsbPc, SignPc
  <2>2. (CasNeverFails /\ WorkNotLost /\ SignatureOfNonce /\ StatusNotStale)'
    BY DEF TypeOK, AuthState, Handler, CasNeverFails, WorkNotLost, SignatureOfNonce, StatusNotStale, UsbInv, SignInv
  <2>3. (SentInOrder /\ SentInv)'
    BY DEF SentInOrder, SentInv, SignInv, CasNeverFails
  <2>4. (UsbInv /\ SignInv)'
    BY DEF TypeOK, AuthState, Handler, CasNeverFails, WorkNotLost, SignatureOfNonce, UsbInv, SignInv
  <2> QED
    BY <2>1, <2>2, <2>3, <2>4
<1>8. CASE SignSign
  <2> USE <1>8 DEF SignSign
  <2>1. TypeOK'
    BY DEF TypeOK, SignPc, Signatures
  <2>2. (CasNeverFails /\ WorkNotLost /\ SignatureOfNonce /\ StatusNotStale)'
    BY DEF TypeOK, AuthState, Handler, CasNeverFails, WorkNotLost, SignatureOfNonce, StatusNotStale, UsbInv, SignInv
  <2>3. (SentInOrder /\ SentInv)'
    BY DEF SentInOrder, SentInv, SignInv, CasNeverFails
  <2>4. (UsbInv /\ SignInv)'
    BY DEF TypeOK, AuthState, Handler, CasNeverFails, WorkNotLost, SignatureOfNonce, UsbInv, SignInv
  <2> QED
    BY <2>1, <2>2, <2>3, <2>4
<1>9. CASE SignSignFails
  <2> USE <1>9 DEF SignSignFails
  <2>1. TypeOK'
    BY DEF TypeOK, SignPc, Signatures
  <2>2. (CasNeverFails /\ WorkNotLost /\ SignatureOfNonce /\ StatusNotStale)'
    BY DEF TypeOK, AuthState, Handler, CasNeverFails, WorkNotLost, SignatureOfNonce, StatusNotStale, UsbInv, SignInv
  <2>3. (SentInOrder /\ SentInv)'
    BY DEF SentInOrder, SentInv, SignInv, CasNeverFails
  <2>4. (UsbInv /\ SignInv)'
    BY DEF TypeOK, AuthState, Handler, CasNeverFails, WorkNotLost, SignatureOfNonce, UsbInv, SignInv
  <2> QED
    BY <2>1, <2>2, <2>3, <2>4
<1>10. CASE SignPublish
  <2> USE <1>10 DEF SignPublish
  <2>0. /\ sign.current \in AuthState /\ auth_state = sign.current
        /\ auth_state' = Published(sign.current) /\ sent' = << >>
    BY DEF TypeOK, CasNeverFails
<2>1. TypeOK'
    <3>1. auth_state' \in AuthState /\ sent' \in Seq(Chunk)
      BY <2>0, PublishedFields
    <3> QED
      BY <3>1 DEF TypeOK, SignPc
  <2>2. (CasNeverFails /\ WorkNotLost /\ SignatureOfNonce /\ StatusNotStale)'
    BY <2>0, PublishedFields DEF CasNeverFails, WorkNotLost, SignatureOfNonce, StatusNotStale, UsbInv, SignInv, TypeOK
  <2>3. (SentInOrder /\ SentInv)'
    BY <2>0, PublishedFields, ChunksAssumption DEF SentInOrder, SentInv
  <2>4. (UsbInv /\ SignInv)'
    BY <2>0, PublishedFields DEF CasNeverFails, UsbInv, SignInv
  <2> QED
    BY <2>1, <2>2, <2>3, <2>4
<1>11. CASE GetSignature
  <2> USE <1>11 DEF GetSignature
  <2>1. TypeOK'
    <3>1. usb' \in Handler
      BY DEF TypeOK, Handler
    <3> QED
      BY <3>1 DEF TypeOK, UsbPc
  <2>2. (CasNeverFails /\ WorkNotLost /\ SignatureOfNonce /\ StatusNotStale)'
    BY DEF TypeOK, AuthState, Handler, CasNeverFails, WorkNotLost, SignatureOfNonce, StatusNotStale, UsbInv, SignInv
  <2>3. (SentInOrder /\ SentInv)'
    BY DEF SentInOrder, SentInv, SignInv, CasNeverFails
  <2>4. (UsbInv /\ SignInv)'
    BY DEF TypeOK, AuthState, Handler, CasNeverFails, WorkNotLost, SignatureOfNonce, UsbInv, SignInv
  <2> QED
    BY <2>1, <2>2, <2>3, <2>4
<1>12. CASE ChunkLoad
  <2> USE <1>12 DEF ChunkLoad
  <2>1. TypeOK'
    <3>1. usb' \in Handler
      BY DEF TypeOK, Handler
    <3> QED
      BY <3>1 DEF TypeOK, UsbPc
  <2>2. (CasNeverFails /\ WorkNotLost /\ SignatureOfNonce /\ StatusNotStale)'
    BY DEF TypeOK, AuthState, Handler, CasNeverFails, WorkNotLost, SignatureOfNonce, StatusNotStale, UsbInv, SignInv
  <2>3. (SentInOrder /\ SentInv)'
    BY DEF SentInOrder, SentInv, SignInv, CasNeverFails
  <2>4. (UsbInv /\ SignInv)'
    BY DEF TypeOK, AuthState, Handler, CasNeverFails, WorkNotLost, SignatureOfNonce, UsbInv, SignInv
  <2> QED
    BY <2>1, <2>2, <2>3, <2>4
<1>13. CASE ChunkCopy
  <2> USE <1>13 DEF ChunkCopy
  <2>1. TypeOK'
    <3>1. usb' \in Handler
      BY DEF TypeOK, Handler
    <3> QED
      BY <3>1 DEF TypeOK, UsbPc
  <2>2. (CasNeverFails /\ WorkNotLost /\ SignatureOfNonce /\ StatusNotStale)'
    BY DEF TypeOK, AuthState, Handler, CasNeverFails, WorkNotLost, SignatureOfNonce, StatusNotStale, UsbInv, SignInv
  <2>3. (SentInOrder /\ SentInv)'
    BY DEF SentInOrder, SentInv, SignInv, CasNeverFails
  <2>4. (UsbInv /\ SignInv)'
    BY DEF TypeOK, AuthState, Handler, CasNeverFails, WorkNotLost, SignatureOfNonce, UsbInv, SignInv
  <2> QED
    BY <2>1, <2>2, <2>3, <2>4
<1>14. CASE ChunkCas
  <2> USE <1>14 DEF ChunkCas
  <2> DEFINE chunk == [nonce_id |-> usb.header.nonce_id, part |-> usb.header.next_part,
                       offset |-> usb.current.next_part, signature |-> usb.signature]
  <2>a. /\ auth_state = usb.current /\ auth_state \in AuthState
        /\ auth_state.type = "SendingSignature" /\ sign_pc = "idle"
        /\ usb.header = usb.current /\ usb.signature = nonce
        /\ auth_state.next_part = Len(sent) /\ auth_state.next_part < SignatureChunks
    BY DEF CasNeverFails, UsbInv, SignInv, SentInv, TypeOK, SignPc
  <2>b. auth_state' = AfterChunk(auth_state) /\ sent' = Append(sent, chunk) /\ nonce' = nonce
    BY <2>a
  <2>c. chunk \in Chunk
    BY DEF TypeOK, Chunk, Handler, AuthState
<2>1. TypeOK'
    <3>1. auth_state' \in AuthState
      BY <2>a, <2>b, AfterChunkFields
    <3>2. sent' \in Seq(Chunk)
      BY <2>b, <2>c DEF TypeOK
    <3>3. status' \in [known: BOOLEAN, ready: BOOLEAN, nonce_id: NonceIds]
      <4>1. status' = NoStatus
        BY <2>a
      <4> QED
        BY <4>1 DEF NoStatus
    <3> QED
      BY <3>1, <3>2, <3>3 DEF TypeOK, UsbPc
  <2>2. (CasNeverFails /\ WorkNotLost /\ SignatureOfNonce /\ StatusNotStale)'
    BY <2>a, <2>b, AfterChunkFields DEF NoStatus, CasNeverFails, WorkNotLost, SignatureOfNonce, StatusNotStale
  <2>3. (SentInOrder /\ SentInv)'
    <3> HIDE DEF chunk
    <3>1. sent \in Seq(Chunk) /\ Len(sent) \in Nat /\ nonce \in Nonces /\ nonce # NoSignature
      BY DEF TypeOK, Nonces
    <3>2. Len(sent') = Len(sent) + 1 /\ sent'[Len(sent) + 1] = chunk
          /\ \A i \in 1 .. Len(sent) : sent'[i] = sent[i]
      BY <3>1, <2>b, <2>c
    <3>3. chunk.part = Len(sent) /\ chunk.offset = Len(sent)
          /\ chunk.nonce_id = auth_state.nonce_id /\ chunk.signature = nonce
      BY <2>a DEF chunk
    <3>4. \A i \in 1 .. Len(sent') :
            /\ sent'[i].part = i - 1 /\ sent'[i].offset = i - 1
            /\ sent'[i].nonce_id = auth_state.nonce_id /\ sent'[i].signature = nonce
      BY <2>a, <3>1, <3>2, <3>3 DEF SentInOrder, SentInv
    <3> QED
      BY <2>a, <2>b, <3>1, <3>2, <3>4, AfterChunkFields DEF SentInOrder, SentInv
  <2>4. (UsbInv /\ SignInv)'
    BY <2>a, <2>b, AfterChunkFields DEF UsbInv, SignInv
  <2> QED
    BY <2>1, <2>2, <2>3, <2>4
<1>15. CASE GetSigningState
  <2> USE <1>15 DEF GetSigningState
  <2>1. TypeOK'
    BY DEF TypeOK, AuthState
  <2>2. (CasNeverFails /\ WorkNotLost /\ SignatureOfNonce /\ StatusNotStale)'
    BY DEF TypeOK, AuthState, Handler, CasNeverFails, WorkNotLost, SignatureOfNonce, StatusNotStale, UsbInv, SignInv
  <2>3. (SentInOrder /\ SentInv)'
    BY DEF SentInOrder, SentInv, SignInv, CasNeverFails
  <2>4. (UsbInv /\ SignInv)'
    BY DEF TypeOK, AuthState, Handler, CasNeverFails, WorkNotLost, SignatureOfNonce, UsbInv, SignInv
  <2> QED
    BY <2>1, <2>2, <2>3, <2>4
<1>16. CASE UNCHANGED vars
  BY <1>16 DEF vars, TypeOK, CasNeverFails, WorkNotLost, SignatureOfNonce, SentInOrder,
               StatusNotStale, UsbInv, SignInv, SentInv
<1> QED
  BY <1>0, <1>1, <1>2, <1>3, <1>4, <1>5, <1>6, <1>7, <1>8, <1>9, <1>10, <1>11, <1>12, <1>13, <1>14, <1>15, <1>16 DEF Next, Sign, Handle, Host

\* The inductive invariant holds in every reachable state.
THEOREM Invariance == Spec => []IInv
BY InitInv, NextInv, PTL DEF Spec

\* Every variable keeps its type; in particular the chunk counter, a uint8_t
\* compared only for equality, never runs past the last chunk.
THEOREM TypeCorrect == Spec => []TypeOK
BY Invariance, PTL DEF IInv

\* No compare-and-swap of set_nonce, sign_nonce or get_next_signature_chunk fails.
THEOREM CasSafe == Spec => []CasNeverFails
BY Invariance, PTL DEF IInv

\* A complete nonce always has its signing work under way.
THEOREM WorkSafe == Spec => []WorkNotLost
BY Invariance, PTL DEF IInv

\* The signature read by the host is that of the nonce it sent, and the key
\* that sign_nonce and copy_signature follow unchecked is there.
THEOREM SignatureSafe == Spec => []SignatureOfNonce
BY Invariance, PTL DEF IInv

\* The chunks of a signature are composed once each, in order.
THEOREM SentSafe == Spec => []SentInOrder
BY Invariance, PTL DEF IInv

\* A "ready" reply to 0xF2 is still true when the host acts on it.
THEOREM StatusSafe == Spec => []StatusNotStale
BY Invariance, PTL DEF IInv

\* The nonce is never written under the signer.
THEOREM NonceSafe == Spec => NonceFrozen
<1>1. IInv /\ [Next]_vars =>
        [nonce' # nonce => auth_state.type = "ReceivingNonce" /\ sign_pc = "idle"]_vars
  <2> SUFFICES ASSUME IInv, Next, nonce' # nonce
               PROVE  auth_state.type = "ReceivingNonce" /\ sign_pc = "idle"
    BY DEF vars
  <2>1. SetNonceCopy
    BY DEF Next, Sign, Handle, Host, SetNonce, SetNonceCas, SetNonceSubmit, SignStart, SignClaim,
           SignHash, SignHashFails, SignSign, SignSignFails, SignPublish, GetSignature, ChunkLoad,
           ChunkCopy, ChunkCas, GetSigningState
  <2> QED
    BY <2>1 DEF SetNonceCopy, IInv, TypeOK, SignPc, CasNeverFails, UsbInv, SignInv
<1> QED
  BY <1>1, Invariance, PTL DEF Spec, NonceFrozen

-----------------------------------------------------------------------------
(* The refinement of AuthExchange                                          *)

\* The phase of the exchange, state by state.
LEMMA PhaseIs ==
  /\ auth_state.type = "ReceivingNonce" => ExchangePhase = "receiving"
  /\ auth_state.type = "SendingSignature" => ExchangePhase = "sending"
  /\ auth_state.type = "WaitingToSign" => ExchangePhase = "pending"
  /\ auth_state.type = "Signing" /\ sign_pc # "idle" => ExchangePhase = "pending"
  /\ auth_state.type = "Signing" /\ sign_pc = "idle" => ExchangePhase = "failed"
BY DEF ExchangePhase, SignFailed

\* A step that moves neither the state, nor the replies, nor the signer's end
\* is none of the exchange's; the nonce may move while it is received.
LEMMA Unseen ==
  ASSUME auth_state' = auth_state, sent' = sent,
         auth_state.type = "Signing" => (sign_pc' = "idle" <=> sign_pc = "idle"),
         auth_state.type # "ReceivingNonce" => nonce' = nonce
  PROVE  UNCHANGED Exchange!avars
<1>1. ExchangePhase' = ExchangePhase
  BY DEF ExchangePhase, SignFailed
<1>2. ExchangeChallenge' = ExchangeChallenge
  BY DEF ExchangeChallenge
<1>3. ExchangeAnswer' = ExchangeAnswer
  BY DEF ExchangeAnswer
<1> QED
  BY <1>1, <1>2, <1>3 DEF Exchange!avars

\* The last compare-and-swap of a nonce is Complete; the others are unseen.
LEMMA CasCompletes ==
  ASSUME IInv, SetNonceCas
  PROVE  [Exchange!ANext]_(Exchange!avars)
<1>1. /\ auth_state = usb.current /\ auth_state.type = "ReceivingNonce" /\ auth_state \in AuthState /\ nonce \in Nonces
      /\ UNCHANGED <<nonce, sent, sign_pc>>
      /\ auth_state' = AfterPart(auth_state, usb.nonce_id, usb.part)
  BY DEF SetNonceCas, IInv, TypeOK, CasNeverFails, UsbInv, signVars
<1>2. ExchangePhase = "receiving" /\ ExchangeAnswer' = ExchangeAnswer
  BY <1>1, PhaseIs DEF ExchangeAnswer
<1>3. CASE usb.part = NonceParts - 1
  <2>1. auth_state'.type = "WaitingToSign"
    BY <1>1, <1>3 DEF AfterPart, AuthState
  <2>2. ExchangePhase' = "pending"
    BY <2>1 DEF ExchangePhase, SignFailed
  <2>3. ExchangeChallenge' = nonce
    BY <1>1, <2>1 DEF ExchangeChallenge
  <2>4. Exchange!Complete(nonce)
    BY <1>2, <2>2, <2>3 DEF Exchange!Complete
  <2> QED
    BY <1>1, <2>4 DEF Exchange!ANext
<1>4. CASE usb.part # NonceParts - 1
  <2>1. auth_state'.type = "ReceivingNonce"
    BY <1>1, <1>4 DEF AfterPart, AuthState
  <2>2. ExchangePhase' = "receiving"
    BY <2>1 DEF ExchangePhase, SignFailed
  <2>3. ExchangeChallenge' = ExchangeChallenge
    BY <1>1, <2>1 DEF ExchangeChallenge
  <2> QED
    BY <1>2, <2>2, <2>3 DEF Exchange!avars
<1> QED
  BY <1>3, <1>4

\* The signer publishes, and that is Answer, or gives up, and that is Abandon.
LEMMA SignerAnswers ==
  ASSUME IInv, SignPublish \/ SignHashFails \/ SignSignFails
  PROVE  [Exchange!ANext]_(Exchange!avars)
<1>1. /\ auth_state = sign.current /\ auth_state \in AuthState /\ auth_state.type = "Signing" /\ sign_pc # "idle"
      /\ sign_pc' = "idle" /\ nonce' = nonce
  BY DEF SignPublish, SignHashFails, SignSignFails, IInv, TypeOK, CasNeverFails, SignInv
<1>2. ExchangePhase = "pending"
  BY <1>1, PhaseIs
<1>3. CASE SignPublish
  <2>1. auth_state'.type = "SendingSignature" /\ sent' = << >>
    BY <1>1, <1>3, PublishedFields DEF SignPublish
  <2>2. ExchangePhase' = "sending"
    BY <2>1 DEF ExchangePhase, SignFailed
  <2>3. ExchangeChallenge' = ExchangeChallenge
    BY <1>1, <2>1 DEF ExchangeChallenge
  <2>4. ExchangeAnswer' = << >>
    BY <2>1 DEF ExchangeAnswer
  <2>5. Exchange!Answer
    BY <1>2, <2>2, <2>3, <2>4 DEF Exchange!Answer
  <2> QED
    BY <2>5 DEF Exchange!ANext
<1>4. CASE SignHashFails \/ SignSignFails
  <2>1. auth_state' = auth_state /\ sent' = sent
    BY <1>4 DEF SignHashFails, SignSignFails
  <2>2. ExchangePhase' = "failed"
    BY <1>1, <2>1 DEF ExchangePhase, SignFailed
  <2>3. ExchangeChallenge' = ExchangeChallenge /\ ExchangeAnswer' = ExchangeAnswer
    BY <1>1, <2>1 DEF ExchangeChallenge, ExchangeAnswer
  <2>4. Exchange!Abandon
    BY <1>2, <2>2, <2>3 DEF Exchange!Abandon
  <2> QED
    BY <2>4 DEF Exchange!ANext
<1> QED
  BY <1>3, <1>4

\* The compare-and-swap of a chunk is Read: the reply has the next part of the
\* signature of the challenge, and the last one ends the exchange.
LEMMA ChunkRead ==
  ASSUME IInv, ChunkCas
  PROVE  [Exchange!ANext]_(Exchange!avars)
<1> DEFINE chunk == [nonce_id |-> usb.header.nonce_id, part |-> usb.header.next_part,
                     offset |-> usb.current.next_part, signature |-> usb.signature]
           entry == [part |-> Len(ExchangeAnswer), of |-> ExchangeChallenge]
<1>1. /\ auth_state = usb.current /\ auth_state \in AuthState /\ auth_state.type = "SendingSignature"
      /\ usb.header = usb.current /\ usb.signature = nonce
      /\ auth_state.next_part = Len(sent) /\ nonce' = nonce
  BY DEF ChunkCas, IInv, CasNeverFails, UsbInv, SentInv, TypeOK
<1>2. auth_state' = AfterChunk(auth_state) /\ sent' = Append(sent, chunk)
  BY <1>1 DEF ChunkCas
<1>3. chunk \in Chunk /\ chunk.part = Len(sent) /\ chunk.signature = nonce
  BY <1>1 DEF IInv, TypeOK, Chunk, Handler, AuthState
<1>4. ExchangePhase = "sending" /\ ExchangeChallenge = nonce
  BY <1>1, PhaseIs DEF ExchangeChallenge
<1>5. sent \in Seq(Chunk) /\ Len(sent) \in Nat
  BY DEF IInv, TypeOK
<1>6. Len(ExchangeAnswer) = Len(sent)
  BY <1>5 DEF ExchangeAnswer
<1>7. ExchangeAnswer' = Append(ExchangeAnswer, entry)
  <2> HIDE DEF chunk
  <2>1. /\ Len(sent') = Len(sent) + 1 /\ sent'[Len(sent) + 1] = chunk
        /\ \A i \in 1 .. Len(sent) : sent'[i] = sent[i]
    BY <1>2, <1>3, <1>5
  <2>2. entry = [part |-> chunk.part, of |-> chunk.signature]
    BY <1>3, <1>4, <1>6
  <2> DEFINE e(i) == [part |-> sent[i].part, of |-> sent[i].signature]
             new == [i \in 1 .. Len(sent) + 1 |-> [part |-> sent'[i].part, of |-> sent'[i].signature]]
             old == [i \in 1 .. Len(sent) |-> e(i)]
  <2>3. ExchangeAnswer' = new /\ ExchangeAnswer = old
    BY <2>1 DEF ExchangeAnswer
  <2>4. Append(old, entry) = [i \in 1 .. Len(sent) + 1 |-> IF i = Len(sent) + 1 THEN entry ELSE e(i)]
    <3> HIDE DEF entry, e
    <3> QED
      BY <1>5
  <2>5. new = [i \in 1 .. Len(sent) + 1 |-> IF i = Len(sent) + 1 THEN entry ELSE e(i)]
    <3>1. ASSUME NEW i \in 1 .. Len(sent) + 1
          PROVE  [part |-> sent'[i].part, of |-> sent'[i].signature] = IF i = Len(sent) + 1 THEN entry ELSE e(i)
      <4>1. CASE i = Len(sent) + 1
        BY <2>1, <2>2, <4>1
      <4>2. CASE i # Len(sent) + 1
        <5>1. sent'[i] = sent[i]
          BY <1>5, <2>1, <4>2
        <5> QED
          BY <4>2, <5>1
      <4> QED
        BY <4>1, <4>2
    <3> QED
      BY <3>1
  <2> HIDE DEF new, old
  <2> QED
    BY <2>3, <2>4, <2>5
<1>8. Exchange!Read
  <2>1. CASE Len(sent) + 1 = SignatureChunks
    <3>1. auth_state'.type = "ReceivingNonce"
      BY <1>1, <1>2, <2>1 DEF AfterChunk, AuthState
    <3>2. ExchangePhase' = "receiving"
      BY <3>1 DEF ExchangePhase, SignFailed
    <3>3. ExchangeChallenge' = NoSignature
      BY <3>1 DEF ExchangeChallenge
    <3> HIDE DEF entry
    <3> QED
      BY <1>4, <1>6, <1>7, <2>1, <3>2, <3>3 DEF Exchange!Read, entry
  <2>2. CASE Len(sent) + 1 # SignatureChunks
    <3>1. auth_state'.type = "SendingSignature"
      BY <1>1, <1>2, <2>2 DEF AfterChunk, AuthState
    <3>2. ExchangePhase' = "sending"
      BY <3>1 DEF ExchangePhase, SignFailed
    <3>3. ExchangeChallenge' = nonce
      BY <1>1, <3>1 DEF ExchangeChallenge
    <3> QED
      BY <1>4, <1>6, <1>7, <2>2, <3>2, <3>3 DEF Exchange!Read
  <2> QED
    BY <2>1, <2>2
<1> QED
  BY <1>8 DEF Exchange!ANext

\* Every step of the two threads is a step of the exchange or unseen by it.
LEMMA StepRefines == IInv /\ [Next]_vars => [Exchange!ANext]_(Exchange!avars)
<1> SUFFICES ASSUME IInv, [Next]_vars PROVE [Exchange!ANext]_(Exchange!avars)
  OBVIOUS
<1>1. CASE SetNonceCas
  BY <1>1, CasCompletes
<1>2. CASE SignPublish \/ SignHashFails \/ SignSignFails
  BY <1>2, SignerAnswers
<1>3. CASE ChunkCas
  BY <1>3, ChunkRead
<1>4. CASE SetNonceCopy
  <2>1. auth_state.type = "ReceivingNonce"
    BY <1>4 DEF SetNonceCopy, IInv, CasNeverFails, UsbInv
  <2> QED
    BY <1>4, <2>1, Unseen DEF SetNonceCopy, signVars
<1>5. CASE SignClaim
  <2>1. /\ auth_state = sign.current /\ auth_state.type = "WaitingToSign" /\ auth_state \in AuthState
        /\ auth_state' = [auth_state EXCEPT !.type = "Signing"] /\ sign_pc' = "hash" /\ UNCHANGED <<nonce, sent>>
    BY <1>5 DEF SignClaim, IInv, TypeOK, CasNeverFails, SignInv
  <2>2. auth_state'.type = "Signing"
    BY <2>1 DEF AuthState
  <2>3. ExchangePhase = "pending" /\ ExchangePhase' = "pending"
    BY <2>1, <2>2 DEF ExchangePhase, SignFailed
  <2>4. ExchangeChallenge' = ExchangeChallenge /\ ExchangeAnswer' = ExchangeAnswer
    BY <2>1, <2>2 DEF ExchangeChallenge, ExchangeAnswer
  <2> QED
    BY <2>3, <2>4 DEF Exchange!avars
<1>6. CASE SignStart
  <2>1. auth_state.type = "WaitingToSign" /\ UNCHANGED <<auth_state, nonce, sent>>
    BY <1>6 DEF SignStart, IInv, SignInv
  <2> QED
    BY <2>1, Unseen
<1>7. CASE SignHash \/ SignSign
  BY <1>7, Unseen DEF SignHash, SignSign
<1>8. CASE SetNonceSubmit \/ ChunkLoad \/ ChunkCopy \/ Host
  <2>1. UNCHANGED <<auth_state, nonce, sent, sign_pc>>
    BY <1>8 DEF SetNonceSubmit, ChunkLoad, ChunkCopy, Host, SetNonce, GetSignature, GetSigningState, signVars
  <2> QED
    BY <2>1, Unseen
<1>9. CASE UNCHANGED vars
  BY <1>9, Unseen DEF vars
<1> QED
  BY <1>1, <1>2, <1>3, <1>4, <1>5, <1>6, <1>7, <1>8, <1>9 DEF Next, Sign, Handle

\* The two threads, their buffers and their compare-and-swaps implement the
\* exchange of AuthExchange: what the host reads answers the nonce it sent.
THEOREM Refinement == Spec => Exchange!ASpec
<1>1. Init => Exchange!AInit
  <2> SUFFICES ASSUME Init PROVE Exchange!AInit
    OBVIOUS
  <2>1. auth_state.type = "ReceivingNonce" /\ sent = << >>
    BY DEF Init, BootState
  <2>2. ExchangePhase = "receiving" /\ ExchangeChallenge = NoSignature
    BY <2>1, PhaseIs DEF ExchangeChallenge
  <2>3. ExchangeAnswer = << >>
    BY <2>1 DEF ExchangeAnswer
  <2> QED
    BY <2>2, <2>3 DEF Exchange!AInit
<1> QED
  BY <1>1, StepRefines, Invariance, PTL DEF Spec, Exchange!ASpec
=============================================================================
