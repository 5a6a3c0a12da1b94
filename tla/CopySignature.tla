--------------------------- MODULE CopySignature ---------------------------
(***************************************************************************)
(* get_next_signature_chunk and copy_signature of output/usb/ps4/auth.cpp,  *)
(* from the first chunk of a signature to the last.  What the host reads is *)
(* the concatenation of six parts that live in different places; the loop   *)
(* of copy_signature finds the parts a chunk overlaps and copies from each, *)
(* and a chunk that cannot be filled panics.  A byte is named by its part   *)
(* and its place in the part.  The threads are in module PS4Auth.           *)
(***************************************************************************)
EXTENDS Naturals, Sequences, SequencesExt

CONSTANT
    ChunkSize,       \* bytes of signature in a reply (56)
    SignatureChunks  \* replies the host reads (19)

VARIABLES
    next_part,  \* auth_state.next_part: the chunk being read
    part,       \* the loop's position in the list of parts
    offset,     \* where to start in the remaining parts
    buf,        \* what has been copied
    reply,      \* what the host has read so far
    pc          \* "idle", "loop", "end" (of the loop) or "panic"

vars == <<next_part, part, offset, buf, reply, pc>>

\* Mutant: the padding that rounds the parts up to whole chunks is missing.
PartLengthsNoPadding == <<256, 16, 256, 256, 256>>

\* nonce_signature, serial, N, E, the key's signature, padding.
PartLengths == <<256, 16, 256, 256, 256, 24>>

Init ==
    /\ next_part = 0
    /\ part = 1
    /\ offset = 0
    /\ buf = << >>
    /\ reply = << >>
    /\ pc = "idle"

\* A 0xF1 request: the chunk's offset in the reply, and the parts from the first.
Begin ==
    /\ pc = "idle"
    /\ offset' = next_part * ChunkSize
    /\ part' = 1
    /\ buf' = << >>
    /\ reply' = IF next_part = 0 THEN << >> ELSE reply
    /\ pc' = "loop"
    /\ UNCHANGED next_part

Room == ChunkSize - Len(buf)

\* copy_generic and copy_mpi: the rest of the part, or as much as fits.
Bytes == IF PartLengths[part] - offset > Room THEN Room ELSE PartLengths[part] - offset

\* The chunk starts beyond this part.
Skip ==
    /\ pc = "loop"
    /\ offset >= PartLengths[part]
    /\ offset' = offset - PartLengths[part]
    /\ part' = part + 1
    /\ pc' = IF part' > Len(PartLengths) THEN "end" ELSE "loop"
    /\ UNCHANGED <<next_part, buf, reply>>

\* Mutant: the offset into the first part is used for the next one too.
CopyKeepsOffset ==
    /\ pc = "loop"
    /\ offset < PartLengths[part]
    /\ buf' = buf \o [i \in 1 .. Bytes |-> <<part, offset + i>>]
    /\ part' = part + 1
    /\ pc' = IF Len(buf') = ChunkSize \/ part' > Len(PartLengths) THEN "end" ELSE "loop"
    /\ UNCHANGED <<next_part, offset, reply>>

\* The chunk overlaps this part; the loop breaks when the buffer is full.
Copy ==
    /\ pc = "loop"
    /\ offset < PartLengths[part]
    /\ buf' = buf \o [i \in 1 .. Bytes |-> <<part, offset + i>>]
    /\ offset' = 0
    /\ part' = part + 1
    /\ pc' = IF Len(buf') = ChunkSize \/ part' > Len(PartLengths) THEN "end" ELSE "loop"
    /\ UNCHANGED <<next_part, reply>>

\* After the loop: a buffer that is not full panics; a full one is handed to
\* the host, and the chunk after the last is the first of the next signature.
Finish ==
    /\ pc = "end"
    /\ IF Len(buf) < ChunkSize
       THEN pc' = "panic" /\ UNCHANGED <<next_part, reply>>
       ELSE /\ pc' = "idle"
            /\ reply' = reply \o buf
            /\ next_part' = IF next_part + 1 = SignatureChunks THEN 0 ELSE next_part + 1
    /\ UNCHANGED <<part, offset, buf>>

Next == Begin \/ Skip \/ Copy \/ Finish

Spec == Init /\ [][Next]_vars

-----------------------------------------------------------------------------

\* The whole reply: the six parts, end to end.
Whole == FlattenSeq([p \in 1 .. Len(PartLengths) |-> [i \in 1 .. PartLengths[p] |-> <<p, i>>]])

\* What the host has read, with what is being copied, is always a prefix of
\* the six parts end to end: no byte is lost, doubled or out of place where a
\* chunk crosses from one part to the next.
CopiesSlice == pc \in {"loop", "end"} => IsPrefix(reply \o buf, Whole)

\* The parts fill every chunk ("ran out of signature parts?" does not happen)
\* and the chunks hold every part: nothing is left over after the last.
ChunksFit ==
    /\ pc # "panic"
    /\ pc = "idle" /\ next_part = 0 /\ reply # << >> => reply = Whole
=============================================================================
