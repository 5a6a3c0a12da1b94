---------------------------- MODULE PartsProofs ----------------------------
(***************************************************************************)
(* The safety properties of Provisioning, Display and Reports, for every   *)
(* value of their constants, and of CopySignature, for the sizes of the    *)
(* code, as theorems about the composition that the run checks.  A step of *)
(* another part leaves a part's variables alone, so that each part has an  *)
(* invariant of its own.                                                   *)
(***************************************************************************)
EXTENDS Integers, MCParts, SequenceTheorems, TLAPS

\* A step of the composition is, for each part, a step of that part or none.
LEMMA PartsStep ==
  ASSUME [PartsNext]_partVars
  PROVE  /\ [Copying!Next]_copyVars
         /\ [Keeping!Next]_keepVars
         /\ [Showing!Next]_showVars
         /\ [Reporting!Next]_reportVars
<1>1. CASE Write \/ Light \/ Choose
  BY <1>1 DEF Write, Light, Choose, Part, Rest
<1>6. CASE Copy
  BY <1>6 DEF Copy, Part, Rest
<1>2. CASE Keep
  BY <1>2 DEF Keep, Part, Rest
<1>3. CASE Show
  BY <1>3 DEF Show, Part, Rest
<1>4. CASE Report
  BY <1>4 DEF Report, Part, Rest
<1>5. CASE UNCHANGED partVars
  BY <1>5 DEF partVars
<1> QED
  BY <1>1, <1>2, <1>3, <1>4, <1>5, <1>6 DEF PartsNext

-----------------------------------------------------------------------------
(* Provisioning                                                            *)

KeyBytes == [image : Images \cup {None}, at : Nat]
Packets == [image : Images, first : Nat, end : 0 .. Capacity]

KeepType ==
    /\ keyBuffer \in [Keeping!Places -> KeyBytes \ {Keeping!Erased}]
    /\ flash \in [Keeping!Places -> KeyBytes]
    /\ length \in 0 .. Capacity /\ written \in 0 .. Capacity
    /\ flush \in {"no", "erase", "write"}
    /\ accepted \in Seq(Packets)
    /\ ~up => ~pd

Covers(k, i) == accepted[k].first <= i /\ i < accepted[k].end

\* Each place of the buffer has the byte of the last packet that covers it,
\* zero where there is none, and the length is the highest end of a packet.
BufferInv ==
    /\ \A i \in Keeping!Places :
        \/ keyBuffer[i] = Keeping!Zero /\ \A k \in 1 .. Len(accepted) : ~Covers(k, i)
        \/ \E k \in 1 .. Len(accepted) :
            /\ Covers(k, i) /\ keyBuffer[i] = Keeping!Byte(accepted[k].image, i)
            /\ \A l \in 1 .. Len(accepted) : Covers(l, i) => l <= k
    /\ \A k \in 1 .. Len(accepted) : accepted[k].end <= length
    /\ length # 0 => \E k \in 1 .. Len(accepted) : accepted[k].end = length

\* The flash is written from its beginning, while nothing is expected of it.
FlashInv ==
    /\ \A i, j \in Keeping!Places : i <= j /\ flash[j] # Keeping!Erased => flash[i] # Keeping!Erased
    /\ flush = "write" =>
        /\ expect = None /\ written <= length
        /\ \A i \in Keeping!Places : flash[i] = IF i < written THEN keyBuffer[i] ELSE Keeping!Erased

KeepInv == KeepType /\ BufferInv /\ FlashInv /\ FlushedAsSent

\* The buffer and what has been accepted stay as they are.
LEMMA BufferKept ==
  ASSUME KeepInv, UNCHANGED <<keyBuffer, length, accepted>>
  PROVE  BufferInv'
BY DEF KeepInv, BufferInv, Covers

\* The packets accepted end within the buffer.
LEMMA EndsTyped ==
  ASSUME KeepInv
  PROVE  \A k \in 1 .. Len(accepted) : accepted[k].end \in Nat
<1>1. \A k \in 1 .. Len(accepted) : accepted[k] \in Packets
  BY DEF KeepInv, KeepType
<1>2. \A p \in Packets : p.end \in Nat
  BY KeepingAssumption DEF Packets
<1> QED
  BY <1>1, <1>2

\* At boot nothing has been sent and the flash is erased.
LEMMA KeepStart == PartsInit => KeepInv
<1> SUFFICES ASSUME Keeping!Init PROVE KeepInv
  BY DEF PartsInit
<1>1. Keeping!Zero \in KeyBytes \ {Keeping!Erased} /\ Keeping!Erased \in KeyBytes
  BY DEF KeyBytes, Keeping!Zero, Keeping!Erased, Keeping!Byte
<1>2. KeepType
  BY <1>1, KeepingAssumption DEF Keeping!Init, KeepType
<1>3. BufferInv /\ FlashInv
  BY DEF Keeping!Init, BufferInv, FlashInv
<1>4. FlushedAsSent
  BY DEF Keeping!Init, FlushedAsSent, Keeping!FlushedAsSent
<1> QED
  BY <1>2, <1>3, <1>4 DEF KeepInv

\* A packet that fits is laid over the buffer and comes last.
LEMMA PacketAccepted ==
  ASSUME KeepInv, NEW m \in Images, NEW o \in Keeping!Offsets, NEW n \in 0 .. RequestSize, Keeping!Write(m, o, n)
  PROVE  KeepInv'
<1>1. o \in Nat /\ n \in Nat /\ PacketSize \in Nat
  BY KeepingAssumption DEF Keeping!Offsets
<1>2. PICK first \in Nat : first = o * PacketSize
  BY <1>1
<1>5. accepted \in Seq(Packets)
  BY DEF KeepInv, KeepType
<1> PICK N \in Nat : N = Len(accepted)
  BY <1>5
<1> DEFINE end == first + n
           packet == [image |-> m, first |-> first, end |-> end]
<1>3. /\ keyBuffer' = [i \in Keeping!Places |-> IF first <= i /\ i < end THEN Keeping!Byte(m, i) ELSE keyBuffer[i]]
      /\ length' = IF end > length THEN end ELSE length
      /\ accepted' = Append(accepted, packet)
      /\ flush = "no" /\ end <= Capacity
      /\ UNCHANGED <<up, pd, flush, written, flash, expect, losses>>
  BY <1>2 DEF Keeping!Write, Keeping!LengthAfter
<1>4. packet \in Packets
  BY <1>1, <1>3 DEF Packets
<1>6. /\ Len(accepted') = N + 1 /\ accepted'[N + 1] = packet
      /\ \A k \in 1 .. N : accepted'[k] = accepted[k]
  BY <1>3, <1>4, <1>5
<1>7. \A i \in Keeping!Places : Keeping!Byte(m, i) \in KeyBytes \ {Keeping!Erased}
  BY KeepingAssumption DEF Keeping!Places, KeyBytes, Keeping!Erased, Keeping!Byte
<1>8. KeepType'
  BY <1>1, <1>3, <1>4, <1>5, <1>7 DEF KeepInv, KeepType
<1>9. FlashInv' /\ FlushedAsSent'
  BY <1>3 DEF KeepInv, FlashInv, FlushedAsSent, Keeping!FlushedAsSent
<1>10. BufferInv'
  <2>1. packet.first = first /\ packet.end = end /\ packet.image = m
    OBVIOUS
  <2> HIDE DEF packet
  <2>2. ASSUME NEW i \in Keeping!Places
        PROVE  \/ keyBuffer'[i] = Keeping!Zero /\ \A k \in 1 .. N + 1 : ~Covers(k, i)'
               \/ \E k \in 1 .. N + 1 :
                   /\ Covers(k, i)' /\ keyBuffer'[i] = Keeping!Byte(accepted'[k].image, i)
                   /\ \A l \in 1 .. N + 1 : Covers(l, i)' => l <= k
    <3>1. CASE first <= i /\ i < end
      <4>1. Covers(N + 1, i)' /\ keyBuffer'[i] = Keeping!Byte(accepted'[N + 1].image, i)
        BY <1>3, <1>6, <2>1, <3>1 DEF Covers
      <4> QED
        BY <1>5, <4>1
    <3>2. CASE ~(first <= i /\ i < end)
      <4>1. ~Covers(N + 1, i)' /\ keyBuffer'[i] = keyBuffer[i]
        BY <1>3, <1>6, <2>1, <3>2 DEF Covers
      <4>2. \A k \in 1 .. N : Covers(k, i)' <=> Covers(k, i)
        BY <1>6 DEF Covers
      <4>3. CASE keyBuffer[i] = Keeping!Zero /\ \A k \in 1 .. N : ~Covers(k, i)
        BY <1>5, <4>1, <4>2, <4>3
      <4>4. ASSUME NEW k \in 1 .. N, Covers(k, i), keyBuffer[i] = Keeping!Byte(accepted[k].image, i),
                   \A l \in 1 .. N : Covers(l, i) => l <= k
            PROVE  /\ k \in 1 .. N + 1
                   /\ Covers(k, i)' /\ keyBuffer'[i] = Keeping!Byte(accepted'[k].image, i)
                   /\ \A l \in 1 .. N + 1 : Covers(l, i)' => l <= k
        BY <1>5, <1>6, <4>1, <4>2, <4>4
      <4> QED
        BY <4>3, <4>4 DEF KeepInv, BufferInv
    <3> QED
      BY <3>1, <3>2
  <2>3. end \in Nat /\ length \in Nat
    BY <1>1 DEF KeepInv, KeepType
  <2>4. \A k \in 1 .. N : accepted[k].end <= length /\ accepted[k].end \in Nat
    BY EndsTyped DEF KeepInv, BufferInv
  <2>5. \A k \in 1 .. N + 1 : accepted'[k].end <= length'
    BY <1>3, <1>5, <1>6, <2>1, <2>3, <2>4
  <2>6. length' # 0 => \E k \in 1 .. N + 1 : accepted'[k].end = length'
    <3>1. CASE end > length
      BY <1>3, <1>5, <1>6, <2>1, <3>1
    <3>2. CASE ~(end > length)
      <4>1. length' = length
        BY <1>3, <3>2
      <4>2. length # 0 => \E k \in 1 .. N : accepted[k].end = length
        BY DEF KeepInv, BufferInv
      <4> QED
        BY <1>5, <1>6, <4>1, <4>2
    <3> QED
      BY <3>1, <3>2
  <2> QED
    BY <1>6, <2>2, <2>5, <2>6 DEF BufferInv
<1> QED
  BY <1>8, <1>9, <1>10 DEF KeepInv

\* The greatest element of a set of numbers.
LEMMA MaxIs ==
  ASSUME NEW S \in SUBSET Nat, NEW x \in S, \A y \in S : y <= x
  PROVE  Keeping!Max(S) = x
<1>1. \A y \in S : x >= y
  OBVIOUS
<1>2. \A z \in S : (\A y \in S : z >= y) => z = x
  OBVIOUS
<1> QED
  BY <1>1, <1>2 DEF Keeping!Max

\* A write that has come to its end has stored what was sent.
LEMMA StoredIsSent ==
  ASSUME KeepInv, flush = "write", written = length
  PROVE  flash = Keeping!Sent(accepted)
<1> DEFINE N == Len(accepted)
           covering(i) == {k \in 1 .. N : accepted[k].first <= i /\ i < accepted[k].end}
           ends == {0} \cup {accepted[k].end : k \in 1 .. N}
           top == Keeping!Max(ends)
<1>1. accepted \in Seq(Packets) /\ N \in Nat /\ length \in Nat
  BY DEF KeepInv, KeepType
<1>2. top = length
  <2>1. ends \in SUBSET Nat
    BY EndsTyped
  <2>2. length \in ends
    BY DEF KeepInv, BufferInv
  <2>3. \A y \in ends : y <= length
    BY <1>1 DEF KeepInv, BufferInv
  <2> HIDE DEF ends
  <2> QED
    BY <2>1, <2>2, <2>3, MaxIs
<1>3. ASSUME NEW i \in Keeping!Places
      PROVE  flash[i] = IF covering(i) # {} THEN Keeping!Byte(accepted[Keeping!Max(covering(i))].image, i)
                        ELSE IF i < top THEN Keeping!Zero ELSE Keeping!Erased
  <2>1. flash[i] = IF i < length THEN keyBuffer[i] ELSE Keeping!Erased
    BY DEF KeepInv, FlashInv
  <2>2. i \in Nat
    BY DEF Keeping!Places
  <2>3. CASE keyBuffer[i] = Keeping!Zero /\ \A k \in 1 .. N : ~Covers(k, i)
    BY <1>2, <2>1, <2>3 DEF Covers
  <2>4. ASSUME NEW k \in 1 .. N, Covers(k, i), keyBuffer[i] = Keeping!Byte(accepted[k].image, i),
               \A l \in 1 .. N : Covers(l, i) => l <= k
        PROVE  /\ covering(i) # {} /\ i < length
               /\ flash[i] = Keeping!Byte(accepted[Keeping!Max(covering(i))].image, i)
    <3>1. k \in covering(i) /\ covering(i) \in SUBSET Nat /\ \A l \in covering(i) : l <= k
      BY <1>1, <2>4 DEF Covers
    <3>2. Keeping!Max(covering(i)) = k
      <4> HIDE DEF covering
      <4> QED
        BY <3>1, MaxIs
    <3>3. accepted[k].end <= length /\ i < accepted[k].end /\ accepted[k].end \in Nat
      BY <2>4, EndsTyped DEF KeepInv, BufferInv, Covers
    <3>4. i < length
      BY <1>1, <2>2, <3>3
    <3> QED
      BY <2>1, <2>4, <3>1, <3>2, <3>4
  <2> QED
    BY <2>3, <2>4 DEF KeepInv, BufferInv
<1>4. flash \in [Keeping!Places -> KeyBytes]
  BY DEF KeepInv, KeepType
<1> QED
  BY <1>3, <1>4 DEF Keeping!Sent

\* A flush: erased, written byte by byte, done, or given up anywhere.
LEMMA FlushInv ==
  ASSUME KeepInv, Keeping!Flush
  PROVE  KeepInv'
<1>1. UNCHANGED <<keyBuffer, length, accepted, up, pd>>
  BY DEF Keeping!Flush, Keeping!FlushOpen, Keeping!FlushErase, Keeping!FlushWrite, Keeping!FlushDone, Keeping!FlushFails
<1>2. BufferInv'
  BY <1>1, BufferKept
<1>3. Keeping!Erased \in KeyBytes
  BY DEF KeyBytes, Keeping!Erased, Keeping!Byte
<1>4. CASE Keeping!FlushOpen \/ Keeping!FlushFails
  <2>1. KeepType'
    BY <1>1, <1>4, KeepingAssumption DEF KeepInv, KeepType, Keeping!FlushOpen, Keeping!FlushFails
  <2>2. FlashInv' /\ FlushedAsSent'
    BY <1>1, <1>4 DEF KeepInv, FlashInv, FlushedAsSent, Keeping!FlushedAsSent, Keeping!FlushOpen, Keeping!FlushFails
  <2> QED
    BY <1>2, <2>1, <2>2 DEF KeepInv
<1>5. CASE Keeping!FlushErase
  <2>1. KeepType'
    BY <1>1, <1>3, <1>5, KeepingAssumption DEF KeepInv, KeepType, Keeping!FlushErase
  <2>2. FlashInv'
    BY <1>1, <1>5 DEF KeepInv, KeepType, FlashInv, Keeping!FlushErase, Keeping!Places
  <2>3. FlushedAsSent'
    BY <1>5 DEF FlushedAsSent, Keeping!FlushedAsSent, Keeping!FlushErase
  <2> QED
    BY <1>2, <2>1, <2>2, <2>3 DEF KeepInv
<1>6. CASE Keeping!FlushWrite
  <2>1. /\ flush = "write" /\ flush' = "write" /\ expect' = expect /\ expect = None
        /\ written' = written + 1 /\ written < length
        /\ flash' = [flash EXCEPT ![written] = keyBuffer[written]]
    BY <1>6 DEF Keeping!FlushWrite, KeepInv, FlashInv
  <2>2. written \in Keeping!Places /\ length \in 0 .. Capacity /\ Capacity \in Nat
    BY <2>1, KeepingAssumption DEF KeepInv, KeepType, Keeping!Places
  <2>3. keyBuffer[written] \in KeyBytes \ {Keeping!Erased}
    BY <2>2 DEF KeepInv, KeepType
  <2>4. KeepType'
    BY <1>1, <2>1, <2>2, <2>3 DEF KeepInv, KeepType, Keeping!Places
  <2>5. \A i \in Keeping!Places : flash'[i] = IF i < written' THEN keyBuffer[i] ELSE Keeping!Erased
    BY <2>1, <2>2 DEF KeepInv, KeepType, FlashInv, Keeping!Places
  <2>6. \A i \in Keeping!Places : keyBuffer[i] # Keeping!Erased
    BY DEF KeepInv, KeepType
  <2>7. \A i, j \in Keeping!Places : i <= j /\ flash'[j] # Keeping!Erased => flash'[i] # Keeping!Erased
    BY <2>1, <2>2, <2>5, <2>6 DEF Keeping!Places
  <2>8. FlashInv'
    BY <1>1, <2>1, <2>2, <2>5, <2>7 DEF FlashInv, Keeping!Places
  <2>9. FlushedAsSent'
    BY <2>1 DEF FlushedAsSent, Keeping!FlushedAsSent
  <2> QED
    BY <1>2, <2>4, <2>8, <2>9 DEF KeepInv
<1>7. CASE Keeping!FlushDone
  <2>1. flash = Keeping!Sent(accepted)
    BY <1>7, StoredIsSent DEF Keeping!FlushDone
  <2>2. FlushedAsSent'
    BY <1>7, <2>1 DEF Keeping!FlushDone, FlushedAsSent, Keeping!FlushedAsSent
  <2>3. KeepType'
    BY <1>1, <1>7, KeepingAssumption DEF KeepInv, KeepType, Keeping!FlushDone
  <2>4. FlashInv'
    BY <1>7 DEF KeepInv, FlashInv, Keeping!FlushDone
  <2> QED
    BY <1>2, <2>2, <2>3, <2>4 DEF KeepInv
<1> QED
  BY <1>4, <1>5, <1>6, <1>7 DEF Keeping!Flush

\* Every step of the key partition keeps the invariant.
LEMMA KeepStep == KeepInv /\ [Keeping!Next]_keepVars => KeepInv'
<1> SUFFICES ASSUME KeepInv, [Keeping!Next]_keepVars PROVE KeepInv'
  OBVIOUS
<1>1. CASE Keeping!Boot
  <2>1. UNCHANGED <<keyBuffer, length, accepted, flush, written, flash, expect>> /\ up'
    BY <1>1 DEF Keeping!Boot
  <2>2. BufferInv'
    BY <2>1, BufferKept
  <2> QED
    BY <2>1, <2>2 DEF KeepInv, KeepType, FlashInv, FlushedAsSent, Keeping!FlushedAsSent
<1>2. CASE Keeping!PowerLoss
  <2>1. Keeping!Zero \in KeyBytes \ {Keeping!Erased}
    BY DEF KeyBytes, Keeping!Zero, Keeping!Erased, Keeping!Byte
  <2>2. KeepType'
    BY <1>2, <2>1, KeepingAssumption DEF KeepInv, KeepType, Keeping!PowerLoss
  <2>3. BufferInv'
    BY <1>2 DEF BufferInv, Keeping!PowerLoss
  <2>4. FlashInv' /\ FlushedAsSent'
    BY <1>2 DEF KeepInv, FlashInv, FlushedAsSent, Keeping!FlushedAsSent, Keeping!PowerLoss
  <2> QED
    BY <2>2, <2>3, <2>4 DEF KeepInv
<1>3. CASE UNCHANGED keepVars
  BY <1>3, BufferKept DEF keepVars, KeepInv, KeepType, FlashInv, FlushedAsSent, Keeping!FlushedAsSent
<1> QED
  BY <1>1, <1>2, <1>3, FlushInv, PacketAccepted DEF Keeping!Next

\* A flush that succeeded has stored what the host sent, and it stays.
THEOREM FlushSafe == PartsSpec => []FlushedAsSent
<1>1. KeepInv /\ [PartsNext]_partVars => KeepInv'
  BY PartsStep, KeepStep
<1>2. KeepInv => FlushedAsSent
  BY DEF KeepInv
<1> QED
  BY KeepStart, <1>1, <1>2, PTL DEF PartsSpec

\* provisioning_init takes no partition cut before the end of its board name,
\* at whatever byte of a flush the power was lost.
THEOREM NameSafe == PartsSpec => TakenHasName
<1> DEFINE Taken == ~up /\ pd' => \E e \in 1 .. NameEnd :
                      Keeping!Terminates(flash[e]) /\ \A i \in 0 .. e : flash[i] # Keeping!Erased
<1>1. KeepInv /\ [PartsNext]_partVars => KeepInv'
  BY PartsStep, KeepStep
<1>2. KeepInv /\ [PartsNext]_partVars => [Taken]_(Keeping!vars)
  <2> SUFFICES ASSUME KeepInv, [PartsNext]_partVars, ~up, pd' PROVE Taken
    OBVIOUS
  <2>1. [Keeping!Next]_keepVars
    BY PartsStep
  <2>2. ~pd
    BY DEF KeepInv, KeepType
  <2>3. Keeping!PartitionValid
    BY <2>1, <2>2 DEF Keeping!Next, Keeping!Boot, Keeping!PowerLoss, Keeping!Write, Keeping!Flush, Keeping!FlushOpen,
      Keeping!FlushErase, Keeping!FlushWrite, Keeping!FlushDone, Keeping!FlushFails, keepVars
  <2>4. PICK e \in 1 .. NameEnd : Keeping!Terminates(flash[e])
    BY <2>3 DEF Keeping!PartitionValid, Keeping!NameTerminated
  <2>5. flash[e] # Keeping!Erased
    BY <2>4 DEF Keeping!Terminates, Keeping!Zero, Keeping!Erased, Keeping!Byte
  <2>6. \A i \in 0 .. e : flash[i] # Keeping!Erased
    BY <2>5, KeepingAssumption DEF KeepInv, FlashInv, Keeping!Places
  <2> QED
    BY <2>4, <2>6
<1> QED
  BY KeepStart, <1>1, <1>2, PTL DEF PartsSpec, TakenHasName, Keeping!TakenHasName

-----------------------------------------------------------------------------
(* Display                                                                 *)

\* A transfer is at one of the four cells, and the panel has these cells; a
\* drawing of the shell that nobody interrupted has left the frame dirty.
SendingInv == sending \in 0 .. 4 /\ panel \in [Showing!Places -> {panel[c] : c \in Showing!Places}]
DrawingInv == drawing # << >> /\ initialized /\ ~dropped => dirty

ShowInv == SendingInv /\ DrawingInv /\ FrameNotLost

\* The panel has four cells.
LEMMA FourPlaces == Showing!Places = 1 .. 4 /\ Len(Showing!Cells) = 4
  BY DEF Showing!Places, Showing!Cells

\* At boot the framebuffer and the panel are blank alike.
LEMMA ShowStart == PartsInit => ShowInv
  BY FourPlaces DEF PartsInit, Showing!Init, ShowInv, SendingInv, DrawingInv, FrameNotLost, Showing!FrameNotLost

\* The drawings by cooperative threads: what they change is marked dirty and
\* submitted.
LEMMA ShowsInv ==
    ASSUME ShowInv, NEW row, NEW s, NEW m, Showing!DisplayInit \/ Showing!Shows(row, s, m)
    PROVE  ShowInv'
  <1>1. UNCHANGED <<sending, panel, failed, drawing>>
    BY DEF Showing!DisplayInit, Showing!Shows
  <1>2. \/ initialized' /\ dirty' /\ blitWork'
        \/ ~initialized'
    BY DEF Showing!DisplayInit, Showing!Shows
  <1>3. SendingInv'
    BY <1>1 DEF ShowInv, SendingInv
  <1>4. FrameNotLost' /\ DrawingInv'
    BY <1>2 DEF FrameNotLost, Showing!FrameNotLost, DrawingInv
  <1>5. QED
    BY <1>3, <1>4 DEF ShowInv

\* The drawings by the shell: dirty from their beginning, submitted at the end.
LEMMA ShellInv ==
    ASSUME ShowInv, NEW row, NEW s, NEW m, Showing!ShellShows(row, s, m) \/ Showing!ShellShown
    PROVE  ShowInv'
  <1>1. UNCHANGED <<initialized, sending, panel, failed, dropped>>
    BY DEF Showing!ShellShows, Showing!ShellShown
  <1>2. SendingInv'
    BY <1>1 DEF ShowInv, SendingInv
  <1>3. CASE Showing!ShellShows(row, s, m)
    <2>1. initialized => dirty' /\ drawing' # << >>
      BY <1>3 DEF Showing!ShellShows
    <2>2. QED
      BY <1>1, <1>2, <2>1 DEF ShowInv, DrawingInv, FrameNotLost, Showing!FrameNotLost
  <1>4. CASE Showing!ShellShown
    <2>1. initialized /\ ~dropped => dirty' /\ blitWork'
      BY <1>4 DEF Showing!ShellShown, ShowInv, DrawingInv
    <2>2. QED
      BY <1>1, <1>2, <1>4, <2>1 DEF Showing!ShellShown, ShowInv, DrawingInv, FrameNotLost, Showing!FrameNotLost
  <1>5. QED
    BY <1>3, <1>4

\* Whoever draws marks the cells that change.
LEMMA DrawInv ==
    ASSUME ShowInv, Showing!Draw
    PROVE  ShowInv'
  <1>1. PICK row, s, m : Showing!Shows(row, s, m) \/ Showing!ShellShows(row, s, m)
    BY DEF Showing!Draw, Showing!DriverShows, Showing!UpdateLatency, Showing!SetLocked, Showing!SetConnectionType, Showing!MenuDraw
  <1>2. QED
    BY <1>1, ShowsInv, ShellInv

\* The transfer
LEMMA BlitInv ==
    ASSUME ShowInv, Showing!Blit
    PROVE  ShowInv'
  <1>1. CASE Showing!BlitStart
    <2>1. SendingInv'
      BY <1>1, FourPlaces DEF Showing!BlitStart, ShowInv, SendingInv
    <2>2. ~dropped' => ~dropped /\ (dirty => drawing = << >>)
      BY <1>1, Zenon DEF Showing!BlitStart
    <2>3. DrawingInv'
      BY <1>1, <2>2 DEF Showing!BlitStart, ShowInv, DrawingInv
    <2>4. FrameNotLost'
      BY <1>1, <2>2, FourPlaces DEF Showing!BlitStart, ShowInv, FrameNotLost, Showing!FrameNotLost
    <2>5. QED
      BY <2>1, <2>3, <2>4 DEF ShowInv
  <1>2. CASE Showing!BlitSend
    <2>1. sending \in Showing!Places
      BY <1>2, FourPlaces DEF Showing!BlitSend, ShowInv, SendingInv
    <2>2. SendingInv'
      BY <1>2, <2>1, FourPlaces DEF Showing!BlitSend, ShowInv, SendingInv
    <2>3. \A c \in Showing!Places : panel'[c] = IF c = sending THEN frame'[c] ELSE panel[c]
      BY <1>2, <2>1 DEF Showing!BlitSend, ShowInv, SendingInv
    <2>4. \A c \in Showing!Places : c >= sending /\ c # sending => sending' # 0 /\ c >= sending'
      BY <1>2, <2>1, FourPlaces DEF Showing!BlitSend
    <2>5. FrameNotLost'
      BY <1>2, <2>3, <2>4, FourPlaces DEF Showing!BlitSend, ShowInv, FrameNotLost, Showing!FrameNotLost
    <2>6. DrawingInv'
      BY <1>2 DEF Showing!BlitSend, ShowInv, DrawingInv
    <2>7. QED
      BY <2>2, <2>5, <2>6 DEF ShowInv
  <1>3. CASE Showing!BlitFails
    BY <1>3 DEF Showing!BlitFails, ShowInv, SendingInv, DrawingInv, FrameNotLost, Showing!FrameNotLost
  <1>4. QED
    BY <1>1, <1>2, <1>3 DEF Showing!Blit

\* Every step of the display keeps the invariant.
LEMMA ShowStep == ShowInv /\ [Showing!Next]_showVars => ShowInv'
<1> SUFFICES ASSUME ShowInv, [Showing!Next]_showVars PROVE ShowInv'
  OBVIOUS
<1>1. CASE UNCHANGED showVars
  BY <1>1 DEF showVars, ShowInv, SendingInv, DrawingInv, FrameNotLost, Showing!FrameNotLost
<1> QED
  BY <1>1, ShowsInv, ShellInv, DrawInv, BlitInv DEF Showing!Next

\* A cell the panel shows otherwise than the framebuffer is still to be sent,
\* although Display::blit marks the frame clean before it sends it and drawers
\* interrupt it anywhere, as long as it has not interrupted the shell.
THEOREM FrameSafe == PartsSpec => []FrameNotLost
<1>1. ShowInv /\ [PartsNext]_partVars => ShowInv'
  BY PartsStep, ShowStep
<1>2. ShowInv => FrameNotLost
  BY DEF ShowInv
<1> QED
  BY ShowStart, <1>1, <1>2, PTL DEF PartsSpec

-----------------------------------------------------------------------------
(* Reports                                                                 *)

\* The touchpad's data has the last touch; the counter of the next report
\* follows that of the last; an answer that waits was made from this state.
TouchInv ==
    /\ p1.unpressed \in BOOLEAN /\ p1.data[2] \in Nat
    /\ Reporting!ShowsTouch(p1)
CountInv ==
    /\ last_report_counter \in 0 .. CounterRange - 1
    /\ last # None => last_report_counter % ReportRange = (last + 1) % ReportRange
AnswerInv ==
    answer # None =>
        /\ Reporting!AnswerFits
        /\ answer.report # None =>
            /\ Reporting!ShowsInput(answer.report, answer.input)
            /\ reportHid = "PS4" => answer.report.touch = p1 /\ Reporting!CountsOn(answer.report)

\* The values of 12 bits
Coordinates == 0 .. 4095

ReportInv == reportHid \in {"NX", "PS3", "PS4"} /\ TouchInv /\ CountInv /\ AnswerInv

\* The nibbles of a byte
LEMMA NibblesOf ==
  ASSUME NEW b \in Nat
  PROVE  /\ Reporting!Low(b) \in 0 .. 15 /\ Reporting!High(b) \in Nat
         /\ b = Reporting!Low(b) + 16 * Reporting!High(b)
BY DEF Reporting!Low, Reporting!High

\* The coordinates come out of the sensor's three bytes as they went in.
LEMMA SensedBack ==
  ASSUME NEW x \in Coordinates, NEW y \in Coordinates
  PROVE  /\ Reporting!SensedX(Reporting!Sensed(x, y)) = x
         /\ Reporting!SensedY(Reporting!Sensed(x, y)) = y
<1>1. PICK xh \in 0 .. 15, xl \in Nat : xh = x \div 256 /\ xl = x % 256 /\ x = 256 * xh + xl
  BY DEF Coordinates
<1>2. PICK yh \in 0 .. 15, yl \in Nat : yh = y \div 256 /\ yl = y % 256 /\ y = 256 * yh + yl
  BY DEF Coordinates
<1>3. PICK b : b = Reporting!Sensed(x, y)
  OBVIOUS
<1>4. b[1] = xh + 16 * yh /\ b[2] = xl /\ b[3] = yl
  BY <1>1, <1>2, <1>3 DEF Reporting!Sensed
<1>5. Reporting!Low(b[1]) = xh /\ Reporting!High(b[1]) = yh
  BY <1>4 DEF Reporting!Low, Reporting!High
<1>6. Reporting!Low(xl) \in Nat /\ Reporting!High(xl) \in Nat /\ xl = Reporting!Low(xl) + 16 * Reporting!High(xl)
  BY NibblesOf
<1>7. Reporting!Low(yl) \in Nat /\ Reporting!High(yl) \in Nat /\ yl = Reporting!Low(yl) + 16 * Reporting!High(yl)
  BY NibblesOf
<1>8. Reporting!SensedX(b) = 256 * xh + 16 * Reporting!High(xl) + Reporting!Low(xl)
  BY <1>4, <1>5 DEF Reporting!SensedX
<1>9. Reporting!SensedY(b) = 256 * yh + 16 * Reporting!High(yl) + Reporting!Low(yl)
  BY <1>4, <1>5 DEF Reporting!SensedY
<1>10. Reporting!SensedX(b) = x
  BY <1>1, <1>6, <1>8
<1>11. Reporting!SensedY(b) = y
  BY <1>2, <1>7, <1>9
<1> QED
  BY <1>3, <1>10, <1>11

\* set_x and then set_y lay out both coordinates in three bytes, although
\* they share the second, whatever was there before.
LEMMA PointLaidOut ==
  ASSUME NEW x \in Coordinates, NEW y \in Coordinates, NEW d, d[2] \in Nat
  PROVE  /\ Reporting!HostPoint(Reporting!SetY(Reporting!SetX(d, x), y)) = <<x, y>>
         /\ Reporting!SetY(Reporting!SetX(d, x), y)[2] \in Nat
<1>1. PICK xh \in 0 .. 15, xl \in Nat : xh = x \div 256 /\ xl = x % 256 /\ x = xl + 256 * xh
  BY DEF Coordinates
<1>2. PICK yl \in 0 .. 15, yh \in Nat : yl = y % 16 /\ yh = y \div 16 /\ y = yl + 16 * yh
  BY DEF Coordinates
<1>3. yh % 256 = yh
  BY <1>2 DEF Coordinates
<1>4. PICK old \in Nat : old = Reporting!High(d[2])
  BY NibblesOf
<1>5. PICK e : e = Reporting!SetX(d, x)
  OBVIOUS
<1>6. PICK f : f = Reporting!SetY(e, y)
  OBVIOUS
<1>7. Reporting!Low(xh) = xh
  BY DEF Reporting!Low
<1>8. e[1] = xl /\ e[2] = xh + 16 * old
  BY <1>1, <1>4, <1>5, <1>7 DEF Reporting!SetX
<1>9. Reporting!Low(e[2]) = xh
  BY <1>8 DEF Reporting!Low
<1>10. f[1] = xl /\ f[2] = xh + 16 * yl /\ f[3] = yh
  <2>1. Reporting!Low(y) = yl
    BY <1>2 DEF Reporting!Low
  <2> QED
    BY <1>2, <1>3, <1>6, <1>8, <1>9, <2>1 DEF Reporting!SetY
<1>11. f[2] \in Nat /\ Reporting!Low(f[2]) = xh /\ Reporting!High(f[2]) = yl
  BY <1>10 DEF Reporting!Low, Reporting!High
<1>12. Reporting!HostPoint(f) = <<xl + 256 * xh, yl + 16 * yh>>
  BY <1>10, <1>11 DEF Reporting!HostPoint
<1> QED
  BY <1>1, <1>2, <1>5, <1>6, <1>11, <1>12

\* A point comes out of the report where the finger is, whatever place the
\* touchpad's data had before.
LEMMA PointBack ==
  ASSUME NEW point \in Points, NEW d, d[2] \in Nat
  PROVE  LET b == Reporting!Sensed(point[1], point[2])
             f == Reporting!SetY(Reporting!SetX(d, Reporting!SensedX(b)), Reporting!SensedY(b))
         IN  Reporting!HostPoint(f) = point /\ f[2] \in Nat
<1>1. point \in Coordinates \X Coordinates
  BY ReportingAssumption DEF Coordinates
<1>2. point[1] \in Coordinates /\ point[2] \in Coordinates /\ point = <<point[1], point[2]>>
  BY <1>1
<1>3. PICK x, y : x = point[1] /\ y = point[2]
  OBVIOUS
<1>4. x \in Coordinates /\ y \in Coordinates
  BY <1>2, <1>3
<1>5. Reporting!SensedX(Reporting!Sensed(x, y)) = x /\ Reporting!SensedY(Reporting!Sensed(x, y)) = y
  BY <1>4, SensedBack
<1>6. /\ Reporting!HostPoint(Reporting!SetY(Reporting!SetX(d, x), y)) = <<x, y>>
      /\ Reporting!SetY(Reporting!SetX(d, x), y)[2] \in Nat
  BY <1>4, PointLaidOut
<1> QED
  BY <1>2, <1>3, <1>5, <1>6

\* A remainder is what is left of a multiple; only it is.
LEMMA ModDef ==
  ASSUME NEW a \in Nat, NEW m \in Nat \ {0}
  PROVE  \E q \in Nat : a = q * m + (a % m) /\ a % m \in 0 .. m - 1
<1>1. a % m \in 0 .. m - 1
  BY Z3
<1>2. a = (a \div m) * m + (a % m) /\ a \div m \in Nat
  BY Z3
<1> QED
  BY <1>1, <1>2

\* A greater multiple is greater by the factor at least.
LEMMA MultipleGreater ==
  ASSUME NEW m \in Nat, NEW p \in Nat, NEW q \in Nat, p < q
  PROVE  p * m + m <= q * m
<1>1. PICK d \in Nat : q = p + 1 + d
  <2>1. q - p - 1 \in Nat
    OBVIOUS
  <2> QED
    BY <2>1
<1>2. q * m = p * m + m + d * m
  BY <1>1
<1>3. d * m >= 0 /\ d * m \in Int /\ p * m \in Int
  OBVIOUS
<1> QED
  BY <1>2, <1>3

\* A remainder is the remainder.
LEMMA ModIs ==
  ASSUME NEW m \in Nat \ {0}, NEW q \in Nat, NEW r \in 0 .. m - 1, NEW a \in Nat, a = q * m + r
  PROVE  a % m = r
<1>1. PICK p \in Nat : a = p * m + (a % m) /\ a % m \in 0 .. m - 1
  BY ModDef
<1>2. PICK s \in 0 .. m - 1 : s = a % m
  BY <1>1
<1>3. p * m + s = q * m + r /\ p * m \in Nat /\ q * m \in Nat
  BY <1>1, <1>2
<1>4. ~(p < q)
  <2> SUFFICES ASSUME p < q PROVE FALSE
    OBVIOUS
  <2>1. p * m + m <= q * m
    BY MultipleGreater
  <2> QED
    BY <1>3, <2>1
<1>5. ~(q < p)
  <2> SUFFICES ASSUME q < p PROVE FALSE
    OBVIOUS
  <2>1. q * m + m <= p * m
    BY MultipleGreater
  <2> QED
    BY <1>3, <2>1
<1>6. p = q
  BY <1>4, <1>5
<1> QED
  BY <1>2, <1>3, <1>6

\* The low bits of a counter count on, where the counter wraps too.
LEMMA CounterWraps ==
  ASSUME NEW c \in 0 .. CounterRange - 1
  PROVE  ((c + 1) % CounterRange) % ReportRange = ((c % ReportRange) + 1) % ReportRange
<1>1. PICK R \in Nat \ {0}, C \in Nat \ {0} : R = ReportRange /\ C = CounterRange /\ C % R = 0
  BY ReportingAssumption
<1>2. c \in Nat /\ c + 1 <= C
  BY <1>1
<1>3. PICK q \in Nat, r \in 0 .. R - 1 : c = q * R + r /\ r = c % R
  BY <1>2, ModDef
<1>4. PICK a \in Nat : a = c + 1
  BY <1>2
<1>5. a % R = (r + 1) % R
  <2>1. a = q * R + r + 1 /\ q * R \in Nat
    <3>1. c = q * R + r
      BY <1>3, Zenon
    <3>2. q * R \in Nat
      OBVIOUS
    <3> QED
      BY <1>4, <3>1, <3>2
  <2>2. CASE r + 1 < R
    <3>1. a = q * R + (r + 1) /\ r + 1 \in 0 .. R - 1
      BY <2>1, <2>2
    <3>2. a % R = r + 1
      BY <3>1, ModIs
    <3>3. r + 1 = 0 * R + (r + 1)
      OBVIOUS
    <3>4. (r + 1) % R = r + 1
      BY <3>1, <3>3, ModIs
    <3> QED
      BY <3>2, <3>4
  <2>3. CASE r + 1 = R
    <3>1. a = (q + 1) * R + 0 /\ r + 1 = 1 * R + 0 /\ q + 1 \in Nat
      BY <2>1, <2>3
    <3>2. a % R = 0
      BY <3>1, ModIs
    <3>3. (r + 1) % R = 0
      BY <3>1, ModIs
    <3> QED
      BY <3>2, <3>3
  <2> QED
    BY <2>2, <2>3
<1>6. CASE c + 1 < C
  <2>1. c + 1 = 0 * C + (c + 1) /\ c + 1 \in 0 .. C - 1
    BY <1>2, <1>6
  <2>2. (c + 1) % C = c + 1
    BY <1>2, <2>1, ModIs
  <2> QED
    BY <1>1, <1>3, <1>4, <1>5, <2>2
<1>7. CASE c + 1 = C
  <2>1. c + 1 = 1 * C + 0 /\ 0 = 0 * R + 0
    BY <1>7
  <2>2. (c + 1) % C = 0 /\ 0 % R = 0
    BY <1>2, <2>1, ModIs
  <2>3. (r + 1) % R = 0
    BY <1>1, <1>4, <1>5, <1>7
  <2> QED
    BY <1>1, <1>3, <2>2, <2>3
<1> QED
  BY <1>2, <1>6, <1>7

\* Each console's hat decodes to the direction it was made from.
LEMMA HatBack ==
  ASSUME NEW h, NEW s \in Reporting!StickStates
  PROVE  Reporting!HostDpad(Reporting!Dpad(h, s)) = s
<1>1. Len(Reporting!Compass) = 8
  BY DEF Reporting!Compass
<1>2. CASE s = "Neutral"
  BY <1>2 DEF Reporting!HostDpad, Reporting!Dpad
<1>3. CASE s # "Neutral"
  <2>1. \E i \in 1 .. 8 : Reporting!Compass[i] = s
    BY <1>1, <1>3 DEF Reporting!StickStates
  <2>2. PICK i \in 1 .. 8 : i = (CHOOSE j \in 1 .. 8 : Reporting!Compass[j] = s) /\ Reporting!Compass[i] = s
    BY <2>1
  <2>3. Reporting!Dpad(h, s) = i - 1
    BY <1>1, <1>3, <2>2 DEF Reporting!Dpad, Reporting!Hat
  <2>4. i - 1 < 8 /\ (i - 1) + 1 = i
    OBVIOUS
  <2> QED
    BY <2>2, <2>3, <2>4 DEF Reporting!HostDpad
<1> QED
  BY <1>2, <1>3

\* At boot there is no touch, no report and no answer.
LEMMA ReportStart == PartsInit => ReportInv
<1> SUFFICES ASSUME Reporting!Init PROVE ReportInv
  BY DEF PartsInit
<1>1. reportHid \in {"NX", "PS3", "PS4"}
  BY ReportingAssumption DEF Reporting!Init
<1>2. TouchInv
  BY DEF Reporting!Init, TouchInv, Reporting!ShowsTouch
<1>3. CountInv
  BY ReportingAssumption DEF Reporting!Init, CountInv
<1>4. AnswerInv
  BY DEF Reporting!Init, AnswerInv
<1> QED
  BY <1>1, <1>2, <1>3, <1>4 DEF ReportInv

\* The touchpad is polled while no answer waits.
LEMMA TouchStep ==
  ASSUME ReportInv, Reporting!Touchpad
  PROVE  ReportInv'
<1>1. answer' = None /\ UNCHANGED <<reportHid, last_report_counter, last>>
  BY DEF Reporting!Touchpad, Reporting!PollSkips, Reporting!PollReleased, Reporting!PollFails, Reporting!PollTouched,
    Reporting!Reads
<1>2. AnswerInv' /\ CountInv' /\ reportHid' \in {"NX", "PS3", "PS4"}
  BY <1>1 DEF ReportInv, AnswerInv, CountInv
<1>3. TouchInv'
  <2>1. CASE Reporting!PollSkips \/ Reporting!PollFails
    BY <2>1 DEF Reporting!PollSkips, Reporting!PollFails, ReportInv, TouchInv, Reporting!ShowsTouch
  <2>2. CASE Reporting!PollReleased
    <3>1. p1' = [p1 EXCEPT !.unpressed = TRUE] /\ finger' = None /\ touches' = touches
      BY <2>2 DEF Reporting!PollReleased
    <3>2. p1'.unpressed /\ p1'.unpressed \in BOOLEAN /\ p1'.counter = touches' /\ p1'.data[2] \in Nat
      BY <3>1 DEF ReportInv, TouchInv, Reporting!ShowsTouch
    <3> QED
      BY <3>1, <3>2 DEF TouchInv, Reporting!ShowsTouch
  <2>3. ASSUME NEW point \in Points, Reporting!PollTouched(point)
        PROVE  TouchInv'
    <3>1. PICK d : d = p1.data /\ d[2] \in Nat
      BY DEF ReportInv, TouchInv
    <3>2. PICK b : b = Reporting!Sensed(point[1], point[2])
      OBVIOUS
    <3>3. PICK f : f = Reporting!SetY(Reporting!SetX(d, Reporting!SensedX(b)), Reporting!SensedY(b))
      OBVIOUS
    <3>4. Reporting!HostPoint(f) = point /\ f[2] \in Nat
      BY <3>1, <3>2, <3>3, PointBack
    <3>5. /\ p1'.data = f /\ p1'.unpressed = FALSE /\ finger' = point
          /\ p1'.counter = IF p1.unpressed THEN (p1.counter + 1) % TouchRange ELSE p1.counter
          /\ touches' = IF finger = None THEN (touches + 1) % TouchRange ELSE touches
      BY <2>3, <3>1, <3>2, <3>3 DEF Reporting!PollTouched
    <3>6. p1'.counter = touches'
      <4>1. p1.counter = touches /\ (p1.unpressed <=> finger = None)
        BY Zenon DEF ReportInv, TouchInv, Reporting!ShowsTouch
      <4> QED
        BY <3>5, <4>1, Zenon
    <3>7. finger' # None
      <4>1. None \notin Points
        BY ReportingAssumption, Zenon
      <4> QED
        BY <3>5, <4>1, Zenon
    <3> QED
      BY <3>4, <3>5, <3>6, <3>7, Zenon DEF TouchInv, Reporting!ShowsTouch
  <2> QED
    BY <2>1, <2>2, <2>3 DEF Reporting!Touchpad
<1> QED
  BY <1>2, <1>3 DEF ReportInv

\* An input report is made from the input, the touch and the counter of now.
LEMMA InputStep ==
  ASSUME ReportInv, NEW len \in Lengths, NEW input \in Reporting!Inputs, Reporting!GetInputReport(len, input)
  PROVE  ReportInv'
<1>1. UNCHANGED <<reportHid, p1, finger, touches>>
  BY DEF Reporting!GetInputReport, Reporting!touchVars
<1>2. TouchInv' /\ reportHid' \in {"NX", "PS3", "PS4"}
  BY <1>1 DEF ReportInv, TouchInv, Reporting!ShowsTouch
<1>3. CountInv'
  <2>1. CASE UNCHANGED <<last_report_counter, last>>
    BY <2>1 DEF ReportInv, CountInv
  <2>2. CASE last_report_counter' = Reporting!CounterAfter /\ last' = last_report_counter % ReportRange
    <3>1. PICK c \in 0 .. CounterRange - 1 : c = last_report_counter
      BY DEF ReportInv, CountInv
    <3>2. last_report_counter' = (c + 1) % CounterRange /\ last' = c % ReportRange
      BY <2>2, <3>1 DEF Reporting!CounterAfter
    <3>3. (c + 1) % CounterRange \in 0 .. CounterRange - 1
      <4>1. PICK a \in Nat, C \in Nat \ {0} : a = c + 1 /\ C = CounterRange
        BY ReportingAssumption
      <4>2. a % C \in 0 .. C - 1
        BY ModDef
      <4> QED
        BY <4>1, <4>2
    <3> QED
      BY <3>2, <3>3, CounterWraps DEF CountInv
  <2> QED
    BY <2>1, <2>2 DEF Reporting!GetInputReport
<1>4. AnswerInv'
  <2>1. CASE len # 64
    <3>1. answer' = [asked |-> len, length |-> -1, report |-> None, input |-> None, after |-> last]
      BY <2>1 DEF Reporting!GetInputReport, Reporting!Answer
    <3>2. answer'.report = None /\ answer'.length <= answer'.asked
      BY <3>1, ReportingAssumption
    <3> QED
      BY <3>2 DEF AnswerInv, Reporting!AnswerFits
  <2>2. CASE len = 64
    <3> DEFINE made == Reporting!InputReport(reportHid, input)
    <3>1. answer' = [asked |-> len, length |-> Reporting!InputLength(reportHid), report |-> made,
                     input |-> input, after |-> last]
      BY <2>2 DEF Reporting!GetInputReport, Reporting!Answer
    <3>2. /\ answer'.asked = 64 /\ answer'.length = Reporting!InputLength(reportHid)
          /\ answer'.report = made /\ answer'.input = input /\ answer'.after = last
      BY <2>2, <3>1
    <3>3. Reporting!AnswerFits'
      BY <3>2 DEF Reporting!AnswerFits, Reporting!InputLength, ReportInv
    <3>4. /\ made.dpad = Reporting!Dpad(reportHid, input.dpad)
          /\ made.buttons = Reporting!PadButtons(reportHid, input.buttons)
          /\ reportHid = "PS4" => made.touch = p1 /\ made.report_counter = last_report_counter % ReportRange
      BY DEF Reporting!InputReport
    <3> HIDE DEF made
    <3>5. Reporting!ShowsInput(made, input)
      <4>1. input.dpad \in Reporting!StickStates
        BY DEF Reporting!Inputs
      <4>2. Reporting!HostDpad(made.dpad) = input.dpad
        BY <3>4, <4>1, HatBack
      <4>3. made.buttons \cup {"touchpad"} = input.buttons \cup {"touchpad"}
        BY <3>4 DEF Reporting!PadButtons
      <4> QED
        BY <4>2, <4>3 DEF Reporting!ShowsInput
    <3>6. Reporting!ShowsInput(answer'.report, answer'.input)
      BY <3>2, <3>5
    <3>7. reportHid' = "PS4" => answer'.report.touch = p1' /\ Reporting!CountsOn(answer.report)'
      BY <1>1, <3>2, <3>4 DEF ReportInv, CountInv, Reporting!CountsOn
    <3> QED
      BY <3>3, <3>6, <3>7 DEF AnswerInv, Reporting!ShowsInput
  <2> QED
    BY <2>1, <2>2
<1> QED
  BY <1>2, <1>3, <1>4 DEF ReportInv

\* An answer without an input report fits.
LEMMA OtherStep ==
  ASSUME ReportInv, NEW len \in Lengths,
         Reporting!GetReportPL(len) \/ \E id \in Reporting!FeatureIds : Reporting!GetFeatureReport(id, len)
  PROVE  ReportInv'
<1>1. UNCHANGED <<reportHid, p1, finger, touches, last_report_counter, last>>
  BY DEF Reporting!GetReportPL, Reporting!GetFeatureReport, Reporting!touchVars
<1>2. TouchInv' /\ CountInv' /\ reportHid' \in {"NX", "PS3", "PS4"}
  BY <1>1 DEF ReportInv, TouchInv, CountInv, Reporting!ShowsTouch
<1>3. len \in Nat /\ len >= 1 /\ VersionLength \in Nat
  BY ReportingAssumption
<1>4. \E n \in Int : n <= len /\ Reporting!Answer(len, n, None, None)
  <2>1. CASE Reporting!GetReportPL(len)
    <3>1. PICK n \in {Reporting!Min({len, VersionLength}), 1} : Reporting!Answer(len, n, None, None)
      BY <2>1 DEF Reporting!GetReportPL
    <3>2. Reporting!Min({len, VersionLength}) \in Nat /\ Reporting!Min({len, VersionLength}) <= len
      <4>1. \E l \in {len, VersionLength} : \A m \in {len, VersionLength} : l <= m
        BY <1>3
      <4> QED
        BY <1>3, <4>1 DEF Reporting!Min
    <3> QED
      BY <1>3, <3>1, <3>2
  <2>2. ASSUME NEW id \in Reporting!FeatureIds, Reporting!GetFeatureReport(id, len)
        PROVE  \E n \in Int : n <= len /\ Reporting!Answer(len, n, None, None)
    <3>1. PICK n \in Reporting!FeatureLengths(reportHid, id, len) : Reporting!Answer(len, n, None, None)
      BY <2>2 DEF Reporting!GetFeatureReport
    <3>2. n \in Int /\ n <= len
      BY <1>3, <3>1 DEF ReportInv, Reporting!FeatureLengths, Reporting!PS4FeatureLengths, Reporting!PS3FeatureLengths
    <3> QED
      BY <3>1, <3>2
  <2> QED
    BY <2>1, <2>2
<1>5. answer'.report = None /\ answer'.length <= answer'.asked
  BY <1>4 DEF Reporting!Answer
<1>6. AnswerInv'
  BY <1>5 DEF AnswerInv, Reporting!AnswerFits
<1> QED
  BY <1>2, <1>6 DEF ReportInv

\* Every step of the reports keeps the invariant.
LEMMA ReportStep == ReportInv /\ [Reporting!Next]_reportVars => ReportInv'
<1> SUFFICES ASSUME ReportInv, [Reporting!Next]_reportVars PROVE ReportInv'
  OBVIOUS
<1>1. CASE Reporting!HostTakes \/ UNCHANGED reportVars
  <2>1. UNCHANGED <<reportHid, p1, finger, touches, last_report_counter, last>> /\ (answer' = None \/ answer' = answer)
    BY <1>1 DEF Reporting!HostTakes, Reporting!touchVars, reportVars
  <2>2. TouchInv' /\ CountInv' /\ reportHid' \in {"NX", "PS3", "PS4"}
    BY <2>1 DEF ReportInv, TouchInv, CountInv, Reporting!ShowsTouch
  <2>3. AnswerInv'
    BY <2>1 DEF ReportInv, AnswerInv, Reporting!AnswerFits, Reporting!ShowsInput, Reporting!CountsOn
  <2> QED
    BY <2>2, <2>3 DEF ReportInv
<1> QED
  BY <1>1, TouchStep, InputStep, OtherStep DEF Reporting!Next

\* Whatever the host asks for, and whatever touches, failed reads and requests
\* came before, an answer fits and decodes to what it was made from.
THEOREM ReadSafe == PartsSpec => []HostReads
<1>1. ReportInv /\ [PartsNext]_partVars => ReportInv'
  BY PartsStep, ReportStep
<1>2. ReportInv => HostReads
  BY DEF ReportInv, TouchInv, AnswerInv, HostReads, Reporting!HostReads
<1> QED
  BY ReportStart, <1>1, <1>2, PTL DEF PartsSpec

-----------------------------------------------------------------------------
(* Signature replies                                                       *)

\* Where the six parts start in the whole reply, and where it ends.
Starts == <<0, 256, 272, 528, 784, 1040, 1064>>
Total == 1064
ReplyBytes == Nat \X Nat

\* s is the beginning of the six parts, end to end.
IsFront(s) ==
    /\ s \in Seq(ReplyBytes) /\ Len(s) <= Total
    /\ \A p \in 1 .. 6 : \A i \in 1 .. Copying!PartLengths[p] :
         Starts[p] + i <= Len(s) => s[Starts[p] + i] = <<p, i>>

\* t has n bytes of part k, from offset o on.
IsSlice(t, k, o, n) == t \in Seq(ReplyBytes) /\ Len(t) = n /\ \A i \in 1 .. n : t[i] = <<k, o + i>>

\* s ends at offset o of part k.
EndsAt(s, k, o) == Len(s) = Starts[k] + o

\* The parts follow one another, from the beginning to the end.
LEMMA StartsAre == Starts[1] = 0 /\ Starts[7] = Total /\ Len(Copying!PartLengths) = 6
BY DEF Starts, Copying!PartLengths, Total

\* ... each where the one before it ends
LEMMA PartAt ==
  ASSUME NEW p \in 1 .. 6
  PROVE  /\ Starts[p] \in Nat /\ Copying!PartLengths[p] \in Nat
         /\ Starts[p + 1] = Starts[p] + Copying!PartLengths[p] /\ Starts[p + 1] <= Total
BY DEF Starts, Copying!PartLengths, Total

\* ... and none before the end of an earlier one.
LEMMA PartsOrdered ==
  ASSUME NEW p \in 1 .. 6, NEW q \in 1 .. 6, p < q
  PROVE  Starts[p + 1] <= Starts[q]
BY DEF Starts

\* Every byte is in a part.
LEMMA Located ==
  ASSUME NEW j \in 1 .. Total
  PROVE  \E p \in 1 .. 6 : j - Starts[p] \in 1 .. Copying!PartLengths[p]
<1>1. /\ 1 \in 1 .. 6 /\ 2 \in 1 .. 6 /\ 3 \in 1 .. 6 /\ 4 \in 1 .. 6 /\ 5 \in 1 .. 6 /\ 6 \in 1 .. 6
      /\ Starts[1] = 0 /\ Starts[2] = 256 /\ Starts[3] = 272 /\ Starts[4] = 528 /\ Starts[5] = 784 /\ Starts[6] = 1040
      /\ Copying!PartLengths[1] = 256 /\ Copying!PartLengths[2] = 16 /\ Copying!PartLengths[3] = 256
      /\ Copying!PartLengths[4] = 256 /\ Copying!PartLengths[5] = 256 /\ Copying!PartLengths[6] = 24
  BY DEF Starts, Copying!PartLengths
<1>2. \/ j \in 1 .. 256
      \/ j - 256 \in 1 .. 16
      \/ j - 272 \in 1 .. 256
      \/ j - 528 \in 1 .. 256
      \/ j - 784 \in 1 .. 256
      \/ j - 1040 \in 1 .. 24
  BY DEF Total
<1>3. CASE j \in 1 .. 256
  <2>1. j - 0 = j
    OBVIOUS
  <2> QED
    BY <1>1, <1>3, <2>1
<1>4. CASE j - 256 \in 1 .. 16
  BY <1>1, <1>4
<1>5. CASE j - 272 \in 1 .. 256
  BY <1>1, <1>5
<1>6. CASE j - 528 \in 1 .. 256
  BY <1>1, <1>6
<1>7. CASE j - 784 \in 1 .. 256
  BY <1>1, <1>7
<1>8. CASE j - 1040 \in 1 .. 24
  BY <1>1, <1>8
<1> QED
  BY <1>2, <1>3, <1>4, <1>5, <1>6, <1>7, <1>8

\* Bytes, and more of them.
LEMMA Concatenated ==
  ASSUME NEW s \in Seq(ReplyBytes), NEW t \in Seq(ReplyBytes), NEW u, u = s \o t, NEW n, n = Len(s)
  PROVE  /\ u \in Seq(ReplyBytes) /\ Len(u) = n + Len(t) /\ Len(t) \in Nat
         /\ \A i \in 1 .. n : u[i] = s[i]
         /\ \A i \in 1 .. Len(t) : u[n + i] = t[i]
OBVIOUS

\* Bytes of the next part, from where the reply has got to.
LEMMA FrontGrows ==
  ASSUME NEW s, IsFront(s), NEW k \in 1 .. 6, NEW o \in Nat, EndsAt(s, k, o),
         NEW n \in Nat, o + n <= Copying!PartLengths[k],
         NEW t, IsSlice(t, k, o, n)
  PROVE  IsFront(s \o t) /\ Len(s \o t) = Len(s) + n
<1>1. t \in Seq(ReplyBytes) /\ Len(t) = n /\ \A i \in 1 .. n : t[i] = <<k, o + i>>
  BY DEF IsSlice
<1>2. s \in Seq(ReplyBytes)
  BY DEF IsFront
<1>3. PICK u : u = s \o t
  OBVIOUS
<1>4. PICK N \in Nat : N = Len(s)
  BY <1>2
<1>5. /\ u \in Seq(ReplyBytes) /\ Len(u) = N + n
      /\ \A i \in 1 .. N : u[i] = s[i]
      /\ \A i \in 1 .. n : u[N + i] = t[i]
  <2>1. t \in Seq(ReplyBytes)
    BY <1>1
  <2>2. /\ u \in Seq(ReplyBytes) /\ Len(u) = N + Len(t) /\ Len(t) \in Nat
        /\ \A i \in 1 .. N : u[i] = s[i]
        /\ \A i \in 1 .. Len(t) : u[N + i] = t[i]
    BY <1>2, <1>3, <1>4, <2>1, Concatenated
  <2> QED
    BY <1>1, <2>2
<1>6. PICK a \in Nat : a = Starts[k]
  BY PartAt
<1>7. PICK l \in Nat : l = Copying!PartLengths[k]
  BY PartAt
<1>8. Starts[k + 1] = a + l /\ a + l <= Total
  <2>1. Starts[k + 1] = Starts[k] + Copying!PartLengths[k] /\ Starts[k + 1] <= Total
    BY PartAt
  <2> QED
    BY <1>6, <1>7, <2>1
<1>9. N = a + o /\ N + n <= a + l /\ N + n <= Total
  <2>1. N = a + o /\ o + n <= l /\ Total \in Nat
    BY <1>4, <1>6, <1>7 DEF Total, EndsAt
  <2> QED
    BY <1>8, <2>1
<1>10. ASSUME NEW p \in 1 .. 6, NEW i \in 1 .. Copying!PartLengths[p], Starts[p] + i <= N + n
       PROVE  u[Starts[p] + i] = <<p, i>>
  <2>1. PICK b \in Nat : b = Starts[p]
    BY PartAt
  <2>2. PICK m \in Nat : m = Copying!PartLengths[p]
    BY PartAt
  <2>3. i \in Nat /\ i >= 1 /\ i <= m /\ b + i <= N + n
    BY <1>10, <2>1, <2>2
  <2>4. (p < k => b + m <= a) /\ (k < p => a + l <= b)
    <3>1. p < k => Starts[p + 1] <= Starts[k]
      BY PartsOrdered
    <3>2. k < p => Starts[k + 1] <= Starts[p]
      BY PartsOrdered
    <3>3. Starts[p + 1] = Starts[p] + Copying!PartLengths[p]
      BY PartAt
    <3> QED
      BY <1>6, <1>8, <2>1, <2>2, <3>1, <3>2, <3>3
  <2>5. CASE b + i <= N
    <3>1. b + i \in 1 .. N
      BY <2>3, <2>5
    <3>2. s[b + i] = <<p, i>>
      <4>1. Starts[p] + i <= Len(s)
        BY <1>4, <2>1, <2>5
      <4>2. s[Starts[p] + i] = <<p, i>>
        BY <4>1 DEF IsFront
      <4> QED
        BY <2>1, <4>2
    <3> QED
      BY <1>5, <2>1, <3>1, <3>2
  <2>6. CASE b + i > N
    <3>1. p = k
      BY <1>9, <2>3, <2>4, <2>6
    <3>2. b = a
      BY <1>6, <2>1, <3>1
    <3>3. PICK j \in 1 .. n : j = a + i - N
      BY <1>9, <2>3, <2>6, <3>2
    <3>4. b + i = N + j /\ o + j = i
      BY <1>9, <2>3, <3>2, <3>3
    <3>5. u[N + j] = <<k, o + j>>
      BY <1>1, <1>5
    <3> QED
      BY <2>1, <3>1, <3>4, <3>5
  <2> QED
    BY <2>3, <2>5, <2>6
<1>11. IsFront(u)
  BY <1>5, <1>9, <1>10 DEF IsFront
<1> QED
  BY <1>3, <1>4, <1>5, <1>11

\* A function that lists bytes of a part
LEMMA SliceIs ==
  ASSUME NEW k \in Nat, NEW o \in Nat, NEW n \in Nat, NEW t, t = [i \in 1 .. n |-> <<k, o + i>>]
  PROVE  IsSlice(t, k, o, n)
<1>1. \A i \in 1 .. n : t[i] = <<k, o + i>>
  OBVIOUS
<1>2. t \in Seq(ReplyBytes)
  BY DEF ReplyBytes
<1>3. Len(t) = n
  OBVIOUS
<1> QED
  BY <1>1, <1>2, <1>3 DEF IsSlice

\* s is the parts before the m-th.
Flat(s, m) == IsFront(s) /\ Len(s) = Starts[m]

\* One part after another
LEMMA FlatStep ==
  ASSUME NEW s, NEW k \in 1 .. 6, NEW m, m = k + 1, Flat(s, k), NEW t, IsSlice(t, k, 0, Copying!PartLengths[k])
  PROVE  Flat(s \o t, m)
<1>1. PICK n : n = Copying!PartLengths[k]
  OBVIOUS
<1>2. n \in Nat
  BY <1>1, PartAt
<1>3. PICK o \in Nat : o = 0
  OBVIOUS
<1>4. IsSlice(t, k, o, n)
  BY <1>1, <1>3
<1>5. Starts[k] \in Nat /\ Starts[m] = Starts[k] + n
  BY <1>1, PartAt
<1>6. IsFront(s)
  BY DEF Flat
<1>7. EndsAt(s, k, o)
  BY <1>3, <1>5 DEF EndsAt, Flat
<1>8. o + n <= Copying!PartLengths[k]
  BY <1>1, <1>2, <1>3
<1>9. IsFront(s \o t) /\ Len(s \o t) = Len(s) + n
  BY <1>2, <1>4, <1>6, <1>7, <1>8, FrontGrows
<1> QED
  BY <1>5, <1>9 DEF Flat

\* The six parts, end to end, are their own beginning, and as long as that.
LEMMA WholeIs == IsFront(Copying!Whole) /\ Len(Copying!Whole) = Total
<1>1. PICK q : q = [p \in 1 .. Len(Copying!PartLengths) |-> [i \in 1 .. Copying!PartLengths[p] |-> <<p, i>>]]
  OBVIOUS
<1>2. q = [p \in 1 .. 6 |-> [i \in 1 .. Copying!PartLengths[p] |-> <<p, i>>]]
  BY <1>1, StartsAre
<1>3. Len(q) = 6
  BY <1>2
<1>4. ASSUME NEW p \in 1 .. 6 PROVE IsSlice(q[p], p, 0, Copying!PartLengths[p])
  <2>1. PICK n : n = Copying!PartLengths[p]
    OBVIOUS
  <2>2. n \in Nat
    BY <2>1, PartAt
  <2>3. q[p] = [i \in 1 .. n |-> <<p, i>>]
    BY <1>2, <2>1
  <2>4. q[p] = [i \in 1 .. n |-> <<p, 0 + i>>]
    BY <2>2, <2>3
  <2>5. p \in Nat /\ 0 \in Nat
    OBVIOUS
  <2> QED
    BY <2>1, <2>2, <2>4, <2>5, SliceIs
<1>5. Flat(<< >>, 1)
  <2>1. \A p \in 1 .. 6 : \A i \in 1 .. Copying!PartLengths[p] : ~(Starts[p] + i <= 0)
    BY PartAt
  <2> QED
    BY <2>1, StartsAre DEF IsFront, Total, Flat
<1>6. 1 \in 1 .. 6 /\ 2 \in 1 .. 6 /\ 3 \in 1 .. 6 /\ 4 \in 1 .. 6 /\ 5 \in 1 .. 6 /\ 6 \in 1 .. 6
  OBVIOUS
<1>7. PICK w1 : w1 = q[1]
  OBVIOUS
<1>8. Flat(w1, 2)
  <2>1. << >> \o w1 = w1
    <3>1. w1 \in Seq(ReplyBytes)
      BY <1>4, <1>6, <1>7 DEF IsSlice
    <3> QED
      BY <3>1
  <2>2. 2 = 1 + 1
    OBVIOUS
  <2>3. Flat(<< >> \o q[1], 2)
    BY <1>4, <1>5, <1>6, <2>2, FlatStep, Zenon
  <2> QED
    BY <1>7, <2>1, <2>3
<1>9. 3 = 2 + 1 /\ 4 = 3 + 1 /\ 5 = 4 + 1 /\ 6 = 5 + 1 /\ 7 = 6 + 1
  OBVIOUS
<1>10. PICK w2 : w2 = w1 \o q[2]
  OBVIOUS
<1>11. Flat(w2, 3)
  BY <1>4, <1>6, <1>8, <1>9, <1>10, FlatStep, Zenon
<1>12. PICK w3 : w3 = w2 \o q[3]
  OBVIOUS
<1>13. Flat(w3, 4)
  BY <1>4, <1>6, <1>9, <1>11, <1>12, FlatStep, Zenon
<1>14. PICK w4 : w4 = w3 \o q[4]
  OBVIOUS
<1>15. Flat(w4, 5)
  BY <1>4, <1>6, <1>9, <1>13, <1>14, FlatStep, Zenon
<1>16. PICK w5 : w5 = w4 \o q[5]
  OBVIOUS
<1>17. Flat(w5, 6)
  BY <1>4, <1>6, <1>9, <1>15, <1>16, FlatStep, Zenon
<1>18. PICK w6 : w6 = w5 \o q[6]
  OBVIOUS
<1>19. Flat(w6, 7)
  BY <1>4, <1>6, <1>9, <1>17, <1>18, FlatStep, Zenon
<1> DEFINE Rec(g) == g = [i \in 1 .. Len(q) |-> IF i = 1 THEN q[i] ELSE g[i - 1] \o q[i]]
<1>20. \E g : Rec(g)
  <2>1. PICK g : g = <<w1, w2, w3, w4, w5, w6>>
    OBVIOUS
  <2>2. g[1] = w1 /\ g[2] = w2 /\ g[3] = w3 /\ g[4] = w4 /\ g[5] = w5 /\ g[6] = w6 /\ DOMAIN g = 1 .. 6
    BY <2>1
  <2>3. ASSUME NEW i \in 1 .. 6 PROVE g[i] = IF i = 1 THEN q[i] ELSE g[i - 1] \o q[i]
    <3>1. i = 1 \/ i = 2 \/ i = 3 \/ i = 4 \/ i = 5 \/ i = 6
      OBVIOUS
    <3>2. CASE i = 1
      BY <1>7, <2>2, <3>2
    <3>3. CASE i = 2
      BY <1>10, <2>2, <3>3
    <3>4. CASE i = 3
      BY <1>12, <2>2, <3>4
    <3>5. CASE i = 4
      BY <1>14, <2>2, <3>5
    <3>6. CASE i = 5
      BY <1>16, <2>2, <3>6
    <3>7. CASE i = 6
      BY <1>18, <2>2, <3>7
    <3> QED
      BY <3>1, <3>2, <3>3, <3>4, <3>5, <3>6, <3>7
  <2>4. g = [i \in 1 .. 6 |-> g[i]]
    BY <2>1
  <2>5. Rec(g)
    BY <1>3, <2>3, <2>4
  <2> QED
    BY <2>5
<1>21. PICK f : Rec(f) /\ Copying!Whole = f[6]
  <2>1. Copying!Whole = Copying!FlattenSeq(q)
    BY <1>1 DEF Copying!Whole
  <2>2. Copying!FlattenSeq(q) = (CHOOSE g : Rec(g))[Len(q)]
    BY <1>3 DEF Copying!FlattenSeq
  <2>3. Rec(CHOOSE g : Rec(g))
    <3> HIDE DEF Rec
    <3> QED
      BY <1>20, Zenon
  <2> HIDE DEF Rec
  <2> QED
    BY <1>3, <2>1, <2>2, <2>3
<1>22. f[1] = q[1] /\ \A i, j \in 1 .. 6 : i = j + 1 => f[i] = f[j] \o q[i]
  <2>1. \A i \in 1 .. 6 : f[i] = IF i = 1 THEN q[i] ELSE f[i - 1] \o q[i]
    BY <1>3, <1>21
  <2>2. ASSUME NEW i \in 1 .. 6, NEW j \in 1 .. 6, i = j + 1 PROVE f[i] = f[j] \o q[i]
    <3>1. i - 1 = j /\ i # 1
      BY <2>2
    <3>2. f[i] = f[i - 1] \o q[i]
      BY <2>1, <3>1
    <3> QED
      BY <3>1, <3>2
  <2> QED
    BY <1>6, <2>1, <2>2
<1>23. f[1] = w1
  BY <1>7, <1>22
<1>24. f[2] = w2
  <2>1. 2 = 1 + 1
    OBVIOUS
  <2> QED
    BY <1>6, <1>10, <1>22, <1>23, <2>1, Zenon
<1>25. f[3] = w3
  BY <1>6, <1>9, <1>12, <1>22, <1>24, Zenon
<1>26. f[4] = w4
  BY <1>6, <1>9, <1>14, <1>22, <1>25, Zenon
<1>27. f[5] = w5
  BY <1>6, <1>9, <1>16, <1>22, <1>26, Zenon
<1>28. f[6] = w6
  BY <1>6, <1>9, <1>18, <1>22, <1>27, Zenon
<1> QED
  BY <1>19, <1>21, <1>28, StartsAre DEF Flat

\* A beginning of the parts is a prefix of the whole, and all of it if it is
\* as long.
LEMMA FrontIsPrefix ==
  ASSUME NEW s, IsFront(s)
  PROVE  Copying!IsPrefix(s, Copying!Whole) /\ (Len(s) = Total => s = Copying!Whole)
<1>1. PICK w : w = Copying!Whole
  OBVIOUS
<1>2. IsFront(w) /\ Len(w) = Total
  BY <1>1, WholeIs
<1>3. PICK n \in Nat : n = Len(s)
  BY DEF IsFront
<1>4. n <= Total /\ s \in Seq(ReplyBytes) /\ w \in Seq(ReplyBytes)
  BY <1>2, <1>3 DEF IsFront
<1>5. ASSUME NEW j \in 1 .. n PROVE s[j] = w[j]
  <2>1. j \in 1 .. Total
    BY <1>4 DEF Total
  <2>2. PICK p \in 1 .. 6 : j - Starts[p] \in 1 .. Copying!PartLengths[p]
    BY <2>1, Located
  <2>3. PICK i \in 1 .. Copying!PartLengths[p] : i = j - Starts[p]
    BY <2>2
  <2>4. Starts[p] + i = j
    BY <2>3, PartAt
  <2>5. Starts[p] + i <= Len(s) /\ Starts[p] + i <= Len(w)
    BY <1>2, <1>3, <1>4, <2>1, <2>4
  <2>6. s[Starts[p] + i] = <<p, i>> /\ w[Starts[p] + i] = <<p, i>>
    BY <1>2, <2>5 DEF IsFront
  <2> QED
    BY <2>4, <2>6
<1>6. SubSeq(s, 1, n) = SubSeq(w, 1, n)
  BY <1>5
<1>7. Copying!IsPrefix(s, w)
  BY <1>2, <1>3, <1>4, <1>6 DEF Copying!IsPrefix
<1>8. Len(s) = Total => s = w
  BY <1>2, <1>3, <1>4, <1>5
<1> QED
  BY <1>1, <1>7, <1>8

\* What the host has read is a beginning of the parts, whole chunks of it, and
\* so is that with what is being copied; the loop is where that has got to.
CopyInv ==
    /\ next_part \in 0 .. 18 /\ copyPc \in {"idle", "loop", "end"}
    /\ IsFront(reply)
    /\ copyPc = "idle" => Len(reply) = 56 * next_part \/ (next_part = 0 /\ Len(reply) = Total)
    /\ copyPc # "idle" => Len(reply) = 56 * next_part /\ buf \in Seq(ReplyBytes) /\ IsFront(reply \o buf)
    /\ copyPc = "loop" => part \in 1 .. 6 /\ offset \in Nat /\ Len(buf) < 56 /\ EndsAt(reply \o buf, part, offset)
    /\ copyPc = "end" => Len(buf) = 56

\* Nothing is a beginning.
LEMMA EmptyFront == IsFront(<< >>) /\ Len(<< >>) = 0
<1>1. \A p \in 1 .. 6 : \A i \in 1 .. Copying!PartLengths[p] : ~(Starts[p] + i <= 0)
  BY PartAt
<1> QED
  BY <1>1 DEF IsFront, Total

\* Nothing has been read at first.
LEMMA CopyStart == PartsInit => CopyInv
BY EmptyFront DEF PartsInit, Copying!Init, CopyInv

\* A chunk begins where the last one ended.
LEMMA BeginStep ==
  ASSUME CopyInv, Copying!Begin
  PROVE  CopyInv'
<1>1. /\ copyPc = "idle" /\ copyPc' = "loop" /\ offset' = next_part * 56 /\ part' = 1 /\ buf' = << >>
      /\ reply' = (IF next_part = 0 THEN << >> ELSE reply) /\ next_part' = next_part
  BY DEF Copying!Begin
<1>2. next_part \in 0 .. 18
  BY DEF CopyInv
<1>3. IsFront(reply') /\ Len(reply') = 56 * next_part
  BY <1>1, <1>2, EmptyFront DEF CopyInv
<1>4. reply' \in Seq(ReplyBytes)
  BY <1>3 DEF IsFront
<1>5. reply' \o buf' = reply' /\ buf' \in Seq(ReplyBytes) /\ Len(buf') = 0
  BY <1>1, <1>4
<1>6. EndsAt(reply', 1, next_part * 56)
  BY <1>2, <1>3, StartsAre DEF EndsAt
<1>7. part' \in 1 .. 6 /\ offset' \in Nat /\ EndsAt(reply' \o buf', part', offset')
  BY <1>1, <1>2, <1>5, <1>6
<1>8. copyPc' \in {"idle", "loop", "end"} /\ next_part' \in 0 .. 18
  BY <1>1, <1>2
<1>9. IsFront(reply)' /\ IsFront(reply \o buf)'
  BY <1>3, <1>5 DEF IsFront
<1>10. EndsAt(reply \o buf, part, offset)'
  BY <1>7 DEF EndsAt
<1>11. (Len(reply) = 56 * next_part)' /\ (Len(buf) < 56)'
  BY <1>1, <1>3, <1>5
<1> QED
  BY <1>1, <1>5, <1>7, <1>8, <1>9, <1>10, <1>11 DEF CopyInv

\* A part before the chunk is passed over: there is one after it.
LEMMA SkipStep ==
  ASSUME CopyInv, Copying!Skip
  PROVE  CopyInv'
<1>1. /\ copyPc = "loop" /\ offset >= Copying!PartLengths[part] /\ offset' = offset - Copying!PartLengths[part]
      /\ part' = part + 1 /\ copyPc' = (IF part' > 6 THEN "end" ELSE "loop")
      /\ UNCHANGED <<next_part, buf, reply>>
  BY StartsAre DEF Copying!Skip
<1>2. /\ next_part \in 0 .. 18 /\ IsFront(reply) /\ Len(reply) = 56 * next_part /\ buf \in Seq(ReplyBytes)
      /\ IsFront(reply \o buf) /\ part \in 1 .. 6 /\ offset \in Nat /\ Len(buf) < 56 /\ EndsAt(reply \o buf, part, offset)
  BY <1>1 DEF CopyInv
<1>3. PICK s : s = reply \o buf
  OBVIOUS
<1>4. Len(s) = 56 * next_part + Len(buf) /\ Len(buf) \in Nat
  <2>1. reply \in Seq(ReplyBytes)
    BY <1>2 DEF IsFront
  <2> QED
    BY <1>2, <1>3, <2>1
<1>5. PICK l \in Nat : l = Copying!PartLengths[part]
  BY <1>2, PartAt
<1>6. PICK a \in Nat : a = Starts[part]
  BY <1>2, PartAt
<1>7. Starts[part + 1] = a + l
  BY <1>2, <1>5, <1>6, PartAt
<1>8. Len(s) = a + offset
  BY <1>2, <1>3, <1>6 DEF EndsAt
<1>9. part # 6
  <2> SUFFICES ASSUME part = 6 PROVE FALSE
    OBVIOUS
  <2>1. part + 1 = 7
    OBVIOUS
  <2>2. a + l = 1064
    BY <1>7, <2>1, StartsAre DEF Total
  <2>3. offset \in Nat /\ offset >= l /\ Len(buf) < 56 /\ next_part \in 0 .. 18
    BY <1>1, <1>2, <1>5
  <2> QED
    BY <1>4, <1>8, <2>2, <2>3
<1>10. part' \in 1 .. 6 /\ copyPc' = "loop" /\ offset' \in Nat
  BY <1>1, <1>2, <1>5, <1>9
<1>11. EndsAt(s, part', offset')
  <2>1. Len(s) = (a + l) + (offset - l)
    BY <1>2, <1>8
  <2> QED
    BY <1>1, <1>5, <1>7, <2>1 DEF EndsAt
<1>12. (reply \o buf)' = s
  BY <1>1, <1>3
<1> QED
  BY <1>1, <1>2, <1>3, <1>10, <1>11, <1>12 DEF CopyInv, IsFront, EndsAt

\* Bytes of the part that the chunk has got to: the chunk is full, or the
\* next part begins, and there is one.
LEMMA CopyStep ==
  ASSUME CopyInv, Copying!Copy
  PROVE  CopyInv'
<1>1. PICK t : t = [i \in 1 .. Copying!Bytes |-> <<part, offset + i>>]
  OBVIOUS
<1>2. /\ copyPc = "loop" /\ offset < Copying!PartLengths[part] /\ offset' = 0 /\ buf' = buf \o t
      /\ part' = part + 1 /\ copyPc' = (IF Len(buf') = 56 \/ part' > 6 THEN "end" ELSE "loop")
      /\ UNCHANGED <<next_part, reply>>
  BY <1>1, StartsAre DEF Copying!Copy
<1>3. /\ next_part \in 0 .. 18 /\ IsFront(reply) /\ Len(reply) = 56 * next_part /\ buf \in Seq(ReplyBytes)
      /\ IsFront(reply \o buf) /\ part \in 1 .. 6 /\ offset \in Nat /\ Len(buf) < 56 /\ EndsAt(reply \o buf, part, offset)
  BY <1>2 DEF CopyInv
<1>4. PICK s : s = reply \o buf
  OBVIOUS
<1>5. reply \in Seq(ReplyBytes)
  BY <1>3 DEF IsFront
<1>6. Len(s) = 56 * next_part + Len(buf) /\ Len(buf) \in Nat
  BY <1>3, <1>4, <1>5
<1>7. PICK l \in Nat : l = Copying!PartLengths[part]
  BY <1>3, PartAt
<1>8. PICK a \in Nat : a = Starts[part]
  BY <1>3, PartAt
<1>9. Starts[part + 1] = a + l
  BY <1>3, <1>7, <1>8, PartAt
<1>10. Len(s) = a + offset
  BY <1>3, <1>4, <1>8 DEF EndsAt
<1>11. PICK n \in Nat : n = Copying!Bytes /\ n = IF l - offset > 56 - Len(buf) THEN 56 - Len(buf) ELSE l - offset
  <2>1. Copying!Bytes = IF l - offset > 56 - Len(buf) THEN 56 - Len(buf) ELSE l - offset
    BY <1>7 DEF Copying!Bytes, Copying!Room
  <2>2. offset < l /\ offset \in Nat /\ Len(buf) < 56
    BY <1>2, <1>3, <1>7
  <2> QED
    BY <1>6, <2>1, <2>2
<1>12. offset + n <= l /\ Len(buf) + n <= 56 /\ (offset + n = l \/ Len(buf) + n = 56)
  BY <1>2, <1>3, <1>6, <1>7, <1>11
<1>13. IsSlice(t, part, offset, n)
  <2>1. part \in Nat /\ offset \in Nat
    BY <1>3
  <2>2. t = [i \in 1 .. n |-> <<part, offset + i>>]
    BY <1>1, <1>11
  <2> QED
    BY <2>1, <2>2, SliceIs
<1>14. t \in Seq(ReplyBytes) /\ Len(t) = n
  BY <1>13 DEF IsSlice
<1>15. IsFront(s \o t) /\ Len(s \o t) = Len(s) + n
  <2>1. IsFront(s)
    BY <1>3, <1>4
  <2>2. EndsAt(s, part, offset)
    BY <1>3, <1>4
  <2>3. offset + n <= Copying!PartLengths[part]
    BY <1>7, <1>12
  <2>4. part \in 1 .. 6 /\ offset \in Nat
    BY <1>3
  <2> QED
    BY <1>13, <2>1, <2>2, <2>3, <2>4, FrontGrows
<1>16. buf' \in Seq(ReplyBytes) /\ Len(buf') = Len(buf) + n
  <2>1. buf \in Seq(ReplyBytes) /\ t \in Seq(ReplyBytes)
    BY <1>3, <1>14
  <2>2. buf \o t \in Seq(ReplyBytes) /\ Len(buf \o t) = Len(buf) + Len(t)
    BY <2>1
  <2> QED
    BY <1>2, <1>14, <2>2
<1>17. reply' \o buf' = s \o t
  <2>1. (reply \o buf) \o t = reply \o (buf \o t)
    <3>1. buf \in Seq(ReplyBytes)
      BY <1>3
    <3>2. t \in Seq(ReplyBytes)
      BY <1>14
    <3> QED
      BY <1>5, <3>1, <3>2, ConcatAssociative
  <2> QED
    BY <1>2, <1>4, <2>1
<1>18. IsFront(reply)' /\ IsFront(reply \o buf)'
  BY <1>2, <1>3, <1>15, <1>17 DEF IsFront
<1>19. CASE Len(buf) + n = 56
  <2>1. copyPc' = "end" /\ Len(buf') = 56
    BY <1>2, <1>16, <1>19
  <2> QED
    BY <1>2, <1>3, <1>16, <1>18, <2>1 DEF CopyInv
<1>20. CASE offset + n = l /\ Len(buf) + n < 56
  <2>1. Len(s) + n = a + l
    <3>1. offset \in Nat
      BY <1>3
    <3> QED
      BY <1>10, <1>20, <3>1
  <2>2. part # 6
    <3> SUFFICES ASSUME part = 6 PROVE FALSE
      OBVIOUS
    <3>1. part + 1 = 7
      OBVIOUS
    <3>2. a + l = 1064
      BY <1>9, <3>1, StartsAre DEF Total
    <3>3. next_part \in 0 .. 18
      BY <1>3
    <3> QED
      BY <1>6, <1>11, <1>20, <2>1, <3>2, <3>3
  <2>3. part' \in 1 .. 6 /\ copyPc' = "loop" /\ Len(buf') < 56
    BY <1>2, <1>3, <1>6, <1>16, <1>20, <2>2
  <2>4. EndsAt(s \o t, part', 0)
    <3>1. Len(s \o t) = (a + l) + 0
      BY <1>15, <2>1
    <3> QED
      BY <1>2, <1>9, <3>1 DEF EndsAt
  <2>5. EndsAt(reply \o buf, part, offset)'
    BY <1>2, <1>17, <2>4 DEF EndsAt
  <2> QED
    BY <1>2, <1>3, <1>16, <1>18, <2>3, <2>5 DEF CopyInv
<1> QED
  BY <1>6, <1>11, <1>12, <1>19, <1>20

\* A chunk that is full goes to the host; the last one completes the whole.
LEMMA FinishStep ==
  ASSUME CopyInv, Copying!Finish
  PROVE  CopyInv'
<1>1. copyPc = "end" /\ Len(buf) = 56
  BY DEF CopyInv, Copying!Finish
<1>2. /\ copyPc' = "idle" /\ reply' = reply \o buf
      /\ next_part' = IF next_part + 1 = 19 THEN 0 ELSE next_part + 1
  BY <1>1 DEF Copying!Finish
<1>3. next_part \in 0 .. 18 /\ IsFront(reply) /\ Len(reply) = 56 * next_part /\ buf \in Seq(ReplyBytes) /\ IsFront(reply \o buf)
  BY <1>1 DEF CopyInv
<1>4. Len(reply') = 56 * next_part + 56
  <2>1. reply \in Seq(ReplyBytes) /\ buf \in Seq(ReplyBytes)
    BY <1>3 DEF IsFront
  <2>2. Len(reply \o buf) = Len(reply) + Len(buf)
    BY <2>1
  <2> QED
    BY <1>1, <1>2, <1>3, <2>2
<1>5. IsFront(reply)'
  BY <1>2, <1>3 DEF IsFront
<1>6. next_part' \in 0 .. 18 /\ (Len(reply') = 56 * next_part' \/ (next_part' = 0 /\ Len(reply') = Total))
  BY <1>2, <1>3, <1>4 DEF Total
<1> QED
  BY <1>2, <1>5, <1>6 DEF CopyInv

\* Every step of a reply keeps the invariant.
LEMMA CopyingStep == CopyInv /\ [Copying!Next]_copyVars => CopyInv'
<1> SUFFICES ASSUME CopyInv, [Copying!Next]_copyVars PROVE CopyInv'
  OBVIOUS
<1>1. CASE UNCHANGED copyVars
  BY <1>1 DEF copyVars, CopyInv, IsFront, EndsAt
<1> QED
  BY <1>1, BeginStep, SkipStep, CopyStep, FinishStep DEF Copying!Next

\* What the host has read of a signature is always a prefix of its six parts,
\* end to end: copy_signature loses, doubles and misplaces no byte where a
\* chunk crosses from one part to the next.
THEOREM SliceSafe == PartsSpec => []CopiesSlice
<1>1. CopyInv /\ [PartsNext]_partVars => CopyInv'
  BY PartsStep, CopyingStep
<1>2. CopyInv => CopiesSlice
  BY FrontIsPrefix DEF CopyInv, CopiesSlice, Copying!CopiesSlice
<1> QED
  BY CopyStart, <1>1, <1>2, PTL DEF PartsSpec

\* The parts fill every chunk, so that copy_signature does not panic, and the
\* chunks hold every part: the last one ends the whole.
THEOREM FitSafe == PartsSpec => []ChunksFit
<1>1. CopyInv /\ [PartsNext]_partVars => CopyInv'
  BY PartsStep, CopyingStep
<1>2. CopyInv => ChunksFit
  <2> SUFFICES ASSUME CopyInv PROVE ChunksFit
    OBVIOUS
  <2>1. copyPc # "panic"
    BY DEF CopyInv
  <2>2. ASSUME copyPc = "idle", next_part = 0, reply # << >> PROVE reply = Copying!Whole
    <3>1. IsFront(reply) /\ reply \in Seq(ReplyBytes)
      BY DEF CopyInv, IsFront
    <3>2. Len(reply) # 0
      BY <2>2, <3>1
    <3>3. Len(reply) = Total
      BY <2>2, <3>2 DEF CopyInv
    <3> QED
      BY <3>1, <3>3, FrontIsPrefix
  <2> QED
    BY <2>1, <2>2 DEF ChunksFit, Copying!ChunksFit
<1> QED
  BY CopyStart, <1>1, <1>2, PTL DEF PartsSpec
=============================================================================
