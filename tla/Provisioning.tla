---------------------------- MODULE Provisioning ----------------------------
(***************************************************************************)
(* The key partition: provisioning.cpp and the provisioning reports of      *)
(* output/usb/hid.cpp.  The host sends an image in packets, each with its   *)
(* place, into a buffer in memory, and then asks for the buffer to be       *)
(* flushed to flash.  Packets may come in any order, repeated, cut short or *)
(* from another image; the flash operations may fail; power may be lost     *)
(* between any two steps, and memory with it.                               *)
(*                                                                         *)
(* A byte is named by its image and its place in it.  The image starts with *)
(* the version, then the board name, whose last byte ends the string; the   *)
(* pointer to the key and the key follow.                                   *)
(***************************************************************************)
EXTENDS Naturals, Sequences, FiniteSetsExt

CONSTANTS
    Images,      \* the images a host may send
    PacketSize,  \* bytes between the places of two packets (62)
    RequestSize, \* bytes a packet may have: what the USB stack's request buffer
                 \* holds of them (254, or 4094 in scripts/build.sh)
    Capacity,    \* sizeof(provisioning_buffer), and the partition (4096)
    NameEnd,     \* the last byte of board_name
    None,        \* no image; nothing expected
    MaxPackets,  \* bound: packets between two boots
    MaxLosses    \* bound: losses of power

Places == 0 .. Capacity - 1
Byte(m, i) == [image |-> m, at |-> i]
Zero == Byte(None, 0)
Erased == Byte(None, 1)

VARIABLES
    up,        \* main has called provisioning_init
    pd,        \* whether pd points at the partition
    buffer,    \* provisioning_buffer
    length,    \* provisioning_length
    flush,     \* where provisioning_flush is: "no", "erase" or "write"
    written,   \* the bytes it has written
    flash,     \* the partition
    accepted,  \* history: the packets accepted since the boot
    expect,    \* history: what the last successful flush was to store
    losses     \* losses of power so far

vars == <<up, pd, buffer, length, flush, written, flash, accepted, expect, losses>>

Init ==
    /\ up = FALSE /\ pd = FALSE
    /\ buffer = [i \in Places |-> Zero]
    /\ length = 0
    /\ flush = "no" /\ written = 0
    /\ flash = [i \in Places |-> Erased]
    /\ accepted = << >>
    /\ expect = None
    /\ losses = 0

\* The bytes that end a string.
Terminates(b) == b = Zero \/ (b # Erased /\ b.at = NameEnd)

HasVersion == flash[0] \notin {Zero, Erased}

NameTerminated == \E i \in 1 .. NameEnd : Terminates(flash[i])

\* Mutant: the board name is not looked at.
PartitionValidByVersion == HasVersion

\* What provisioning_init asks of the partition.
PartitionValid == HasVersion /\ NameTerminated

\* provisioning_init
Boot ==
    /\ ~up
    /\ up' = TRUE
    /\ pd' = PartitionValid
    /\ UNCHANGED <<buffer, length, flush, written, flash, accepted, expect, losses>>

\* Mutant: the length is the end of the packet that came last.
LengthAfterLast(end) == end

\* provisioning_length only grows.
LengthAfter(end) == IF end > length THEN end ELSE length

\* WriteProvisioning: n bytes of image m at the place the packet's first byte
\* gives, which may reach over the places of the packets after it.  A packet
\* that does not fit is refused and changes nothing.
Write(m, o, n) ==
    LET offset == o * PacketSize
    IN  /\ up /\ flush = "no"
        /\ Len(accepted) < MaxPackets
        /\ offset + n <= Capacity
        /\ buffer' = [i \in Places |-> IF offset <= i /\ i < offset + n THEN Byte(m, i) ELSE buffer[i]]
        /\ length' = LengthAfter(offset + n)
        /\ accepted' = Append(accepted, [image |-> m, first |-> offset, end |-> offset + n])
        /\ UNCHANGED <<up, pd, flush, written, flash, expect, losses>>

\* FlushProvisioning, with its magic number: the flash area is opened (or not).
FlushOpen ==
    /\ up /\ flush = "no"
    /\ flush' = "erase"
    /\ UNCHANGED <<up, pd, buffer, length, written, flash, accepted, expect, losses>>

\* The erase and the write may fail: the report is refused, what is done is
\* done.
FlushFails ==
    /\ flush # "no"
    /\ flush' = "no" /\ written' = 0
    /\ UNCHANGED <<up, pd, buffer, length, flash, accepted, expect, losses>>

FlushErase ==
    /\ flush = "erase"
    /\ flush' = "write" /\ written' = 0
    /\ flash' = [i \in Places |-> Erased]
    /\ expect' = None
    /\ UNCHANGED <<up, pd, buffer, length, accepted, losses>>

\* The buffer is written from the first byte on.
FlushWrite ==
    /\ flush = "write" /\ written < length
    /\ flash' = [flash EXCEPT ![written] = buffer[written]]
    /\ written' = written + 1
    /\ UNCHANGED <<up, pd, flush, buffer, length, accepted, expect, losses>>

\* What packets make of memory that was all zeros: at each place the byte of
\* the last packet that covered it, up to the highest place covered.
Sent(packets) ==
    LET covering(i) == {k \in 1 .. Len(packets) : packets[k].first <= i /\ i < packets[k].end}
        top == Max({0} \cup {packets[k].end : k \in 1 .. Len(packets)})
    IN  [i \in Places |-> IF covering(i) # {} THEN Byte(packets[Max(covering(i))].image, i)
                          ELSE IF i < top THEN Zero ELSE Erased]

FlushDone ==
    /\ flush = "write" /\ written = length
    /\ flush' = "no" /\ written' = 0
    /\ expect' = Sent(accepted)
    /\ UNCHANGED <<up, pd, buffer, length, flash, accepted, losses>>

\* Power is lost, or the device reboots: the flash stays.
PowerLoss ==
    /\ up /\ losses < MaxLosses
    /\ up' = FALSE /\ pd' = FALSE
    /\ buffer' = [i \in Places |-> Zero]
    /\ length' = 0
    /\ flush' = "no" /\ written' = 0
    /\ accepted' = << >>
    /\ losses' = losses + 1
    /\ UNCHANGED <<flash, expect>>

Offsets == 0 .. Capacity \div PacketSize

Flush == FlushOpen \/ FlushErase \/ FlushWrite \/ FlushDone \/ FlushFails

Next == \/ Boot \/ Flush \/ PowerLoss
        \/ \E m \in Images, o \in Offsets, n \in 0 .. RequestSize : Write(m, o, n)

Spec == Init /\ [][Next]_vars

-----------------------------------------------------------------------------
(* Properties                                                              *)

\* A flush that succeeded has stored what the host sent, whatever the order of
\* its packets, with the last of the packets for a place, and nothing of it is
\* lost until the next flush erases it: not by failures, nor by power.
FlushedAsSent == expect # None => flash = expect

\* Power lost in the middle of a flush before the end of the board name leaves
\* a partition that is not taken at boot: one that is has every byte up to the
\* end of its name.  (Of what comes after it, the pointer to the key and the
\* key, provisioning_init looks at nothing.)
TakenHasName ==
    [][~up /\ pd' => \E e \in 1 .. NameEnd : Terminates(flash[e]) /\ \A i \in 0 .. e : flash[i] # Erased]_vars
=============================================================================
