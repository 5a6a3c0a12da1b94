------------------------------ MODULE MCParts ------------------------------
(***************************************************************************)
(* The parts that share no state with one another, side by side: a          *)
(* behaviour picks one of them, runs it and leaves the others as they are   *)
(* at boot, so that each is checked in all its behaviours and none in the   *)
(* product with the rest.                                                   *)
(***************************************************************************)
EXTENDS UsbWrite, Menu

CONSTANTS
    Images, PacketSize, RequestSize, Capacity, NameEnd, MaxPackets, MaxLosses,  \* Provisioning's
    Pictures, Logo, Types, Latencies, MaxDraws,                    \* Display's
    Hids, Lengths, VersionLength, Points, CounterRange, ReportRange, TouchRange, Divider, MaxAttempts  \* Reports'

\* The board name is in the partition, and an image is something.
ASSUME KeepingAssumption ==
    /\ PacketSize \in Nat /\ RequestSize \in Nat /\ Capacity \in Nat /\ NameEnd \in 0 .. Capacity - 1
    /\ None \notin Images

\* A coordinate has 12 bits, the counter in a report the low bits of a byte,
\* and a request for data asks for some.  (A request of length 0 is left out: to
\* one for the provisioning version GetReportPL writes a byte and answers 1.)
ASSUME ReportingAssumption ==
    /\ Hids \subseteq {"NX", "PS3", "PS4"}
    /\ Lengths \subseteq Nat \ {0} /\ VersionLength \in Nat
    /\ Points \subseteq (0 .. 4095) \X (0 .. 4095) /\ None \notin Points
    /\ ReportRange \in Nat \ {0} /\ TouchRange \in Nat \ {0}
    /\ CounterRange \in Nat \ {0} /\ CounterRange % ReportRange = 0

VARIABLES
    focus,  \* the part that runs
    next_part, part, offset, buf, reply, copyPc,
    up, pd, keyBuffer, length, flush, written, flash, accepted, expect, losses,
    panelDriver, initialized, status, menu, frame, dirty, blitWork, drawing, sending, panel, failed, dropped, draws,
    reportHid, last_report_counter, p1, submits, attempts, disabled, answer, last, finger, touches, found,
    owner, on, pin, counter, flashing, duration, interval, timer, ledProbe, jobs, ledPc, loaded, held, listening,
    outs, wish, newer

\* Signature replies, with the sizes of the code.
Copying == INSTANCE CopySignature WITH ChunkSize <- 56, SignatureChunks <- 19, pc <- copyPc

\* UsbWrite: three Hids in turn; the second has no ids of its own.
MCProbeOrder == <<"NX", "PS3", "PS4">>

Keeping == INSTANCE Provisioning WITH buffer <- keyBuffer

Showing == INSTANCE Display WITH driver <- panelDriver, buffer <- frame, work <- blitWork, raced <- dropped

Reporting == INSTANCE Reports WITH hid <- reportHid

\* Points with extreme, and with all different, nibbles.
MCPoints == {<<4095, 0>>, <<2748, 1383>>}

\* The LEDs of the nRF boards; a flash of 1000 ms toggles every 300.
Lighting == INSTANCE Led WITH
    Interrupts <- FALSE, Duration <- 10, Interval <- 3, MaxOuts <- 2, pc <- ledPc, probe <- ledProbe

copyVars == <<next_part, part, offset, buf, reply, copyPc>>
keepVars == <<up, pd, keyBuffer, length, flush, written, flash, accepted, expect, losses>>
showVars == <<panelDriver, initialized, status, menu, frame, dirty, blitWork, drawing, sending, panel, failed, dropped, draws>>
reportVars == <<reportHid, last_report_counter, p1, submits, attempts, disabled, answer, last, finger, touches, found>>
lightVars == <<owner, on, pin, counter, flashing, duration, interval, timer, ledProbe, jobs, ledPc, loaded, held,
               listening, outs, wish, newer>>
partVars == <<focus, copyVars, vars, keepVars, showVars, reportVars, lightVars, menuVars>>

Parts == {"copying", "writing", "keeping", "showing", "reporting", "lighting", "choosing"}

PartsInit ==
    /\ focus \in Parts
    /\ Copying!Init /\ Init /\ Keeping!Init
    /\ Showing!Init /\ Reporting!Init /\ Lighting!Init /\ MenuInit
    /\ focus # "reporting" => reportHid = "NX"
    /\ focus # "showing" => panelDriver = "buttons"
    /\ focus # "choosing" => driver = "buttons"
    /\ focus # "lighting" => owner = "none"

\* All parts but one, at rest.
Rest(p) ==
    /\ UNCHANGED focus
    /\ IF p = "copying" THEN TRUE ELSE UNCHANGED copyVars
    /\ IF p = "writing" THEN TRUE ELSE UNCHANGED vars
    /\ IF p = "keeping" THEN TRUE ELSE UNCHANGED keepVars
    /\ IF p = "showing" THEN TRUE ELSE UNCHANGED showVars
    /\ IF p = "reporting" THEN TRUE ELSE UNCHANGED reportVars
    /\ IF p = "lighting" THEN TRUE ELSE UNCHANGED lightVars
    /\ IF p = "choosing" THEN TRUE ELSE UNCHANGED menuVars

\* A step of one part, where that part runs.
Part(p, A) == focus = p /\ A /\ Rest(p)

Copy == Part("copying", Copying!Next)
Write == Part("writing", Next)
Keep == Part("keeping", Keeping!Next)
Show == Part("showing", Showing!Next)
Report == Part("reporting", Reporting!Next)
Light == Part("lighting", Lighting!Next)
Choose == Part("choosing", MenuNext)

PartsNext == Copy \/ Write \/ Keep \/ Show \/ Report \/ Light \/ Choose

\* What UsbWrite, Display and Led ask.
PartsFairness ==
    /\ WF_partVars(Part("writing", Thread))
    /\ WF_partVars(Part("writing", TimerFires))
    /\ WF_partVars(Part("writing", IntInReady))
    /\ WF_partVars(Part("writing", Poll))
    /\ WF_partVars(Part("writing", SetIdle /\ ~started))
    /\ WF_partVars(Part("writing", ClearHalt /\ halted))
    /\ WF_partVars(Part("showing", Showing!Blit))
    /\ WF_partVars(Part("showing", Showing!ShellShown))
    /\ WF_partVars(Part("lighting", Lighting!WorkQueue))

PartsSpec == PartsInit /\ [][PartsNext]_partVars /\ PartsFairness

-----------------------------------------------------------------------------
(* The properties of the instances; UsbWrite's and Menu's are there        *)

\* What the host has read of a signature is a prefix of its six parts.
CopiesSlice == Copying!CopiesSlice

\* The parts fill every chunk and the chunks hold every part.
ChunksFit == Copying!ChunksFit

\* A flush that succeeded has stored what was sent, and it stays.
FlushedAsSent == Keeping!FlushedAsSent

\* A partition taken at boot has every byte up to the end of its name.
TakenHasName == Keeping!TakenHasName

\* A cell the panel shows otherwise than the framebuffer is still to be sent.
FrameNotLost == Showing!FrameNotLost

\* The panel comes to show the program's state.
PanelCatchesUp == Showing!PanelCatchesUp

\* Answers fit, and input reports decode to the input and the last touch.
HostReads == Reporting!HostReads

\* Every flash ends, and the LED then shows what it was last set to.
LedSettles == Lighting!LedSettles
=============================================================================
