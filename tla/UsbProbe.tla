------------------------------ MODULE UsbProbe ------------------------------
(***************************************************************************)
(* Which console the device is plugged into: output/usb/usb.cpp, the status *)
(* callback and the reboot report of output/usb/hid.cpp, the ProbeResult of *)
(* the three Hids, and reboot() of arch.cpp.                                *)
(*                                                                         *)
(* The device pretends to be one controller after the other.  A second      *)
(* after each start a work item looks whether the host reacted; if not, the *)
(* next one is tried, on some boards by storing it in memory that survives  *)
(* a warm reboot.  The work item, the reboot work item and the USB          *)
(* callbacks interleave; work items run in the order they are queued.       *)
(* The LEDs are not in this module.                                         *)
(***************************************************************************)
EXTENDS Naturals, Sequences, SequencesExt

CONSTANTS
    ProbeOrder,       \* the Hids that are probed, in order; the last is a fallback
    Builds,           \* build variants: who reboots to probe, and who is an STM32
    Second,           \* ticks in ProbeDelay and in the retry timeout
    None,             \* an empty optional
    MaxDisturbances   \* bound: suspends and reboot requests of the host

Probes == ToSet(ProbeOrder)

ASSUME OrderAssumption ==
    /\ ProbeOrder \in Seq(Probes) /\ ProbeOrder # << >>
    /\ \A i, j \in 1 .. Len(ProbeOrder) : ProbeOrder[i] = ProbeOrder[j] => i = j
ASSUME NoneAssumption == None \notin Probes \cup {"NX", "PS3", "success", "failure"} /\ None \notin Nat
ASSUME SecondAssumption == Second \in Nat \ {0} /\ MaxDisturbances \in Nat
ASSUME BuildsAssumption ==
    \A b \in Builds : b \in [reboot_probe: BOOLEAN, stm32: BOOLEAN] /\ (b.stm32 => b.reboot_probe)

VARIABLES
    build,           \* the build variant running
    boot_probe,      \* boot_probe_type, in .noinit memory
    running,         \* main has reached usb_init
    hid,             \* the Hid that USB is initialised with
    current_probe,   \* the probe under way, or None when the user chose
    halts,           \* NXHid: endpoints the host has cleared a halt on
    numbered,        \* PS3Hid: the host has sent a controller number
    timer,           \* ticks until probe_check_work is queued, or None
    queue,           \* the system work queue
    check,           \* usb_probe_check's reading of ProbeResult, or None
    suspended,       \* ticks since suspend_timestamp, or None
    selected,        \* the Hid the device settled on
    shown,           \* what the display says: probing or not, and which
    answered,        \* history: Hids the host has answered since boot
    tried,           \* history: Hids tried since probing began afresh
    retrying,        \* history: a resume asked for a retry from the beginning
    disturbances     \* suspends and reboot requests so far

hostVars == <<halts, numbered, answered>>
probeVars == <<hid, current_probe, timer, selected, shown, tried>>
vars == <<build, boot_probe, running, hostVars, probeVars, queue, check, suspended,
          retrying, disturbances>>

\* What a reboot leaves: everything but .noinit memory starts over.
Reset ==
    /\ running' = FALSE
    /\ hid' = None /\ current_probe' = None /\ selected' = None
    /\ halts' = {} /\ numbered' = FALSE /\ answered' = {}
    /\ timer' = None /\ queue' = << >> /\ check' = None /\ suspended' = None
    /\ shown' = [probing |-> FALSE, type |-> None]

Init ==
    /\ build \in Builds
    /\ boot_probe = None
    /\ running = FALSE
    /\ hid = None /\ current_probe = None /\ selected = None
    /\ halts = {} /\ numbered = FALSE /\ answered = {}
    /\ timer = None /\ queue = << >> /\ check = None /\ suspended = None
    /\ shown = [probing |-> FALSE, type |-> None]
    /\ tried = {} /\ retrying = FALSE /\ disturbances = 0

ProbeTypeFirst == ProbeOrder[1]

\* Mutant: after the first probe comes the fallback.
ProbeTypeNextLast(h) == IF h = Last(ProbeOrder) THEN None ELSE Last(ProbeOrder)

ProbeTypeNext(h) ==
    LET i == CHOOSE i \in 1 .. Len(ProbeOrder) : ProbeOrder[i] = h
    IN  IF i = Len(ProbeOrder) THEN None ELSE ProbeOrder[i + 1]

\* Hid::ProbeResult.  The PS4 is the fallback and never answers.
ProbeResult(h) == \/ h = "NX" /\ halts = {"in", "out"}
                  \/ h = "PS3" /\ numbered

\* k_work_submit of an item that is pending does nothing.
Enqueue(q, item) == IF \E i \in 1 .. Len(q) : q[i] = item THEN q ELSE Append(q, item)

-----------------------------------------------------------------------------
(* usb_probe and usb_probe_start, on the main thread at boot               *)

StartProbe(h) ==
    /\ hid' = h
    /\ current_probe' = h
    /\ timer' = Second

StoredProbe == IF build.reboot_probe THEN boot_probe ELSE None

\* The mode switch or a held button names the Hid: no probing.  Only when no
\* probe was stored.
UserChooses(h) ==
    /\ ~running
    /\ StoredProbe = None
    /\ running' = TRUE
    /\ hid' = h /\ selected' = h
    /\ shown' = [probing |-> FALSE, type |-> h]
    /\ retrying' = FALSE
    /\ UNCHANGED <<build, boot_probe, hostVars, current_probe, timer, tried, queue, check,
                   suspended, disturbances>>

\* Probing starts with the stored probe, or with the first.
ProbeAtBoot ==
    /\ ~running
    /\ running' = TRUE
    /\ retrying' = FALSE
    /\ IF StoredProbe = None
       THEN /\ StartProbe(ProbeTypeFirst)
            /\ shown' = [probing |-> TRUE, type |-> ProbeTypeFirst]
            /\ tried' = {ProbeTypeFirst}
       ELSE /\ StartProbe(StoredProbe)
            /\ tried' = tried \cup {StoredProbe}
            /\ UNCHANGED shown
    /\ UNCHANGED <<build, boot_probe, hostVars, selected, queue, check, suspended, disturbances>>

-----------------------------------------------------------------------------
(* The system work queue                                                   *)

\* usb_probe_check reads ProbeResult; callbacks run before it acts on it.
CheckReads ==
    /\ queue # << >> /\ Head(queue) = "check" /\ check = None
    /\ check' = IF ProbeResult(current_probe) THEN "success" ELSE "failure"
    /\ UNCHANGED <<build, boot_probe, running, hostVars, probeVars, queue, suspended,
                   retrying, disturbances>>

\* Mutant: the stored probe is left behind.
SelectedKeepsBoot ==
    /\ selected' = current_probe
    /\ shown' = [probing |-> FALSE, type |-> current_probe]
    /\ queue' = Tail(queue)
    /\ UNCHANGED <<boot_probe, hid, current_probe, timer, tried>>

\* usb_probe_selected
Selected ==
    /\ selected' = current_probe
    /\ shown' = [probing |-> FALSE, type |-> current_probe]
    /\ boot_probe' = IF build.reboot_probe THEN None ELSE boot_probe
    /\ queue' = Tail(queue)
    /\ UNCHANGED <<hid, current_probe, timer, tried>>

\* Mutant: the reboot is requested, the probe to go on with is not stored.
TryNextForgets ==
    /\ IF build.reboot_probe
       THEN /\ queue' = Enqueue(Tail(queue), "reboot")
            /\ UNCHANGED <<boot_probe, probeVars>>
       ELSE /\ queue' = Tail(queue)
            /\ StartProbe(ProbeTypeNext(current_probe))
            /\ tried' = tried \cup {ProbeTypeNext(current_probe)}
            /\ UNCHANGED <<boot_probe, selected, shown>>

\* The next Hid: stored for the reboot that is requested, or started at once
\* after USB is shut down.
TryNext ==
    /\ IF build.reboot_probe
       THEN /\ boot_probe' = ProbeTypeNext(current_probe)
            /\ queue' = Enqueue(Tail(queue), "reboot")
            /\ UNCHANGED probeVars
       ELSE /\ queue' = Tail(queue)
            /\ StartProbe(ProbeTypeNext(current_probe))
            /\ tried' = tried \cup {ProbeTypeNext(current_probe)}
            /\ UNCHANGED <<boot_probe, selected, shown>>

\* Mutant: a failed probe is selected all the same.
CheckActsAlways ==
    /\ check # None
    /\ check' = None
    /\ Selected
    /\ UNCHANGED <<build, running, hostVars, suspended, retrying, disturbances>>

\* usb_probe_check goes by what it read: the Hid that was tried is selected
\* if it succeeded or if there is no other.
CheckActs ==
    /\ check # None
    /\ check' = None
    /\ IF check = "success" \/ ProbeTypeNext(current_probe) = None THEN Selected ELSE TryNext
    /\ UNCHANGED <<build, running, hostVars, suspended, retrying, disturbances>>

\* reboot_impl: a warm reboot, once the log has drained.
Reboots ==
    /\ queue # << >> /\ Head(queue) = "reboot"
    /\ Reset
    /\ UNCHANGED <<build, boot_probe, tried, retrying, disturbances>>

-----------------------------------------------------------------------------
(* Callbacks of the USB stack, and time                                    *)

\* CLEAR_HALT on one of the endpoints.
ClearHalt(ep) ==
    /\ hid = "NX"
    /\ halts' = halts \cup {ep}
    /\ answered' = IF halts' = {"in", "out"} THEN answered \cup {"NX"} ELSE answered
    /\ UNCHANGED <<build, boot_probe, running, numbered, probeVars, queue, check, suspended,
                   retrying, disturbances>>

\* PS3Hid::InterruptOut: the host numbers the controller (0xFF is no number).
InterruptOut ==
    /\ hid = "PS3"
    /\ \/ numbered' = TRUE /\ answered' = answered \cup {"PS3"}
       \/ numbered' = FALSE /\ UNCHANGED answered
    /\ UNCHANGED <<build, boot_probe, running, halts, probeVars, queue, check, suspended,
                   retrying, disturbances>>

Suspend ==
    /\ hid # None /\ disturbances < MaxDisturbances
    /\ suspended' = 0
    /\ disturbances' = disturbances + 1
    /\ UNCHANGED <<build, boot_probe, running, hostVars, probeVars, queue, check, retrying>>

\* USB_DC_RESUME: after more than a second with a Hid the host has not
\* answered, forget the stored probe (usb_reset_probe does so on the STM32
\* only) and reboot.
Resume ==
    /\ suspended # None
    /\ suspended' = None
    /\ IF ~ProbeResult(hid) /\ suspended > Second
       THEN /\ boot_probe' = IF build.stm32 THEN None ELSE boot_probe
            /\ queue' = Enqueue(queue, "reboot")
            /\ retrying' = TRUE
       ELSE UNCHANGED <<boot_probe, queue, retrying>>
    /\ UNCHANGED <<build, running, hostVars, probeVars, check, disturbances>>

\* The host's reboot report: SetReportPL, reboot type 1.
RebootReport ==
    /\ hid # None /\ disturbances < MaxDisturbances
    /\ queue' = Enqueue(queue, "reboot")
    /\ disturbances' = disturbances + 1
    /\ UNCHANGED <<build, boot_probe, running, hostVars, probeVars, check, suspended, retrying>>

\* The delayed work becomes due, the time since the suspend grows (one tick
\* more than a second is as good as many).
Tick ==
    /\ timer # None \/ (suspended # None /\ suspended <= Second)
    /\ timer' = IF timer = None \/ timer = 1 THEN None ELSE timer - 1
    /\ queue' = IF timer = 1 THEN Enqueue(queue, "check") ELSE queue
    /\ suspended' = IF suspended # None /\ suspended <= Second THEN suspended + 1 ELSE suspended
    /\ UNCHANGED <<build, boot_probe, running, hostVars, hid, current_probe, selected, shown,
                   tried, check, retrying, disturbances>>

Boot == ProbeAtBoot \/ \E h \in Probes : UserChooses(h)
Work == CheckReads \/ CheckActs \/ Reboots
Callback == \/ \E ep \in {"in", "out"} : ClearHalt(ep)
            \/ InterruptOut \/ Suspend \/ Resume \/ RebootReport

Next == Boot \/ Work \/ Callback \/ Tick

Spec == Init /\ [][Next]_vars

\* The device boots, its work queue runs and time passes; the host does what
\* it likes.
FairSpec == Spec /\ WF_vars(Boot) /\ WF_vars(Work) /\ WF_vars(Tick)

-----------------------------------------------------------------------------
(* Properties                                                              *)

\* Every variable has its type.
TypeOK ==
    /\ build \in Builds
    /\ boot_probe \in Probes \cup {None}
    /\ running \in BOOLEAN
    /\ {hid, current_probe, selected} \subseteq Probes \cup {None}
    /\ halts \subseteq {"in", "out"} /\ numbered \in BOOLEAN /\ answered \subseteq Probes
    /\ timer \in 1 .. Second \cup {None}
    /\ queue \in {<< >>, <<"check">>, <<"reboot">>, <<"check", "reboot">>, <<"reboot", "check">>}
    /\ check \in {"success", "failure", None}
    /\ suspended \in 0 .. Second + 1 \cup {None}
    /\ tried \subseteq Probes /\ retrying \in BOOLEAN
    /\ disturbances \in 0 .. MaxDisturbances

\* Every variable has its type, and no Hid is passed over: whatever reboots and resumes happen on the way, one
\* is probed only after those before it have been tried in the same round.
NoneSkipped ==
    /\ TypeOK
    /\ \A i \in 1 .. Len(ProbeOrder) :
        current_probe = ProbeOrder[i] => \A j \in 1 .. i : ProbeOrder[j] \in tried

\* A Hid settled on by probing has had its host's answer or is the fallback, is
\* the one USB runs with, and is what the display shows.
SelectionJustified ==
    selected # None =>
        /\ current_probe # None => selected \in answered \/ ProbeTypeNext(selected) = None
        /\ hid = selected
        /\ shown = [probing |-> FALSE, type |-> selected]

\* A settled device has nothing stored for the next boot, so a later reboot
\* probes from the beginning and lets the user choose again.
BootProbeConsumed == selected # None => boot_probe = None

\* Probing ends: the device settles on a Hid (the host's disturbances being
\* finite in number).
Settles == <>[](selected # None)

\* hid.cpp: a resume after a failed probe retries "from the beginning".
RetriesFromBeginning == retrying /\ ~running => boot_probe = None
=============================================================================
