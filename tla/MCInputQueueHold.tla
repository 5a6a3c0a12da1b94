-------------------------- MODULE MCInputQueueHold --------------------------
(***************************************************************************)
(* Two readers share the queue: the USB output, which polls at least every  *)
(* PollPeriod ticks, and others (the Bluetooth input characteristic, the    *)
(* shell), which read whenever they like and take elements too.             *)
(***************************************************************************)
EXTENDS InputQueue

CONSTANT PollPeriod

ASSUME HoldAssumption == PollPeriod \in Nat \ {0} /\ PollPeriod <= HoldTicks

VARIABLES
    usb_age,   \* ticks since the USB output last polled
    usb_seen,  \* it has polled since queue_input was set
    missed     \* an element was replaced by its successor unseen

holdVars == <<vars, usb_age, usb_seen, missed>>

HoldInit == Init /\ usb_age = 0 /\ usb_seen = TRUE /\ missed = FALSE

\* An element is taken; the one before it in the same queue must have been seen.
Takes == GetState /\ missed' = (missed \/ (played # << >> /\ ~usb_seen))

UsbPoll ==
    /\ usb_age' = 0 /\ usb_seen' = TRUE
    /\ \/ Takes
       \/ ~(queue_next # Null /\ due < 0) /\ UNCHANGED <<vars, missed>>

OtherRead == Takes /\ usb_seen' = FALSE /\ UNCHANGED usb_age

HoldTick == Tick /\ usb_age < PollPeriod /\ usb_age' = usb_age + 1 /\ UNCHANGED <<usb_seen, missed>>

Compose == /\ Home \/ \E t \in Writers : Camera(t) \/ Write(t)
           /\ UNCHANGED <<usb_age, usb_seen, missed>>

HoldNext == UsbPoll \/ OtherRead \/ HoldTick \/ Compose

HoldSpec == HoldInit /\ [][HoldNext]_holdVars

\* Time passes, and the USB output keeps polling.
HoldFairSpec == HoldSpec /\ WF_holdVars(HoldTick) /\ WF_holdVars(UsbPoll)

\* Every element a queue holds for its delay is seen by the USB output, even
\* when another reader took it from the queue first: the host gets every
\* press and every release.
UsbSeesElements == ~missed
=============================================================================
