------------------------------ MODULE UsbWrite ------------------------------
(***************************************************************************)
(* How reports reach the host: the delayed write of output/usb/hid.cpp, the *)
(* callbacks that keep it going, usb_hid_init and usb_hid_uninit between    *)
(* two probes, the ids a Hid sets, and the latency sample of                *)
(* metrics/metrics.cpp.                                                     *)
(*                                                                         *)
(* One report at a time waits in the interrupt endpoint.  When the host has *)
(* taken it the USB stack calls back, the callback submits a delayed work   *)
(* item, and the item reads the input anew and fills the endpoint: a chain  *)
(* with nobody to restart it when it breaks.  write_report and the probe    *)
(* check run on the system work queue; callbacks run between their steps.   *)
(* The builds that write without deferring are not modelled: every board of *)
(* the repository defers, on the system work queue.                         *)
(***************************************************************************)
EXTENDS Naturals, Sequences

CONSTANTS
    ProbeOrder,  \* the Hids, in the order they are probed
    OwnId,       \* the Hids whose Init sets a vendor and product id
    DefaultId,   \* the ids of the configuration
    None,        \* no report, no sample
    MaxRequests  \* bound: resets, halts and requests beyond the needed ones

VARIABLES
    probe,     \* the place of hid in ProbeOrder
    usb_id,    \* whose vendor and product ids USB enumerates with
    enabled,   \* between usb_enable and usb_disable
    started,   \* the host has set the endpoint going since the last bus reset
    halted,    \* the IN endpoint is halted
    work,      \* delayed_write_work: "idle", "delayed" or "queued"
    thread,    \* the system work queue: "idle", "writing", "disabling", "init"
    report,    \* the Hid whose report write_report has made
    ep,        \* the Hid whose report is in the endpoint
    sent,      \* the host has taken it, the callback is still to come
    sample,    \* input_tick: the Hid whose read started the latency sample
    requests   \* resets, halts and spare requests so far

linkVars == <<enabled, started, halted, ep, sent>>
vars == <<probe, usb_id, linkVars, work, thread, report, sample, requests>>

ASSUME WriteAssumption ==
    /\ Len(ProbeOrder) \in Nat \ {0}
    /\ \A i \in 1 .. Len(ProbeOrder) : ProbeOrder[i] # None
    /\ MaxRequests \in Nat

hid == ProbeOrder[probe]

\* The ids a Hid is to be seen with: its own or those of the configuration.
IdOf(h) == IF h \in OwnId THEN h ELSE DefaultId

Init ==
    /\ probe = 1
    /\ usb_id = DefaultId
    /\ enabled = FALSE /\ started = FALSE /\ halted = FALSE
    /\ work = "idle"
    /\ thread = "init"
    /\ report = None /\ ep = None /\ sent = FALSE
    /\ sample = None
    /\ requests = 0

\* submit_write, by do_write: the delay starts, or starts anew.
submit_write == work' = "delayed"

Request == requests < MaxRequests /\ requests' = requests + 1

-----------------------------------------------------------------------------
(* usb_hid_init and usb_hid_uninit                                         *)

\* usb_hid_init.  PS3Hid has no Init of its own and enumerates with the ids it
\* finds.  The work item is initialised whatever state it is in; over one that
\* a callback queued after the cancel this drops it or leaves it queued.  Any
\* step may fail, which usb_probe_start ignores.
HidInit ==
    /\ thread = "init"
    /\ thread' = "idle"
    /\ work' \in {"idle", work}
    /\ usb_id' = IF hid \in OwnId THEN hid ELSE usb_id
    /\ enabled' \in BOOLEAN
    /\ UNCHANGED <<probe, started, halted, ep, sent, report, sample, requests>>

\* Mutant: the writes are on a work queue of their own, not on that of the
\* probe check.
CancelAnytime ==
    /\ thread \in {"idle", "writing"}
    /\ probe < Len(ProbeOrder)
    /\ thread' = "disabling"
    /\ work' = "idle"
    /\ UNCHANGED <<probe, usb_id, linkVars, report, sample, requests>>

\* usb_hid_uninit, called by usb_probe_check: the write is cancelled ...
Cancel ==
    /\ thread = "idle"
    /\ probe < Len(ProbeOrder)
    /\ thread' = "disabling"
    /\ work' = "idle"
    /\ UNCHANGED <<probe, usb_id, linkVars, report, sample, requests>>

\* Mutant: Deinit is not called.
DisableKeepsId ==
    /\ thread = "disabling"
    /\ thread' = "init"
    /\ enabled' = FALSE /\ started' = FALSE /\ halted' = FALSE
    /\ ep' = None /\ sent' = FALSE
    /\ sample' = None
    /\ probe' = probe + 1
    /\ UNCHANGED <<usb_id, work, report, requests>>

\* ... and, after callbacks may have run, USB is disabled, Deinit puts the ids
\* back and metrics_reset forgets the sample; then the next Hid is up.
Disable ==
    /\ thread = "disabling"
    /\ thread' = "init"
    /\ enabled' = FALSE /\ started' = FALSE /\ halted' = FALSE
    /\ ep' = None /\ sent' = FALSE
    /\ usb_id' = IF hid \in OwnId THEN DefaultId ELSE usb_id
    /\ sample' = None
    /\ probe' = probe + 1
    /\ UNCHANGED <<work, report, requests>>

-----------------------------------------------------------------------------
(* write_report, on the system work queue                                  *)

TimerFires ==
    /\ work = "delayed"
    /\ work' = "queued"
    /\ UNCHANGED <<probe, usb_id, linkVars, thread, report, sample, requests>>

\* metrics_record_input_read and Hid::GetReport, which succeeds: every input
\* state has a report, and the buffer has the size it wants.
WriteReads ==
    /\ thread = "idle" /\ work = "queued"
    /\ thread' = "writing"
    /\ work' = "idle"
    /\ sample' = IF sample = None THEN hid ELSE sample
    /\ report' = hid
    /\ UNCHANGED <<probe, usb_id, linkVars, requests>>

\* hid_int_ep_write takes the report,
Accepts == enabled /\ ep = None /\ ~sent

\* refuses it: full, halted, or not configured yet,
Refuses == ~enabled \/ ep # None \/ sent \/ halted \/ ~started

\* or, full, writes no bytes and returns no error.
WritesShort == enabled /\ (ep # None \/ sent)

\* The report goes into the endpoint, or a new write is submitted, or it is
\* only logged that the endpoint took less.
WriteEndpoint ==
    /\ thread = "writing"
    /\ thread' = "idle" /\ report' = None
    /\ \/ Accepts /\ ep' = report /\ UNCHANGED work
       \/ Refuses /\ submit_write /\ UNCHANGED ep
       \/ WritesShort /\ UNCHANGED <<ep, work>>
    /\ UNCHANGED <<probe, usb_id, enabled, started, halted, sent, sample, requests>>

-----------------------------------------------------------------------------
(* The host, and the callbacks of the USB stack                            *)

\* The host polls the endpoint.
Poll ==
    /\ enabled /\ ~halted /\ ep # None
    /\ ep' = None /\ sent' = TRUE
    /\ UNCHANGED <<probe, usb_id, enabled, started, halted, work, thread, report, sample, requests>>

\* Mutant: no write is queued.
IntInReadyIdles ==
    /\ enabled /\ sent
    /\ sent' = FALSE
    /\ sample' = None
    /\ UNCHANGED <<probe, usb_id, enabled, started, halted, ep, work, thread, report, requests>>

\* int_in_ready: metrics_record_usb_write ends the sample, a write is queued.
IntInReady ==
    /\ enabled /\ sent
    /\ sent' = FALSE
    /\ sample' = None
    /\ submit_write
    /\ UNCHANGED <<probe, usb_id, enabled, started, halted, ep, thread, report, requests>>

\* set_idle: the host asks for reports; a write that is under way is
\* postponed.
SetIdle ==
    /\ enabled
    /\ started' = TRUE
    /\ submit_write
    /\ IF started THEN Request ELSE UNCHANGED requests
    /\ UNCHANGED <<probe, usb_id, enabled, halted, ep, sent, thread, report, sample>>

\* USB_DC_SET_HALT and USB_DC_RESET are only logged.
SetHalt ==
    /\ enabled /\ ~halted /\ Request
    /\ halted' = TRUE
    /\ UNCHANGED <<probe, usb_id, enabled, started, ep, sent, work, thread, report, sample>>

\* A bus reset empties the endpoint; the host sets it going again later.
Reset ==
    /\ enabled /\ Request
    /\ started' = FALSE /\ halted' = FALSE
    /\ ep' = None /\ sent' = FALSE
    /\ UNCHANGED <<probe, usb_id, enabled, work, thread, report, sample>>

\* Mutant: no write is queued.
ClearHaltOnly ==
    /\ enabled
    /\ halted' = FALSE /\ started' = TRUE
    /\ ep' \in {ep, None}
    /\ IF halted THEN UNCHANGED requests ELSE Request
    /\ UNCHANGED <<probe, usb_id, enabled, sent, work, thread, report, sample>>

\* USB_DC_CLEAR_HALT on the IN endpoint queues a write: the report that was
\* in the endpoint may be gone, and its callback with it.
ClearHalt ==
    /\ enabled
    /\ halted' = FALSE /\ started' = TRUE
    /\ ep' \in {ep, None}
    /\ submit_write
    /\ IF halted THEN UNCHANGED requests ELSE Request
    /\ UNCHANGED <<probe, usb_id, enabled, sent, thread, report, sample>>

Thread == HidInit \/ Disable \/ WriteReads \/ WriteEndpoint
Host == SetIdle \/ SetHalt \/ Reset \/ ClearHalt

Next == Thread \/ Cancel \/ TimerFires \/ Poll \/ IntInReady \/ Host

Spec == Init /\ [][Next]_vars

\* The work queue runs, timers fire and the USB stack calls back; the host
\* polls, sets the endpoint going after a reset and clears the halts it sets.
Fairness ==
    /\ WF_vars(Thread) /\ WF_vars(TimerFires) /\ WF_vars(IntInReady)
    /\ WF_vars(Poll) /\ WF_vars(SetIdle /\ ~started) /\ WF_vars(ClearHalt /\ halted)

FairSpec == Spec /\ Fairness

-----------------------------------------------------------------------------
(* Properties                                                              *)

\* Every variable has its type.
TypeOK ==
    /\ probe \in 1 .. Len(ProbeOrder)
    /\ usb_id \in OwnId \cup {DefaultId}
    /\ enabled \in BOOLEAN /\ started \in BOOLEAN /\ halted \in BOOLEAN /\ sent \in BOOLEAN
    /\ work \in {"idle", "delayed", "queued"}
    /\ thread \in {"idle", "writing", "disabling", "init"}
    /\ requests \in 0 .. MaxRequests

\* The chain is never broken: an endpoint the host has set going holds a
\* report, or one is being written, or a write is queued, or a callback that
\* will queue one is due.  Only usb_hid_uninit ends it.
ChainAlive ==
    enabled /\ started /\ ~halted /\ thread # "disabling" =>
        ep # None \/ sent \/ thread = "writing" \/ work # "idle"

\* Nothing of one Hid outlives it: the report being written, the one in the
\* endpoint and the latency sample under way are all of the Hid that runs.
NoLeftovers == {report, ep, sample} \subseteq {hid, None}

\* The host sees each Hid with that Hid's ids: what one has set is put back
\* before the next, which may set none, is enabled.
IdsOfHid == enabled => usb_id = IdOf(hid)

\* The host keeps getting reports once USB stays enabled, whatever halts,
\* resets and refused writes there were.
KeepsReporting == <>[]enabled => []<><<Poll>>_vars
=============================================================================
