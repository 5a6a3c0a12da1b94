# A verification project for Passing Link

Passing Link is the firmware of a game controller. It reads buttons, cleans
and maps them, and pretends to be a Switch, PS3 or PS4 controller over USB,
whichever the console at the other end turns out to be; a PS4 it also answers
the authentication exchange. This directory holds TLA+ models of the parts
of the firmware that decide something, TLC configurations that check them on
small instances, and TLAPS proofs of the most important results. Line numbers
are those of the C++ files under `src/src/`.

## 1. Inventory

| Component | State | Operations | Where it is hard | What makes it correct |
|---|---|---|---|---|
| PS4 authentication (`output/usb/ps4/auth.cpp`, reports in `ps4/hid.cpp`) | `auth_state` (one atomic word), `nonce`, `nonce_signature`, a work item | `set_nonce`, `sign_nonce`, `get_next_signature_chunk`, report 0xF2 | the USB control pipe and the main work queue share everything without a lock; hash and signature can fail | no swap fails, no wakeup is lost, the chunks sent are those of one signature, in order |
| Signature reply (`auth.cpp` 158-254) | the loop's offset and buffer | `copy_signature` | six parts, 19 chunks, borders everywhere | the chunks are the parts end to end |
| Input queue (`input/queue.cpp`, `opt/gundam.cpp`, `shell.cpp`) | node array, bitmap, active list, camera number | alloc, append, free, set_active, get_state; camera moves, home | writers build lists while others run; allocation fails midway; several readers | every node has one owner, the script is played as written |
| Console probing (`output/usb/usb.cpp`, `output/usb/hid.cpp`, `arch.cpp`) | current probe, stored probe in `.noinit` memory, timers, the work queue | start, check, select, resume, reboot | reboots in the middle, callbacks against queued work | every console is tried in order, probing ends, nothing is left behind |
| Input pipeline (`input/input.cpp`, `profile.cpp`, `socd.cpp`) | button history, lock, mode, profile, SOCD types, menu flag | `input_get_state`, `input_set_raw_state` | bounces, ties, locking with the menu button held | debounced and cleaned input, no leak to the host |
| Menu (`display/menu.cpp`) | stack of menus, items, cursor, options | open, close, input | long walks, items that change under the cursor, two indices | draws inside its items, returns where it came from |
| USB writes (`output/usb/hid.cpp` 57-127, 171-181, 271-303, 414-471) | delayed work item, endpoint, ids, latency sample | write, requeue, init, uninit, status callbacks | each write is queued by the completion of the last; cancellation against callbacks; halts, resets, refused writes | the chain never breaks, nothing of one Hid outlives it |
| Reports and touchpad (`nx/hid.cpp`, `ps3/hid.cpp`, `ps4/hid.cpp`, `input/touchpad/panthera.cpp`) | report counter, touch data, failure count | get_report, fill the endpoint, poll the touchpad | bit fields that wrap, nibbles that share a byte | the host decodes what was pressed and touched |
| Provisioning (`provisioning.cpp`) | buffer, length, flash partition | init, write, flush | erase and write are two steps; power loss; packets in any order | what was sent is stored, an image cut before the end of its name is not taken |
| LEDs (`output/led.cpp`) | value, counter, flash | set, undo, flash, update | an output report sets what a flash or an undo is at work on | the last value set is shown in the end |
| Display (`display/display.cpp`, `ssd1306.cpp`) | status, framebuffer, dirty flag, work item | draw, blit | drawing in the middle of a transfer | no drawing is lost |
| Metrics, Bluetooth, shell | latency sample; none | | callers of the above | partly modelled, see section 7 |
| Allocator, `main` | | | | see section 7 |

How they interact: the USB stack polls `input_get_state` for every report.
That takes the raw state, from the input queue if one is active, debounces
it, and `profile.cpp` either feeds the stick to the menu or composes the
report. The menu's items set the options that the next poll reads. The USB
status callbacks tell the Hid objects whether the console answered, which the
probe check reads a second later from the system work queue. The PS4 Hid
passes 0xF0/0xF1/0xF2 to `auth.cpp`, which signs on the main work queue with
the key of the provisioning partition. Bluetooth and the shell set the
external input and write and read the input queue. Probing and the PS3's
output report share the LEDs; probing, lock, latency and menu share the
display.

The hazards in this code, each at its line and with the properties that
watch it, are listed in `PROJECT.json`.

## 2. Modules

* **PS4Auth** models the exchange one atomic step at a time. `usb_pc`/`usb`
  are the control-pipe handler (Zephyr runs one at a time), `sign_pc`/`sign`
  the work item. `SetNonce` is `SetReport(0xF0)` up to the checks of
  `set_nonce`, then `SetNonceCopy` (memcpy), `SetNonceCas`, `SetNonceSubmit`.
  `SignStart` ... `SignPublish` are `sign_nonce`, with `SignHashFails` and
  `SignSignFails` its error returns. `GetSignature`, `ChunkLoad`, `ChunkCopy`,
  `ChunkCas` are report 0xF1, which loads the state twice. A signature is
  represented by the nonce it signs. `sent` and `status` record what the host
  was told. Refused requests change nothing and are stuttering steps.
* **AuthExchange** is what the host is promised: a challenge, then exactly
  `Chunks` replies cut from its signature, or a failure. PS4Auth is shown to
  implement it through the refinement mapping `Exchange`.
* **CopySignature** is the copy loop with the real sizes (256, 16, 256, 256,
  256, 24 bytes; 19 chunks of 56). A byte is a pair (part, place).
* **InputQueue**: one action for each function that holds the interrupt lock;
  a writer's list grows one node per step. Time is relative (`due`), so it
  needs no bound. A freed node is marked `Poison` (the code leaves its old
  contents): reading one would show up in `PlaysScript`. `script`/`played`
  are history.
* **MCInputQueueHold** splits InputQueue's readers in two, the USB output with
  its polling period, and Bluetooth and the shell, who read at any time.
* **UsbProbe**: `ProbeAtBoot`/`UserChooses` are `usb_probe`, `CheckReads` and
  `CheckActs` are `usb_probe_check` (callbacks may run in between), `Reboots`
  is `reboot_impl`, the rest are the callbacks. `build` covers boards that
  shut USB down, boards made to reboot between probes, and the STM32.
  `answered`, `tried`, `retrying` are history. Power-up garbage in `.noinit`
  memory is taken as invalid: the probe types are 64-bit magic numbers.
* **Input**: `Poll` is a whole `input_get_state`; `Touch` moves a button;
  `SetRawState` is `input_set_raw_state` on the dongle, which Bluetooth and
  the shell call with all buttons at once. `Debounce`, `ModeAfter`,
  `SocdParse`, `Mapping`, `ProfileParse`, `Report` are named after the
  functions they stand for. `board` is the build: which buttons the
  devicetree has, display, microdash, external input, and how many hardware
  cycles a tick of the kernel's clock has, since `input_debounce` compares the
  one with the other (`TransitionTime`). Entering a menu item
  may change one option, which is what `OneOptionAtATime` of Menu shows.
  `order` is history: the pairs of opposite directions that are both held, the
  first of them accepted no later than the second.
* **Menu**: the menu tree, stack, cursor and the effect of every item.
  `driver` is who calls it: the buttons (microdash, whose build has no shell)
  or the shell (the dongle, which has no buttons).
* **UsbWrite**: the work queue's `thread` is idle, in `write_report`
  (`WriteReads`, `WriteEndpoint`), or between two Hids (`Cancel`, `Disable`,
  `HidInit`); callbacks (`IntInReady`, `SetIdle`, `SetHalt`, `ClearHalt`,
  `Reset`) fall anywhere in between. `hid_int_ep_write` is external: it
  accepts, refuses or, full, writes nothing and reports no error. `HidInit`
  may fail at any step, since `usb_probe_start` ignores its result, and it
  reinitialises a work item that a callback may have queued again: the model
  lets that drop the item or keep it.
* **Reports**: `GetInputReport`, `GetFeatureReport` and `GetReportPL` are what
  `get_report` and the write chain call; the `Poll...` actions are
  `input_touchpad_poll`. `HostDpad` and `HostPoint` decode a report the way
  the report descriptors say, so that the property compares two independent
  descriptions.
* **Provisioning**: `Write` is a WriteProvisioning report of any length the
  request buffer holds, also across the place of the next one; `FlushOpen` ...
  `FlushDone` a FlushProvisioning one, the flash written a byte at a time.
  `PowerLoss` clears memory at any step.
* **Display**: `BlitStart` and `BlitSend` are the blit, an item of the system
  work queue (`ssd1306.cpp` 385), whose thread sleeps during the I2C transfer
  while others draw: the USB thread (the latency; the menu and the lock in a
  control request's `input_get_state`), main at boot and the shell. The model
  lets `SetConnectionType` fall into a transfer as well; the probing runs on
  the same queue and cannot, so these are behaviours more than the code has. A
  frame is four cells, two rows in two halves, sent in the panel's order. A
  drawing by a cooperative thread is one step (`Shows`); one by the shell,
  which has a lower priority than all of them, is two (`ShellShows`,
  `ShellShown`), between which anything may happen. `raced` records the two
  interruptions the code does not survive, see the observations; dropping
  either of them makes a property fail.
* **Led**: one LED (they share nothing). The calls the probing makes, and
  `led_update`, are split at every load and store of the LED's state
  (`SetEnter`, `SetWrite`, `SetLoad`, `SetShow`, `SetCount`; `UpdateEnds`,
  `UpdateShows`, `UpdateDone`). `Interrupts` says what an output report is: on
  the nRF a cooperative thread takes it, between two work items; on the STM32
  it is an interrupt, between any two steps. It comes only while the PS3's Hid
  is up (`HidInit`). `wish` is history, what the LED is to show by `led.h`: the
  value set last, an undo counting only if no report came since the probing
  lit the LED.
* **MCParts** puts CopySignature, UsbWrite, Provisioning, Display, Reports, Led
  and Menu side by side: a behaviour picks one part (`focus`) and runs it alone.
  They share no state, so nothing is lost by not interleaving them. Their
  sizes and ranges are constants of MCParts, given values in `MCParts.cfg`,
  so that what is proved of `PartsSpec` holds for all of them.
* **MCPS4Auth**, **MCPS4AuthDocs**, **MCUsbProbe**, **MCInput**, **MCReports**
  instantiate the others; **PS4AuthProofs**, **InputQueueProofs**,
  **InputProofs**, **UsbProbeProofs**, **UsbWriteProofs**, **MenuProofs** and
  **PartsProofs** (CopySignature, Provisioning, Display and Reports, through
  the instances of MCParts) hold the proofs.
  Definitions commented "Mutant" are plausible bugs used to see that each
  property can fail; no specification uses them.

## 3. Runs

| Run | Bounds | What it shows |
|---|---|---|
| `ps4_auth` | 3 parts, 3 chunks, a 4-valued byte, 2 ids, 2 payloads, all key states | no compare-and-swap fails; a waiting nonce has its wakeup; the offered signature is the nonce's; the replies are in order with matching headers; a "ready" status stays true; the buffer is frozen under the signer; every nonce is signed or fails; the exchange is implemented |
| `ps4_auth_full_nonce` | same | finding: the last part alone starts a signature |
| `ps4_auth_signing_left` | same | finding: after an error Signing is never left |
| `parts` | signature: the real sizes; writes: 3 Hids, 3 spare requests, halts or resets; partition: 5 bytes, 2 images, 2 packets per boot, packets of up to 3 bytes at places 2 apart, 1 power loss; display: 3 changes, both drivers; reports: 3 Hids, counters of 4 and 8 values; LED: the USB threads of the nRF, 3 probes, each LED, 2 output reports, a flash of 10 by 3; menu: 3 rows, stack of 8, both drivers | 19 chunks are the six parts end to end; the chain of writes never breaks, nothing of a Hid outlives it, each has its ids, the host keeps getting reports; a flush stores what was sent, and an image cut before the end of its name is not taken; no drawing is lost and the panel catches up; reports decode to input and touch; flashes end and the last value shows; the menu draws in bounds, keeps its path and saved spots and current items, does not fault by the buttons and changes one option at a time |
| `led_undo` | the USB interrupts of the STM32, otherwise as in `parts` | finding: an undo switches off what a newer report has set |
| `touchpad_lost` | 1 point, 3 failures tolerated | finding: a touchpad that was found is disabled as not found |
| `input_queue` | 5 nodes, 2 writers, 2-valued camera, holds of 2 ticks, USB polls at least every 2 ticks, other reads at any time | allocator, ownership, playback and progress under replacement and failed allocation; the USB output sees every element although others take them |
| `usb_probe` | the 3 consoles, a second of 2 ticks, 3 suspends or reboot requests | none skipped, a selection is justified and shown, nothing stays stored, probing ends |
| `usb_probe_retry` | STM32 build | finding: a resume does not always retry from the beginning |
| `input` | 7 boards, one of them with 2 cycles to a tick, 2 or 3 touched buttons each, debouncing 2 ticks' worth of cycles, menu hold 2 ticks, 8 ticks | debouncing, SOCD, menu and lock, in every interleaving of touches, polls and ticks |
| `input_external` | the dongle | finding: external buttons are not reported |
| `input_five_ms` | the STM32 board of `input` | finding: 5 ms after a transition the next is still refused |

Why the bounds are enough. With three parts there is a first, a middle and a
last one, and the same for chunks; the byte of four values wraps within a run.
Five nodes let one camera move of one step (three nodes) and a second list
compete, so that allocation fails in the head, in the middle and not at all,
with a low node freed while a higher one is in use. Suspends and reboots fall
at every step of probing; three allow one disturbance per console. Eight ticks
allow two debounced transitions and a full hold of the menu button while
locked; two cycles to a tick, where the STM32 has thousands, are enough to
tell the clocks apart and let a transition still happen. In `parts`: three
Hids have one without ids between two with them; three requests allow a halt,
a reset and a late set_idle around one handover; five bytes are a version, a
two-byte name and two bytes of key, sent in packets that overlap, leave gaps,
are cut short and reach into the next; three drawings allow one before, one in
and one after a transfer; the counters divide one another as the real ones do
and wrap several times; two output reports allow one before the undo and one
in the flash. The menu's state is finite as it is: nothing is cut off (the USB
delay is limited by the code; a tick is taken as 500 us to keep its range
small). The proofs of section 5 remove the bounds for what they cover.

`CHECK_DEADLOCK FALSE` is given for UsbProbe, where a settled device whose
host has used its disturbances has nothing left to do, and for MCParts and
Led, where a signature has been sent, the LED has settled, or the changes of
the display are used up.

The type invariants are conjuncts of `NodesOwned`, `NoneSkipped`,
`DrawInBounds` and `StickCleaned`, and all of them are proved.

### Findings

1. `auth.h` 6-7 says a nonce is complete "when the full nonce has been read";
   `set_nonce` (133-135) only looks for part 4.
2. `auth.h` 14-15 says Signing is left "upon error"; `sign_nonce` returns
   (61-64, 70-73) and leaves it, and only a reboot helps.
3. `output/usb/hid.cpp` 153-154 says a resume retries "from the beginning"; a
   probe check already on the work queue stores the next probe again
   (`usb.cpp` 271).
4. `Kconfig` 39-42 offers external input; on a board without `gpio_keys`
   every button is unmapped (`profile.cpp` 30-38, 348). That is pl_dongle; the
   other two boards that set the option, particle_xenon and stm32f4_disco,
   have `gpio_keys`, and the buttons named there are reported.
5. `panthera.cpp` 84 means to disable only a touchpad that never answered;
   `succeeded_once` (56) is assigned nowhere, so 130 failed reads, however
   many succeeded between them, disable any touchpad as "not found".
6. `led.h` 16-17 says an operation can be undone "without affecting things if
   another operation came in after"; where USB callbacks are interrupts
   (STM32), an output report between the test of the counter and the
   assignment (`led.cpp` 126, 130) is undone. On the nRF it cannot fall there
   (`LedSettles`).
7. `input.cpp` 195 says "Only allow transitions every 5 milliseconds"; the
   interval is counted in ticks and its limit in cycles (197-199). On the nRF
   both have 32768 Hz. pl_stm32 and pl_bluepill have 72 MHz of cycles
   (`*_defconfig` 5) and ticks of 10 kHz by Zephyr's default: a button changes
   once in 36 seconds, for the first time 36 seconds after boot.

### Observations without a run

* `PL_GPIO_MODE_LOCK_AVAILABLE` (`input.cpp` 244) is defined nowhere, so the
  mode-lock switch never locks; only the menu does.
* `input_get_lock_tick` (163-168) returns the flag, 1, where its name promises
  the tick. The comparison with it (`profile.cpp` 242) is then true of any
  press after the first tick, and the model keeps it (`LockTick`).
* Right after locking through the menu, with the button still down for less
  than two seconds, reports go to the host while the menu is on screen
  (`profile.cpp` 240); `MenuConsumes` is about the unlocked input.
* On the dongle, `menu close` with the spot forgotten followed by `menu right`
  reads an empty span (`menu.cpp` 595). `ButtonsNeverFault` shows that the
  button-driven build cannot get there.
* LEDs, on boards where the USB callbacks are interrupts (STM32), beside
  finding 6: an output report after `led_update` has loaded the value (`led.cpp`
  77, 87) and before the pin is written (56) is overwritten by the older value;
  one after that and before `flashing = false` (80) is stored and not shown.
* `provisioning_length` never goes down: after a long image a shorter one is
  flushed with the tail of the first, unless the device was rebooted.
* Of an image cut after its board name, in the pointer to the key
  (`provisioning_types.h` 16-20) or in the key, boot takes notice of nothing:
  `provisioning_init` looks at the version and the name.
* `ssd1306_init` starts a work queue of low priority (`ssd1306.cpp` 350) that
  nothing is submitted to: the blit goes to the system work queue (385), which
  every transfer of a frame holds up, probing and USB writes with it.
* To a control request of length 0 for the provisioning version `GetReportPL`
  writes a byte and answers 1 (`hid.cpp` 331-337). Lengths in Reports start at 1.
* Display, on the dongle, whose menu the shell drives: `set_row` marks the
  frame dirty and then writes the row (`ssd1306.cpp` 251-281). A blit that
  starts in between marks it clean, and the `display_blit` that follows finds
  nothing to send: the end of that row is not shown until the next drawing. A
  status line drawn in the middle of the shell's (`display.cpp` 65) is
  overwritten by the older one.
* A failed I2C transfer of a frame is ignored (`ssd1306.cpp` 301), and the
  panel's address pointer stays where it stopped: the picture is shifted from
  then on.
* A latency sample starts with the first read since the last completion
  (`metrics.cpp` 62), so after refused writes it measures from a read whose
  report was never sent.
* `k_delayed_work_init` (`hid.cpp` 425) runs over a work item a callback may
  have queued since the cancel (463).
* `PASSINGLINK_OUTPUT_USB_DEFERRED_WORK_QUEUE` depends on an option that does
  not exist (`Kconfig` 136), so the writes always run on the system work
  queue. `NoLeftovers` relies on it: with a queue of their own, a write could
  be under way during a handover (the mutant `CancelAnytime`).
* Without `..._DEFERRED`, which every board sets, `write_report` calls itself
  while the endpoint is busy (111).
* A control request for an input report (`hid.cpp` 235) runs in the USB
  context and may fall into the middle of `write_report`'s own
  `input_get_state`, which keeps its state in static variables.
* `PS4Hid::SetReport` of a build without authentication returns -1 from a
  `bool` function (`ps4/hid.cpp` 396): the request is reported as successful.
* `input clear` (`shell.cpp` 42-45) prints that it cleared and does nothing.

## 4. Fairness

Safety properties are checked of `Spec` or of a specification with fairness,
which adds no behaviour. Liveness assumes:

* PS4Auth: weak fairness of the handler's steps and of the signer's, each as
  a whole. A USB handler that was called runs to its end, and Zephyr's work
  queue thread runs what is submitted. Whether a hash succeeds is not
  assumed, and nothing is assumed of the host.
* InputQueue: time passes (`HoldTick`), and the USB output polls (`UsbPoll`), as
  the USB stack does for every report.
* UsbProbe: the device boots, the system work queue runs, time passes. The
  host's disturbances are finite in number (`MaxDisturbances`); a host that
  resets the device for ever prevents it from settling.
* UsbWrite: the work queue runs, timers fire, the USB stack calls back, and
  the host does what a host does with a device it wants reports from: it
  polls, sets the endpoint going after a reset and clears a halt it set.
  Whether `usb_enable` succeeds is not assumed: `KeepsReporting` is about USB
  that stays enabled.
* Display: the system work queue runs the blit, and the shell ends its drawing.
  Led: the work queue runs and timers fire.
  Nothing is assumed of the other actors; Provisioning, Reports and
  CopySignature have no liveness property.

## 5. Proofs

All constants are arbitrary within the named assumptions of the modules.

**PS4AuthProofs.** `IInv` is inductive: the types; which `auth_state.type`
goes with which `usb_pc` and `sign_pc` (a nonce is received only while the
signer is idle, a signature read only after it is published); that the state
a thread loaded is still the state until its swap; that the nonce hashed is
the one in the buffer and, from `SignSign` on, the one signed; and that `sent`
is the run of chunks up to `next_part`. None of the safety properties is
inductive by itself: `CasNeverFails` needs to know that the other thread has
no business in this state, `SentInOrder` that header and payload were loaded
from the same state. `Invariance` proves IInv; `TypeCorrect`, `CasSafe`,
`WorkSafe`, `SignatureSafe`, `SentSafe` and `StatusSafe` follow, and
`NonceSafe` proves the action property `NonceFrozen` from it. Assumptions:
more than one part and chunk, fewer chunks than a byte has values, 0 is a
nonce id, the empty signature is no nonce.

`Refinement` is `Spec => Exchange!ASpec`, the safety part of
`ImplementsExchange`: of all the steps only the last part's swap (`SetNonceCas`),
publication, the two failures and the swap of a chunk change what the host can
see, and each is a step of AuthExchange. It rests on IInv: without
"the state loaded is still the state" a chunk's swap could be a step from an
abstract state that has moved on.

**InputQueueProofs.** `AllocSafe`: everything below `last_avail` is allocated,
for any storage size and set of writers; it needs no ownership. `QueueInv` is
for the rest: there are sequences of nodes (the active list, what is left of
it to play, one list per writer) which the `next` pointers spell out from
their heads to `Null`, which share no node, and of which the bitmap is the
union; every node of them but the one a writer is about to fill has its state
and delay, and what was played followed by the states left is the script.
`NodesOwned` alone is not inductive: it says what the walk along a list
returns, and a step that changes one pointer changes every walk through it.
With the lists as witnesses a step is an append, a removal or a replacement;
that the walk (`Walk`, a recursive function) computes the list is proved once,
in `ListIs`, by induction on the length of the list.
`OwnedSafe` and `ScriptSafe` follow. `HoldSafe` adds to it how long ago the USB
output polled and that an element it has not seen was taken less than a hold
ago; the assumption is that it polls at least once per hold.

**InputProofs.** `MenuInv` (flags of the menu agree, it is open only with the
button down, what the last report may contain) gives `MenuFollowsSafe`,
`MenuConsumesSafe` and `LockedSafe` for every board and timing. `SteadyInv`
relates the button's history to how long the level has been steady: the last
accepted transition is not later than now, and a history that differs from
the level was made before the level settled. It gives `SteadySafe` for any
ratio of the clocks: no bounce postpones a level beyond `transition_time`,
whose length finding 7 is about. `PipeInv` relates the history that the code keeps
to the `order` of the presses: a held button was pressed at some tick, one the
board has not got never was, and two opposite directions are in `order` as
their ticks are. `StickSafe` then is about `SocdParse` alone: the lemmas
reduce its scan over a list of inputs, which varies with board and profile, to
the set of those pressed, the newest tick among the negative and the positive
ones and whether an override is among them, and compare that with the rule
stated from `order`. `MenuInputSafe` needs `LockInv`: `input_get_lock_tick`
returns 1 (see the observations), so a press at tick 1 or earlier must be
known to have opened the menu.

**UsbProbeProofs.** For any list of different Hids, any of the builds and any
number of disturbances. The invariant adds that at most one check is on its
way, in the timer or in the queue, and only for a probe that has not settled
(`OneCheck`); that a probe under way is what USB runs (`ProbeRuns`); that a
success the check has read was an answer (`AnswersKept`, the step between
reading and acting); and that what is stored for the next boot comes right
after Hids already tried (`StoredInOrder`, without which a reboot could skip
one). `OrderSafe`, `SelectionSafe` and `ConsumedSafe` are parts of it.

**UsbWriteProofs.** `ChainSafe`, `LeftoversSafe` and `IdsSafe` for any Hids in
any order, any of them with ids of its own, and any number of resets, halts
and requests, from `WriteAssumption` (at least one Hid, none of them is `None`).
The invariant adds to them where the device is between two Hids (`Between`:
off the bus and with the configuration's ids, which is why a Hid without ids
inherits the right ones; what is being disabled is not the last Hid) and that
a report is in hand exactly while `write_report` runs (`InHand`, without which
a report could be carried over a handover). `ChainAlive` needs one step per
way a link ends: each leaves the next behind it.

**MenuProofs.** For any number of rows and either driver, and any stack of at
least four entries (the code has eight; the tree is four deep). `SpotInv` says
of every entry of the stack that its menu is as deep in the tree as the entry
is in the stack, that its saved spot is a window inside its parent's items
(`WindowOK`) and that the item under the cursor there is this menu; of the
present spot that it is such a window too. `DrawInBounds` is not inductive:
going left restores a saved spot, so every saved one has to be good, and the
window must end inside the list for the next `MenuUp` or `MenuDown` to keep
it there. `FaultInv` ties the `pressed` of profile.cpp to the menu's `opened`
under the buttons. `DrawSafe`, `PathSafe`, `ItemsSafe` and `FaultSafe` follow,
and `OptionSafe` goes through the actions. The lemmas of the first section are about
the tree.

**PartsProofs.** Theorems of `PartsSpec`, one invariant per part.

* `SliceSafe`, `FitSafe`: `CopyInv` says that reply and buffer are together a
  beginning of the whole and how long it is, which gives the part and the
  offset the loop has come to. The sizes are those of the code, since that 56
  divides their sum is the point.
* `FlushSafe`, `NameSafe`: `BufferInv` says that every place of the buffer holds
  the byte of the last accepted packet that covers it, `FlashInv` that what is
  written in the partition is a beginning of it, during a flush that of the
  buffer. A name is whole because the bytes before a written one are written.
  Nothing is said of what follows the name. Assumed (`KeepingAssumption`): the name lies inside the partition, and no
  image is `None`.
* `FrameSafe`: the invariant adds to `FrameNotLost` that the transfer is at one
  of the cells and that a drawing of the shell, until a blit interrupts it,
  has left the frame dirty.
* `ReadSafe`: `ReportInv` keeps the touch decodable, the counter in step with
  the last one sent, and the answer what it was made from. The lemmas are
  about nibbles: `SetX` and `SetY` each write one half of a shared byte and
  leave the other. Assumed (`ReportingAssumption`): coordinates of 12 bits, and
  that the report's counter divides the one it is cut from, and requests of at
  least one byte.

Assumptions of UsbProbeProofs: the Hids are different and at least one, a build is one of the
three; of InputQueueProofs: at least one node, a hold of at least a tick, the
shell is a writer; of InputProofs: those of Input on boards and times. TLC
evaluates them all in the runs.

**Induction.** The library's induction theorems take an operator as a
parameter and cannot be used, but their set forms can: where a fact is needed
for all lengths (the walk along a list) or a least element (the newest tick),
the proofs take a minimal counterexample (`WFMin` or `LeastExists` applied to a
set) and refute it.

**Only model-checked**: liveness, which is out of the prover's reach, that is
`NonceAnswered`, `QueueAdvances`, `Settles`, `KeepsReporting`, `PanelCatchesUp`,
`LedSettles`, and of `ImplementsExchange` the fairness of the abstract exchange.
Every invariant and every safety property of a step that a passing run checks
is also a theorem.

## 6. Plan

Done: PS4Auth, CopySignature, InputQueue, UsbProbe, Input, Menu first, the
lock-free exchange before all others, since there the interleavings are
hardest to test; then UsbWrite, Provisioning, Display, Reports, Led, the
external input, and the proofs above.

Left to model: the allocator, if mbedtls' pattern of use were known, and a
flush of the key partition composed with the signer that reads it.

Next, proving:

1. Led, where the USB callbacks are threads: the safety facts `LedSettles`
   rests on (the last value set is the one stored, and a stored value that is
   not shown has an update on its way). Where they are interrupts both fail
   (finding 6 and the observation beside it).
2. The steps behind the other liveness properties: for Display, that a dirty
   frame has a blit on its way, and for UsbProbe, that a device that has not
   settled has a check, a reboot or a boot ahead of it.
3. AuthExchange: that the answer of every behaviour is a run of the chunks of
   one challenge, so that what the host may rely on is proved of the abstract
   specification and inherited through `Refinement`.

## 7. Not modelled

The allocator `malloc.cpp` (two arrays of blocks used by mbedtls alone, from
one thread: nothing interleaves, and whether 35 blocks are enough depends on
mbedtls, which is not in the repository); mbedtls itself; fonts, text layout
and the panel's configuration commands; report descriptors and constant bytes
of the reports; the moving average of the metrics and the profiler, which
nothing decides on; Bluetooth advertising, pairing and service tables, which
are the external stack's; GPIO configuration; the parsing of shell arguments;
`main`, which calls the initialisers in order. Not modelled inside a modelled
part: the touchpad's second finger, which the code does not read; item text
(Menu); CRC and sizes of the authentication packets, whose failure is a
refused request (PS4Auth); the pointer to the key and the key behind the board
name, which boot does not validate either (Provisioning). A chunk's `next_part` advances when
it is composed; what the USB transfer does after that is not reported to this
code and is not in the model.
