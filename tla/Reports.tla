------------------------------ MODULE Reports ------------------------------
(***************************************************************************)
(* What a host gets when it asks for a report, or when the interrupt        *)
(* endpoint is filled: GetReportPL and GetReport of the three Hids, with    *)
(* the touchpad of input/touchpad/panthera.cpp whose touches are part of    *)
(* the PS4's report.                                                        *)
(*                                                                         *)
(* The touchpad is polled when a write is submitted, the report is made     *)
(* later, both on cooperative threads (the board with a touchpad is an nRF):*)
(* they do not interrupt each other.  The sticks and what the reports hold  *)
(* of constants are left out; the contents of the authentication reports    *)
(* are in module PS4Auth.                                                   *)
(***************************************************************************)
EXTENDS Integers, Sequences, FiniteSetsExt

CONSTANTS
    Hids,           \* the Hids of the build
    Lengths,        \* the lengths a host may ask for
    VersionLength,  \* strlen(version_string())
    Points,         \* the points <<x, y>> a finger may be at, 12 bits each
    CounterRange,   \* values of last_report_counter_, a uint8_t (256)
    ReportRange,    \* values of report_counter, 6 bits of the report (64)
    TouchRange,     \* values of TouchpadXY::counter, 7 bits (128)
    Divider,        \* submits per read of the touchpad (8)
    MaxAttempts,    \* failed reads that are tolerated, less two (128)
    None            \* no report, no touch, no counter

VARIABLES
    hid,                  \* the Hid that runs
    last_report_counter,  \* PS4Hid::last_report_counter_
    p1,                   \* touchpad_data.p1
    submits,              \* panthera.cpp's counter
    attempts, disabled,
    answer,               \* what the host has got and not looked at yet
    last,                 \* history: the counter of the last PS4 report
    finger,               \* history: the touch of the last read that succeeded
    touches,              \* history: how often a finger was put down
    found                 \* history: a read has succeeded

touchVars == <<p1, submits, attempts, disabled, finger, touches, found>>
vars == <<hid, last_report_counter, touchVars, answer, last>>

\* input_touchpad_init
Init ==
    /\ hid \in Hids
    /\ last_report_counter = 0
    /\ p1 = [counter |-> 0, unpressed |-> TRUE, data |-> <<0, 0, 0>>]
    /\ submits = 0 /\ attempts = 0 /\ disabled = FALSE
    /\ answer = None /\ last = None
    /\ finger = None /\ touches = 0 /\ found = FALSE

-----------------------------------------------------------------------------
(* The touchpad                                                            *)

Low(b) == b % 16
High(b) == b \div 16

\* The sensor's three bytes, low nibble first: xh yh, xl xm, yl ym.
Sensed(x, y) == <<(x \div 256) + 16 * (y \div 256), x % 256, y % 256>>
SensedX(b) == 256 * Low(b[1]) + 16 * High(b[2]) + Low(b[2])
SensedY(b) == 256 * High(b[1]) + 16 * High(b[3]) + Low(b[3])

\* TouchpadXY::set_x
SetX(d, x) == <<x % 256, 16 * High(d[2]) + Low(x \div 256), d[3]>>

\* Mutant: the nibble of x in the byte they share is cleared.
SetYClears(d, y) == <<d[1], 16 * Low(y), (y \div 16) % 256>>

\* TouchpadXY::set_y
SetY(d, y) == <<d[1], Low(d[2]) + 16 * Low(y), (y \div 16) % 256>>

\* input_touchpad_poll reads the touchpad every Divider-th time.
PollSkips ==
    /\ answer = None /\ ~disabled
    /\ submits + 1 < Divider
    /\ submits' = submits + 1
    /\ UNCHANGED <<hid, last_report_counter, p1, attempts, disabled, answer, last, finger, touches, found>>

Reads == answer = None /\ ~disabled /\ submits + 1 = Divider

\* No finger: the last place stays in the data.
PollReleased ==
    /\ Reads
    /\ submits' = 0
    /\ p1' = [p1 EXCEPT !.unpressed = TRUE]
    /\ finger' = None /\ found' = TRUE
    /\ UNCHANGED <<hid, last_report_counter, attempts, disabled, answer, last, touches>>

\* A finger: a new touch if there was none.
PollTouched(point) ==
    LET b == Sensed(point[1], point[2])
    IN  /\ Reads
        /\ submits' = 0
        /\ p1' = [counter |-> IF p1.unpressed THEN (p1.counter + 1) % TouchRange ELSE p1.counter,
                  unpressed |-> FALSE,
                  data |-> SetY(SetX(p1.data, SensedX(b)), SensedY(b))]
        /\ finger' = point /\ found' = TRUE
        /\ touches' = IF finger = None THEN (touches + 1) % TouchRange ELSE touches
        /\ UNCHANGED <<hid, last_report_counter, attempts, disabled, answer, last>>

\* The read fails.  succeeded_once is never set: failures are counted, and in
\* the end disable the touchpad, whether or not there were successes.
PollFails ==
    /\ Reads
    /\ submits' = 0
    /\ attempts' = attempts + 1
    /\ disabled' = (attempts > MaxAttempts)
    /\ UNCHANGED <<hid, last_report_counter, p1, answer, last, finger, touches, found>>

-----------------------------------------------------------------------------
(* Reports                                                                 *)

\* StickState, from north clockwise, and neutral.
Compass == <<"North", "NorthEast", "East", "SouthEast", "South", "SouthWest", "West", "NorthWest">>
StickStates == {Compass[i] : i \in 1 .. Len(Compass)} \cup {"Neutral"}

Inputs == [dpad : StickStates, buttons : {{}, {"south", "touchpad"}}]

Hat(s) == (CHOOSE i \in 1 .. Len(Compass) : Compass[i] = s) - 1

\* OutputReport::dpad
Dpad(h, s) == IF s # "Neutral" THEN Hat(s) ELSE IF h = "PS4" THEN 15 ELSE 8

\* OutputReport's buttons: the PS3's has none for the touchpad.
PadButtons(h, buttons) == IF h = "PS3" THEN buttons \ {"touchpad"} ELSE buttons

\* GetInputReport of the three Hids.
InputReport(h, input) ==
    [dpad |-> Dpad(h, input.dpad),
     buttons |-> PadButtons(h, input.buttons),
     report_counter |-> IF h = "PS4" THEN last_report_counter % ReportRange ELSE None,
     touch |-> IF h = "PS4" THEN p1 ELSE None]

\* What PS4Hid::GetFeatureReport may return.  0xF1 fails without a signature,
\* 0xF1 and 0xF2 in builds without the authentication.
PS4FeatureLengths(id, len) ==
    CASE id = "0x03" /\ len = 48 -> {48}
      [] id = "0xF1" /\ len = 64 -> {-1, 64}
      [] id = "0xF2" /\ len - 4 >= 12 -> {-1, 16}
      [] id = "0xF3" /\ len = 8 -> {8}
      [] OTHER -> {-1}

\* PS3Hid::GetFeatureReport
PS3FeatureLengths(id, len) == IF id = "0x00" /\ len >= 8 THEN {8} ELSE {-1}

\* GetReport with a feature report; the NXHid has none.
FeatureLengths(h, id, len) ==
    CASE h = "PS4" -> PS4FeatureLengths(id, len)
      [] h = "PS3" -> PS3FeatureLengths(id, len)
      [] h = "NX" -> {-1}

FeatureIds == {"0x00", "0x03", "0xF1", "0xF2", "0xF3"}

InputLength(h) == CASE h = "NX" -> 8 [] h = "PS3" -> 27 [] h = "PS4" -> 64

\* last_report_counter_++
CounterAfter == (last_report_counter + 1) % CounterRange

Answer(len, length, report, input) ==
    answer' = [asked |-> len, length |-> length, report |-> report, input |-> input, after |-> last]

\* GetReport(Input, 1), for the interrupt endpoint or for a request: of a buffer
\* of another size than 64 nothing comes.
GetInputReport(len, input) ==
    /\ answer = None
    /\ IF len = 64
       THEN /\ Answer(len, InputLength(hid), InputReport(hid, input), input)
            /\ IF hid = "PS4"
               THEN last_report_counter' = CounterAfter /\ last' = last_report_counter % ReportRange
               ELSE UNCHANGED <<last_report_counter, last>>
       ELSE Answer(len, -1, None, None) /\ UNCHANGED <<last_report_counter, last>>
    /\ UNCHANGED <<hid, touchVars>>

\* get_report with a feature report of the Hid
GetFeatureReport(id, len) ==
    /\ answer = None
    /\ \E length \in FeatureLengths(hid, id, len) : Answer(len, length, None, None)
    /\ UNCHANGED <<hid, last_report_counter, last, touchVars>>

\* GetReportPL: the version, and the version of the provisioning protocol
GetReportPL(len) ==
    /\ answer = None
    /\ \E length \in {Min({len, VersionLength}), 1} : Answer(len, length, None, None)
    /\ UNCHANGED <<hid, last_report_counter, last, touchVars>>

\* The host has its answer.
HostTakes ==
    /\ answer # None
    /\ answer' = None
    /\ UNCHANGED <<hid, last_report_counter, last, touchVars>>

Touchpad == PollSkips \/ PollReleased \/ PollFails \/ \E point \in Points : PollTouched(point)

Next == \/ Touchpad \/ HostTakes
        \/ \E len \in Lengths : \/ \E input \in Inputs : GetInputReport(len, input)
                                \/ \E id \in FeatureIds : GetFeatureReport(id, len)
                                \/ GetReportPL(len)

Spec == Init /\ [][Next]_vars

-----------------------------------------------------------------------------
(* Properties                                                              *)

\* No answer is longer than what the host asked for.
AnswerFits == answer.length <= answer.asked

\* The hat as the report descriptors have it: eighths of a turn, or none.
HostDpad(dpad) == IF dpad < 8 THEN Compass[dpad + 1] ELSE "Neutral"

\* The place as the PS4 has it: twelve bits of x, then twelve of y.
HostPoint(d) == <<d[1] + 256 * Low(d[2]), High(d[2]) + 16 * d[3]>>

\* The direction, the one button the PS3 has not got aside the buttons.
ShowsInput(r, input) ==
    /\ HostDpad(r.dpad) = input.dpad
    /\ r.buttons \cup {"touchpad"} = input.buttons \cup {"touchpad"}

\* The finger where the touchpad saw it last, with the number of its touch.
ShowsTouch(t) ==
    /\ t.unpressed = (finger = None)
    /\ t.counter = touches
    /\ finger # None => HostPoint(t.data) = finger

\* The counter is one on from that of the report before, where the byte it is
\* kept in wraps too.
CountsOn(r) == answer.after # None => r.report_counter = (answer.after + 1) % ReportRange

\* Whatever the host asks for, and whatever touches, failed reads and requests
\* came before: an answer fits, and an input report, on each console's own
\* encoding, decodes to the input it was made from and the last touch.
HostReads ==
    answer # None =>
        /\ AnswerFits
        /\ answer.report # None =>
            /\ ShowsInput(answer.report, answer.input)
            /\ hid = "PS4" => ShowsTouch(answer.report.touch) /\ CountsOn(answer.report)

\* A touchpad that has answered is not taken for one that is not there.
FoundNotDisabled == found => ~disabled
=============================================================================
