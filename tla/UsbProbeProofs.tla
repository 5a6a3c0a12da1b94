--------------------------- MODULE UsbProbeProofs ---------------------------
(***************************************************************************)
(* Proofs about console probing, for any list of different Hids, any build, *)
(* any length of the probe delay and any number of suspends, resumes and    *)
(* reboot requests.                                                         *)
(***************************************************************************)
EXTENDS UsbProbe, SequenceTheorems, TLAPS

\* Where the check of a probe is: its delay runs, or it is queued, or neither.
CheckQueued == queue \in {<<"check">>, <<"check", "reboot">>, <<"reboot", "check">>}
CheckFirst == queue \in {<<"check">>, <<"check", "reboot">>}

\* One check is on its way, for a probe that is under way and not settled; it
\* has read its result only at the head of the queue.
OneCheck ==
    /\ timer # None => ~CheckQueued
    /\ check # None => CheckFirst
    /\ timer # None \/ CheckQueued => current_probe # None /\ selected = None

\* A probe under way is what USB runs with; before main has come to usb_init
\* nothing runs.
ProbeRuns ==
    /\ current_probe # None => hid = current_probe
    /\ ~running => hid = None /\ current_probe = None /\ selected = None /\ timer = None /\ queue = << >>
        /\ suspended = None

\* A Hid that has its answer is among the answered ones, and so is one the
\* check read a success of.
AnswersKept ==
    /\ halts = {"in", "out"} => "NX" \in answered
    /\ numbered => "PS3" \in answered
    /\ check = "success" => current_probe \in answered

\* What is stored for the next boot comes after Hids that have been tried;
\* builds that do not reboot between probes store nothing.
StoredInOrder ==
    /\ ~build.reboot_probe => boot_probe = None
    /\ \A i \in 1 .. Len(ProbeOrder) :
        boot_probe = ProbeOrder[i] => \A j \in 1 .. i - 1 : ProbeOrder[j] \in tried

IInv == NoneSkipped /\ OneCheck /\ ProbeRuns /\ AnswersKept /\ StoredInOrder
        /\ SelectionJustified /\ BootProbeConsumed

\* The Hids by their place in the order.
LEMMA ProbesIndexed ==
    /\ Len(ProbeOrder) \in Nat \ {0}
    /\ \A i \in 1 .. Len(ProbeOrder) : ProbeOrder[i] \in Probes
    /\ \A h \in Probes : \E i \in 1 .. Len(ProbeOrder) : ProbeOrder[i] = h
  BY OrderAssumption DEF Probes, ToSet

\* ProbeType::next: the next in the order, none after the last.
LEMMA NextIndexed ==
    ASSUME NEW i \in 1 .. Len(ProbeOrder)
    PROVE  ProbeTypeNext(ProbeOrder[i]) = IF i = Len(ProbeOrder) THEN None ELSE ProbeOrder[i + 1]
  <1>1. (CHOOSE k \in 1 .. Len(ProbeOrder) : ProbeOrder[k] = ProbeOrder[i]) = i
    BY OrderAssumption
  <1>2. QED
    BY <1>1 DEF ProbeTypeNext

\* The next type to probe is one, or there is none.
LEMMA NextIsProbe == ASSUME NEW h \in Probes PROVE ProbeTypeNext(h) \in Probes \cup {None}
  <1>1. PICK i \in 1 .. Len(ProbeOrder) : ProbeOrder[i] = h
    BY ProbesIndexed
  <1>2. i # Len(ProbeOrder) => i + 1 \in 1 .. Len(ProbeOrder)
    BY ProbesIndexed
  <1>3. QED
    BY <1>1, <1>2, NextIndexed, ProbesIndexed

\* The queue holds each of the two work items at most once.
QueueType == {<< >>, <<"check">>, <<"reboot">>, <<"check", "reboot">>, <<"reboot", "check">>}

\* Two entries
LEMMA AppendToOne == ASSUME NEW a, NEW b PROVE Append(<<a>>, b) = <<a, b>>
  <1> DEFINE s == Append(<<a>>, b)
             t == <<a, b>>
  <1>1. s \in Seq({a, b}) /\ Len(s) = 2 /\ s[1] = a /\ s[2] = b
    <2>1. <<a>> \in Seq({a, b}) /\ Len(<<a>>) = 1
      OBVIOUS
    <2>2. QED
      BY <2>1
  <1>2. t \in Seq({a, b}) /\ Len(t) = 2 /\ t[1] = a /\ t[2] = b
    OBVIOUS
  <1>3. \A i \in 1 .. Len(s) : s[i] = t[i]
    BY <1>1, <1>2
  <1> HIDE DEF s, t
  <1>4. s = t
    BY <1>1, <1>2, <1>3, SeqEqual
  <1>5. QED
    BY <1>4 DEF s, t

\* A check that is not queued is queued last.
LEMMA EnqueueCheck ==
    ASSUME NEW q \in QueueType, q \notin {<<"check">>, <<"check", "reboot">>, <<"reboot", "check">>}
    PROVE  Enqueue(q, "check") \in {<<"check">>, <<"reboot", "check">>}
  <1>1. CASE q = << >>
    BY <1>1 DEF Enqueue
  <1>2. CASE q = <<"reboot">>
    <2>1. Append(q, "check") = <<"reboot", "check">>
      BY <1>2, AppendToOne
    <2>2. Len(q) = 1 /\ q[1] # "check"
      BY <1>2
    <2>3. Enqueue(q, "check") = Append(q, "check")
      BY <2>2 DEF Enqueue
    <2>4. QED
      BY <2>1, <2>3
  <1>3. QED
    BY <1>1, <1>2 DEF QueueType

\* A reboot is queued once.
LEMMA EnqueueReboot ==
    ASSUME NEW q \in QueueType
    PROVE  \/ q = << >> /\ Enqueue(q, "reboot") = <<"reboot">>
           \/ q = <<"check">> /\ Enqueue(q, "reboot") = <<"check", "reboot">>
           \/ q \notin {<< >>, <<"check">>} /\ Enqueue(q, "reboot") = q
  <1>1. CASE q = << >>
    BY <1>1 DEF Enqueue
  <1>2. CASE q = <<"check">>
    <2>1. Append(q, "reboot") = <<"check", "reboot">>
      BY <1>2, AppendToOne
    <2>2. Len(q) = 1 /\ q[1] # "reboot"
      BY <1>2
    <2>3. Enqueue(q, "reboot") = Append(q, "reboot")
      BY <2>2 DEF Enqueue
    <2>4. QED
      BY <1>2, <2>1, <2>3
  <1>3. CASE q \in {<<"reboot">>, <<"check", "reboot">>, <<"reboot", "check">>}
    <2>1. \E i \in 1 .. Len(q) : q[i] = "reboot"
      <3>1. CASE q[1] = "reboot"
        BY <1>3, <3>1
      <3>2. CASE q = <<"check", "reboot">>
        BY <3>2
      <3>3. QED
        BY <1>3, <3>1, <3>2
    <2>2. q \notin {<< >>, <<"check">>}
      BY <1>3
    <2>3. QED
      BY <2>1, <2>2 DEF Enqueue
  <1>4. QED
    BY <1>1, <1>2, <1>3 DEF QueueType

\* What taking the first item leaves.
LEMMA Dequeue ==
    ASSUME NEW q \in QueueType, q # << >>
    PROVE  /\ Head(q) = "check" => q \in {<<"check">>, <<"check", "reboot">>} /\ Tail(q) \in {<< >>, <<"reboot">>}
           /\ q \in {<<"check">>, <<"check", "reboot">>} => Head(q) = "check"
  <1>1. CASE q = <<"check">>
    BY <1>1
  <1>2. CASE q = <<"check", "reboot">>
    BY <1>2
  <1>3. CASE q \in {<<"reboot">>, <<"reboot", "check">>}
    BY <1>3
  <1>4. QED
    BY <1>1, <1>2, <1>3 DEF QueueType

\* A queue that is empty, or holds a reboot alone, holds no check.
LEMMA NoCheck ==
    ASSUME NEW q \in {<< >>, <<"reboot">>}
    PROVE  q \notin {<<"check">>, <<"check", "reboot">>, <<"reboot", "check">>}
  <1>1. CASE q = << >>
    BY <1>1
  <1>2. CASE q = <<"reboot">>
    <2>1. Len(q) = 1 /\ q[1] = "reboot"
      BY <1>2
    <2>2. QED
      BY <2>1
  <1>3. QED
    BY <1>1, <1>2

\* At boot nothing is queued.
LEMMA InitInv == Init => IInv
  <1> SUFFICES ASSUME Init PROVE IInv
    OBVIOUS
  <1>1. TypeOK
    <2>1. running \in BOOLEAN /\ numbered \in BOOLEAN /\ retrying \in BOOLEAN
      BY Zenon DEF Init
    <2>2. QED
      BY <2>1, SecondAssumption DEF Init, TypeOK
  <1>2. None \notin Probes /\ None # "success"
    BY NoneAssumption
  <1>3. \A i \in 1 .. Len(ProbeOrder) : ProbeOrder[i] # None
    BY <1>2, ProbesIndexed
  <1>4. QED
    BY <1>1, <1>2, <1>3 DEF Init, IInv, NoneSkipped, OneCheck, CheckQueued, CheckFirst,
       ProbeRuns, AnswersKept, StoredInOrder, SelectionJustified, BootProbeConsumed

\* usb_probe at boot: the user's choice, the stored probe or the first one.
LEMMA BootInv == ASSUME IInv, Boot PROVE IInv'
  <1> USE DEF IInv, NoneSkipped, OneCheck, ProbeRuns, AnswersKept, StoredInOrder, SelectionJustified, BootProbeConsumed
  <1>1. ~running /\ queue = << >> /\ timer = None /\ selected = None /\ current_probe = None /\ hid = None
    BY DEF Boot, ProbeAtBoot, UserChooses
  <1>2. ~CheckQueued /\ ~CheckFirst /\ check = None
    BY <1>1 DEF CheckQueued, CheckFirst
  <1>3. ASSUME NEW h \in Probes, UserChooses(h) PROVE IInv'
    <2>1. StoredProbe = None => boot_probe = None
      BY DEF StoredProbe
    <2>2. TypeOK'
      BY <1>3 DEF UserChooses, TypeOK, hostVars
    <2>3. QED
      BY <1>1, <1>2, <1>3, <2>1, <2>2, NoneAssumption DEF UserChooses, hostVars, CheckQueued, CheckFirst
  <1>4. CASE ProbeAtBoot
    <2>1. PICK h \in Probes : StartProbe(h) /\ h = IF StoredProbe = None THEN ProbeTypeFirst ELSE StoredProbe
      <3>1. ProbeTypeFirst \in Probes
        BY ProbesIndexed DEF ProbeTypeFirst
      <3>2. StoredProbe \in Probes \cup {None}
        BY DEF StoredProbe, TypeOK
      <3>3. QED
        BY <1>4, <3>1, <3>2 DEF ProbeAtBoot
    <2>2. h # None
      BY NoneAssumption
    <2>3. TypeOK'
      <3>1. tried' \subseteq Probes /\ running' \in BOOLEAN /\ retrying' \in BOOLEAN
        BY <1>4, <2>1 DEF ProbeAtBoot, TypeOK
      <3>2. timer' \in 1 .. Second /\ hid' = h /\ current_probe' = h
        BY <2>1, SecondAssumption DEF StartProbe
      <3>3. QED
        BY <1>4, <3>1, <3>2 DEF ProbeAtBoot, TypeOK, hostVars
    <2>4. StoredInOrder' /\ \A i \in 1 .. Len(ProbeOrder) :
              h = ProbeOrder[i] => \A j \in 1 .. i : ProbeOrder[j] \in tried'
      <3>1. CASE StoredProbe = None
        <4>1. boot_probe = None
          BY <3>1 DEF StoredProbe
        <4>2. h = ProbeOrder[1] /\ tried' = {h} /\ 1 \in 1 .. Len(ProbeOrder)
          BY <1>4, <2>1, <3>1, ProbesIndexed DEF ProbeAtBoot, ProbeTypeFirst
        <4>3. \A i \in 1 .. Len(ProbeOrder) : h = ProbeOrder[i] => i = 1
          BY <4>2, OrderAssumption
        <4>4. \A i \in 1 .. Len(ProbeOrder) : ProbeOrder[i] # None
          BY ProbesIndexed, NoneAssumption
        <4>5. QED
          BY <1>4, <4>1, <4>2, <4>3, <4>4 DEF ProbeAtBoot
      <3>2. CASE StoredProbe # None
        <4>1. h = boot_probe /\ build.reboot_probe
          BY <2>1, <3>2 DEF StoredProbe
        <4>2. tried' = tried \cup {h}
          BY <1>4, <2>1, <3>2 DEF ProbeAtBoot
        <4>3. \A i \in 1 .. Len(ProbeOrder) : h = ProbeOrder[i] =>
                 \A j \in 1 .. i : ProbeOrder[j] \in tried'
          <5> SUFFICES ASSUME NEW i \in 1 .. Len(ProbeOrder), h = ProbeOrder[i], NEW j \in 1 .. i
                       PROVE  ProbeOrder[j] \in tried'
            OBVIOUS
          <5>1. CASE j = i
            BY <4>2, <5>1
          <5>2. CASE j \in 1 .. i - 1
            BY <4>1, <4>2, <5>2
          <5>3. QED
            BY <5>1, <5>2, ProbesIndexed
        <4>4. QED
          BY <1>4, <4>1, <4>2, <4>3 DEF ProbeAtBoot
      <3>3. QED
        BY <3>1, <3>2
    <2>5. QED
      BY <1>1, <1>2, <1>4, <2>1, <2>2, <2>3, <2>4, NoneAssumption
         DEF ProbeAtBoot, StartProbe, hostVars, CheckQueued, CheckFirst
  <1>5. QED
    BY <1>3, <1>4 DEF Boot

\* usb_probe_check reads: a success is an answer the host has given.
LEMMA CheckReadsInv == ASSUME IInv, CheckReads PROVE IInv'
  <1> USE DEF IInv, NoneSkipped, OneCheck, ProbeRuns, AnswersKept, StoredInOrder, SelectionJustified, BootProbeConsumed
  <1>1. CheckFirst
    BY Dequeue DEF CheckReads, CheckFirst, TypeOK, QueueType
  <1>2. ProbeResult(current_probe) => current_probe \in answered
    BY DEF ProbeResult
  <1>3. TypeOK'
    BY DEF CheckReads, TypeOK, hostVars, probeVars
  <1>4. QED
    BY <1>1, <1>2, <1>3, NoneAssumption DEF CheckReads, hostVars, probeVars, CheckQueued, CheckFirst

\* usb_probe_check acts: the probe is settled on, stored for the reboot, or
\* replaced by the next.
LEMMA CheckActsInv == ASSUME IInv, CheckActs PROVE IInv'
  <1> USE DEF IInv, NoneSkipped, OneCheck, ProbeRuns, AnswersKept, StoredInOrder, SelectionJustified, BootProbeConsumed
  <1>1. CheckFirst /\ CheckQueued /\ queue \in QueueType /\ queue # << >>
    BY DEF CheckActs, CheckFirst, CheckQueued, QueueType
  <1>2. Head(queue) = "check" /\ Tail(queue) \in {<< >>, <<"reboot">>}
    BY <1>1, Dequeue DEF CheckFirst
  <1>3. current_probe \in Probes /\ current_probe # None /\ hid = current_probe /\ selected = None /\ timer = None
        /\ running
    BY <1>1, NoneAssumption DEF TypeOK
  <1>4. CASE Selected
    <2>1. check = "success" \/ ProbeTypeNext(current_probe) = None
      <3>1. CASE TryNext
        <4>1. selected' = selected
          BY <3>1 DEF TryNext, probeVars
        <4>2. QED
          BY <1>3, <1>4, <4>1 DEF Selected
      <3>2. QED
        BY <3>1 DEF CheckActs
    <2>2. boot_probe' = None
      BY <1>4 DEF Selected
    <2>3. TypeOK'
      BY <1>2, <1>3, <1>4, <2>2 DEF CheckActs, Selected, TypeOK, hostVars
    <2>4. ~CheckQueued' /\ check' = None
      BY <1>2, <1>4, NoCheck DEF Selected, CheckQueued, CheckActs
    <2>5. \A i \in 1 .. Len(ProbeOrder) : ProbeOrder[i] # None
      BY ProbesIndexed, NoneAssumption
    <2>6. ProbeTypeNext(current_probe)' = ProbeTypeNext(current_probe')
      BY DEF ProbeTypeNext
    <2>7. QED
      BY <1>3, <1>4, <2>1, <2>2, <2>3, <2>4, <2>5, <2>6, NoneAssumption DEF CheckActs, Selected, hostVars
  <1>5. CASE TryNext /\ ProbeTypeNext(current_probe) # None
    <2> DEFINE next == ProbeTypeNext(current_probe)
    <2>1. next \in Probes
      BY <1>3, <1>5, NextIsProbe
    <2>2. \A i \in 1 .. Len(ProbeOrder) : next = ProbeOrder[i] =>
              \A j \in 1 .. i - 1 : ProbeOrder[j] \in tried
      <3>1. PICK k \in 1 .. Len(ProbeOrder) : ProbeOrder[k] = current_probe
        BY <1>3, ProbesIndexed
      <3>2. k # Len(ProbeOrder) /\ next = ProbeOrder[k + 1] /\ k + 1 \in 1 .. Len(ProbeOrder)
        BY <1>5, <3>1, NextIndexed, ProbesIndexed
      <3>3. \A i \in 1 .. Len(ProbeOrder) : next = ProbeOrder[i] => i = k + 1
        BY <3>2, OrderAssumption
      <3>4. \A j \in 1 .. k : ProbeOrder[j] \in tried
        BY <3>1
      <3>5. QED
        BY <3>3, <3>4
    <2> HIDE DEF next
    <2>3. check' = None
      BY DEF CheckActs
    <2>4. CASE build.reboot_probe
      <3>1. boot_probe' = next /\ queue' = Enqueue(Tail(queue), "reboot") /\ UNCHANGED probeVars
        BY <1>5, <2>4 DEF TryNext, next
      <3>2. queue' = <<"reboot">>
        BY <1>2, <3>1, EnqueueReboot DEF QueueType
      <3>3. TypeOK'
        BY <2>1, <2>3, <3>1, <3>2 DEF CheckActs, TypeOK, hostVars, probeVars
      <3>4. ~CheckQueued'
        BY <3>2 DEF CheckQueued
      <3>5. QED
        BY <1>3, <2>2, <2>3, <2>4, <3>1, <3>2, <3>3, <3>4, NoneAssumption DEF CheckActs, hostVars, probeVars
    <2>5. CASE ~build.reboot_probe
      <3>1. queue' = Tail(queue) /\ StartProbe(next) /\ tried' = tried \cup {next} /\ UNCHANGED <<boot_probe, selected, shown>>
        BY <1>5, <2>5 DEF TryNext, next
      <3>2. TypeOK'
        <4>1. timer' \in 1 .. Second /\ hid' = next /\ current_probe' = next
          BY <3>1, SecondAssumption DEF StartProbe
        <4>2. QED
          BY <1>2, <2>1, <2>3, <3>1, <4>1 DEF CheckActs, TypeOK, hostVars
      <3>3. ~CheckQueued'
        BY <1>2, <3>1, NoCheck DEF CheckQueued
      <3>4. boot_probe' = None /\ \A i \in 1 .. Len(ProbeOrder) : ProbeOrder[i] # None
        BY <2>5, <3>1, ProbesIndexed, NoneAssumption
      <3>5. \A i \in 1 .. Len(ProbeOrder) : next = ProbeOrder[i] => \A j \in 1 .. i : ProbeOrder[j] \in tried'
        <4> SUFFICES ASSUME NEW i \in 1 .. Len(ProbeOrder), next = ProbeOrder[i], NEW j \in 1 .. i
                     PROVE  ProbeOrder[j] \in tried'
          OBVIOUS
        <4>1. CASE j = i
          BY <3>1, <4>1
        <4>2. CASE j \in 1 .. i - 1
          BY <2>2, <3>1, <4>2
        <4>3. QED
          BY <4>1, <4>2, ProbesIndexed
      <3>6. QED
        BY <1>3, <2>1, <2>3, <2>5, <3>1, <3>2, <3>3, <3>4, <3>5, NoneAssumption
           DEF CheckActs, StartProbe, hostVars
    <2>6. QED
      BY <2>4, <2>5
  <1>6. QED
    BY <1>4, <1>5 DEF CheckActs

\* reboot_impl: only .noinit memory is left.
LEMMA RebootsInv == ASSUME IInv, Reboots PROVE IInv'
  <1> USE DEF IInv, NoneSkipped, OneCheck, ProbeRuns, AnswersKept, StoredInOrder, SelectionJustified, BootProbeConsumed
  <1>1. TypeOK'
    BY DEF Reboots, Reset, TypeOK
  <1>2. \A i \in 1 .. Len(ProbeOrder) : ProbeOrder[i] # None
    BY ProbesIndexed, NoneAssumption
  <1>3. QED
    BY <1>1, <1>2, NoneAssumption DEF Reboots, Reset, CheckQueued, CheckFirst

\* The host's answers.
LEMMA AnswerInv ==
    ASSUME IInv, (\E ep \in {"in", "out"} : ClearHalt(ep)) \/ InterruptOut
    PROVE  IInv'
  <1> USE DEF IInv, NoneSkipped, OneCheck, ProbeRuns, AnswersKept, StoredInOrder, SelectionJustified, BootProbeConsumed
  <1>1. hid \in {"NX", "PS3"} /\ hid \in Probes
    BY NoneAssumption DEF ClearHalt, InterruptOut, TypeOK
  <1>2. TypeOK' /\ answered \subseteq answered'
    BY <1>1 DEF ClearHalt, InterruptOut, TypeOK, probeVars
  <1>3. halts' = {"in", "out"} => "NX" \in answered'
    BY DEF ClearHalt, InterruptOut
  <1>4. numbered' => "PS3" \in answered'
    BY <1>2 DEF ClearHalt, InterruptOut
  <1>5. UNCHANGED <<build, boot_probe, running, probeVars, queue, check, suspended>>
    BY DEF ClearHalt, InterruptOut
  <1>6. QED
    BY <1>2, <1>3, <1>4, <1>5 DEF probeVars, CheckQueued, CheckFirst, ProbeTypeNext

\* A reboot that is requested comes after the check that is queued.
LEMMA RequestInv ==
    ASSUME IInv, Suspend \/ Resume \/ RebootReport
    PROVE  IInv'
  <1> USE DEF IInv, NoneSkipped, OneCheck, ProbeRuns, AnswersKept, StoredInOrder, SelectionJustified, BootProbeConsumed
  <1>1. queue' \in QueueType /\ CheckQueued' = CheckQueued /\ CheckFirst' = CheckFirst
    <2>1. queue' = queue \/ queue' = Enqueue(queue, "reboot")
      BY DEF Suspend, Resume, RebootReport
    <2>2. queue \in QueueType
      BY DEF TypeOK, QueueType
    <2>3. CASE queue' = queue
      BY <2>2, <2>3 DEF CheckQueued, CheckFirst
    <2>4. CASE queue = << >> /\ queue' = <<"reboot">>
      <3>1. ~CheckQueued /\ ~CheckQueued'
        BY <2>4, NoCheck DEF CheckQueued
      <3>2. QED
        BY <2>4, <3>1 DEF CheckQueued, CheckFirst, QueueType
    <2>5. CASE queue = <<"check">> /\ queue' = <<"check", "reboot">>
      BY <2>5 DEF CheckQueued, CheckFirst, QueueType
    <2>6. QED
      BY <2>1, <2>2, <2>3, <2>4, <2>5, EnqueueReboot
  <1>2. UNCHANGED <<build, running, hostVars, probeVars, check>> /\ boot_probe' \in {boot_probe, None}
    BY DEF Suspend, Resume, RebootReport
  <1>3. suspended' \in 0 .. Second + 1 \cup {None} /\ disturbances' \in 0 .. MaxDisturbances /\ retrying' \in BOOLEAN
    <2>1. CASE Suspend
      BY <2>1, SecondAssumption DEF Suspend, TypeOK
    <2>2. CASE Resume
      BY <2>2 DEF Resume, TypeOK
    <2>3. CASE RebootReport
      BY <2>3, SecondAssumption DEF RebootReport, TypeOK
    <2>4. QED
      BY <2>1, <2>2, <2>3
  <1>4. TypeOK'
    BY <1>1, <1>2, <1>3 DEF TypeOK, QueueType, hostVars, probeVars
  <1>5. \A i \in 1 .. Len(ProbeOrder) : ProbeOrder[i] # None
    BY ProbesIndexed, NoneAssumption
  <1>6. running
    BY NoneAssumption DEF Suspend, Resume, RebootReport
  <1>7. QED
    BY <1>1, <1>2, <1>4, <1>5, <1>6 DEF hostVars, probeVars, ProbeTypeNext

\* The probe's delay ends in its check.
LEMMA TickInv == ASSUME IInv, Tick PROVE IInv'
  <1> USE DEF IInv, NoneSkipped, OneCheck, ProbeRuns, AnswersKept, StoredInOrder, SelectionJustified, BootProbeConsumed
  <1>1. UNCHANGED <<build, boot_probe, running, hostVars, hid, current_probe, selected, shown, tried, check,
                    retrying, disturbances>>
    BY DEF Tick
  <1>2. suspended' \in 0 .. Second + 1 \cup {None} /\ (suspended = None => suspended' = None)
    BY SecondAssumption, NoneAssumption DEF Tick, TypeOK
  <1>3. CASE timer = 1
    <2>1. timer # None /\ ~CheckQueued /\ queue \in QueueType
      BY <1>3, NoneAssumption DEF TypeOK, QueueType
    <2>2. timer' = None /\ queue' = Enqueue(queue, "check")
      BY <1>3 DEF Tick
    <2>3. queue' \in {<<"check">>, <<"reboot", "check">>}
      BY <2>1, <2>2, EnqueueCheck DEF CheckQueued
    <2>4. TypeOK'
      BY <1>1, <1>2, <2>2, <2>3 DEF TypeOK, hostVars
    <2>5. check = None
      BY <2>1 DEF CheckFirst, CheckQueued
    <2>6. QED
      BY <1>1, <1>2, <2>1, <2>2, <2>4, <2>5 DEF hostVars, ProbeTypeNext
  <1>4. CASE timer # 1
    <2>1. queue' = queue /\ timer' \in 1 .. Second \cup {None} /\ (timer = None => timer' = None)
      BY <1>4, SecondAssumption, NoneAssumption DEF Tick, TypeOK
    <2>2. TypeOK'
      BY <1>1, <1>2, <2>1 DEF TypeOK, hostVars
    <2>3. QED
      BY <1>1, <1>2, <2>1, <2>2 DEF hostVars, CheckQueued, CheckFirst, ProbeTypeNext
  <1>5. QED
    BY <1>3, <1>4

\* Every step keeps the invariant.
LEMMA NextInv == IInv /\ [Next]_vars => IInv'
  <1> SUFFICES ASSUME IInv, [Next]_vars PROVE IInv'
    OBVIOUS
  <1>1. CASE UNCHANGED vars
    BY <1>1 DEF vars, hostVars, probeVars, IInv, NoneSkipped, TypeOK, OneCheck, ProbeRuns, AnswersKept, StoredInOrder,
       SelectionJustified, BootProbeConsumed, CheckQueued, CheckFirst, ProbeTypeNext
  <1>2. QED
    BY <1>1, BootInv, CheckReadsInv, CheckActsInv, RebootsInv, AnswerInv, RequestInv, TickInv
       DEF Next, Work, Callback

\* The invariant holds of every state that the probing reaches: the scheduled
\* work of hid.cpp agrees with the type that is being probed.
THEOREM Invariance == Spec => []IInv
  BY InitInv, NextInv, PTL DEF Spec

\* Every console gets its turn: a Hid is probed only after all before it have
\* been tried in the same round, across reboots that store the next one and
\* resumes that forget it.
THEOREM OrderSafe == Spec => []NoneSkipped
  <1>1. IInv => NoneSkipped
    BY DEF IInv
  <1>2. QED
    BY <1>1, Invariance, PTL

\* The Hid settled on is one the host has answered, or the fallback, or the
\* user's; USB runs with it and the display shows it.
THEOREM SelectionSafe == Spec => []SelectionJustified
  <1>1. IInv => SelectionJustified
    BY DEF IInv
  <1>2. QED
    BY <1>1, Invariance, PTL

\* usb_probe_selected leaves nothing in memory that survives a reboot.
THEOREM ConsumedSafe == Spec => []BootProbeConsumed
  <1>1. IInv => BootProbeConsumed
    BY DEF IInv
  <1>2. QED
    BY <1>1, Invariance, PTL
=============================================================================
