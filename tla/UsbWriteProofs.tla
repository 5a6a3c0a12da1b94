--------------------------- MODULE UsbWriteProofs ---------------------------
(***************************************************************************)
(* Proofs about the write chain, for any Hids in any order and any number  *)
(* of resets, halts and requests.                                          *)
(***************************************************************************)
EXTENDS UsbWrite, TLAPS

\* Between two Hids the device is off the bus, unpolled and has the ids of the
\* configuration; what is being disabled is not the last Hid.
Between ==
    /\ thread = "init" => ~enabled /\ ~started
    /\ thread = "disabling" => probe < Len(ProbeOrder)
    /\ usb_id = IF thread = "init" THEN DefaultId ELSE IdOf(hid)

\* A report is in hand exactly while write_report runs.
InHand == report # None <=> thread = "writing"

IInv == TypeOK /\ Between /\ InHand /\ NoLeftovers /\ ChainAlive /\ IdsOfHid

\* It holds at boot.
LEMMA InitInv == Init => IInv
  <1> SUFFICES ASSUME Init PROVE IInv
    OBVIOUS
  <1>1. TypeOK
    <2>1. probe \in 1 .. Len(ProbeOrder) /\ requests \in 0 .. MaxRequests
      BY WriteAssumption DEF Init
    <2>2. enabled \in BOOLEAN /\ started \in BOOLEAN /\ halted \in BOOLEAN /\ sent \in BOOLEAN
      BY Zenon DEF Init
    <2>3. QED
      BY <2>1, <2>2 DEF Init, TypeOK
  <1>2. Between /\ InHand /\ ChainAlive /\ IdsOfHid
    BY DEF Init, Between, InHand, ChainAlive, IdsOfHid
  <1>3. NoLeftovers
    BY DEF Init, NoLeftovers
  <1>4. QED
    BY <1>1, <1>2, <1>3 DEF IInv

\* The Hid that runs is a Hid.
LEMMA HidIsOne == ASSUME TypeOK PROVE hid # None
  BY WriteAssumption DEF TypeOK, hid

\* usb_hid_init and usb_hid_uninit
LEMMA SwitchInv ==
    ASSUME IInv, HidInit \/ Cancel \/ Disable
    PROVE  IInv'
  <1>. USE DEF IInv, TypeOK, Between, InHand, NoLeftovers, ChainAlive, IdsOfHid, linkVars
  <1>1. CASE HidInit
    <2>1. hid' = hid /\ IdOf(hid)' = IdOf(hid)
      BY <1>1 DEF HidInit, hid, IdOf
    <2>2. TypeOK'
      BY <1>1 DEF HidInit
    <2>3. usb_id' = IdOf(hid)
      BY <1>1 DEF HidInit, IdOf
    <2>4. QED
      BY <1>1, <2>1, <2>2, <2>3 DEF HidInit
  <1>2. CASE Cancel
    <2>1. hid' = hid /\ IdOf(hid)' = IdOf(hid)
      BY <1>2 DEF Cancel, hid, IdOf
    <2>2. QED
      BY <1>2, <2>1 DEF Cancel
  <1>3. CASE Disable
    <2>1. report = None /\ ep' = None /\ sample' = None
      BY <1>3 DEF Disable
    <2>2. usb_id' = DefaultId
      BY <1>3 DEF Disable, IdOf
    <2>3. probe' \in 1 .. Len(ProbeOrder)
      BY <1>3, WriteAssumption DEF Disable
    <2>4. QED
      BY <1>3, <2>1, <2>2, <2>3 DEF Disable
  <1>4. QED
    BY <1>1, <1>2, <1>3

\* The work queue's writes
LEMMA WriteInv ==
    ASSUME IInv, TimerFires \/ WriteReads \/ WriteEndpoint
    PROVE  IInv'
  <1>. USE DEF IInv, TypeOK, Between, InHand, NoLeftovers, ChainAlive, IdsOfHid, linkVars
  <1>1. hid' = hid /\ IdOf(hid)' = IdOf(hid)
    BY DEF TimerFires, WriteReads, WriteEndpoint, hid, IdOf
  <1>2. CASE TimerFires
    BY <1>1, <1>2 DEF TimerFires
  <1>3. CASE WriteReads
    BY <1>1, <1>3, HidIsOne DEF WriteReads
  <1>4. CASE WriteEndpoint
    BY <1>1, <1>4 DEF WriteEndpoint, submit_write, Accepts, Refuses, WritesShort
  <1>5. QED
    BY <1>2, <1>3, <1>4

\* The host and the callbacks
LEMMA HostInv ==
    ASSUME IInv, Poll \/ IntInReady \/ Host
    PROVE  IInv'
  <1>. USE DEF IInv, TypeOK, Between, InHand, NoLeftovers, ChainAlive, IdsOfHid, linkVars
  <1>1. hid' = hid /\ IdOf(hid)' = IdOf(hid)
    BY DEF Poll, IntInReady, Host, SetIdle, SetHalt, Reset, ClearHalt, hid, IdOf
  <1>2. CASE Poll
    BY <1>1, <1>2 DEF Poll
  <1>3. CASE IntInReady
    BY <1>1, <1>3 DEF IntInReady, submit_write
  <1>4. CASE SetIdle
    BY <1>1, <1>4, WriteAssumption DEF SetIdle, submit_write, Request
  <1>5. CASE SetHalt
    BY <1>1, <1>5, WriteAssumption DEF SetHalt, Request
  <1>6. CASE Reset
    <2>1. TypeOK'
      <3>1. requests' \in 0 .. MaxRequests
        BY <1>6, WriteAssumption DEF Reset, Request
      <3>2. (enabled \in BOOLEAN /\ started \in BOOLEAN /\ halted \in BOOLEAN /\ sent \in BOOLEAN)'
        BY <1>6, Zenon DEF Reset
      <3>3. QED
        BY <1>6, <3>1, <3>2 DEF Reset
    <2>2. NoLeftovers'
      BY <1>1, <1>6 DEF Reset
    <2>3. Between' /\ InHand' /\ ChainAlive' /\ IdsOfHid'
      BY <1>1, <1>6 DEF Reset
    <2>4. QED
      BY <2>1, <2>2, <2>3
  <1>7. CASE ClearHalt
    <2>1. TypeOK'
      <3>1. requests' \in 0 .. MaxRequests
        BY <1>7, WriteAssumption DEF ClearHalt, submit_write, Request
      <3>2. (enabled \in BOOLEAN /\ started \in BOOLEAN /\ halted \in BOOLEAN /\ sent \in BOOLEAN)'
        BY <1>7, Zenon DEF ClearHalt, submit_write
      <3>3. QED
        BY <1>7, <3>1, <3>2 DEF ClearHalt, submit_write
    <2>2. NoLeftovers'
      BY <1>1, <1>7 DEF ClearHalt, submit_write
    <2>3. Between' /\ InHand' /\ ChainAlive' /\ IdsOfHid'
      BY <1>1, <1>7 DEF ClearHalt, submit_write
    <2>4. QED
      BY <2>1, <2>2, <2>3
  <1>8. QED
    BY <1>2, <1>3, <1>4, <1>5, <1>6, <1>7 DEF Host

\* Every step keeps it.
LEMMA NextInv == IInv /\ [Next]_vars => IInv'
  <1> SUFFICES ASSUME IInv, [Next]_vars PROVE IInv'
    OBVIOUS
  <1>1. CASE Next
    BY <1>1, SwitchInv, WriteInv, HostInv DEF Next, Thread
  <1>2. CASE UNCHANGED vars
    BY <1>2 DEF vars, linkVars, IInv, TypeOK, Between, InHand, NoLeftovers, ChainAlive, IdsOfHid, hid, IdOf
  <1>3. QED
    BY <1>1, <1>2

\* The inductive invariant of the write chain.
THEOREM Invariance == Spec => []IInv
  BY InitInv, NextInv, PTL DEF Spec

\* An endpoint the host has set going always has a report in it or on its way:
\* no order of write_report's steps and the USB callbacks breaks the chain.
THEOREM ChainSafe == Spec => []ChainAlive
  <1>1. IInv => ChainAlive
    BY DEF IInv
  <1>2. QED
    BY <1>1, Invariance, PTL

\* No report and no latency sample of one Hid is left when the next is up.
THEOREM LeftoversSafe == Spec => []NoLeftovers
  <1>1. IInv => NoLeftovers
    BY DEF IInv
  <1>2. QED
    BY <1>1, Invariance, PTL

\* Each Hid is seen with its own ids or those of the configuration, whichever
\* Hids set none.
THEOREM IdsSafe == Spec => []IdsOfHid
  <1>1. IInv => IdsOfHid
    BY DEF IInv
  <1>2. QED
    BY <1>1, Invariance, PTL
=============================================================================
