----------------------------- MODULE InputQueue -----------------------------
(***************************************************************************)
(* The scripted input queue of input/queue.cpp and the threads that use it: *)
(* the shell's "input home" (shell.cpp), the Gundam camera of               *)
(* opt/gundam.cpp, driven by the shell and by a Bluetooth characteristic,   *)
(* and the readers of input_get_raw_state.                                  *)
(*                                                                         *)
(* Nodes come from a fixed array with an allocation bitmap.  Each function  *)
(* that holds a ScopedIRQLock is one step; a writer builds its list a node  *)
(* at a time and other threads run between its steps.  Time is relative:    *)
(* due is queue_next_tick - k_uptime_ticks(), so the clock needs no bound.  *)
(***************************************************************************)
EXTENDS Integers, Sequences, SequencesExt

CONSTANTS
    StorageSize,  \* queue_storage_size (1024 in the code)
    Null,         \* the null pointer
    Writers,      \* threads that build queues
    ShellWriter,  \* the one that also has "input home"
    CamValues,    \* values of a uint8_t camera number (256 in the code)
    HoldTicks,    \* the 33,333 us of a press, in ticks
    MaxLate       \* bound: how far readers may fall behind the schedule

Nodes == 0 .. StorageSize - 1

ASSUME StorageAssumption == StorageSize \in Nat \ {0} /\ Null \notin Nodes
ASSUME TimeAssumption == HoldTicks \in Nat \ {0} /\ MaxLate \in Nat \ {0}
ASSUME WritersAssumption == ShellWriter \in Writers
ASSUME CamAssumption == CamValues \in Nat \ {0, 1}

VARIABLES
    bitmap,       \* the set of nodes marked allocated
    last_avail,   \* queue_storage_last_avail
    node,         \* queue_storage: state, delay and next of each node
    queue_next,   \* the next element to play
    free_head,    \* queue_next_free_head
    due,          \* queue_next_tick, relative to now
    queue_input,  \* the element last played
    current_cam,  \* the camera gundam.cpp believes is selected
    writer,       \* each writer: where it is, its list and what it still builds
    script,       \* history: the elements of the queue made active last
    played        \* history: the elements taken from it so far

storageVars == <<bitmap, last_avail, node>>
playVars == <<queue_next, free_head, due, queue_input, script, played>>
vars == <<storageVars, playVars, current_cam, writer>>

Pointers == Nodes \cup {Null}
States == {"neutral", "up", "down", "home"}

\* A node no one has filled since it was freed.
Poison == [state |-> "poison", delay |-> 0, next |-> Null]

Idle == [pc |-> "idle", head |-> Null, cur |-> Null, todo |-> << >>]

Init ==
    /\ bitmap = {}
    /\ last_avail = 0
    /\ node = [n \in Nodes |-> Poison]
    /\ queue_next = Null
    /\ free_head = Null
    /\ due = 0
    /\ queue_input = "neutral"
    /\ current_cam = 1
    /\ writer = [t \in Writers |-> Idle]
    /\ script = << >>
    /\ played = << >>

-----------------------------------------------------------------------------
(* The allocator                                                           *)

\* At most k nodes from each pointer on, following next.
Walk[k \in 0 .. StorageSize] ==
    [q \in Pointers |-> IF q = Null \/ k = 0 THEN << >> ELSE <<q>> \o Walk[k - 1][node[q].next]]

\* The list from p on, node by node.
List(p) == Walk[StorageSize][p]

\* input_queue_alloc finds node n: the first clear bit from last_avail on.
Allocates(n) ==
    /\ n >= last_avail /\ n \notin bitmap
    /\ \A m \in Nodes : last_avail <= m /\ m < n => m \in bitmap

\* ... or none.
AllocFails == \A m \in Nodes : last_avail <= m => m \in bitmap

\* Mutant: the search restarts after the highest freed node.
LastAvailAfterHighest(freed, m) ==
    IF freed = {} THEN m = last_avail
    ELSE m \in freed /\ \A x \in freed : x <= m

\* input_queue_free moves last_avail down to the lowest node it frees.
LastAvailAfter(freed, m) ==
    /\ m \in freed \cup {last_avail}
    /\ \A x \in freed \cup {last_avail} : m <= x

\* input_queue_free(p), for a list or a null pointer.
Free(p) ==
    LET freed == IF p = Null THEN {} ELSE ToSet(List(p))
    IN  /\ bitmap' = bitmap \ freed
        /\ \E m \in 0 .. StorageSize : LastAvailAfter(freed, m) /\ last_avail' = m
        /\ node' = [n \in Nodes |-> IF n \in freed THEN Poison ELSE node[n]]

-----------------------------------------------------------------------------
(* Readers                                                                 *)

\* Mutant: the clock is compared the wrong way round.
GetStateEarly ==
    /\ queue_next # Null /\ due > 0
    /\ queue_input' = node[queue_next].state
    /\ played' = Append(played, queue_input')
    /\ queue_next' = node[queue_next].next
    /\ due' = IF queue_next' = Null THEN 0 ELSE due + node[queue_next].delay
    /\ IF queue_next' = Null
       THEN Free(free_head) /\ free_head' = Null
       ELSE UNCHANGED <<storageVars, free_head>>
    /\ UNCHANGED <<current_cam, writer, script>>

\* Mutant: an element's delay is not added to the schedule.
GetStateNoDelay ==
    /\ queue_next # Null /\ due < 0
    /\ queue_input' = node[queue_next].state
    /\ played' = Append(played, queue_input')
    /\ queue_next' = node[queue_next].next
    /\ due' = IF queue_next' = Null THEN 0 ELSE due
    /\ IF queue_next' = Null
       THEN Free(free_head) /\ free_head' = Null
       ELSE UNCHANGED <<storageVars, free_head>>
    /\ UNCHANGED <<current_cam, writer, script>>

\* Mutant: a late reader skips the elements whose time has passed.
GetStateSkipsLate ==
    /\ queue_next # Null /\ due < 0
    /\ LET taken == IF due < -1 /\ node[queue_next].next # Null
                    THEN node[queue_next].next ELSE queue_next
       IN  /\ queue_input' = node[taken].state
           /\ played' = Append(played, queue_input')
           /\ queue_next' = node[taken].next
           /\ due' = IF queue_next' = Null THEN 0 ELSE due + node[taken].delay
    /\ IF queue_next' = Null
       THEN Free(free_head) /\ free_head' = Null
       ELSE UNCHANGED <<storageVars, free_head>>
    /\ UNCHANGED <<current_cam, writer, script>>

\* input_queue_get_state takes an element: its time has come.  Any reader may
\* do it; the others see queue_input.  The last element frees the whole list
\* (its delay is never waited for, so due is dead after it and kept at 0).
GetState ==
    /\ queue_next # Null /\ due < 0
    /\ queue_input' = node[queue_next].state
    /\ played' = Append(played, queue_input')
    /\ queue_next' = node[queue_next].next
    /\ due' = IF queue_next' = Null THEN 0 ELSE due + node[queue_next].delay
    /\ IF queue_next' = Null
       THEN Free(free_head) /\ free_head' = Null
       ELSE UNCHANGED <<storageVars, free_head>>
    /\ UNCHANGED <<current_cam, writer, script>>

\* A tick passes; it matters only while a queue plays.
Tick ==
    /\ queue_next # Null
    /\ due > -MaxLate
    /\ due' = due - 1
    /\ UNCHANGED <<storageVars, queue_next, free_head, queue_input, script, played, current_cam, writer>>

-----------------------------------------------------------------------------
(* Writers                                                                 *)

Element(state, delay) == [state |-> state, delay |-> delay]

\* The elements of a camera move: press and release, count times, and a last
\* neutral element with no delay.
CamScript(offset) ==
    LET count == IF offset > 0 THEN offset ELSE -offset
        press == IF offset > 0 THEN "up" ELSE "down"
    IN  [i \in 1 .. 2 * count + 1 |->
            IF i = 2 * count + 1 THEN Element("neutral", 0)
            ELSE Element(IF i % 2 = 1 THEN press ELSE "neutral", HoldTicks)]

Start(t, todo) ==
    writer' = [writer EXCEPT ![t] = [pc |-> "alloc", head |-> Null, cur |-> Null, todo |-> todo]]

\* cmd_input_home: press and release home.
Home ==
    /\ writer[ShellWriter].pc = "idle"
    /\ Start(ShellWriter, <<Element("home", HoldTicks), Element("neutral", HoldTicks)>>)
    /\ UNCHANGED <<storageVars, playVars, current_cam>>

\* The camera number is a uint8_t.
CamAfter(offset) == (current_cam + offset) % CamValues

\* adjust_cam(offset, record): refused while a queue is active (a test made
\* without the lock); the camera is recorded before anything is built.
AdjustCam(t, offset, record) ==
    /\ writer[t].pc = "idle"
    /\ queue_next = Null
    /\ current_cam' = IF record THEN CamAfter(offset) ELSE current_cam
    /\ IF offset = 0 THEN UNCHANGED writer ELSE Start(t, CamScript(offset))
    /\ UNCHANGED <<storageVars, playVars>>

\* set_cam(x, true): the difference narrows to an int8_t.
SetCam(t, x) ==
    LET half == CamValues \div 2
    IN  AdjustCam(t, ((x - current_cam + half) % CamValues) - half, TRUE)

\* reset_cam(x)
ResetCam(t, x) ==
    /\ writer[t].pc = "idle"
    /\ current_cam' = x
    /\ UNCHANGED <<storageVars, playVars, writer>>

\* The shell's cam next / prev / NUMBER / reset, and the two characteristics.
Camera(t) ==
    \/ \E o \in {-1, 1} : AdjustCam(t, o, FALSE) /\ t = ShellWriter
    \/ \E x \in 0 .. CamValues - 1 : SetCam(t, x)
    \/ \E x \in 0 .. CamValues - 1 : ResetCam(t, x) /\ (t = ShellWriter => x = 1)

\* The first node of a list.
AllocHead(t) ==
    /\ writer[t].pc = "alloc"
    /\ \/ \E n \in Nodes :
            /\ Allocates(n)
            /\ bitmap' = bitmap \cup {n}
            /\ last_avail' = n + 1
            /\ node' = [node EXCEPT ![n].next = Null]
            /\ writer' = [writer EXCEPT ![t].pc = "fill", ![t].head = n, ![t].cur = n]
       \/ /\ AllocFails
          /\ writer' = [writer EXCEPT ![t] = Idle]
          /\ UNCHANGED storageVars
    /\ UNCHANGED <<playVars, current_cam>>

\* Fill the current node and append another; without room, free the list.
FillAndAppend(t) ==
    /\ writer[t].pc = "fill" /\ Len(writer[t].todo) > 1
    /\ \/ \E n \in Nodes :
            /\ Allocates(n)
            /\ bitmap' = bitmap \cup {n}
            /\ last_avail' = n + 1
            /\ node' = [node EXCEPT
                          ![writer[t].cur] = [state |-> Head(writer[t].todo).state,
                                              delay |-> Head(writer[t].todo).delay,
                                              next |-> n],
                          ![n].next = Null]
            /\ writer' = [writer EXCEPT ![t].cur = n, ![t].todo = Tail(@)]
       \/ /\ AllocFails
          /\ Free(writer[t].head)
          /\ writer' = [writer EXCEPT ![t] = Idle]
    /\ UNCHANGED <<playVars, current_cam>>

\* The last node is filled: the list is ready.
FillLast(t) ==
    /\ writer[t].pc = "fill" /\ Len(writer[t].todo) = 1
    /\ node' = [node EXCEPT ![writer[t].cur].state = Head(writer[t].todo).state,
                            ![writer[t].cur].delay = Head(writer[t].todo).delay]
    /\ writer' = [writer EXCEPT ![t].pc = "ready"]
    /\ UNCHANGED <<bitmap, last_avail, playVars, current_cam>>

Elements(p) == LET list == List(p) IN [i \in 1 .. Len(list) |-> node[list[i]].state]

\* Mutant: the queue that was active is not freed.
SetActiveLeaks(t) ==
    /\ writer[t].pc = "ready"
    /\ queue_next' = writer[t].head
    /\ free_head' = writer[t].head
    /\ due' = 0
    /\ script' = Elements(writer[t].head)
    /\ played' = << >>
    /\ writer' = [writer EXCEPT ![t] = Idle]
    /\ UNCHANGED <<storageVars, queue_input, current_cam>>

\* input_queue_set_active(head, true): whatever plays is freed and replaced.
SetActive(t) ==
    /\ writer[t].pc = "ready"
    /\ Free(free_head)
    /\ queue_next' = writer[t].head
    /\ free_head' = writer[t].head
    /\ due' = 0
    /\ script' = Elements(writer[t].head)
    /\ played' = << >>
    /\ writer' = [writer EXCEPT ![t] = Idle]
    /\ UNCHANGED <<queue_input, current_cam>>

Write(t) == AllocHead(t) \/ FillAndAppend(t) \/ FillLast(t) \/ SetActive(t)

Next == \/ GetState \/ Tick \/ Home
        \/ \E t \in Writers : Camera(t) \/ Write(t)

Spec == Init /\ [][Next]_vars
-----------------------------------------------------------------------------
(* Properties                                                              *)

NodeType == [state: States \cup {"poison"}, delay: {0, HoldTicks}, next: Pointers]

WriterType == [pc: {"idle", "alloc", "fill", "ready"}, head: Pointers, cur: Pointers,
               todo: Seq([state: States, delay: {0, HoldTicks}])]

\* Every variable has its type.
TypeOK ==
    /\ bitmap \subseteq Nodes
    /\ last_avail \in 0 .. StorageSize
    /\ node \in [Nodes -> NodeType]
    /\ queue_next \in Pointers /\ free_head \in Pointers
    /\ due \in -MaxLate .. HoldTicks
    /\ queue_input \in States
    /\ current_cam \in 0 .. CamValues - 1
    /\ writer \in [Writers -> WriterType]
    /\ script \in Seq(States) /\ played \in Seq(States)

\* Everything below last_avail is allocated, so the search that starts there
\* misses no free node: input_queue_alloc fails only when the storage is full.
AllocFindsRoom ==
    /\ \A n \in Nodes : n < last_avail => n \in bitmap
    /\ AllocFails => bitmap = Nodes

\* Every variable has its type, and every allocated node is in exactly one list, the active queue's or that of
\* one writer, and the element to play next is in the active one: nothing is
\* leaked, freed twice or played after it was freed, whoever replaces whose
\* queue and wherever an allocation fails.
NodesOwned ==
    LET active == ToSet(List(free_head))
        built == [t \in Writers |-> ToSet(List(writer[t].head))]
    IN  /\ TypeOK
        /\ bitmap = active \cup UNION {built[t] : t \in Writers}
        /\ \A t \in Writers : built[t] \cap active = {}
        /\ \A t, u \in Writers : t # u => built[t] \cap built[u] = {}
        /\ queue_next # Null => queue_next \in active
        /\ queue_next = Null => free_head = Null

\* The elements played and those still to play are together the queue that
\* was made active, in order: none is skipped, repeated or read unfilled.
PlaysScript == played \o Elements(queue_next) = script

\* An active queue moves on: no element stays next for ever.
QueueAdvances == \A n \in Nodes : (queue_next = n) ~> (queue_next # n)
=============================================================================
