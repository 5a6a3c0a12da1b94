-------------------------- MODULE InputQueueProofs --------------------------
(***************************************************************************)
(* Proofs about the input queue, for every storage size, any set of writers *)
(* and any interleaving of them with the readers: the allocator finds what  *)
(* is free, every node has one owner, a queue is played as it was written,  *)
(* and the USB output sees every element of it.                             *)
(***************************************************************************)
EXTENDS MCInputQueueHold, SequenceTheorems, FiniteSetTheorems, WellFoundedInduction, TLAPS

-----------------------------------------------------------------------------
(* The allocator                                                           *)

\* The inductive invariant: the bitmap marks nodes, and marks all those the
\* search for a free one skips.
AllocInv ==
    /\ bitmap \subseteq Nodes
    /\ last_avail \in 0 .. StorageSize
    /\ \A n \in Nodes : n < last_avail => n \in bitmap

\* Marking the first free node from last_avail on and searching from the next
\* one keeps the invariant.
LEMMA AllocatesInv ==
  ASSUME AllocInv, NEW n \in Nodes, Allocates(n),
         bitmap' = bitmap \cup {n}, last_avail' = n + 1
  PROVE  AllocInv'
BY StorageAssumption DEF AllocInv, Allocates, Nodes

\* Freeing any list keeps the invariant: last_avail goes to the lowest node
\* freed, so nothing below it was freed.
LEMMA FreeInv ==
  ASSUME AllocInv, NEW p, Free(p)
  PROVE  AllocInv'
<1> DEFINE freed == IF p = Null THEN {} ELSE ToSet(List(p))
<1>1. PICK m \in 0 .. StorageSize : LastAvailAfter(freed, m) /\ last_avail' = m
  BY DEF Free
<1>2. bitmap' = bitmap \ freed
  BY DEF Free
<1> HIDE DEF freed
<1>3. ASSUME NEW n \in Nodes, n < last_avail' PROVE n \in bitmap'
  <2>1. m <= last_avail /\ \A x \in freed : m <= x
    BY <1>1 DEF LastAvailAfter
  <2>2. n < last_avail /\ n \notin freed
    BY <1>1, <1>3, <2>1, StorageAssumption DEF AllocInv, Nodes
  <2> QED
    BY <1>2, <2>2 DEF AllocInv
<1> QED
  BY <1>1, <1>2, <1>3 DEF AllocInv

\* Every step keeps the invariant.
LEMMA NextAllocInv == AllocInv /\ [Next]_vars => AllocInv'
<1> SUFFICES ASSUME AllocInv, [Next]_vars PROVE AllocInv'
  OBVIOUS
<1>1. CASE GetState
  <2>1. CASE Free(free_head)
    BY <2>1, FreeInv
  <2>2. CASE UNCHANGED storageVars
    BY <2>2 DEF storageVars, AllocInv
  <2> QED
    BY <1>1, <2>1, <2>2 DEF GetState
<1>2. CASE Tick
  BY <1>2 DEF Tick, storageVars, AllocInv
<1>3. CASE Home
  BY <1>3 DEF Home, storageVars, AllocInv
<1>4. ASSUME NEW t \in Writers, Camera(t) PROVE AllocInv'
  BY <1>4 DEF Camera, SetCam, AdjustCam, ResetCam, storageVars, AllocInv
<1>5. ASSUME NEW t \in Writers, AllocHead(t) PROVE AllocInv'
  <2>1. CASE \E n \in Nodes : Allocates(n) /\ bitmap' = bitmap \cup {n} /\ last_avail' = n + 1
    BY <2>1, AllocatesInv
  <2>2. CASE UNCHANGED storageVars
    BY <2>2 DEF storageVars, AllocInv
  <2> QED
    BY <1>5, <2>1, <2>2 DEF AllocHead
<1>6. ASSUME NEW t \in Writers, FillAndAppend(t) PROVE AllocInv'
  <2>1. CASE \E n \in Nodes : Allocates(n) /\ bitmap' = bitmap \cup {n} /\ last_avail' = n + 1
    BY <2>1, AllocatesInv
  <2>2. CASE Free(writer[t].head)
    BY <2>2, FreeInv
  <2> QED
    BY <1>6, <2>1, <2>2 DEF FillAndAppend
<1>7. ASSUME NEW t \in Writers, FillLast(t) PROVE AllocInv'
  BY <1>7 DEF FillLast, AllocInv
<1>8. ASSUME NEW t \in Writers, SetActive(t) PROVE AllocInv'
  BY <1>8, FreeInv DEF SetActive
<1>9. CASE UNCHANGED vars
  BY <1>9 DEF vars, storageVars, AllocInv
<1> QED
  BY <1>1, <1>2, <1>3, <1>4, <1>5, <1>6, <1>7, <1>8, <1>9 DEF Next, Write

\* input_queue_alloc gives up only when every node is in use, whatever lists
\* were freed, replaced or abandoned before.
THEOREM AllocSafe == Spec => []AllocFindsRoom
<1>1. Init => AllocInv
  BY StorageAssumption DEF Init, AllocInv, Nodes
<1>2. AllocInv => AllocFindsRoom
  <2> SUFFICES ASSUME AllocInv PROVE AllocFindsRoom
    OBVIOUS
  <2>1. ASSUME AllocFails, NEW n \in Nodes PROVE n \in bitmap
    <3>1. n < last_avail \/ last_avail <= n
      BY StorageAssumption DEF AllocInv, Nodes
    <3> QED
      BY <2>1, <3>1 DEF AllocInv, AllocFails
  <2>2. AllocFails => bitmap = Nodes
    BY <2>1 DEF AllocInv
  <2> QED
    BY <2>2 DEF AllocFindsRoom, AllocInv
<1> QED
  BY <1>1, <1>2, NextAllocInv, PTL DEF Spec

-----------------------------------------------------------------------------
(* Linked lists                                                            *)

\* Induction on the natural numbers, for a set of them.
LEMMA SetInduction ==
  ASSUME NEW S \in SUBSET Nat, 0 \in S, \A n \in S : n + 1 \in S
  PROVE  S = Nat
<1> DEFINE T == Nat \ S
<1>1. SUFFICES ASSUME T # {} PROVE FALSE
  OBVIOUS
<1>2. PICK x \in T : \A y \in T : ~ (<<y, x>> \in OpToRel(<, Nat))
  <2>1. T \subseteq Nat
    OBVIOUS
  <2> HIDE DEF T
  <2> QED
    BY <1>1, <2>1, WFMin, NatLessThanWellFounded, Zenon
<1>3. x \in Nat /\ x # 0
  OBVIOUS
<1>4. x - 1 \in Nat /\ x - 1 \notin S
  BY <1>3
<1>5. <<x - 1, x>> \in OpToRel(<, Nat)
  BY <1>3, <1>4 DEF OpToRel
<1> QED
  BY <1>2, <1>4, <1>5, Zenon

\* One level of Walk's recursion, over any function for the level below.
Level(g, k) == [q \in Pointers |-> IF q = Null \/ k = 0 THEN << >> ELSE <<q>> \o g[k - 1][node[q].next]]

\* Walk satisfies its recursion: a function that does exists for any depth.
LEMMA WalkDef == \A k \in 0 .. StorageSize : Walk[k] = Level(Walk, k)
<1> DEFINE Rec(g, m) == g = [k \in 0 .. m |-> Level(g, k)]
           S == {m \in Nat : \E g : Rec(g, m)}
<1>1. 0 \in S
  <2> DEFINE g == [k \in 0 .. 0 |-> [q \in Pointers |-> << >>]]
  <2>1. \A k \in 0 .. 0 : Level(g, k) = [q \in Pointers |-> << >>]
    BY DEF Level
  <2>2. Rec(g, 0)
    BY <2>1
  <2> QED
    BY <2>2
<1>2. ASSUME NEW m \in S PROVE m + 1 \in S
  <2>1. PICK g : Rec(g, m)
    OBVIOUS
  <2> DEFINE h == [k \in 0 .. m + 1 |-> IF k = m + 1 THEN Level(g, k) ELSE g[k]]
  <2>2. \A k \in 0 .. m + 1 : Level(h, k) = Level(g, k)
    <3> SUFFICES ASSUME NEW k \in 0 .. m + 1 PROVE Level(h, k) = Level(g, k)
      OBVIOUS
    <3>1. k # 0 => h[k - 1] = g[k - 1]
      OBVIOUS
    <3> HIDE DEF h
    <3> QED
      BY <3>1 DEF Level
  <2>3. \A k \in 0 .. m : g[k] = Level(g, k)
    BY <2>1
  <2>4. Rec(h, m + 1)
    <3>1. \A k \in 0 .. m + 1 : h[k] = Level(h, k)
      BY <2>2, <2>3
    <3>2. h = [k \in 0 .. m + 1 |-> h[k]]
      OBVIOUS
    <3> HIDE DEF h
    <3> QED
      BY <3>1, <3>2
  <2> HIDE DEF h, Rec
  <2> QED
    BY <2>4
<1>3. StorageSize \in S
  <2> HIDE DEF S
  <2>1. S \in SUBSET Nat
    BY DEF S
  <2> QED
    BY <1>1, <1>2, <2>1, SetInduction, StorageAssumption
<1>4. PICK g : Rec(g, StorageSize)
  BY <1>3
<1>5. Rec(Walk, StorageSize)
  BY <1>4 DEF Walk, Level
<1> QED
  BY <1>5

\* s is the list from p on, in the memory nd: it ends, and visits no node twice.
IsList(nd, p, s) ==
    /\ s \in Seq(Nodes)
    /\ p = IF s = << >> THEN Null ELSE s[1]
    /\ \A i \in 1 .. Len(s) : nd[s[i]].next = IF i = Len(s) THEN Null ELSE s[i + 1]
    /\ \A i, j \in 1 .. Len(s) : s[i] = s[j] => i = j

\* There are not more nodes in a list than in the storage.
LEMMA ListShort ==
  ASSUME NEW nd, NEW p, NEW s, IsList(nd, p, s)
  PROVE  Len(s) \in 0 .. StorageSize
<1>1. s \in [1 .. Len(s) -> Nodes] /\ Len(s) \in Nat
  BY LenProperties DEF IsList
<1>2. IsFiniteSet(1 .. Len(s)) /\ Cardinality(1 .. Len(s)) = Len(s)
  <2>1. IsFiniteSet(1 .. Len(s)) /\ Cardinality(1 .. Len(s)) = IF 1 > Len(s) THEN 0 ELSE Len(s) - 1 + 1
    BY <1>1, FS_Interval
  <2> QED
    BY <1>1, <2>1
<1>3. IsFiniteSet(Nodes) /\ Cardinality(Nodes) = StorageSize
  BY FS_Interval, StorageAssumption DEF Nodes
<1>4. ~(StorageSize < Len(s))
  <2>1. ASSUME StorageSize < Len(s) PROVE FALSE
    <3>1. \E x, y \in 1 .. Len(s) : x # y /\ s[x] = s[y]
      BY <1>1, <1>2, <1>3, <2>1, FS_PigeonHole
    <3> QED
      BY <3>1 DEF IsList
  <2> QED
    BY <2>1
<1> QED
  BY <1>1, <1>4, StorageAssumption

\* Walking as deep as the storage is large finds the whole list.
LEMMA ListIs ==
  ASSUME NEW p, NEW s, IsList(node, p, s)
  PROVE  List(p) = s
<1> DEFINE At(i) == IF i = Len(s) + 1 THEN Null ELSE s[i]
           Finds(k) == \A i \in 1 .. Len(s) + 1 : k >= Len(s) + 1 - i => Walk[k][At(i)] = SubSeq(s, i, Len(s))
           S == {k \in Nat : k <= StorageSize => Finds(k)}
<1>1. Len(s) \in 0 .. StorageSize /\ s \in Seq(Nodes) /\ StorageSize \in Nat
  BY ListShort, StorageAssumption DEF IsList
<1>2. \A i \in 1 .. Len(s) + 1 : At(i) \in Pointers /\ (At(i) = Null <=> i = Len(s) + 1)
  <2>1. \A i \in 1 .. Len(s) : s[i] \in Nodes
    BY <1>1, ElementOfSeq
  <2> QED
    BY <1>1, <2>1, StorageAssumption DEF Pointers
<1>3. \A k \in 0 .. StorageSize : Walk[k][Null] = << >>
  BY WalkDef DEF Level, Pointers
<1>4. SubSeq(s, Len(s) + 1, Len(s)) = << >>
  BY <1>1, SubSeqEmpty
<1>5. 0 \in S
  <2>1. 0 \in 0 .. StorageSize
    BY <1>1
  <2>2. \A i \in 1 .. Len(s) + 1 : 0 >= Len(s) + 1 - i => i = Len(s) + 1
    BY <1>1
  <2> QED
    BY <1>3, <1>4, <2>1, <2>2
<1>6. ASSUME NEW k \in S PROVE k + 1 \in S
  <2>a. k \in Nat /\ (k <= StorageSize => Finds(k))
    OBVIOUS
  <2>b. SUFFICES ASSUME k + 1 <= StorageSize PROVE Finds(k + 1)
    <3> HIDE DEF Finds
    <3> QED
      BY <2>a
  <2> SUFFICES ASSUME NEW i \in 1 .. Len(s) + 1, k + 1 >= Len(s) + 1 - i
               PROVE  Walk[k + 1][At(i)] = SubSeq(s, i, Len(s))
    OBVIOUS
  <2>1. CASE i = Len(s) + 1
    <3>1. k + 1 \in 0 .. StorageSize /\ At(i) = Null
      BY <1>1, <2>a, <2>b, <2>1
    <3> QED
      BY <1>3, <1>4, <2>1, <3>1
  <2>2. CASE i # Len(s) + 1
    <3>1. i \in 1 .. Len(s) /\ i + 1 \in 1 .. Len(s) + 1
      BY <1>1, <2>2
    <3>2. node[s[i]].next = At(i + 1)
      BY <1>1, <3>1 DEF IsList
    <3>3. k + 1 \in 0 .. StorageSize /\ (k + 1) - 1 = k /\ k + 1 # 0
      BY <1>1, <2>a, <2>b
    <3>4. s[i] \in Pointers /\ s[i] # Null
      BY <1>2, <2>2
    <3>5. Walk[k + 1][s[i]] = <<s[i]>> \o Walk[k][At(i + 1)]
      <4>1. Walk[k + 1] = Level(Walk, k + 1)
        BY <3>3, WalkDef
      <4>2. Level(Walk, k + 1)[s[i]] = <<s[i]>> \o Walk[(k + 1) - 1][node[s[i]].next]
        BY <3>3, <3>4 DEF Level
      <4> HIDE DEF At
      <4> QED
        BY <3>2, <3>3, <4>1, <4>2
    <3>6. Walk[k][At(i + 1)] = SubSeq(s, i + 1, Len(s))
      <4>1. k >= Len(s) + 1 - (i + 1) /\ k <= StorageSize
        BY <1>1, <2>a, <2>b
      <4> QED
        BY <2>a, <3>1, <4>1
    <3>7. SubSeq(s, i, Len(s)) = <<s[i]>> \o SubSeq(s, i + 1, Len(s))
      BY <1>1, <3>1, SubSeqRecursiveFirst
    <3> QED
      BY <2>2, <3>5, <3>6, <3>7
  <2> QED
    BY <2>1, <2>2
<1>7. Finds(StorageSize)
  <2> HIDE DEF S
  <2>1. S \in SUBSET Nat
    BY DEF S
  <2>2. S = Nat
    BY <1>5, <1>6, <2>1, SetInduction
  <2> HIDE DEF Finds
  <2> QED
    BY <1>1, <2>2 DEF S
<1>8. Walk[StorageSize][At(1)] = SubSeq(s, 1, Len(s))
  <2>1. 1 \in 1 .. Len(s) + 1 /\ StorageSize >= Len(s) + 1 - 1
    BY <1>1
  <2> QED
    BY <1>7, <2>1
<1>9. p = At(1)
  <2>1. s = << >> <=> Len(s) = 0
    BY <1>1, EmptySeq
  <2> QED
    BY <1>1, <2>1 DEF IsList
<1> QED
  BY <1>1, <1>8, <1>9, SubSeqFull DEF List

\* The nodes of a list, by their places in it.
LEMMA ListNodes ==
  ASSUME NEW s \in Seq(Nodes)
  PROVE  /\ ToSet(s) \subseteq Nodes
         /\ \A n : n \in ToSet(s) <=> \E i \in 1 .. Len(s) : s[i] = n
         /\ Len(s) \in Nat /\ (s = << >> <=> Len(s) = 0)
BY LenProperties, ElementOfSeq, EmptySeq DEF ToSet

\* A null pointer has the empty list and no other.
LEMMA NullList == \A nd : IsList(nd, Null, << >>)
BY DEF IsList

\* Only the null pointer has the empty list.
LEMMA OfNull ==
  ASSUME NEW nd, NEW p, NEW s, IsList(nd, p, s)
  PROVE  p = Null <=> s = << >>
<1>1. s # << >> => s[1] \in Nodes
  BY ListNodes, ElementOfSeq DEF IsList
<1> QED
  BY <1>1, StorageAssumption DEF IsList

\* A step that leaves the links of a list alone leaves the list.
LEMMA SameList ==
  ASSUME NEW nd, NEW md, NEW p, NEW s, IsList(nd, p, s),
         \A n \in ToSet(s) : md[n].next = nd[n].next
  PROVE  IsList(md, p, s)
<1>1. \A i \in 1 .. Len(s) : s[i] \in ToSet(s)
  BY ListNodes DEF IsList
<1> QED
  BY <1>1 DEF IsList

\* A new node by itself.
LEMMA NewList ==
  ASSUME NEW nd, NEW n \in Nodes, nd[n].next = Null
  PROVE  IsList(nd, n, <<n>>) /\ ToSet(<<n>>) = {n}
<1>1. <<n>> \in Seq(Nodes) /\ Len(<<n>>) = 1 /\ <<n>>[1] = n /\ <<n>> # << >>
  OBVIOUS
<1>2. ToSet(<<n>>) = {n}
  BY <1>1 DEF ToSet
<1> QED
  BY <1>1, <1>2 DEF IsList

\* What follows the first node of a list is a list.
LEMMA RestOfList ==
  ASSUME NEW nd, NEW p, NEW s, IsList(nd, p, s), p # Null
  PROVE  /\ s # << >> /\ p = s[1] /\ p \in ToSet(s)
         /\ IsList(nd, nd[p].next, Tail(s)) /\ ToSet(Tail(s)) \subseteq ToSet(s)
<1>1. s # << >> /\ s \in Seq(Nodes) /\ Len(s) \in Nat \ {0} /\ p = s[1]
  BY OfNull, ListNodes DEF IsList
<1> DEFINE t == Tail(s)
<1>2. /\ t \in Seq(Nodes) /\ Len(t) = Len(s) - 1
      /\ \A i \in 1 .. Len(s) - 1 : t[i] = s[i + 1]
  BY <1>1, HeadTailProperties
<1> HIDE DEF t
<1>3. p \in ToSet(s) /\ ToSet(t) \subseteq ToSet(s)
  <2>1. \A m : m \in ToSet(s) <=> \E i \in 1 .. Len(s) : s[i] = m
    BY <1>1, ListNodes
  <2>2. ASSUME NEW m \in ToSet(t) PROVE m \in ToSet(s)
    <3>1. PICK i \in 1 .. Len(t) : t[i] = m
      BY <1>2, ListNodes
    <3>2. i + 1 \in 1 .. Len(s) /\ s[i + 1] = m
      BY <1>1, <1>2, <3>1
    <3> QED
      BY <2>1, <3>2
  <2> QED
    BY <1>1, <2>1, <2>2
<1>4. nd[p].next = IF t = << >> THEN Null ELSE t[1]
  <2>1. t = << >> <=> Len(s) = 1
    BY <1>1, <1>2, ListNodes
  <2>2. nd[s[1]].next = IF 1 = Len(s) THEN Null ELSE s[1 + 1]
    <3>1. 1 \in 1 .. Len(s)
      BY <1>1
    <3>2. \A i \in 1 .. Len(s) : nd[s[i]].next = IF i = Len(s) THEN Null ELSE s[i + 1]
      BY DEF IsList
    <3> QED
      BY <3>1, <3>2
  <2>3. Len(s) # 1 => t[1] = s[1 + 1]
    BY <1>1, <1>2
  <2> QED
    BY <1>1, <2>1, <2>2, <2>3
<1>5. ASSUME NEW i \in 1 .. Len(t) PROVE nd[t[i]].next = IF i = Len(t) THEN Null ELSE t[i + 1]
  <2>1. i + 1 \in 1 .. Len(s) /\ t[i] = s[i + 1] /\ (i = Len(t) <=> i + 1 = Len(s))
    BY <1>1, <1>2
  <2>2. nd[s[i + 1]].next = IF i + 1 = Len(s) THEN Null ELSE s[i + 1 + 1]
    BY <2>1 DEF IsList
  <2>3. i # Len(t) => t[i + 1] = s[i + 1 + 1]
    BY <1>1, <1>2
  <2> QED
    BY <2>1, <2>2, <2>3
<1>6. ASSUME NEW i \in 1 .. Len(t), NEW j \in 1 .. Len(t), t[i] = t[j] PROVE i = j
  <2>1. i + 1 \in 1 .. Len(s) /\ j + 1 \in 1 .. Len(s) /\ s[i + 1] = s[j + 1]
    BY <1>1, <1>2, <1>6
  <2>2. i + 1 = j + 1
    BY <2>1 DEF IsList
  <2> QED
    BY <2>2
<1>7. IsList(nd, nd[p].next, t)
  BY <1>2, <1>4, <1>5, <1>6 DEF IsList
<1> QED
  BY <1>1, <1>3, <1>7 DEF t

\* A node linked after the last one of a list.
LEMMA LongerList ==
  ASSUME NEW nd, NEW md, NEW p, NEW s, IsList(nd, p, s), s # << >>,
         NEW n \in Nodes, n \notin ToSet(s), md[n].next = Null,
         \A m \in ToSet(s) : md[m].next = IF m = s[Len(s)] THEN n ELSE nd[m].next
  PROVE  /\ IsList(md, p, Append(s, n)) /\ ToSet(Append(s, n)) = ToSet(s) \cup {n}
         /\ Append(s, n)[Len(Append(s, n))] = n /\ Append(s, n) # << >>
<1> DEFINE t == Append(s, n)
<1>1. s \in Seq(Nodes) /\ Len(s) \in Nat \ {0}
  BY ListNodes DEF IsList
<1>2. /\ t \in Seq(Nodes) /\ t # << >> /\ Len(t) = Len(s) + 1
      /\ \A i \in 1 .. Len(s) : t[i] = s[i]
      /\ t[Len(s) + 1] = n
  BY <1>1, AppendProperties
<1> HIDE DEF t
<1>3. \A i \in 1 .. Len(t) : i \in 1 .. Len(s) \/ i = Len(s) + 1
  BY <1>1, <1>2
<1>4. ToSet(t) = ToSet(s) \cup {n}
  <2>1. \A m : m \in ToSet(t) <=> \E i \in 1 .. Len(t) : t[i] = m
    BY <1>2, ListNodes
  <2>2. \A m : m \in ToSet(s) <=> \E i \in 1 .. Len(s) : s[i] = m
    BY <1>1, ListNodes
  <2>3. ASSUME NEW m \in ToSet(t) PROVE m \in ToSet(s) \cup {n}
    BY <1>2, <1>3, <2>1, <2>2
  <2>4. ASSUME NEW m \in ToSet(s) \cup {n} PROVE m \in ToSet(t)
    <3>1. CASE m = n
      BY <1>1, <1>2, <2>1, <3>1
    <3>2. CASE m \in ToSet(s)
      <4>1. PICK i \in 1 .. Len(s) : s[i] = m
        BY <2>2, <3>2
      <4>2. i \in 1 .. Len(t) /\ t[i] = m
        BY <1>1, <1>2, <4>1
      <4> QED
        BY <2>1, <4>2
    <3> QED
      BY <3>1, <3>2
  <2> QED
    BY <2>3, <2>4
<1>5. p = t[1]
  BY <1>1, <1>2 DEF IsList
<1>6. \A i \in 1 .. Len(s) : s[i] \in ToSet(s)
  BY <1>1, ListNodes
<1>7. \A i \in 1 .. Len(t) : md[t[i]].next = IF i = Len(t) THEN Null ELSE t[i + 1]
  <2> SUFFICES ASSUME NEW i \in 1 .. Len(t) PROVE md[t[i]].next = IF i = Len(t) THEN Null ELSE t[i + 1]
    OBVIOUS
  <2>1. CASE i = Len(s) + 1
    BY <1>2, <2>1
  <2>2. CASE i = Len(s)
    BY <1>1, <1>2, <1>6, <2>2
  <2>3. CASE i \in 1 .. Len(s) - 1
    <3>1. s[i] # s[Len(s)]
      BY <1>1, <2>3 DEF IsList
    <3>2. md[s[i]].next = s[i + 1]
      BY <1>1, <1>6, <2>3, <3>1 DEF IsList
    <3> QED
      BY <1>1, <1>2, <2>3, <3>2
  <2> QED
    BY <1>1, <1>3, <2>1, <2>2, <2>3
<1>8. \A i, j \in 1 .. Len(t) : t[i] = t[j] => i = j
  BY <1>1, <1>2, <1>3, <1>6 DEF IsList
<1>9. IsList(md, p, t)
  BY <1>2, <1>5, <1>7, <1>8 DEF IsList
<1> QED
  BY <1>2, <1>4, <1>9 DEF t

-----------------------------------------------------------------------------
(* The owners of the nodes                                                 *)

\* A node that holds an element; every element but the last is held for
\* HoldTicks.
Filled(n) == node[n].state \in States /\ (node[n].next # Null => node[n].delay = HoldTicks)

\* The states of a list's nodes.
StatesOf(s) == [i \in 1 .. Len(s) |-> node[s[i]].state]

\* act is the active queue and rest what is left to play of it.
ActiveOK(act, rest) ==
    /\ IsList(node, free_head, act) /\ IsList(node, queue_next, rest)
    /\ ToSet(rest) \subseteq ToSet(act)
    /\ queue_next = Null => free_head = Null
    /\ \A n \in ToSet(act) : Filled(n)
    /\ played \o StatesOf(rest) = script

\* s is the list writer t is building: all but the node it is about to fill.
WriterOK(t, s) ==
    /\ IsList(node, writer[t].head, s)
    /\ writer[t].pc \in {"idle", "alloc"} <=> s = << >>
    /\ s # << >> => writer[t].cur = s[Len(s)]
    /\ \A n \in ToSet(s) : (n = writer[t].cur /\ writer[t].pc = "fill") \/ Filled(n)
    /\ writer[t].pc \in {"alloc", "fill"} =>
        /\ writer[t].todo # << >>
        /\ \A i \in 1 .. Len(writer[t].todo) - 1 : writer[t].todo[i].delay = HoldTicks

\* The lists share no node, and the bitmap marks theirs.
Owners(act, built) ==
    /\ \A n \in Nodes : n \in bitmap <=> n \in ToSet(act) \/ \E t \in Writers : n \in ToSet(built[t])
    /\ \A t \in Writers : ToSet(built[t]) \cap ToSet(act) = {}
    /\ \A t, u \in Writers : t # u => ToSet(built[t]) \cap ToSet(built[u]) = {}

Owned(act, rest, built) ==
    /\ ActiveOK(act, rest)
    /\ \A t \in Writers : WriterOK(t, built[t])
    /\ Owners(act, built)

OwnInv == \E act, rest \in Seq(Nodes), built \in [Writers -> Seq(Nodes)] : Owned(act, rest, built)

QueueInv == TypeOK /\ OwnInv

\* What a step leaves of a list it does not touch.
LEMMA FilledKept ==
  ASSUME NEW n, Filled(n), node'[n] = node[n]
  PROVE  Filled(n)'
BY DEF Filled

\* A writer's list is as it was when its nodes are.
LEMMA WriterKept ==
  ASSUME NEW t \in Writers, NEW s, WriterOK(t, s), writer'[t] = writer[t],
         \A n \in ToSet(s) : node'[n] = node[n]
  PROVE  WriterOK(t, s)'
<1>1. IsList(node', writer'[t].head, s)
  BY SameList DEF WriterOK
<1>2. \A n \in ToSet(s) : Filled(n) => Filled(n)'
  BY FilledKept
<1> QED
  BY <1>1, <1>2 DEF WriterOK

\* The active list is as it was when its nodes and its pointers are.
LEMMA ActiveKept ==
  ASSUME NEW act, NEW rest, ActiveOK(act, rest), UNCHANGED <<free_head, queue_next, played, script>>,
         \A n \in ToSet(act) : node'[n] = node[n]
  PROVE  ActiveOK(act, rest)'
<1>1. IsList(node', free_head', act) /\ IsList(node', queue_next', rest)
  BY SameList DEF ActiveOK
<1>2. \A n \in ToSet(act) : Filled(n) => Filled(n)'
  BY FilledKept
<1>3. StatesOf(rest)' = StatesOf(rest)
  <2>1. \A i \in 1 .. Len(rest) : rest[i] \in ToSet(rest)
    BY ListNodes DEF ActiveOK, IsList
  <2>2. \A i \in 1 .. Len(rest) : node'[rest[i]].state = node[rest[i]].state
    BY <2>1 DEF ActiveOK
  <2> QED
    BY <2>2 DEF StatesOf
<1> QED
  BY <1>1, <1>2, <1>3 DEF ActiveOK

\* A list is freed: its nodes are, and no other changes.
LEMMA FreesList ==
  ASSUME NEW p, NEW s, IsList(node, p, s), Free(p)
  PROVE  /\ bitmap' = bitmap \ ToSet(s)
         /\ last_avail' \in 0 .. StorageSize
         /\ node' = [n \in Nodes |-> IF n \in ToSet(s) THEN Poison ELSE node[n]]
<1>1. (IF p = Null THEN {} ELSE ToSet(List(p))) = ToSet(s)
  <2>1. List(p) = s
    BY ListIs
  <2>2. p = Null => ToSet(s) = {}
    BY OfNull, ListNodes DEF IsList
  <2> QED
    BY <2>1, <2>2
<1> QED
  BY <1>1 DEF Free

\* At boot no list has a node.
LEMMA InitOwn == Init => QueueInv
<1> SUFFICES ASSUME Init PROVE QueueInv
  OBVIOUS
<1>1. TypeOK
  <2>1. node \in [Nodes -> NodeType]
    BY DEF Init, Poison, NodeType, Pointers
  <2>2. writer \in [Writers -> WriterType]
    BY DEF Init, Idle, WriterType, Pointers
  <2>3. last_avail \in 0 .. StorageSize /\ due \in -MaxLate .. HoldTicks /\ current_cam \in 0 .. CamValues - 1
    BY StorageAssumption, TimeAssumption, CamAssumption DEF Init
  <2> QED
    BY <2>1, <2>2, <2>3 DEF Init, TypeOK, States, Pointers
<1>2. Owned(<< >>, << >>, [t \in Writers |-> << >>])
  <2>1. ToSet(<< >>) = {}
    BY DEF ToSet
  <2>2. StatesOf(<< >>) = << >>
    BY DEF StatesOf
  <2>3. ActiveOK(<< >>, << >>)
    BY <2>1, <2>2, NullList DEF Init, ActiveOK
  <2>4. \A t \in Writers : WriterOK(t, << >>)
    BY <2>1, NullList DEF Init, WriterOK, Idle
  <2>5. Owners(<< >>, [t \in Writers |-> << >>])
    BY <2>1 DEF Init, Owners
  <2> QED
    BY <2>3, <2>4, <2>5 DEF Owned
<1>3. << >> \in Seq(Nodes) /\ [t \in Writers |-> << >>] \in [Writers -> Seq(Nodes)]
  OBVIOUS
<1> QED
  BY <1>1, <1>2, <1>3 DEF QueueInv, OwnInv

TodoType == Seq([state: States, delay: {0, HoldTicks}])

\* Every element of a camera move but the last is held for HoldTicks.
LEMMA CamScriptHeld ==
  ASSUME NEW offset \in Int
  PROVE  /\ CamScript(offset) \in TodoType /\ CamScript(offset) # << >>
         /\ \A i \in 1 .. Len(CamScript(offset)) - 1 : CamScript(offset)[i].delay = HoldTicks
<1> DEFINE count == IF offset > 0 THEN offset ELSE -offset
           press == IF offset > 0 THEN "up" ELSE "down"
           size == 2 * count + 1
           elem(i) == IF i = size THEN Element("neutral", 0)
                      ELSE Element(IF i % 2 = 1 THEN press ELSE "neutral", HoldTicks)
           c == [i \in 1 .. size |-> elem(i)]
<1>1. size \in Nat \ {0}
  OBVIOUS
<1>2. \A i \in 1 .. size : elem(i) \in [state: States, delay: {0, HoldTicks}] /\ (i # size => elem(i).delay = HoldTicks)
  BY DEF Element, States
<1>3. CamScript(offset) = c
  BY DEF CamScript
<1> HIDE DEF size, elem
<1>4. c \in Seq([state: States, delay: {0, HoldTicks}]) /\ Len(c) = size
  BY <1>1, <1>2
<1>5. c # << >>
  BY <1>1, <1>4
<1>6. \A i \in 1 .. size - 1 : c[i].delay = HoldTicks
  <2>1. \A i \in 1 .. size - 1 : i \in 1 .. size /\ i # size
    BY <1>1
  <2> QED
    BY <1>2, <2>1
<1> HIDE DEF c
<1> QED
  BY <1>3, <1>4, <1>5, <1>6 DEF TodoType

\* The empty list has no nodes.
LEMMA EmptyToSet == ToSet(<< >>) = {}
BY DEF ToSet

\* A writer starts on a script.
LEMMA StartInv ==
  ASSUME QueueInv, NEW t \in Writers, NEW todo \in TodoType, todo # << >>,
         \A i \in 1 .. Len(todo) - 1 : todo[i].delay = HoldTicks,
         writer[t].pc = "idle", Start(t, todo),
         UNCHANGED <<storageVars, playVars>>, current_cam' \in 0 .. CamValues - 1
  PROVE  QueueInv'
<1> DEFINE w == [pc |-> "alloc", head |-> Null, cur |-> Null, todo |-> todo]
<1>1. PICK act \in Seq(Nodes), rest \in Seq(Nodes), built \in [Writers -> Seq(Nodes)] : Owned(act, rest, built)
  BY DEF QueueInv, OwnInv
<1>2. writer' = [writer EXCEPT ![t] = w]
  BY DEF Start
<1>3. TypeOK'
  <2>1. w \in WriterType
    BY DEF WriterType, TodoType, Pointers
  <2>2. writer' \in [Writers -> WriterType]
    BY <1>2, <2>1 DEF QueueInv, TypeOK
  <2> QED
    BY <2>2 DEF QueueInv, TypeOK, storageVars, playVars
<1>4. ASSUME NEW u \in Writers PROVE WriterOK(u, built[u])'
  <2>1. CASE u = t
    <3>1. built[t] = << >>
      BY <1>1 DEF Owned, WriterOK
    <3>2. writer'[t] = w
      BY <1>2 DEF QueueInv, TypeOK
    <3> QED
      BY <2>1, <3>1, <3>2, EmptyToSet, NullList DEF WriterOK
  <2>2. CASE u # t
    <3>1. writer'[u] = writer[u] /\ node' = node
      BY <1>2, <2>2 DEF QueueInv, TypeOK, storageVars
    <3> QED
      BY <1>1, <3>1, WriterKept DEF Owned
  <2> QED
    BY <2>1, <2>2
<1>5. ActiveOK(act, rest)'
  BY <1>1, ActiveKept DEF Owned, playVars, storageVars
<1>6. Owners(act, built)'
  BY <1>1 DEF Owned, Owners, storageVars
<1>7. Owned(act, rest, built)'
  BY <1>4, <1>5, <1>6 DEF Owned
<1> QED
  BY <1>3, <1>7 DEF QueueInv, OwnInv

\* Steps that start nothing.
LEMMA IdleInv ==
  ASSUME QueueInv, UNCHANGED <<storageVars, queue_next, free_head, script, played, writer>>,
         current_cam' \in 0 .. CamValues - 1, due' \in -MaxLate .. HoldTicks, queue_input' = queue_input
  PROVE  QueueInv'
<1>1. PICK act \in Seq(Nodes), rest \in Seq(Nodes), built \in [Writers -> Seq(Nodes)] : Owned(act, rest, built)
  BY DEF QueueInv, OwnInv
<1>2. TypeOK'
  BY DEF QueueInv, TypeOK, storageVars
<1>3. \A u \in Writers : WriterOK(u, built[u])'
  BY <1>1, WriterKept DEF Owned, storageVars
<1>4. ActiveOK(act, rest)'
  BY <1>1, ActiveKept DEF Owned, storageVars
<1>5. Owners(act, built)'
  BY <1>1 DEF Owned, Owners, storageVars
<1>6. Owned(act, rest, built)'
  BY <1>3, <1>4, <1>5 DEF Owned
<1> QED
  BY <1>2, <1>6 DEF QueueInv, OwnInv

\* The camera numbers and the time.
LEMMA CamInv ==
  ASSUME QueueInv, NEW t \in Writers, NEW offset \in Int, NEW record, AdjustCam(t, offset, record)
  PROVE  QueueInv'
<1>1. current_cam' \in 0 .. CamValues - 1
  <2>1. CamAfter(offset) \in 0 .. CamValues - 1
    BY CamAssumption DEF CamAfter, QueueInv, TypeOK
  <2> QED
    BY <2>1 DEF AdjustCam, QueueInv, TypeOK
<1>2. CASE offset = 0
  <2>1. UNCHANGED <<storageVars, playVars, writer>> /\ due' \in -MaxLate .. HoldTicks
    BY <1>2 DEF AdjustCam, QueueInv, TypeOK, playVars
  <2> QED
    BY <1>1, <2>1, IdleInv DEF playVars
<1>3. CASE offset # 0
  BY <1>1, <1>3, StartInv, CamScriptHeld DEF AdjustCam
<1> QED
  BY <1>2, <1>3

\* The clock, the home button and the camera value touch no node.
LEMMA QuietInv ==
  ASSUME QueueInv, Tick \/ Home \/ \E t \in Writers : Camera(t)
  PROVE  QueueInv'
<1>1. CASE Tick
  <2>1. due' \in -MaxLate .. HoldTicks
    BY <1>1, TimeAssumption DEF Tick, QueueInv, TypeOK
  <2>2. current_cam' \in 0 .. CamValues - 1 /\ queue_input' = queue_input
    BY <1>1 DEF Tick, QueueInv, TypeOK
  <2> QED
    BY <1>1, <2>1, <2>2, IdleInv DEF Tick, storageVars
<1>2. CASE Home
  <2> DEFINE todo == <<Element("home", HoldTicks), Element("neutral", HoldTicks)>>
  <2>1. /\ todo \in TodoType /\ todo # << >>
        /\ \A i \in 1 .. Len(todo) - 1 : todo[i].delay = HoldTicks
    BY DEF TodoType, Element, States
  <2> HIDE DEF todo
  <2>2. Start(ShellWriter, todo) /\ writer[ShellWriter].pc = "idle" /\ current_cam' \in 0 .. CamValues - 1
    BY <1>2 DEF Home, QueueInv, TypeOK, todo
  <2> QED
    BY <1>2, <2>1, <2>2, StartInv, WritersAssumption DEF Home
<1>3. ASSUME NEW t \in Writers, Camera(t) PROVE QueueInv'
  <2>1. ASSUME NEW o \in {-1, 1}, AdjustCam(t, o, FALSE) PROVE QueueInv'
    <3>1. o \in Int
      OBVIOUS
    <3> QED
      BY <2>1, <3>1, CamInv
  <2>2. ASSUME NEW x \in 0 .. CamValues - 1, SetCam(t, x) PROVE QueueInv'
    <3> DEFINE half == CamValues \div 2
               offset == ((x - current_cam + half) % CamValues) - half
    <3>1. offset \in Int
      BY CamAssumption DEF QueueInv, TypeOK
    <3>2. AdjustCam(t, offset, TRUE)
      BY <2>2 DEF SetCam
    <3> HIDE DEF offset
    <3> QED
      BY <3>1, <3>2, CamInv
  <2>3. ASSUME NEW x \in 0 .. CamValues - 1, ResetCam(t, x) PROVE QueueInv'
    BY <2>3, IdleInv DEF ResetCam, QueueInv, TypeOK, playVars
  <2> QED
    BY <1>3, <2>1, <2>2, <2>3 DEF Camera
<1> QED
  BY <1>1, <1>2, <1>3

\* The writers other than t, in a step that changes no node of theirs.
LEMMA OthersKept ==
  ASSUME TypeOK, NEW act, NEW rest, NEW built, Owned(act, rest, built), NEW t \in Writers, NEW w,
         writer' = [writer EXCEPT ![t] = w],
         \A u \in Writers : u # t => \A n \in ToSet(built[u]) : node'[n] = node[n]
  PROVE  /\ writer'[t] = w
         /\ \A u \in Writers : u # t => WriterOK(u, built[u])'
<1>1. writer'[t] = w /\ \A u \in Writers : u # t => writer'[u] = writer[u]
  BY DEF TypeOK
<1>2. ASSUME NEW u \in Writers, u # t PROVE WriterOK(u, built[u])'
  BY <1>1, <1>2, WriterKept DEF Owned
<1> QED
  BY <1>1, <1>2

\* A free node goes to the list of writer t.
LEMMA OwnersGrow ==
  ASSUME NEW act, NEW built \in [Writers -> Seq(Nodes)], Owners(act, built), ToSet(act) \subseteq Nodes,
         NEW t \in Writers, NEW n \in Nodes,
         n \notin bitmap, bitmap' = bitmap \cup {n}, NEW s, ToSet(s) = ToSet(built[t]) \cup {n}
  PROVE  Owners(act, [built EXCEPT ![t] = s])'
<1> DEFINE new == [built EXCEPT ![t] = s]
<1>1. new[t] = s /\ \A u \in Writers : u # t => new[u] = built[u]
  OBVIOUS
<1>2. n \notin ToSet(act) /\ \A u \in Writers : n \notin ToSet(built[u])
  BY DEF Owners
<1> HIDE DEF new
<1>3. \A m \in Nodes : m \in bitmap' <=> m \in ToSet(act) \/ \E u \in Writers : m \in ToSet(new[u])
  <2> SUFFICES ASSUME NEW m \in Nodes
               PROVE  m \in bitmap' <=> m \in ToSet(act) \/ \E u \in Writers : m \in ToSet(new[u])
    OBVIOUS
  <2>1. CASE m = n
    BY <1>1, <2>1
  <2>2. CASE m # n
    <3>1. \A u \in Writers : m \in ToSet(new[u]) <=> m \in ToSet(built[u])
      BY <1>1, <2>2
    <3> QED
      BY <2>2, <3>1 DEF Owners
  <2> QED
    BY <2>1, <2>2
<1>4. \A u \in Writers : ToSet(new[u]) \cap ToSet(act) = {}
  BY <1>1, <1>2 DEF Owners
<1>5. \A u, v \in Writers : u # v => ToSet(new[u]) \cap ToSet(new[v]) = {}
  BY <1>1, <1>2 DEF Owners
<1> QED
  BY <1>3, <1>4, <1>5 DEF Owners, new

\* Writer t gives its list up.
LEMMA OwnersShrink ==
  ASSUME NEW act, NEW built \in [Writers -> Seq(Nodes)], Owners(act, built), NEW t \in Writers,
         bitmap' = bitmap \ ToSet(built[t])
  PROVE  Owners(act, [built EXCEPT ![t] = << >>])'
<1> DEFINE new == [built EXCEPT ![t] = << >>]
<1>1. new[t] = << >> /\ \A u \in Writers : u # t => new[u] = built[u]
  OBVIOUS
<1> HIDE DEF new
<1>2. ASSUME NEW m \in Nodes
      PROVE  m \in bitmap' <=> m \in ToSet(act) \/ \E u \in Writers : m \in ToSet(new[u])
  <2>1. CASE m \in ToSet(built[t])
    <3>1. m \notin ToSet(act) /\ \A u \in Writers : m \notin ToSet(new[u])
      BY <1>1, <2>1, EmptyToSet DEF Owners
    <3> QED
      BY <2>1, <3>1
  <2>2. CASE m \notin ToSet(built[t])
    <3>1. \A u \in Writers : m \in ToSet(new[u]) <=> m \in ToSet(built[u])
      BY <1>1, <2>2, EmptyToSet
    <3> QED
      BY <2>2, <3>1 DEF Owners
  <2> QED
    BY <2>1, <2>2
<1>3. /\ \A u \in Writers : ToSet(new[u]) \cap ToSet(act) = {}
      /\ \A u, v \in Writers : u # v => ToSet(new[u]) \cap ToSet(new[v]) = {}
  BY <1>1, EmptyToSet DEF Owners
<1> QED
  BY <1>2, <1>3 DEF Owners, new

\* input_queue_alloc for the head of a list.
LEMMA AllocHeadInv ==
  ASSUME QueueInv, NEW t \in Writers, AllocHead(t)
  PROVE  QueueInv'
<1>1. PICK act \in Seq(Nodes), rest \in Seq(Nodes), built \in [Writers -> Seq(Nodes)] : Owned(act, rest, built)
  BY DEF QueueInv, OwnInv
<1>2. built[t] = << >> /\ ToSet(act) \subseteq Nodes /\ writer[t].pc = "alloc"
  BY <1>1, ListNodes DEF AllocHead, Owned, WriterOK
<1>3. ASSUME NEW n \in Nodes, Allocates(n), bitmap' = bitmap \cup {n}, last_avail' = n + 1,
             node' = [node EXCEPT ![n].next = Null],
             writer' = [writer EXCEPT ![t].pc = "fill", ![t].head = n, ![t].cur = n]
      PROVE  QueueInv'
  <2> DEFINE w == [writer[t] EXCEPT !.pc = "fill", !.head = n, !.cur = n]
             new == [built EXCEPT ![t] = <<n>>]
  <2>1. writer' = [writer EXCEPT ![t] = w]
    BY <1>3
  <2>a. w \in WriterType /\ w.pc = "fill" /\ w.head = n /\ w.cur = n /\ w.todo = writer[t].todo
    BY DEF QueueInv, TypeOK, WriterType, Pointers
  <2>b. writer' \in [Writers -> WriterType]
    BY <2>1, <2>a DEF QueueInv, TypeOK
  <2>2. node'[n].next = Null /\ \A m \in Nodes \ {n} : node'[m] = node[m]
    BY <1>3 DEF QueueInv, TypeOK, NodeType
  <2>3. n \notin bitmap
    BY <1>3 DEF Allocates
  <2> HIDE DEF w
  <2>4. TypeOK'
    <3>1. node' \in [Nodes -> NodeType]
      BY <1>3 DEF QueueInv, TypeOK, NodeType, Pointers
    <3>2. last_avail' \in 0 .. StorageSize /\ bitmap' \subseteq Nodes
      BY <1>3, StorageAssumption DEF QueueInv, TypeOK, Nodes
    <3> QED
      BY <2>b, <3>1, <3>2 DEF AllocHead, QueueInv, TypeOK, playVars
  <2>5. n \notin ToSet(act) /\ \A u \in Writers : n \notin ToSet(built[u])
    BY <1>1, <2>3 DEF Owned, Owners
  <2>6. writer'[t] = w /\ \A u \in Writers : u # t => WriterOK(u, built[u])'
    <3>1. ASSUME NEW u \in Writers, u # t PROVE \A m \in ToSet(built[u]) : node'[m] = node[m]
      <4>1. ToSet(built[u]) \subseteq Nodes
        BY ListNodes
      <4> QED
        BY <2>2, <2>5, <4>1
    <3>2. TypeOK
      BY DEF QueueInv
    <3> QED
      BY <1>1, <2>1, <3>1, <3>2, OthersKept
  <2>7. IsList(node', n, <<n>>) /\ ToSet(<<n>>) = {n}
    BY <2>2, NewList
  <2>8. WriterOK(t, <<n>>)'
    <3>1. <<n>> # << >> /\ <<n>>[Len(<<n>>)] = n
      OBVIOUS
    <3>2. writer[t].todo # << >> /\ \A i \in 1 .. Len(writer[t].todo) - 1 : writer[t].todo[i].delay = HoldTicks
      BY <1>1, <1>2 DEF Owned, WriterOK
    <3> QED
      BY <2>a, <2>6, <2>7, <3>1, <3>2 DEF WriterOK
  <2>9. new \in [Writers -> Seq(Nodes)] /\ \A u \in Writers : WriterOK(u, new[u])'
    BY <2>6, <2>8
  <2>10. ActiveOK(act, rest)'
    <3>1. \A m \in ToSet(act) : node'[m] = node[m]
      BY <1>2, <2>2, <2>5
    <3> QED
      BY <1>1, <3>1, ActiveKept DEF AllocHead, playVars, Owned
  <2>11. Owners(act, new)'
    <3>1. ToSet(<<n>>) = ToSet(built[t]) \cup {n}
      BY <1>2, <2>7, EmptyToSet
    <3> QED
      BY <1>1, <1>2, <1>3, <2>3, <3>1, OwnersGrow DEF Owned
  <2> HIDE DEF new
  <2>12. Owned(act, rest, new)'
    BY <2>9, <2>10, <2>11 DEF Owned
  <2> QED
    BY <2>4, <2>9, <2>12 DEF QueueInv, OwnInv
<1>4. ASSUME writer' = [writer EXCEPT ![t] = Idle], UNCHANGED storageVars PROVE QueueInv'
  <2>1. Idle \in WriterType
    BY DEF Idle, WriterType, Pointers
  <2>2. TypeOK'
    BY <1>4, <2>1 DEF AllocHead, QueueInv, TypeOK, storageVars, playVars
  <2>3. writer'[t] = Idle /\ \A u \in Writers : u # t => WriterOK(u, built[u])'
    <3>1. node' = node
      BY <1>4 DEF storageVars
    <3> QED
      BY <1>1, <1>4, <3>1, OthersKept DEF QueueInv
  <2>4. WriterOK(t, built[t])'
    BY <1>2, <2>3, EmptyToSet, NullList DEF WriterOK, Idle
  <2>5. ActiveOK(act, rest)'
    BY <1>1, <1>4, ActiveKept DEF AllocHead, playVars, storageVars, Owned
  <2>6. Owners(act, built)'
    BY <1>1, <1>4 DEF Owned, Owners, storageVars
  <2>7. Owned(act, rest, built)'
    BY <2>3, <2>4, <2>5, <2>6 DEF Owned
  <2> QED
    BY <2>2, <2>7 DEF QueueInv, OwnInv
<1> QED
  BY <1>3, <1>4 DEF AllocHead

\* A node is filled and the next one appended; or there is none, and the list
\* is freed.
LEMMA FillAndAppendInv ==
  ASSUME QueueInv, NEW t \in Writers, FillAndAppend(t)
  PROVE  QueueInv'
<1>1. PICK act \in Seq(Nodes), rest \in Seq(Nodes), built \in [Writers -> Seq(Nodes)] : Owned(act, rest, built)
  BY DEF QueueInv, OwnInv
<1> DEFINE s == built[t]
           cur == writer[t].cur
           todo == writer[t].todo
<1>2. /\ ToSet(act) \subseteq Nodes /\ \A u \in Writers : ToSet(built[u]) \subseteq Nodes
      /\ s \in Seq(Nodes) /\ Len(s) \in Nat /\ (s # << >> => Len(s) \in 1 .. Len(s) /\ s[Len(s)] \in ToSet(s))
  BY <1>1, ListNodes
<1>3. /\ writer[t].pc = "fill" /\ IsList(node, writer[t].head, s) /\ s # << >> /\ cur = s[Len(s)]
      /\ \A n \in ToSet(s) : n = cur \/ Filled(n)
      /\ todo # << >> /\ \A i \in 1 .. Len(todo) - 1 : todo[i].delay = HoldTicks
  BY <1>1 DEF FillAndAppend, Owned, WriterOK
<1>4. cur \in Nodes /\ cur \in ToSet(s)
  BY <1>2, <1>3
<1>5. /\ todo \in TodoType /\ Len(todo) \in Nat /\ Len(todo) > 1 /\ Head(todo) = todo[1]
      /\ todo[1] \in [state: States, delay: {0, HoldTicks}] /\ todo[1].delay = HoldTicks
      /\ Tail(todo) \in TodoType /\ Len(Tail(todo)) = Len(todo) - 1 /\ Tail(todo) # << >>
      /\ \A i \in 1 .. Len(Tail(todo)) : Tail(todo)[i] = todo[i + 1]
  <2>1. todo \in TodoType /\ Len(todo) > 1
    BY DEF FillAndAppend, QueueInv, TypeOK, WriterType, TodoType
  <2>2. Len(todo) \in Nat /\ Head(todo) = todo[1] /\ todo[1] \in [state: States, delay: {0, HoldTicks}]
    <3>1. Len(todo) \in Nat
      BY <2>1, LenProperties DEF TodoType
    <3>2. 1 \in 1 .. Len(todo) /\ Head(todo) = todo[1]
      BY <2>1, <3>1
    <3> QED
      BY <2>1, <3>1, <3>2, ElementOfSeq DEF TodoType
  <2>3. todo[1].delay = HoldTicks
    BY <1>3, <2>1, <2>2
  <2>4. Tail(todo) \in TodoType /\ Len(Tail(todo)) = Len(todo) - 1 /\ \A i \in 1 .. Len(Tail(todo)) : Tail(todo)[i] = todo[i + 1]
    BY <1>3, <2>1, HeadTailProperties DEF TodoType
  <2>5. Tail(todo) # << >>
    <3>1. ASSUME NEW a, NEW b, a \in Nat, a > 1, b = a - 1 PROVE b # 0
      BY <3>1
    <3>2. Len(Tail(todo)) # 0
      BY <2>1, <2>2, <2>4, <3>1, Zenon
    <3> QED
      BY <3>2, EmptySeq
  <2> QED
    BY <2>1, <2>2, <2>3, <2>4, <2>5
<1>6. ASSUME NEW n \in Nodes, Allocates(n), bitmap' = bitmap \cup {n}, last_avail' = n + 1,
             node' = [node EXCEPT ![cur] = [state |-> Head(todo).state, delay |-> Head(todo).delay, next |-> n],
                                  ![n].next = Null],
             writer' = [writer EXCEPT ![t].cur = n, ![t].todo = Tail(@)]
      PROVE  QueueInv'
  <2> DEFINE w == [writer[t] EXCEPT !.cur = n, !.todo = Tail(@)]
             new == [built EXCEPT ![t] = Append(s, n)]
  <2>1. writer' = [writer EXCEPT ![t] = w]
    BY <1>6
  <2>2. /\ w \in WriterType /\ w.pc = "fill" /\ w.head = writer[t].head /\ w.cur = n /\ w.todo = Tail(todo)
    BY <1>3, <1>5 DEF QueueInv, TypeOK, WriterType, Pointers, TodoType
  <2>3. n \notin bitmap /\ n # cur /\ n \notin ToSet(act) /\ \A u \in Writers : n \notin ToSet(built[u])
    BY <1>1, <1>4, <1>6 DEF Allocates, Owned, Owners
  <2>4. /\ node' \in [Nodes -> NodeType]
        /\ node'[cur] = [state |-> todo[1].state, delay |-> HoldTicks, next |-> n]
        /\ node'[n].next = Null
        /\ \A m \in Nodes \ {n, cur} : node'[m] = node[m]
    <3>1. [state |-> todo[1].state, delay |-> HoldTicks, next |-> n] \in NodeType
      BY <1>5 DEF NodeType, Pointers
    <3>2. node' = [node EXCEPT ![cur] = [state |-> todo[1].state, delay |-> HoldTicks, next |-> n], ![n].next = Null]
      BY <1>5, <1>6
    <3> QED
      BY <1>4, <2>3, <3>1, <3>2 DEF QueueInv, TypeOK, NodeType, Pointers
  <2>5. TypeOK'
    <3>1. writer' \in [Writers -> WriterType]
      BY <2>1, <2>2 DEF QueueInv, TypeOK
    <3>2. last_avail' \in 0 .. StorageSize /\ bitmap' \subseteq Nodes
      BY <1>6, StorageAssumption DEF QueueInv, TypeOK, Nodes
    <3> QED
      BY <2>4, <3>1, <3>2 DEF FillAndAppend, QueueInv, TypeOK, playVars
  <2> HIDE DEF w
  <2>6. ASSUME NEW u \in Writers, u # t PROVE \A m \in ToSet(built[u]) : node'[m] = node[m]
    <3>1. cur \notin ToSet(built[u])
      BY <1>1, <1>4, <2>6 DEF Owned, Owners
    <3> QED
      BY <1>2, <2>3, <2>4, <3>1
  <2>7. writer'[t] = w /\ \A u \in Writers : u # t => WriterOK(u, built[u])'
    <3>1. TypeOK
      BY DEF QueueInv
    <3> QED
      BY <1>1, <2>1, <2>6, <3>1, OthersKept
  <2>8. /\ IsList(node', writer[t].head, Append(s, n)) /\ ToSet(Append(s, n)) = ToSet(s) \cup {n}
        /\ Append(s, n)[Len(Append(s, n))] = n /\ Append(s, n) # << >>
    <3>1. \A m \in ToSet(s) : node'[m].next = IF m = s[Len(s)] THEN n ELSE node[m].next
      BY <1>2, <1>3, <2>3, <2>4
    <3> QED
      BY <1>3, <2>3, <2>4, <3>1, LongerList
  <2>9. WriterOK(t, Append(s, n))'
    <3>1. \A m \in ToSet(Append(s, n)) : m = n \/ Filled(m)'
      <4>1. ASSUME NEW m, m = cur PROVE Filled(m)'
        <5>1. node'[m].state = todo[1].state /\ node'[m].delay = HoldTicks
          BY <2>4, <4>1
        <5> QED
          BY <1>5, <5>1 DEF Filled
      <4>2. ASSUME NEW m \in ToSet(s), m # cur PROVE Filled(m)'
        <5>1. node'[m] = node[m]
          BY <1>2, <2>3, <2>4, <4>2
        <5> QED
          BY <1>3, <4>2, <5>1, FilledKept
      <4> QED
        BY <2>8, <4>1, <4>2
    <3>2. \A i \in 1 .. Len(Tail(todo)) - 1 : Tail(todo)[i].delay = HoldTicks
      BY <1>3, <1>5
    <3> QED
      BY <1>5, <2>2, <2>7, <2>8, <3>1, <3>2 DEF WriterOK
  <2>10. new \in [Writers -> Seq(Nodes)] /\ \A u \in Writers : WriterOK(u, new[u])'
    <3>1. Append(s, n) \in Seq(Nodes)
      BY <1>2, AppendProperties
    <3> QED
      BY <2>7, <2>9, <3>1
  <2>11. ActiveOK(act, rest)'
    <3>1. cur \notin ToSet(act)
      BY <1>1, <1>4 DEF Owned, Owners
    <3>2. \A m \in ToSet(act) : node'[m] = node[m]
      BY <1>2, <2>3, <2>4, <3>1
    <3> QED
      BY <1>1, <3>2, ActiveKept DEF FillAndAppend, playVars, Owned
  <2>12. Owners(act, new)'
    BY <1>1, <1>2, <1>6, <2>3, <2>8, OwnersGrow DEF Owned
  <2> HIDE DEF new
  <2>13. Owned(act, rest, new)'
    BY <2>10, <2>11, <2>12 DEF Owned
  <2> QED
    BY <2>5, <2>10, <2>13 DEF QueueInv, OwnInv
<1>7. ASSUME Free(writer[t].head), writer' = [writer EXCEPT ![t] = Idle] PROVE QueueInv'
  <2> DEFINE new == [built EXCEPT ![t] = << >>]
  <2>1. /\ bitmap' = bitmap \ ToSet(s) /\ last_avail' \in 0 .. StorageSize
        /\ node' = [m \in Nodes |-> IF m \in ToSet(s) THEN Poison ELSE node[m]]
    BY <1>3, <1>7, FreesList
  <2>2. TypeOK'
    <3>1. Idle \in WriterType /\ Poison \in NodeType
      BY DEF Idle, WriterType, Pointers, Poison, NodeType
    <3>2. node' \in [Nodes -> NodeType] /\ bitmap' \subseteq Nodes
      BY <2>1, <3>1 DEF QueueInv, TypeOK
    <3> QED
      BY <1>7, <2>1, <3>1, <3>2 DEF FillAndAppend, QueueInv, TypeOK, playVars
  <2>3. writer'[t] = Idle /\ \A u \in Writers : u # t => WriterOK(u, built[u])'
    <3>1. ASSUME NEW u \in Writers, u # t PROVE \A m \in ToSet(built[u]) : node'[m] = node[m]
      <4>1. ToSet(built[u]) \cap ToSet(s) = {}
        BY <1>1, <3>1 DEF Owned, Owners
      <4> QED
        BY <1>2, <2>1, <4>1
    <3>2. TypeOK
      BY DEF QueueInv
    <3> QED
      BY <1>1, <1>7, <3>1, <3>2, OthersKept
  <2>4. WriterOK(t, << >>)'
    BY <2>3, EmptyToSet, NullList DEF WriterOK, Idle
  <2>5. new \in [Writers -> Seq(Nodes)] /\ \A u \in Writers : WriterOK(u, new[u])'
    BY <2>3, <2>4
  <2>6. ActiveOK(act, rest)'
    <3>1. ToSet(s) \cap ToSet(act) = {}
      BY <1>1 DEF Owned, Owners
    <3>2. \A m \in ToSet(act) : node'[m] = node[m]
      BY <1>2, <2>1, <3>1
    <3> QED
      BY <1>1, <3>2, ActiveKept DEF FillAndAppend, playVars, Owned
  <2>7. Owners(act, new)'
    BY <1>1, <2>1, OwnersShrink DEF Owned
  <2> HIDE DEF new
  <2>8. Owned(act, rest, new)'
    BY <2>5, <2>6, <2>7 DEF Owned
  <2> QED
    BY <2>2, <2>5, <2>8 DEF QueueInv, OwnInv
<1> QED
  BY <1>6, <1>7 DEF FillAndAppend

\* The last node is filled.
LEMMA FillLastInv ==
  ASSUME QueueInv, NEW t \in Writers, FillLast(t)
  PROVE  QueueInv'
<1>1. PICK act \in Seq(Nodes), rest \in Seq(Nodes), built \in [Writers -> Seq(Nodes)] : Owned(act, rest, built)
  BY DEF QueueInv, OwnInv
<1> DEFINE s == built[t]
<1>2. /\ ToSet(act) \subseteq Nodes /\ \A u \in Writers : ToSet(built[u]) \subseteq Nodes
      /\ s \in Seq(Nodes) /\ (s # << >> => Len(s) \in 1 .. Len(s) /\ s[Len(s)] \in ToSet(s))
  BY <1>1, ListNodes
<1>3. PICK cur, head : cur = writer[t].cur /\ head = Head(writer[t].todo)
  OBVIOUS
<1>4. /\ writer[t].pc = "fill" /\ IsList(node, writer[t].head, s) /\ s # << >> /\ cur = s[Len(s)]
      /\ \A n \in ToSet(s) : n = cur \/ Filled(n)
  BY <1>1, <1>3 DEF FillLast, Owned, WriterOK
<1>5. cur \in Nodes /\ cur \in ToSet(s)
  BY <1>2, <1>4
<1>6. head \in [state: States, delay: {0, HoldTicks}]
  <2>1. PICK todo \in TodoType : todo = writer[t].todo /\ Len(todo) = 1
    BY DEF FillLast, QueueInv, TypeOK, WriterType, TodoType
  <2>2. Head(todo) = todo[1] /\ todo[1] \in [state: States, delay: {0, HoldTicks}]
    <3>1. Head(todo) = todo[1] /\ 1 \in 1 .. Len(todo)
      BY <2>1
    <3> QED
      BY <2>1, <3>1, ElementOfSeq DEF TodoType
  <2> QED
    BY <1>3, <2>1, <2>2
<1>7. node[cur].next = Null
  BY <1>2, <1>4 DEF IsList
<1>8. node' = [node EXCEPT ![cur].state = head.state, ![cur].delay = head.delay]
  BY <1>3 DEF FillLast
<1>9. /\ node' \in [Nodes -> NodeType] /\ node'[cur].state = head.state /\ node'[cur].next = Null
      /\ \A m \in Nodes \ {cur} : node'[m] = node[m]
  BY <1>5, <1>6, <1>7, <1>8 DEF QueueInv, TypeOK, NodeType
<1> DEFINE w == [writer[t] EXCEPT !.pc = "ready"]
<1>10. /\ w \in WriterType /\ w.pc = "ready" /\ w.head = writer[t].head /\ w.cur = cur
       /\ writer' = [writer EXCEPT ![t] = w]
  BY <1>3 DEF FillLast, QueueInv, TypeOK, WriterType
<1>11. TypeOK'
  <2>1. writer' \in [Writers -> WriterType]
    BY <1>10 DEF QueueInv, TypeOK
  <2> QED
    BY <1>9, <2>1 DEF FillLast, QueueInv, TypeOK, playVars
<1> HIDE DEF w
<1>12. writer'[t] = w /\ \A u \in Writers : u # t => WriterOK(u, built[u])'
  <2>1. ASSUME NEW u \in Writers, u # t PROVE \A m \in ToSet(built[u]) : node'[m] = node[m]
    <3>1. cur \notin ToSet(built[u])
      BY <1>1, <1>5, <2>1 DEF Owned, Owners
    <3> QED
      BY <1>2, <1>9, <3>1
  <2>2. TypeOK
    BY DEF QueueInv
  <2> QED
    BY <1>1, <1>10, <2>1, <2>2, OthersKept
<1>13. WriterOK(t, s)'
  <2>1. IsList(node', writer[t].head, s)
    <3>1. \A m \in ToSet(s) : node'[m].next = node[m].next
      BY <1>2, <1>7, <1>9
    <3> QED
      BY <1>4, <3>1, SameList
  <2>2. ASSUME NEW m \in ToSet(s) PROVE Filled(m)'
    <3>1. CASE m = cur
      BY <1>6, <1>9, <3>1 DEF Filled
    <3>2. CASE m # cur
      BY <1>2, <1>4, <1>9, <3>2, FilledKept
    <3> QED
      BY <3>1, <3>2
  <2> QED
    BY <1>4, <1>10, <1>12, <2>1, <2>2 DEF WriterOK
<1>14. ActiveOK(act, rest)'
  <2>1. cur \notin ToSet(act)
    BY <1>1, <1>5 DEF Owned, Owners
  <2>2. \A m \in ToSet(act) : node'[m] = node[m]
    BY <1>2, <1>9, <2>1
  <2> QED
    BY <1>1, <2>2, ActiveKept DEF FillLast, playVars, Owned
<1>15. Owners(act, built)'
  BY <1>1 DEF FillLast, Owned, Owners
<1>16. Owned(act, rest, built)'
  BY <1>12, <1>13, <1>14, <1>15 DEF Owned
<1> QED
  BY <1>11, <1>16 DEF QueueInv, OwnInv

\* What a list holds, read through the walk of it.
LEMMA ElementsAre ==
  ASSUME NEW p, NEW s, IsList(node, p, s)
  PROVE  Elements(p) = StatesOf(s)
BY ListIs DEF Elements, StatesOf

\* The states of filled nodes
LEMMA StatesType ==
  ASSUME NEW s \in Seq(Nodes), \A n \in ToSet(s) : Filled(n)
  PROVE  StatesOf(s) \in Seq(States) /\ Len(StatesOf(s)) = Len(s)
<1>1. Len(s) \in Nat /\ \A i \in 1 .. Len(s) : node[s[i]].state \in States
  BY ListNodes DEF Filled
<1> QED
  BY <1>1 DEF StatesOf

\* input_queue_set_active: the list goes from the writer to the reader, and
\* the one that was active is freed.
LEMMA SetActiveInv ==
  ASSUME QueueInv, NEW t \in Writers, SetActive(t)
  PROVE  QueueInv'
<1>1. PICK act \in Seq(Nodes), rest \in Seq(Nodes), built \in [Writers -> Seq(Nodes)] : Owned(act, rest, built)
  BY DEF QueueInv, OwnInv
<1> DEFINE s == built[t]
           new == [built EXCEPT ![t] = << >>]
<1>2. /\ ToSet(act) \subseteq Nodes /\ \A u \in Writers : ToSet(built[u]) \subseteq Nodes
      /\ s \in Seq(Nodes)
  BY <1>1, ListNodes
<1>3. /\ writer[t].pc = "ready" /\ IsList(node, writer[t].head, s) /\ s # << >>
      /\ \A n \in ToSet(s) : Filled(n)
  BY <1>1 DEF SetActive, Owned, WriterOK
<1>4. /\ bitmap' = bitmap \ ToSet(act) /\ last_avail' \in 0 .. StorageSize
      /\ node' = [m \in Nodes |-> IF m \in ToSet(act) THEN Poison ELSE node[m]]
  BY <1>1, FreesList DEF SetActive, Owned, ActiveOK
<1>5. Elements(writer[t].head) = StatesOf(s) /\ StatesOf(s) \in Seq(States)
  BY <1>3, ElementsAre, StatesType
<1>6. TypeOK'
  <2>1. Idle \in WriterType /\ Poison \in NodeType
    BY DEF Idle, WriterType, Pointers, Poison, NodeType
  <2>2. node' \in [Nodes -> NodeType] /\ bitmap' \subseteq Nodes
    BY <1>4, <2>1 DEF QueueInv, TypeOK
  <2>3. queue_next' \in Pointers /\ free_head' \in Pointers
    BY DEF SetActive, QueueInv, TypeOK, WriterType
  <2>4. due' \in -MaxLate .. HoldTicks
    BY TimeAssumption DEF SetActive
  <2>5. writer' \in [Writers -> WriterType]
    BY <2>1 DEF SetActive, QueueInv, TypeOK
  <2>6. script' \in Seq(States) /\ played' \in Seq(States)
    BY <1>5 DEF SetActive
  <2> QED
    BY <1>4, <2>2, <2>3, <2>4, <2>5, <2>6 DEF SetActive, QueueInv, TypeOK
<1>7. \A u \in Writers : \A m \in ToSet(built[u]) : node'[m] = node[m]
  <2> SUFFICES ASSUME NEW u \in Writers, NEW m \in ToSet(built[u]) PROVE node'[m] = node[m]
    OBVIOUS
  <2>1. ToSet(built[u]) \cap ToSet(act) = {}
    BY <1>1 DEF Owned, Owners
  <2> QED
    BY <1>2, <1>4, <2>1
<1>8. writer'[t] = Idle /\ \A u \in Writers : u # t => WriterOK(u, built[u])'
  <2>1. TypeOK /\ writer' = [writer EXCEPT ![t] = Idle]
    BY DEF QueueInv, SetActive
  <2>2. \A u \in Writers : u # t => \A n \in ToSet(built[u]) : node'[n] = node[n]
    BY <1>7
  <2> HIDE DEF new
  <2> QED
    BY <1>1, <2>1, <2>2, OthersKept
<1>9. new \in [Writers -> Seq(Nodes)] /\ \A u \in Writers : WriterOK(u, new[u])'
  <2>1. WriterOK(t, << >>)'
    BY <1>8, EmptyToSet, NullList DEF WriterOK, Idle
  <2> QED
    BY <1>8, <2>1
<1>10. ActiveOK(s, s)'
  <2>1. IsList(node', writer[t].head, s)
    BY <1>3, <1>7, SameList
  <2>2. \A m \in ToSet(s) : Filled(m)'
    BY <1>3, <1>7, FilledKept
  <2>3. writer[t].head # Null
    BY <1>3, OfNull
  <2>4. StatesOf(s)' = StatesOf(s)
    <3>1. \A i \in 1 .. Len(s) : s[i] \in ToSet(s)
      BY <1>2, ListNodes
    <3>2. \A i \in 1 .. Len(s) : node'[s[i]].state = node[s[i]].state
      BY <1>7, <3>1
    <3> QED
      BY <3>2 DEF StatesOf
  <2>5. played' \o StatesOf(s)' = script'
    <3>1. << >> \o StatesOf(s) = StatesOf(s)
      BY <1>5, ConcatEmptySeq
    <3> QED
      BY <1>5, <2>4, <3>1 DEF SetActive
  <2> QED
    BY <2>1, <2>2, <2>3, <2>5 DEF SetActive, ActiveOK
<1>11. Owners(s, new)'
  <2>1. new[t] = << >> /\ \A u \in Writers : u # t => new[u] = built[u]
    OBVIOUS
  <2> HIDE DEF new
  <2>2. ASSUME NEW m \in Nodes
        PROVE  m \in bitmap' <=> m \in ToSet(s) \/ \E u \in Writers : m \in ToSet(new[u])
    <3>1. CASE m \in ToSet(act)
      <4>1. \A u \in Writers : m \notin ToSet(built[u])
        BY <1>1, <3>1 DEF Owned, Owners
      <4> QED
        BY <1>4, <2>1, <3>1, <4>1, EmptyToSet
    <3>2. CASE m \notin ToSet(act)
      <4>1. m \in bitmap' <=> \E u \in Writers : m \in ToSet(built[u])
        BY <1>1, <1>4, <3>2 DEF Owned, Owners
      <4> QED
        BY <2>1, <4>1, EmptyToSet
    <3> QED
      BY <3>1, <3>2
  <2>3. /\ \A u \in Writers : ToSet(new[u]) \cap ToSet(s) = {}
        /\ \A u, v \in Writers : u # v => ToSet(new[u]) \cap ToSet(new[v]) = {}
    BY <1>1, <2>1, EmptyToSet DEF Owned, Owners
  <2> QED
    BY <2>2, <2>3 DEF Owners
<1> HIDE DEF new
<1>12. Owned(s, s, new)'
  BY <1>9, <1>10, <1>11 DEF Owned
<1> QED
  BY <1>2, <1>6, <1>9, <1>12 DEF QueueInv, OwnInv

\* An element moves from what is to play to what was played.
LEMMA MoveElement ==
  ASSUME NEW S, NEW a \in Seq(S), NEW b \in Seq(S), NEW c \in Seq(S), NEW x \in S,
         Len(b) = Len(c) + 1, b[1] = x, \A i \in 1 .. Len(c) : c[i] = b[i + 1]
  PROVE  Append(a, x) \o c = a \o b
<1> DEFINE ax == Append(a, x)
<1>1. /\ ax \in Seq(S) /\ Len(ax) = Len(a) + 1 /\ ax[Len(a) + 1] = x
      /\ \A i \in 1 .. Len(a) : ax[i] = a[i]
  BY AppendProperties
<1> HIDE DEF ax
<1> DEFINE left == ax \o c
           right == a \o b
<1>2. /\ left \in Seq(S) /\ Len(left) = Len(ax) + Len(c)
      /\ \A i \in 1 .. Len(ax) + Len(c) : left[i] = IF i <= Len(ax) THEN ax[i] ELSE c[i - Len(ax)]
  BY <1>1, ConcatProperties
<1>3. /\ right \in Seq(S) /\ Len(right) = Len(a) + Len(b)
      /\ \A i \in 1 .. Len(a) + Len(b) : right[i] = IF i <= Len(a) THEN a[i] ELSE b[i - Len(a)]
  BY ConcatProperties
<1> HIDE DEF left, right
<1>4. Len(a) \in Nat /\ Len(c) \in Nat
  BY LenProperties
<1>5. ASSUME NEW i \in 1 .. Len(left) PROVE left[i] = right[i]
  <2>1. CASE i <= Len(a)
    <3>1. left[i] = ax[i] /\ ax[i] = a[i]
      BY <1>1, <1>2, <1>4, <2>1
    <3>2. right[i] = a[i]
      BY <1>1, <1>2, <1>3, <1>4, <2>1
    <3> QED
      BY <3>1, <3>2
  <2>2. CASE i = Len(a) + 1
    <3>1. left[i] = x
      BY <1>1, <1>2, <1>4, <2>2
    <3>2. right[i] = b[1]
      <4>1. i \in 1 .. Len(a) + Len(b) /\ ~(i <= Len(a)) /\ i - Len(a) = 1
        BY <1>4, <2>2
      <4> QED
        BY <1>3, <4>1
    <3> QED
      BY <3>1, <3>2
  <2>3. CASE i > Len(a) + 1
    <3>1. PICK j \in 1 .. Len(c) : i - Len(ax) = j /\ i - Len(a) = j + 1
      BY <1>1, <1>2, <1>4, <2>3
    <3>2. left[i] = c[j]
      BY <1>1, <1>2, <1>4, <2>3, <3>1
    <3>3. right[i] = b[j + 1]
      BY <1>1, <1>2, <1>3, <1>4, <2>3, <3>1
    <3> QED
      BY <3>1, <3>2, <3>3
  <2> QED
    BY <1>1, <1>2, <1>4, <2>1, <2>2, <2>3
<1>6. Len(left) = Len(right)
  BY <1>1, <1>2, <1>3, <1>4
<1>7. left = right
  BY <1>2, <1>3, <1>5, <1>6, SeqEqual
<1> QED
  BY <1>7 DEF left, right, ax

\* The element to play next holds a state, and a delay unless it is the last.
LEMMA NextFilled ==
  ASSUME QueueInv, queue_next # Null
  PROVE  queue_next \in Nodes /\ Filled(queue_next)
<1>1. PICK act \in Seq(Nodes), rest \in Seq(Nodes), built \in [Writers -> Seq(Nodes)] : Owned(act, rest, built)
  BY DEF QueueInv, OwnInv
<1>2. queue_next \in ToSet(rest)
  BY <1>1, RestOfList DEF Owned, ActiveOK
<1> QED
  BY <1>1, <1>2, ListNodes DEF Owned, ActiveOK

\* input_queue_get_state: an element is taken; the last one frees the queue.
LEMMA GetStateInv ==
  ASSUME QueueInv, GetState
  PROVE  QueueInv'
<1>1. PICK act \in Seq(Nodes), rest \in Seq(Nodes), built \in [Writers -> Seq(Nodes)] : Owned(act, rest, built)
  BY DEF QueueInv, OwnInv
<1>2. PICK p : p = queue_next
  OBVIOUS
<1> DEFINE tl == Tail(rest)
<1>3. ToSet(act) \subseteq Nodes /\ \A u \in Writers : ToSet(built[u]) \subseteq Nodes
  BY ListNodes
<1>4. /\ p # Null /\ p \in Nodes /\ Filled(p)
      /\ queue_next' = node[p].next /\ queue_input' = node[p].state /\ played' = Append(played, node[p].state)
  BY <1>2, NextFilled DEF GetState
<1>5. /\ rest # << >> /\ p = rest[1] /\ IsList(node, node[p].next, tl)
      /\ ToSet(tl) \subseteq ToSet(rest) /\ ToSet(rest) \subseteq ToSet(act) /\ played \o StatesOf(rest) = script
      /\ \A n \in ToSet(act) : Filled(n)
  <2>1. IsList(node, p, rest)
    BY <1>1, <1>2 DEF Owned, ActiveOK
  <2> QED
    BY <1>1, <1>4, <2>1, RestOfList DEF Owned, ActiveOK
<1>6. /\ tl \in Seq(Nodes) /\ Len(rest) = Len(tl) + 1 /\ Len(tl) \in Nat
      /\ \A i \in 1 .. Len(tl) : tl[i] = rest[i + 1]
  BY <1>5, HeadTailProperties, LenProperties
<1> HIDE DEF tl
<1>7. StatesOf(tl) \in Seq(States) /\ script = played' \o StatesOf(tl)
  <2>1. /\ StatesOf(tl) \in Seq(States) /\ Len(StatesOf(tl)) = Len(tl)
        /\ StatesOf(rest) \in Seq(States) /\ Len(StatesOf(rest)) = Len(rest)
    BY <1>5, <1>6, StatesType
  <2>2. StatesOf(rest)[1] = node[p].state /\ \A i \in 1 .. Len(tl) : StatesOf(tl)[i] = StatesOf(rest)[i + 1]
    BY <1>5, <1>6 DEF StatesOf
  <2>3. played \in Seq(States) /\ node[p].state \in States
    BY <1>4 DEF QueueInv, TypeOK, Filled
  <2> DEFINE b == StatesOf(rest)
             c == StatesOf(tl)
             x == node[p].state
  <2>a. /\ b \in Seq(States) /\ c \in Seq(States) /\ x \in States
        /\ Len(b) = Len(c) + 1 /\ b[1] = x /\ \A i \in 1 .. Len(c) : c[i] = b[i + 1]
    BY <1>6, <2>1, <2>2, <2>3
  <2> HIDE DEF b, c, x
  <2>b. Append(played, x) \o c = played \o b
    BY <2>a, <2>3, MoveElement
  <2>4. Append(played, node[p].state) \o StatesOf(tl) = played \o StatesOf(rest)
    BY <2>b DEF b, c, x
  <2> QED
    BY <1>4, <1>5, <2>1, <2>4
<1>8. UNCHANGED <<current_cam, writer, script>>
  BY DEF GetState
<1>9. played' \in Seq(States) /\ queue_input' \in States /\ queue_next' \in Pointers
  BY <1>4, AppendProperties DEF QueueInv, TypeOK, Filled, NodeType
<1>10. CASE node[p].next = Null
  <2>1. Free(free_head) /\ free_head' = Null /\ queue_next' = Null /\ due' = 0
    BY <1>4, <1>10 DEF GetState
  <2>2. /\ bitmap' = bitmap \ ToSet(act) /\ last_avail' \in 0 .. StorageSize
        /\ node' = [m \in Nodes |-> IF m \in ToSet(act) THEN Poison ELSE node[m]]
    BY <1>1, <2>1, FreesList DEF Owned, ActiveOK
  <2>3. tl = << >>
    BY <1>5, <1>10, OfNull
  <2>4. TypeOK'
    <3>1. Poison \in NodeType
      BY DEF Pointers, Poison, NodeType
    <3>2. node' \in [Nodes -> NodeType] /\ bitmap' \subseteq Nodes
      BY <2>2, <3>1 DEF QueueInv, TypeOK
    <3>3. due' \in -MaxLate .. HoldTicks /\ free_head' \in Pointers
      BY <2>1, TimeAssumption DEF Pointers
    <3> QED
      BY <1>8, <1>9, <2>2, <3>2, <3>3 DEF QueueInv, TypeOK
  <2>5. \A u \in Writers : WriterOK(u, built[u])'
    <3>1. ASSUME NEW u \in Writers PROVE \A n \in ToSet(built[u]) : node'[n] = node[n]
      <4>1. ToSet(built[u]) \cap ToSet(act) = {}
        BY <1>1 DEF Owned, Owners
      <4> QED
        BY <1>3, <2>2, <4>1
    <3> QED
      BY <1>1, <1>8, <3>1, WriterKept DEF Owned
  <2>6. ActiveOK(<< >>, << >>)'
    <3>1. StatesOf(<< >>)' = << >> /\ StatesOf(<< >>) = << >>
      BY DEF StatesOf
    <3>2. played' \o StatesOf(<< >>)' = script'
      BY <1>7, <1>8, <2>3, <3>1
    <3> QED
      BY <2>1, <3>2, NullList, EmptyToSet DEF ActiveOK
  <2>7. Owners(<< >>, built)'
    <3>1. ASSUME NEW m \in Nodes PROVE m \in bitmap' <=> \E u \in Writers : m \in ToSet(built[u])
      BY <1>1, <2>2 DEF Owned, Owners
    <3> QED
      BY <1>1, <3>1, EmptyToSet DEF Owned, Owners
  <2>8. Owned(<< >>, << >>, built)'
    BY <2>5, <2>6, <2>7 DEF Owned
  <2>9. << >> \in Seq(Nodes)
    OBVIOUS
  <2>10. OwnInv'
    BY <2>8, <2>9, Zenon DEF OwnInv
  <2> QED
    BY <2>4, <2>10 DEF QueueInv
<1>11. CASE node[p].next # Null
  <2>1. UNCHANGED <<storageVars, free_head>> /\ due < 0 /\ due' = due + HoldTicks
    BY <1>2, <1>4, <1>11 DEF GetState, Filled
  <2>2. TypeOK'
    <3>1. due' \in -MaxLate .. HoldTicks
      BY <2>1, TimeAssumption DEF QueueInv, TypeOK
    <3> QED
      BY <1>8, <1>9, <2>1, <3>1 DEF QueueInv, TypeOK, storageVars
  <2>3. \A u \in Writers : WriterOK(u, built[u])'
    BY <1>1, <1>8, <2>1, WriterKept DEF Owned, storageVars
  <2>4. ActiveOK(act, tl)'
    <3>1. StatesOf(tl)' = StatesOf(tl)
      BY <2>1 DEF StatesOf, storageVars
    <3>2. \A n \in ToSet(act) : Filled(n)'
      BY <1>5, <2>1, FilledKept DEF storageVars
    <3>3. IsList(node', free_head', act) /\ IsList(node', queue_next', tl) /\ queue_next' # Null
      BY <1>1, <1>4, <1>5, <1>11, <2>1 DEF Owned, ActiveOK, storageVars
    <3> QED
      BY <1>5, <1>7, <1>8, <3>1, <3>2, <3>3 DEF ActiveOK
  <2>5. Owners(act, built)'
    BY <1>1, <2>1 DEF Owned, Owners, storageVars
  <2>6. Owned(act, tl, built)'
    BY <2>3, <2>4, <2>5 DEF Owned
  <2> QED
    BY <1>6, <2>2, <2>6 DEF QueueInv, OwnInv
<1> QED
  BY <1>10, <1>11

\* Every step keeps the invariant.
LEMMA NextQueueInv == QueueInv /\ [Next]_vars => QueueInv'
<1> SUFFICES ASSUME QueueInv, [Next]_vars PROVE QueueInv'
  OBVIOUS
<1>1. CASE GetState
  BY <1>1, GetStateInv
<1>2. CASE Tick \/ Home \/ \E t \in Writers : Camera(t)
  BY <1>2, QuietInv
<1>3. ASSUME NEW t \in Writers, Write(t) PROVE QueueInv'
  BY <1>3, AllocHeadInv, FillAndAppendInv, FillLastInv, SetActiveInv DEF Write
<1>4. CASE UNCHANGED vars
  <2>1. current_cam' \in 0 .. CamValues - 1 /\ due' \in -MaxLate .. HoldTicks
    BY <1>4 DEF vars, playVars, QueueInv, TypeOK
  <2> QED
    BY <1>4, <2>1, IdleInv DEF vars, playVars
<1> QED
  BY <1>1, <1>2, <1>3, <1>4 DEF Next

\* Every node the bitmap marks belongs to one list and one owner, and the next
\* element to play is one of the active list's, for any number of writers that
\* interleave their builds, run out of nodes and replace each other's queues.
THEOREM OwnedSafe == Spec => []NodesOwned
<1>1. QueueInv => NodesOwned
  <2> SUFFICES ASSUME QueueInv PROVE NodesOwned
    OBVIOUS
  <2>1. PICK act \in Seq(Nodes), rest \in Seq(Nodes), built \in [Writers -> Seq(Nodes)] : Owned(act, rest, built)
    BY DEF QueueInv, OwnInv
  <2>2. List(free_head) = act /\ \A t \in Writers : List(writer[t].head) = built[t]
    BY <2>1, ListIs DEF Owned, ActiveOK, WriterOK
  <2>3. TypeOK
    BY DEF QueueInv
  <2>4. bitmap = ToSet(act) \cup UNION {ToSet(built[t]) : t \in Writers}
    <3>1. \A n : n \in bitmap \/ n \in ToSet(act) \/ (\E t \in Writers : n \in ToSet(built[t])) => n \in Nodes
      BY <2>3, ListNodes DEF TypeOK
    <3> QED
      BY <2>1, <3>1 DEF Owned, Owners
  <2>5. queue_next # Null => queue_next \in ToSet(act)
    BY <2>1, RestOfList DEF Owned, ActiveOK
  <2>6. queue_next = Null => free_head = Null
    BY <2>1 DEF Owned, ActiveOK
  <2>7. /\ \A t \in Writers : ToSet(built[t]) \cap ToSet(act) = {}
        /\ \A t, u \in Writers : t # u => ToSet(built[t]) \cap ToSet(built[u]) = {}
    BY <2>1 DEF Owned, Owners
  <2> QED
    BY <2>2, <2>3, <2>4, <2>5, <2>6, <2>7 DEF NodesOwned
<1> QED
  BY <1>1, InitOwn, NextQueueInv, PTL DEF Spec

\* What was played and what is still to play are together the script that was
\* made active: no reader skips an element, repeats one or reads a freed node.
THEOREM ScriptSafe == Spec => []PlaysScript
<1>1. QueueInv => PlaysScript
  <2> SUFFICES ASSUME QueueInv PROVE PlaysScript
    OBVIOUS
  <2>1. PICK act \in Seq(Nodes), rest \in Seq(Nodes), built \in [Writers -> Seq(Nodes)] : Owned(act, rest, built)
    BY DEF QueueInv, OwnInv
  <2>2. Elements(queue_next) = StatesOf(rest)
    BY <2>1, ElementsAre DEF Owned, ActiveOK
  <2> QED
    BY <2>1, <2>2 DEF PlaysScript, Owned, ActiveOK
<1> QED
  BY <1>1, InitOwn, NextQueueInv, PTL DEF Spec

-----------------------------------------------------------------------------
(* The USB output among the readers                                        *)

\* The schedule is never further behind than the last USB poll; and an element
\* the USB output has not seen has HoldTicks to wait from that poll on.
HoldInv ==
    /\ QueueInv
    /\ usb_age \in 0 .. PollPeriod
    /\ queue_next # Null => due + usb_age >= 0
    /\ queue_next # Null /\ played # << >> /\ ~usb_seen => due + usb_age >= HoldTicks
    /\ ~missed

\* The next element is due HoldTicks after the one taken.
LEMMA TakesDelay ==
  ASSUME QueueInv, GetState
  PROVE  due \in Int /\ due < 0 /\ (queue_next' # Null => due' = due + HoldTicks)
BY NextFilled DEF GetState, Filled, QueueInv, TypeOK

\* An element is taken only when the one before it has been seen.
LEMMA TakesSeen ==
  ASSUME HoldInv, Takes
  PROVE  ~missed'
<1>1. ~(played # << >> /\ ~usb_seen)
  <2> SUFFICES ASSUME played # << >>, ~usb_seen PROVE FALSE
    OBVIOUS
  <2>1. queue_next # Null /\ GetState
    BY DEF Takes, GetState
  <2>2. due + usb_age >= HoldTicks
    BY <2>1 DEF HoldInv
  <2>3. QueueInv /\ usb_age \in 0 .. PollPeriod
    BY DEF HoldInv
  <2> QED
    BY <2>1, <2>2, <2>3, TakesDelay, HoldAssumption, TimeAssumption
<1> QED
  BY <1>1 DEF Takes, HoldInv

\* Every step keeps what the USB thread is shown.
LEMMA HoldNextInv == HoldInv /\ [HoldNext]_holdVars => HoldInv'
<1> SUFFICES ASSUME HoldInv, [HoldNext]_holdVars PROVE HoldInv'
  OBVIOUS
<1>1. QueueInv /\ QueueInv'
  <2>1. [Next]_vars
    BY DEF HoldNext, UsbPoll, OtherRead, HoldTick, Compose, Takes, Next, holdVars
  <2> QED
    BY <2>1, NextQueueInv DEF HoldInv
<1>2. due \in Int /\ usb_age \in 0 .. PollPeriod /\ HoldTicks \in Nat /\ PollPeriod \in Nat /\ PollPeriod <= HoldTicks
  BY <1>1, HoldAssumption, TimeAssumption DEF QueueInv, TypeOK, HoldInv
<1>3. CASE UsbPoll /\ Takes
  <2>1. GetState /\ queue_next # Null
    BY <1>3 DEF Takes, GetState
  <2>2. queue_next' # Null => due' = due + HoldTicks
    BY <1>1, <2>1, TakesDelay
  <2>3. due + usb_age >= 0
    BY <2>1 DEF HoldInv
  <2>4. usb_age' = 0 /\ usb_seen' = TRUE
    BY <1>3 DEF UsbPoll
  <2>5. queue_next' # Null => due' + usb_age' >= 0
    BY <1>2, <2>2, <2>3, <2>4
  <2>6. ~missed'
    BY <1>3, TakesSeen
  <2>7. usb_age' \in 0 .. PollPeriod
    BY <1>2, <2>4
  <2> QED
    BY <1>1, <2>4, <2>5, <2>6, <2>7 DEF HoldInv
<1>4. CASE UsbPoll /\ ~Takes
  <2>1. UNCHANGED <<vars, missed>> /\ (queue_next # Null => due >= 0) /\ usb_age' = 0 /\ usb_seen' = TRUE
    BY <1>2, <1>4 DEF UsbPoll
  <2>2. queue_next' # Null => due' + usb_age' >= 0
    BY <1>2, <2>1 DEF vars, playVars
  <2>3. usb_age' \in 0 .. PollPeriod
    BY <1>2, <2>1
  <2> QED
    BY <1>1, <2>1, <2>2, <2>3 DEF HoldInv
<1>5. CASE OtherRead
  <2>1. GetState /\ queue_next # Null /\ usb_age' = usb_age
    BY <1>5 DEF OtherRead, Takes, GetState
  <2>2. queue_next' # Null => due' = due + HoldTicks
    BY <1>1, <2>1, TakesDelay
  <2>3. due + usb_age >= 0
    BY <2>1 DEF HoldInv
  <2>4. queue_next' # Null => due' + usb_age' >= HoldTicks /\ due' + usb_age' >= 0
    BY <1>2, <2>1, <2>2, <2>3
  <2>5. ~missed'
    BY <1>5, TakesSeen DEF OtherRead
  <2> QED
    BY <1>1, <1>2, <2>1, <2>4, <2>5 DEF HoldInv
<1>6. CASE HoldTick
  <2>1. /\ due' = due - 1 /\ usb_age' = usb_age + 1 /\ usb_age < PollPeriod
        /\ UNCHANGED <<queue_next, played, usb_seen, missed>>
    BY <1>6 DEF HoldTick, Tick
  <2>2. due' + usb_age' = due + usb_age /\ usb_age' \in 0 .. PollPeriod
    BY <1>2, <2>1
  <2> QED
    BY <1>1, <2>1, <2>2 DEF HoldInv
<1>7. CASE Compose
  <2>1. UNCHANGED <<usb_age, usb_seen, missed>>
    BY <1>7 DEF Compose
  <2>2. CASE \E t \in Writers : SetActive(t)
    <3>1. due' = 0 /\ played' = << >>
      BY <2>2 DEF SetActive
    <3>2. due' + usb_age' >= 0
      BY <1>2, <2>1, <3>1
    <3> QED
      BY <1>1, <1>2, <2>1, <3>1, <3>2 DEF HoldInv
  <2>3. CASE UNCHANGED playVars
    BY <1>1, <2>1, <2>3 DEF playVars, HoldInv
  <2>4. Home \/ (\E t \in Writers : Camera(t) \/ AllocHead(t) \/ FillAndAppend(t) \/ FillLast(t)) => UNCHANGED playVars
    BY DEF Home, Camera, SetCam, AdjustCam, ResetCam, AllocHead, FillAndAppend, FillLast
  <2> QED
    BY <1>7, <2>2, <2>3, <2>4 DEF Compose, Write
<1>8. CASE UNCHANGED holdVars
  BY <1>1, <1>8 DEF holdVars, vars, playVars, HoldInv
<1> QED
  BY <1>3, <1>4, <1>5, <1>6, <1>7, <1>8 DEF HoldNext

\* The USB output sees every element of a queue before the next one replaces
\* it, as long as it polls at least once in the time a press is held, whatever
\* the other readers take first.
THEOREM HoldSafe == HoldSpec => []UsbSeesElements
<1>1. HoldInit => HoldInv
  <2> SUFFICES ASSUME HoldInit PROVE HoldInv
    OBVIOUS
  <2>1. QueueInv
    BY InitOwn DEF HoldInit
  <2> QED
    BY <2>1, HoldAssumption DEF HoldInit, Init, HoldInv
<1>2. HoldInv => UsbSeesElements
  BY DEF HoldInv, UsbSeesElements
<1> QED
  BY <1>1, <1>2, HoldNextInv, PTL DEF HoldSpec
=============================================================================
