-------------------------- MODULE RelayProcessProofs --------------------------
(***************************************************************************)
(* Safety of the relay process: its poll loop, for any number of slots and  *)
(* whatever the memory of the unused ones holds, and its walk over RTCP,    *)
(* for any well-formed datagrams.                                           *)
(***************************************************************************)
EXTENDS RelayProcess, RtcpWalkProofs, FiniteSetTheorems

(* The loop searches for what poll has found.                               *)
Searching ==
    /\ pc \in {"next", "call"} => hitCnt > 0
    /\ pc = "call" => idx <= size /\ pending \subseteq slots[idx].handlers

(* The device registers after the RTCP socket: when the socket is gone, the *)
(* slot that it leaves behind is a copy of the device's.                    *)
Layout ==
    \/ pc \in {"setup", "thrown"} /\ done = 0 /\ size = 0
    \/ pc \in {"setup", "thrown"} /\ done = 1 /\ size = 1 /\ slots[0].fd = rtcp
    \/ /\ done \in {2, 3} /\ (pc # "setup" => done = 3)
       /\ size = 2 /\ slots[0].fd = rtcp /\ slots[1].fd = sound
    \/ /\ done = 3 /\ pc # "setup"
       /\ size = 1 /\ slots[0].fd = sound /\ slots[1].fd = sound

Used == IF done = 3 THEN 2 ELSE size

(* The other slots still hold what the heap held.                           *)
UnusedUnwritten == \A i \in 0..MaxHandlers : i >= Used => slots[i].fd = NoFd

LoopInv == LoopTypeOK /\ OneSlotEach /\ Searching

(* What is walked over is a datagram that was received.                     *)
WalkInv ==
    /\ WalkTypeOK
    /\ at = "idle" => compound = {}
    /\ at # "idle" => \E d \in Datagrams \ {NoData} : compound = Placed(d) /\ Walking(Bytes(d))

DeviceTypeOK ==
    /\ inbox \in Datagrams \cup {NoDatagram}
    /\ pcm \in {"running", "xrun", "prepared"}
    /\ avail \in 0..Periods

IInv == LoopInv /\ Layout /\ UnusedUnwritten /\ WalkInv /\ DeviceTypeOK

-------------------------------------------------------------------------------
(***************************************************************************)
(* The loop, whatever is registered                                         *)
(***************************************************************************)
LEMMA ScriptTyped ==
    ASSUME LoopTypeOK, done < Len(Script)
    PROVE  Script[done + 1].fd \in Fds /\ Script[done + 1].kind \in Kinds /\ done + 1 \in 0..Len(Script)
  <1>1. Script \in Seq([fd: Fds, kind: Kinds]) /\ done \in 0..Len(Script)
    BY EventLoopAssumption DEF EventLoopAssumption, LoopTypeOK
  <1>2. Script[done + 1] \in [fd: Fds, kind: Kinds]
    <2> DEFINE S == [fd: Fds, kind: Kinds]
               m == done + 1
    <2>1. Script \in Seq(S) /\ m \in 1..Len(Script)
      BY <1>1
    <2> HIDE DEF S, m
    <2>2. Script[m] \in S
      BY <2>1
    <2> QED
      BY <2>2 DEF S, m
  <1> QED
    BY <1>1, <1>2

(* A registered descriptor is found in its only slot.                       *)
LEMMA SlotFound ==
    ASSUME LoopTypeOK, OneSlotEach, NEW f
    PROVE  /\ f \in Registered => SlotOf(f) \in Active /\ slots[SlotOf(f)].fd = f
           /\ f \notin Registered => SlotOf(f) = size
           /\ SlotOf(f) \in 0..size
  <1>1. size \in Nat
    BY EventLoopAssumption DEF LoopTypeOK, EventLoopAssumption
  <1>2. CASE f \in Registered
    <2>1. PICK i \in Active : slots[i].fd = f
      BY <1>2 DEF Registered
    <2>2. \A j \in 0..(i - 1) : slots[j].fd # f
      BY <1>1, <2>1 DEF OneSlotEach, Active
    <2>3. SlotOf(f) \in Active /\ slots[SlotOf(f)].fd = f
      BY <1>2, <2>1, <2>2 DEF SlotOf
    <2> QED
      BY <1>1, <1>2, <2>3 DEF Active
  <1>3. CASE f \notin Registered
    BY <1>1, <1>3 DEF SlotOf
  <1> QED
    BY <1>2, <1>3

(* The slot that register_callback writes.                                  *)
Entry(f, kind) ==
    LET at0 == SlotOf(f)
        old == IF at0 = size THEN [slots[at0] EXCEPT !.fd = f, !.events = {}, !.handlers = {}]
                             ELSE slots[at0]
    IN  [old EXCEPT !.events = @ \cup ({kind} \ {"err"}), !.handlers = @ \cup {kind}]

LEMMA EntryTyped ==
    ASSUME LoopTypeOK, OneSlotEach, NEW f \in Fds, NEW kind \in Kinds, SlotOf(f) # MaxHandlers
    PROVE  /\ SlotOf(f) \in 0..MaxHandlers /\ SlotOf(f) < MaxHandlers
           /\ Entry(f, kind) \in SlotType
           /\ Entry(f, kind).fd = f
  <1>1. SlotOf(f) \in 0..size /\ (SlotOf(f) # size => slots[SlotOf(f)].fd = f)
    BY SlotFound
  <1>2. MaxHandlers \in Nat /\ size \in 0..MaxHandlers /\ slots \in [0..MaxHandlers -> SlotType]
    BY EventLoopAssumption DEF EventLoopAssumption, LoopTypeOK
  <1>3. slots[SlotOf(f)] \in SlotType
    BY <1>1, <1>2
  <1>4. Entry(f, kind) \in SlotType /\ Entry(f, kind).fd = f
    <2> DEFINE s == slots[SlotOf(f)]
    <2>1. CASE SlotOf(f) = size
      <3>1. Entry(f, kind) = [s EXCEPT !.fd = f, !.events = {} \cup ({kind} \ {"err"}),
                                       !.handlers = {} \cup {kind}]
        BY <1>3, <2>1 DEF Entry, SlotType
      <3> QED
        BY <1>3, <3>1 DEF SlotType, Kinds
    <2>2. CASE SlotOf(f) # size
      <3>1. Entry(f, kind) = [s EXCEPT !.events = s.events \cup ({kind} \ {"err"}),
                                       !.handlers = s.handlers \cup {kind}]
        BY <1>3, <2>2 DEF Entry, SlotType
      <3> QED
        BY <1>1, <1>3, <2>2, <3>1 DEF SlotType, Kinds
    <2> QED
      BY <2>1, <2>2
  <1> QED
    BY <1>1, <1>2, <1>4

LEMMA Registers ==
    ASSUME LoopTypeOK, Register, NEW f, NEW kind,
           f = Script[done + 1].fd, kind = Script[done + 1].kind
    PROVE  /\ pc = "setup" /\ done < Len(Script)
           /\ UNCHANGED <<idx, hitCnt, pending>>
           /\ \/ /\ SlotOf(f) = MaxHandlers
                 /\ pc' = "thrown" /\ UNCHANGED <<slots, size, changed, done>>
              \/ /\ SlotOf(f) # MaxHandlers
                 /\ slots' = [slots EXCEPT ![SlotOf(f)] = Entry(f, kind)]
                 /\ size' = IF SlotOf(f) = size THEN size + 1 ELSE size
                 /\ changed' = TRUE
                 /\ done' = done + 1
                 /\ pc' = pc
  BY DEF Register, Entry

LEMMA RegisterLoopInv ==
    ASSUME LoopInv, Register
    PROVE  LoopInv'
  <1> DEFINE f == Script[done + 1].fd
             kind == Script[done + 1].kind
  <1>1. LoopTypeOK /\ OneSlotEach /\ Searching
    BY DEF LoopInv
  <1>2. /\ pc = "setup" /\ done < Len(Script)
        /\ UNCHANGED <<idx, hitCnt, pending>>
        /\ \/ /\ SlotOf(f) = MaxHandlers
              /\ pc' = "thrown" /\ UNCHANGED <<slots, size, changed, done>>
           \/ /\ SlotOf(f) # MaxHandlers
              /\ slots' = [slots EXCEPT ![SlotOf(f)] = Entry(f, kind)]
              /\ size' = IF SlotOf(f) = size THEN size + 1 ELSE size
              /\ changed' = TRUE
              /\ done' = done + 1
              /\ pc' = pc
    BY <1>1, Registers
  <1>3. f \in Fds /\ kind \in Kinds /\ done + 1 \in 0..Len(Script)
    BY <1>1, <1>2, ScriptTyped
  <1> HIDE DEF f, kind
  <1>4. CASE SlotOf(f) = MaxHandlers
    BY <1>1, <1>2, <1>4 DEF LoopInv, LoopTypeOK, OneSlotEach, Active, Searching
  <1>5. CASE SlotOf(f) # MaxHandlers
    <2> DEFINE k == SlotOf(f)
               e == Entry(f, kind)
    <2>1. k \in 0..MaxHandlers /\ k < MaxHandlers /\ e \in SlotType /\ e.fd = f
      BY <1>1, <1>3, <1>5, EntryTyped
    <2>2. /\ f \in Registered => k \in Active /\ slots[k].fd = f
          /\ f \notin Registered => k = size
          /\ k \in 0..size
      BY <1>1, SlotFound
    <2>3. slots' = [slots EXCEPT ![k] = e] /\ size' = IF k = size THEN size + 1 ELSE size
      BY <1>2, <1>5
    <2> HIDE DEF k, e
    <2>4. /\ MaxHandlers \in Nat /\ size \in 0..MaxHandlers
          /\ slots \in [0..MaxHandlers -> SlotType]
      BY <1>1, EventLoopAssumption DEF EventLoopAssumption, LoopTypeOK
    <2>5. slots' \in [0..MaxHandlers -> SlotType] /\ size' \in 0..MaxHandlers
      BY <2>1, <2>2, <2>3, <2>4
    <2>6. LoopTypeOK'
      BY <1>1, <1>2, <1>3, <1>5, <2>5 DEF LoopTypeOK
    <2>7. ASSUME NEW i \in Active', NEW j \in Active', slots'[i].fd = slots'[j].fd
          PROVE  i = j
      <3>1. /\ i \in 0..MaxHandlers /\ j \in 0..MaxHandlers
            /\ slots'[i] = IF i = k THEN e ELSE slots[i]
            /\ slots'[j] = IF j = k THEN e ELSE slots[j]
        BY <2>3, <2>4, <2>5, <2>7 DEF Active
      <3>2. ASSUME NEW o \in Active', o # k, slots[o].fd = f PROVE FALSE
        <4>1. o \in Active
          BY <2>2, <2>3, <2>4, <3>2 DEF Active
        <4>2. f \in Registered
          BY <3>2, <4>1 DEF Registered
        <4> QED
          BY <1>1, <2>2, <3>2, <4>1, <4>2 DEF OneSlotEach
      <3>3. CASE i = k
        BY <2>1, <2>7, <3>1, <3>2, <3>3
      <3>4. CASE j = k
        BY <2>1, <2>7, <3>1, <3>2, <3>4
      <3>5. CASE i # k /\ j # k
        <4>1. i \in Active /\ j \in Active
          BY <2>2, <2>3, <2>4, <3>5 DEF Active
        <4> QED
          BY <1>1, <2>7, <3>1, <3>5, <4>1 DEF OneSlotEach
      <3> QED
        BY <3>3, <3>4, <3>5
    <2>8. Searching'
      BY <1>2, <1>5 DEF Searching
    <2> QED
      BY <2>6, <2>7, <2>8 DEF LoopInv, OneSlotEach
  <1> QED
    BY <1>4, <1>5

(* poll() writes nothing but what it reports.                               *)
LEMMA Polls ==
    ASSUME LoopTypeOK, NEW ready, Poll(ready)
    PROVE  /\ slots' \in [0..MaxHandlers -> SlotType]
           /\ \A i \in 0..MaxHandlers :
                  slots'[i].fd = slots[i].fd /\ slots'[i].handlers = slots[i].handlers
           /\ hitCnt' \in 0..MaxHandlers
           /\ UNCHANGED <<size, done, idx, pending>>
           /\ changed' = FALSE
           /\ pc = "poll" /\ pc' \in {"next", "poll"} /\ (pc' = "next" => hitCnt' > 0)
  <1> DEFINE R(i) == ready[slots[i].fd] \cap (slots[i].events \cup {"err"})
  <1>1. /\ MaxHandlers \in Nat /\ size \in 0..MaxHandlers
        /\ slots \in [0..MaxHandlers -> SlotType]
    BY EventLoopAssumption DEF EventLoopAssumption, LoopTypeOK
  <1>2. /\ slots' = [i \in 0..MaxHandlers |->
                        IF i \in Active THEN [slots[i] EXCEPT !.revents = R(i)] ELSE slots[i]]
        /\ hitCnt' = Cardinality({i \in Active : R(i) # {}})
        /\ pc' = IF hitCnt' > 0 THEN "next" ELSE "poll"
        /\ pc = "poll" /\ changed' = FALSE
        /\ UNCHANGED <<size, done, idx, pending>>
    BY DEF Poll
  <1>3. ASSUME NEW i \in 0..MaxHandlers PROVE slots[i] \in SlotType /\ R(i) \subseteq Kinds
    BY <1>1 DEF SlotType, Kinds
  <1> HIDE DEF R
  <1>4. ASSUME NEW i \in 0..MaxHandlers
        PROVE  /\ slots'[i] \in SlotType
               /\ slots'[i].fd = slots[i].fd /\ slots'[i].handlers = slots[i].handlers
    <2>1. CASE i \in Active
      <3>1. slots'[i] = [slots[i] EXCEPT !.revents = R(i)]
        BY <1>2, <1>4, <2>1
      <3> QED
        BY <1>3, <1>4, <3>1 DEF SlotType
    <2>2. CASE i \notin Active
      BY <1>2, <1>3, <1>4, <2>2
    <2> QED
      BY <2>1, <2>2
  <1>5. slots' \in [0..MaxHandlers -> SlotType]
    BY <1>2, <1>4
  <1>6. hitCnt' \in 0..MaxHandlers
    <2> DEFINE S == {i \in Active : R(i) # {}}
    <2>1. IsFiniteSet(0..(size - 1)) /\ Cardinality(0..(size - 1)) = size
      <3>1. Cardinality(0..(size - 1)) = IF 0 > size - 1 THEN 0 ELSE (size - 1) - 0 + 1
        BY <1>1, FS_Interval
      <3> QED
        BY <1>1, <3>1, FS_Interval
    <2>2. S \subseteq 0..(size - 1)
      BY DEF Active
    <2> HIDE DEF S
    <2>3. IsFiniteSet(S) /\ Cardinality(S) <= size /\ Cardinality(S) \in Nat
      BY <2>1, <2>2, FS_Subset, FS_CardinalityType
    <2>4. hitCnt' = Cardinality(S)
      BY <1>2 DEF S
    <2> QED
      BY <1>1, <2>3, <2>4
  <1> QED
    BY <1>2, <1>4, <1>5, <1>6

LEMMA PollLoopInv ==
    ASSUME LoopInv, NEW ready, Poll(ready)
    PROVE  LoopInv'
  <1>1. LoopTypeOK /\ OneSlotEach
    BY DEF LoopInv
  <1>2. /\ slots' \in [0..MaxHandlers -> SlotType]
        /\ \A i \in 0..MaxHandlers : slots'[i].fd = slots[i].fd
        /\ hitCnt' \in 0..MaxHandlers
        /\ UNCHANGED <<size, done, idx, pending>> /\ changed' = FALSE
        /\ pc' \in {"next", "poll"} /\ (pc' = "next" => hitCnt' > 0)
    BY <1>1, Polls
  <1>3. LoopTypeOK'
    BY <1>1, <1>2 DEF LoopTypeOK
  <1>4. Active' = Active /\ Active \subseteq 0..MaxHandlers
    BY <1>1, <1>2, EventLoopAssumption DEF Active, LoopTypeOK, EventLoopAssumption
  <1>5. OneSlotEach'
    <2> SUFFICES ASSUME NEW i \in Active', NEW j \in Active', slots'[i].fd = slots'[j].fd
                 PROVE  i = j
      BY DEF OneSlotEach
    <2>1. slots[i].fd = slots[j].fd
      BY <1>2, <1>4
    <2> QED
      BY <1>1, <1>4, <2>1 DEF OneSlotEach
  <1> QED
    BY <1>2, <1>3, <1>5 DEF LoopInv, Searching

LEMMA NextSlotLoopInv ==
    ASSUME LoopInv, NextSlot
    PROVE  LoopInv'
  <1>1. /\ MaxHandlers \in Nat /\ size \in 0..MaxHandlers /\ idx \in 0..MaxHandlers
        /\ slots \in [0..MaxHandlers -> SlotType]
    BY EventLoopAssumption DEF EventLoopAssumption, LoopTypeOK, LoopInv
  <1>2. idx' \in 0..size /\ idx' \in 0..MaxHandlers
    BY <1>1 DEF NextSlot, NextIdx
  <1>3. slots[idx'] \in SlotType
    BY <1>1, <1>2
  <1>4. pending' \subseteq Kinds /\ pending' \subseteq slots[idx'].handlers
    BY <1>3 DEF NextSlot, SlotType
  <1>5. LoopTypeOK'
    BY <1>2, <1>4 DEF NextSlot, LoopInv, LoopTypeOK
  <1> QED
    BY <1>1, <1>2, <1>4, <1>5 DEF NextSlot, LoopInv, Searching, OneSlotEach, Active

LEMMA SlotDoneLoopInv ==
    ASSUME LoopInv, SlotDone
    PROVE  LoopInv'
  <1>1. hitCnt \in 0..MaxHandlers /\ hitCnt > 0 /\ MaxHandlers \in Nat
    BY EventLoopAssumption DEF EventLoopAssumption, LoopTypeOK, LoopInv, Searching, SlotDone
  <1>2. hitCnt' \in 0..MaxHandlers
    BY <1>1 DEF SlotDone
  <1>3. LoopTypeOK'
    BY <1>2 DEF SlotDone, LoopInv, LoopTypeOK
  <1> QED
    BY <1>3 DEF SlotDone, LoopInv, Searching, OneSlotEach, Active

LEMMA ReturnLoopInv ==
    ASSUME LoopInv, NEW f, Calling(f), ReturnToSlot
    PROVE  LoopInv'
  BY DEF Calling, ReturnToSlot, LoopInv, LoopTypeOK, Searching, OneSlotEach, Active

(* Above the slot that is freed, slots move down by one.                    *)
LEMMA Unregisters ==
    ASSUME LoopTypeOK, OneSlotEach, NEW f \in Registered, Unregister(f)
    PROVE  /\ SlotOf(f) \in Active /\ slots[SlotOf(f)].fd = f
           /\ size' = size - 1 /\ changed' = TRUE
           /\ slots' \in [0..MaxHandlers -> SlotType]
           /\ \A i \in 0..MaxHandlers :
                  slots'[i] = IF i >= SlotOf(f) /\ i < size - 1 THEN slots[i + 1] ELSE slots[i]
  <1>1. /\ MaxHandlers \in Nat /\ size \in 0..MaxHandlers
        /\ slots \in [0..MaxHandlers -> SlotType]
    BY EventLoopAssumption DEF EventLoopAssumption, LoopTypeOK
  <1>2. SlotOf(f) \in Active /\ slots[SlotOf(f)].fd = f
    BY SlotFound
  <1> DEFINE k == SlotOf(f)
  <1>3. /\ slots' = [i \in 0..MaxHandlers |-> IF i \in k..(size - 2) THEN slots[i + 1] ELSE slots[i]]
        /\ size' = size - 1 /\ changed' = TRUE
    BY DEF Unregister
  <1>4. k \in 0..(size - 1)
    BY <1>2 DEF Active
  <1> HIDE DEF k
  <1>5. ASSUME NEW i \in 0..MaxHandlers
        PROVE  /\ slots'[i] = IF i >= k /\ i < size - 1 THEN slots[i + 1] ELSE slots[i]
               /\ slots'[i] \in SlotType
    BY <1>1, <1>3, <1>4
  <1>6. slots' \in [0..MaxHandlers -> SlotType]
    BY <1>3, <1>5
  <1> QED
    BY <1>2, <1>3, <1>5, <1>6 DEF k

LEMMA CalledIsRegistered ==
    ASSUME LoopInv, NEW f, Calling(f), f \in Registered, ReturnUnregistered(f)
    PROVE  LoopInv'
  <1>1. /\ MaxHandlers \in Nat /\ size \in 0..MaxHandlers
        /\ LoopTypeOK /\ OneSlotEach
    BY EventLoopAssumption DEF EventLoopAssumption, LoopTypeOK, LoopInv
  <1> DEFINE k == SlotOf(f)
  <1>2. /\ k \in Active /\ slots[k].fd = f
        /\ size' = size - 1 /\ changed' = TRUE
        /\ slots' \in [0..MaxHandlers -> SlotType]
        /\ \A i \in 0..MaxHandlers :
               slots'[i] = IF i >= k /\ i < size - 1 THEN slots[i + 1] ELSE slots[i]
    BY <1>1, Unregisters DEF ReturnUnregistered
  <1> HIDE DEF k
  <1>3. pending' = {} /\ pc' = "poll" /\ UNCHANGED <<done, idx, hitCnt>>
    BY <1>2 DEF ReturnUnregistered
  <1>4. size' \in 0..MaxHandlers
    BY <1>1, <1>2 DEF Active
  <1>5. LoopTypeOK'
    BY <1>1, <1>2, <1>3, <1>4 DEF LoopTypeOK
  <1>6. ASSUME NEW i \in Active', NEW j \in Active', slots'[i].fd = slots'[j].fd
        PROVE  i = j
    <2> DEFINE From(m) == IF m >= k THEN m + 1 ELSE m
    <2>1. ASSUME NEW m \in Active'
          PROVE  From(m) \in Active /\ slots'[m] = slots[From(m)]
      BY <1>1, <1>2 DEF Active
    <2>2. From(i) \in Active /\ From(j) \in Active /\ slots[From(i)].fd = slots[From(j)].fd
      BY <1>6, <2>1
    <2> HIDE DEF From
    <2>3. From(i) = From(j)
      BY <1>1, <2>2 DEF OneSlotEach
    <2> QED
      BY <1>1, <1>2, <2>3 DEF From, Active
  <1> QED
    BY <1>3, <1>5, <1>6 DEF LoopInv, OneSlotEach, Searching

-------------------------------------------------------------------------------
(***************************************************************************)
(* The relay's slots                                                        *)
(***************************************************************************)
RelayInv == LoopInv /\ Layout /\ UnusedUnwritten

LEMMA Scripted ==
    /\ Len(Script) = 3
    /\ Script[1].fd = rtcp /\ Script[2].fd = sound /\ Script[3].fd = sound
    /\ rtcp # sound /\ rtcp \in Fds /\ sound \in Fds
  BY ScriptAssumption, RelayAssumption DEF ScriptAssumption, SessionCapture, RelayAssumption

(* A callback belongs to a descriptor that is registered, for the stale     *)
(* slot too: the device's copy stands for the device.  Garbage is called    *)
(* only right behind the registered slots.                                  *)
LEMMA Called ==
    ASSUME RelayInv, NEW f, Calling(f)
    PROVE  f \in Registered \/ (f = NoFd /\ idx = size)
  <1>1. /\ MaxHandlers \in Nat /\ size \in 0..MaxHandlers /\ idx \in 0..MaxHandlers
        /\ slots[idx].fd = f /\ idx <= size
    BY EventLoopAssumption
       DEF EventLoopAssumption, RelayInv, LoopInv, LoopTypeOK, Calling, Searching
  <1>2. CASE idx >= Used
    <2>1. f = NoFd
      BY <1>1, <1>2 DEF RelayInv, UnusedUnwritten
    <2>2. size <= Used
      BY <1>1 DEF RelayInv, Layout, Used
    <2>3. Used \in Nat
      BY <1>1 DEF Used
    <2> QED
      BY <1>1, <1>2, <2>1, <2>2, <2>3
  <1>3. CASE idx < size
    BY <1>1, <1>3 DEF Registered, Active
  <1>4. CASE idx < Used /\ idx = size
    <2>1. done = 3 /\ size = 1 /\ slots[0].fd = sound /\ slots[1].fd = sound
      BY <1>1, <1>4 DEF RelayInv, Layout, Used
    <2> QED
      BY <1>1, <1>4, <2>1 DEF Registered, Active
  <1>5. Used \in Nat
    BY <1>1 DEF Used
  <1> QED
    BY <1>1, <1>2, <1>3, <1>4, <1>5

LEMMA RegisterRelayInv ==
    ASSUME RelayInv, Register
    PROVE  RelayInv'
  <1> DEFINE f == Script[done + 1].fd
             kind == Script[done + 1].kind
  <1>1. LoopTypeOK /\ OneSlotEach /\ LoopInv'
    BY RegisterLoopInv DEF RelayInv, LoopInv
  <1>2. /\ pc = "setup" /\ done < Len(Script)
        /\ \/ /\ SlotOf(f) = MaxHandlers
              /\ pc' = "thrown" /\ UNCHANGED <<slots, size, done>>
           \/ /\ SlotOf(f) # MaxHandlers
              /\ slots' = [slots EXCEPT ![SlotOf(f)] = Entry(f, kind)]
              /\ size' = IF SlotOf(f) = size THEN size + 1 ELSE size
              /\ done' = done + 1
              /\ pc' = pc
    BY <1>1, Registers
  <1>3. f \in Fds /\ kind \in Kinds /\ done \in Nat /\ done < 3
    BY <1>1, <1>2, ScriptTyped, Scripted DEF LoopTypeOK
  <1>4. f = IF done = 0 THEN rtcp ELSE sound
    BY <1>3, Scripted
  <1>5. CASE SlotOf(f) = MaxHandlers
    <2>1. UNCHANGED <<slots, size, done>> /\ pc' = "thrown"
      BY <1>2, <1>5
    <2>2. Layout'
      <3>1. SlotOf(f) = size \/ f \in Registered
        BY <1>1, SlotFound
      <3>2. done # 3
        BY <1>3
      <3>3. CASE size < 2
        BY <1>2, <2>1, <3>2, <3>3 DEF RelayInv, Layout
      <3>4. CASE size = 2
        <4>1. done = 2 /\ slots[1].fd = sound /\ f = sound
          BY <1>2, <1>3, <1>4, <3>4 DEF RelayInv, Layout
        <4>2. f \in Registered
          BY <3>4, <4>1 DEF Registered, Active
        <4>3. SlotOf(f) < size /\ size <= MaxHandlers /\ size \in Nat /\ MaxHandlers \in Nat
          BY <1>1, <3>4, <4>2, SlotFound, EventLoopAssumption
             DEF Active, LoopTypeOK, EventLoopAssumption
        <4> QED
          BY <1>5, <4>3
      <3> QED
        BY <3>3, <3>4 DEF RelayInv, Layout
    <2> QED
      BY <1>1, <2>1, <2>2 DEF RelayInv, UnusedUnwritten, Used
  <1>6. CASE SlotOf(f) # MaxHandlers
    <2> DEFINE k == SlotOf(f)
               e == Entry(f, kind)
    <2>1. k \in 0..MaxHandlers /\ k < MaxHandlers /\ e.fd = f
      BY <1>1, <1>3, <1>6, EntryTyped
    <2>2. /\ slots' = [slots EXCEPT ![k] = e]
          /\ size' = IF k = size THEN size + 1 ELSE size
          /\ done' = done + 1 /\ pc' = pc
      BY <1>2, <1>6
    <2>3. MaxHandlers \in Nat /\ DOMAIN slots = 0..MaxHandlers
      BY <1>1, EventLoopAssumption DEF EventLoopAssumption, LoopTypeOK
    <2>4. CASE done = 0
      <3>1. size = 0 /\ k = 0
        BY <1>1, <1>2, <2>4, SlotFound DEF RelayInv, Layout, Registered, Active
      <3> HIDE DEF k, e, f
      <3>2. slots'[0].fd = rtcp /\ size' = 1 /\ done' = 1
        BY <1>4, <2>1, <2>2, <2>3, <2>4, <3>1
      <3>3. UnusedUnwritten'
        BY <2>1, <2>2, <2>3, <2>4, <3>1, <3>2 DEF RelayInv, UnusedUnwritten, Used
      <3> QED
        BY <1>1, <1>2, <2>2, <3>2, <3>3 DEF RelayInv, Layout
    <2>5. CASE done = 1
      <3>1. size = 1 /\ slots[0].fd = rtcp
        BY <1>2, <2>5 DEF RelayInv, Layout
      <3>2. f \notin Registered
        BY <1>4, <2>5, <3>1, Scripted DEF Registered, Active
      <3>3. k = 1
        BY <1>1, <3>1, <3>2, SlotFound
      <3> HIDE DEF k, e, f
      <3>4. slots'[0].fd = rtcp /\ slots'[1].fd = sound /\ size' = 2 /\ done' = 2
        BY <1>4, <2>1, <2>2, <2>3, <2>5, <3>1, <3>3
      <3>5. UnusedUnwritten'
        BY <2>1, <2>2, <2>3, <2>5, <3>1, <3>3, <3>4 DEF RelayInv, UnusedUnwritten, Used
      <3> QED
        BY <1>1, <1>2, <2>2, <3>4, <3>5 DEF RelayInv, Layout
    <2>6. CASE done = 2
      <3>1. size = 2 /\ slots[0].fd = rtcp /\ slots[1].fd = sound
        BY <1>2, <2>6 DEF RelayInv, Layout
      <3>2. f = sound /\ f \in Registered
        BY <1>4, <2>6, <3>1 DEF Registered, Active
      <3>3. k \in 0..1 /\ slots[k].fd = sound
        BY <1>1, <3>1, <3>2, SlotFound DEF Active
      <3>4. k = 1
        BY <3>1, <3>3, Scripted
      <3> HIDE DEF k, e, f
      <3>5. slots'[0].fd = rtcp /\ slots'[1].fd = sound /\ size' = 2 /\ done' = 3
        BY <1>4, <2>1, <2>2, <2>3, <2>6, <3>1, <3>4
      <3>6. UnusedUnwritten'
        BY <2>1, <2>2, <2>3, <2>6, <3>1, <3>4, <3>5 DEF RelayInv, UnusedUnwritten, Used
      <3> QED
        BY <1>1, <1>2, <2>2, <3>5, <3>6 DEF RelayInv, Layout
    <2> QED
      BY <1>3, <2>4, <2>5, <2>6
  <1> QED
    BY <1>5, <1>6

(* The steps that leave the descriptors of all slots as they are.           *)
LEMMA SlotsKept ==
    ASSUME RelayInv, LoopInv', UNCHANGED <<size, done>>,
           \A i \in 0..MaxHandlers :
               slots'[i].fd = slots[i].fd,
           pc \notin {"setup", "thrown"}, pc' # "setup"
    PROVE  RelayInv'
  <1>1. MaxHandlers \in Nat /\ size \in 0..MaxHandlers /\ MaxHandlers > 0
    BY EventLoopAssumption DEF EventLoopAssumption, RelayInv, LoopInv, LoopTypeOK
  <1>2. UnusedUnwritten'
    BY DEF RelayInv, UnusedUnwritten, Used
  <1>3. CASE size = 2
    <2>1. done = 3 /\ slots[0].fd = rtcp /\ slots[1].fd = sound
      BY <1>3 DEF RelayInv, Layout
    <2>2. 0 \in 0..MaxHandlers /\ 1 \in 0..MaxHandlers
      BY <1>1, <1>3
    <2>3. slots'[0].fd = rtcp /\ slots'[1].fd = sound
      BY <2>1, <2>2
    <2> QED
      BY <1>2, <1>3, <2>1, <2>3 DEF RelayInv, Layout
  <1>4. CASE size # 2
    <2>1. done = 3 /\ size = 1 /\ slots[0].fd = sound /\ slots[1].fd = sound
      BY <1>4 DEF RelayInv, Layout
    <2>2. 0 \in 0..MaxHandlers /\ 1 \in 0..MaxHandlers
      BY <1>1
    <2>3. slots'[0].fd = sound /\ slots'[1].fd = sound
      BY <2>1, <2>2
    <2> QED
      BY <1>2, <2>1, <2>3 DEF RelayInv, Layout
  <1> QED
    BY <1>3, <1>4

LEMMA StartRelayInv ==
    ASSUME RelayInv, Start
    PROVE  RelayInv'
  <1>1. LoopInv'
    BY DEF Start, RelayInv, LoopInv, LoopTypeOK, Searching, OneSlotEach, Active
  <1>2. done = 3
    BY Scripted DEF Start
  <1>3. size = 2 /\ slots[0].fd = rtcp /\ slots[1].fd = sound
    BY <1>2 DEF Start, RelayInv, Layout
  <1> QED
    BY <1>1, <1>2, <1>3 DEF Start, RelayInv, Layout, UnusedUnwritten, Used

(* The RTCP socket is the only descriptor that is ever unregistered.        *)
LEMMA UnregisterRelayInv ==
    ASSUME RelayInv, Calling(rtcp), ReturnUnregistered(rtcp)
    PROVE  RelayInv'
  <1>1. rtcp \in Registered
    BY Called, Scripted, EventLoopAssumption DEF EventLoopAssumption
  <1>2. LoopInv' /\ LoopTypeOK /\ OneSlotEach
    BY <1>1, CalledIsRegistered DEF RelayInv, LoopInv
  <1>3. pc = "call" /\ MaxHandlers \in Nat /\ size \in 0..MaxHandlers
    BY <1>2, EventLoopAssumption DEF EventLoopAssumption, LoopTypeOK, Calling
  <1>4. done = 3 /\ size = 2 /\ slots[0].fd = rtcp /\ slots[1].fd = sound
    BY <1>1, <1>3, Scripted DEF RelayInv, Layout, Registered, Active
  <1> DEFINE k == SlotOf(rtcp)
  <1>5. /\ k \in Active /\ slots[k].fd = rtcp /\ size' = size - 1 /\ changed' = TRUE
        /\ \A i \in 0..MaxHandlers :
               slots'[i] = IF i >= k /\ i < size - 1 THEN slots[i + 1] ELSE slots[i]
    BY <1>1, <1>2, Unregisters DEF ReturnUnregistered
  <1>6. k = 0
    BY <1>4, <1>5, Scripted DEF Active
  <1> HIDE DEF k
  <1>7. 0 \in 0..MaxHandlers /\ 1 \in 0..MaxHandlers
    BY <1>3, <1>4
  <1>8. slots'[0].fd = sound /\ slots'[1].fd = sound /\ size' = 1
    BY <1>4, <1>5, <1>6, <1>7
  <1>9. pc' = "poll" /\ done' = done
    BY <1>5 DEF ReturnUnregistered
  <1>10. UnusedUnwritten'
    <2>1. ASSUME NEW i \in 0..MaxHandlers, i >= 2 PROVE slots'[i].fd = NoFd
      <3>1. slots'[i] = slots[i]
        BY <1>4, <1>5, <1>6, <2>1
      <3> QED
        BY <1>4, <2>1, <3>1 DEF RelayInv, UnusedUnwritten, Used
    <2> QED
      BY <1>4, <1>9, <2>1 DEF UnusedUnwritten, Used
  <1> QED
    BY <1>2, <1>4, <1>8, <1>9, <1>10 DEF RelayInv, Layout

LEMMA StillRelayInv ==
    ASSUME RelayInv, UNCHANGED loopVars
    PROVE  RelayInv'
  BY DEF RelayInv, LoopInv, LoopTypeOK, OneSlotEach, Searching, Layout, UnusedUnwritten, Used,
         Active, loopVars

(* The process ends in the midst of a callback.                             *)
LEMMA EndRelayInv ==
    ASSUME RelayInv, pc = "call", pc' \in {"thrown", "wild"},
           UNCHANGED <<slots, size, changed, done, idx, hitCnt, pending>>
    PROVE  RelayInv'
  <1>1. LoopInv'
    BY DEF RelayInv, LoopInv, LoopTypeOK, Searching, OneSlotEach, Active
  <1> QED
    BY <1>1, SlotsKept

LEMMA LoopStepRelayInv ==
    ASSUME RelayInv, LoopStep
    PROVE  RelayInv'
  <1>1. CASE Register
    BY <1>1, RegisterRelayInv
  <1>2. CASE Start
    BY <1>2, StartRelayInv
  <1>3. CASE Poll(Ready)
    <2>1. LoopInv' /\ LoopTypeOK
      BY <1>3, PollLoopInv DEF RelayInv, LoopInv
    <2>2. /\ \A i \in 0..MaxHandlers : slots'[i].fd = slots[i].fd
          /\ UNCHANGED <<size, done>>
          /\ pc = "poll" /\ pc' \in {"next", "poll"}
      BY <1>3, <2>1, Polls
    <2> QED
      BY <2>1, <2>2, SlotsKept
  <1>4. CASE NextSlot
    <2>1. LoopInv'
      BY <1>4, NextSlotLoopInv DEF RelayInv
    <2> QED
      BY <1>4, <2>1, SlotsKept DEF NextSlot
  <1>5. CASE SlotDone
    <2>1. LoopInv'
      BY <1>5, SlotDoneLoopInv DEF RelayInv
    <2>2. UNCHANGED <<slots, size, done>> /\ pc = "call" /\ pc' \in {"next", "poll"}
      BY <1>5 DEF SlotDone
    <2> QED
      BY <2>1, <2>2, SlotsKept
  <1>6. CASE CallGarbage
    BY <1>6, EndRelayInv DEF CallGarbage, Calling
  <1> QED
    BY <1>1, <1>2, <1>3, <1>4, <1>5, <1>6 DEF LoopStep

LEMMA ReturnRelayInv ==
    ASSUME RelayInv, NEW f, Calling(f), ReturnToSlot
    PROVE  RelayInv'
  <1>1. LoopInv'
    BY ReturnLoopInv DEF RelayInv
  <1> QED
    BY <1>1, SlotsKept DEF ReturnToSlot, Calling

-------------------------------------------------------------------------------
(***************************************************************************)
(* The walk over what was received                                          *)
(***************************************************************************)
LEMMA ReceivedIsWellFormed ==
    ASSUME NEW d \in Datagrams \ {NoData}
    PROVE  WellFormed(Placed(d), Bytes(d)) /\ Bytes(d) \in Nat
  <1>1. WellFormed(Placed(d), Bytes(d))
    BY DatagramsAssumption DEF DatagramsAssumption
  <1>2. PICK f \in Placed(d) : End(f) = Bytes(d)
    BY <1>1 DEF WellFormed
  <1> QED
    BY <1>1, <1>2, FieldTyped

LEMMA ReceivesWalkInv ==
    ASSUME WalkInv, DeviceTypeOK, RtcpReceives
    PROVE  WalkInv'
  <1>1. inbox \in Datagrams \ {NoData} /\ WalkFrom(inbox)
    BY DEF RtcpReceives, DeviceTypeOK
  <1>2. PICK d \in Datagrams \ {NoData} : d = inbox /\ WalkFrom(d)
    BY <1>1
  <1>3. Walking(Bytes(d))'
    BY <1>2, ReceivedIsWellFormed, WalkFromWalks
  <1>4. compound' = Placed(d) /\ at' = "header"
    BY <1>2 DEF WalkFrom
  <1>5. WalkTypeOK'
    BY <1>3 DEF Walking
  <1> QED
    BY <1>3, <1>4, <1>5 DEF WalkInv

LEMMA WalksWalkInv ==
    ASSUME WalkInv, WalkStep
    PROVE  WalkInv'
  <1>1. at # "idle" /\ compound' = compound /\ at' # "idle"
    BY DEF WalkStep, ReadHeader, ReadSource, ReadBlock, ReadChunk, ReadItem, ReadChunkEnd, SkipRest
  <1>2. PICK d \in Datagrams \ {NoData} : compound = Placed(d) /\ Walking(Bytes(d))
    BY <1>1 DEF WalkInv
  <1>3. Walking(Bytes(d))'
    BY <1>2, ReceivedIsWellFormed, WalkStepWalks
  <1>4. WalkTypeOK'
    BY <1>3 DEF Walking
  <1> QED
    BY <1>1, <1>2, <1>3, <1>4 DEF WalkInv

LEMMA EndWalkInv ==
    ASSUME WalkInv, WalkEnd
    PROVE  WalkInv'
  BY DEF WalkInv, WalkEnd, WalkTypeOK

LEMMA StillWalkInv ==
    ASSUME WalkInv, UNCHANGED walkVars
    PROVE  WalkInv'
  BY DEF WalkInv, WalkTypeOK, Walking, Accounts, Within, walkVars

-------------------------------------------------------------------------------
(***************************************************************************)
(* The inductive invariant                                                  *)
(***************************************************************************)
LEMMA InitInv == ASSUME Init PROVE IInv
  <1>1. MaxHandlers \in Nat \ {0} /\ Garbage \subseteq [revents: SUBSET Kinds, handlers: SUBSET Kinds]
    BY EventLoopAssumption DEF EventLoopAssumption
  <1>2. /\ slots \in [0..MaxHandlers -> SlotType]
        /\ \A i \in 0..MaxHandlers : slots[i].fd = NoFd
    <2>1. Unwritten \subseteq SlotType /\ \A b \in Unwritten : b.fd = NoFd
      BY <1>1 DEF SlotType, Unwritten
    <2>2. slots \in [0..MaxHandlers -> Unwritten]
      BY DEF Init, LoopInit
    <2> QED
      BY <2>1, <2>2
  <1>3. LoopTypeOK
    <2>1. /\ size = 0 /\ done = 0 /\ idx = 0 /\ hitCnt = 0
          /\ changed = FALSE /\ pending = {} /\ pc = "setup"
      BY DEF Init, LoopInit
    <2>2. 0 \in 0..MaxHandlers
      BY <1>1
    <2>3. 0 \in 0..Len(Script)
      BY Scripted
    <2> QED
      BY <1>2, <2>1, <2>2, <2>3 DEF LoopTypeOK
  <1>4. OneSlotEach
    BY DEF Init, LoopInit, OneSlotEach, Active
  <1>5. Searching /\ Layout /\ UnusedUnwritten
    BY <1>2 DEF Init, LoopInit, Searching, Layout, UnusedUnwritten
  <1>6. WalkInv
    BY DEF Init, WalkInit, WalkInv, WalkTypeOK
  <1>7. DeviceTypeOK
    BY RelayAssumption DEF RelayAssumption, Init, DeviceTypeOK
  <1> QED
    BY <1>3, <1>4, <1>5, <1>6, <1>7 DEF IInv, LoopInv

THEOREM Inductive == Spec => []IInv
  <1>1. Init => IInv
    BY InitInv
  <1>2. ASSUME IInv, [Next]_vars PROVE IInv'
    <2>1. RelayInv /\ WalkInv /\ DeviceTypeOK
      BY <1>2 DEF IInv, RelayInv
    <2>2. Periods \in Nat
      BY RelayAssumption DEF RelayAssumption
    <2> SUFFICES RelayInv' /\ WalkInv' /\ DeviceTypeOK'
      BY DEF IInv, RelayInv
    <2>3. CASE LoopStep
      BY <2>1, <2>3, LoopStepRelayInv, StillWalkInv DEF LoopStep, DeviceTypeOK
    <2>4. CASE RtcpReceives
      BY <2>1, <2>4, StillRelayInv, ReceivesWalkInv DEF RtcpReceives, DeviceTypeOK
    <2>5. CASE RtcpWalks
      BY <2>1, <2>5, StillRelayInv, WalksWalkInv DEF RtcpWalks, DeviceTypeOK
    <2>6. CASE RtcpReturns
      BY <2>1, <2>6, ReturnRelayInv, EndWalkInv DEF RtcpReturns, DeviceTypeOK
    <2>14. CASE RtcpFails
      BY <2>1, <2>14, EndRelayInv, StillWalkInv DEF RtcpFails, Calling, DeviceTypeOK, walkVars
    <2>15. CASE CaptureFails
      BY <2>1, <2>15, ReturnRelayInv, StillWalkInv DEF CaptureFails, DeviceTypeOK
    <2>7. CASE RtcpEmpty
      BY <2>1, <2>7, UnregisterRelayInv, StillWalkInv DEF RtcpEmpty, DeviceTypeOK
    <2>8. CASE CaptureReads
      BY <2>1, <2>2, <2>8, ReturnRelayInv, StillWalkInv DEF CaptureReads, DeviceTypeOK
    <2>9. CASE CaptureOverrun
      BY <2>1, <2>2, <2>9, ReturnRelayInv, StillWalkInv DEF CaptureOverrun, DeviceTypeOK
    <2>10. CASE CaptureStarts
      BY <2>1, <2>10, StillRelayInv, StillWalkInv DEF CaptureStarts, DeviceTypeOK
    <2>11. CASE Tick
      BY <2>1, <2>2, <2>11, StillRelayInv, StillWalkInv DEF Tick, DeviceTypeOK
    <2>12. CASE \E d \in Datagrams : Arrives(d)
      BY <2>1, <2>12, StillRelayInv, StillWalkInv DEF Arrives, DeviceTypeOK
    <2>13. CASE UNCHANGED vars
      BY <2>1, <2>13, StillRelayInv, StillWalkInv DEF vars, DeviceTypeOK
    <2> QED
      BY <1>2, <2>3, <2>4, <2>5, <2>6, <2>7, <2>8, <2>9, <2>10, <2>11, <2>12, <2>13,
         <2>14, <2>15 DEF Next, Process
  <1> QED
    BY <1>1, <1>2, PTL DEF Spec

-------------------------------------------------------------------------------
(***************************************************************************)
(* The theorems                                                             *)
(***************************************************************************)
(* The variables keep their types; in particular the bytes that the walk    *)
(* subtracts from unsigned counts never pass zero.                          *)
THEOREM TypeCorrect == Spec => []TypeOK
  <1>1. ASSUME IInv PROVE TypeOK
    <2>1. LoopTypeOK /\ WalkInv /\ DeviceTypeOK
      BY <1>1 DEF IInv, LoopInv
    <2>2. compound \in {Placed(d) : d \in Datagrams} \cup {{}}
      BY <2>1 DEF WalkInv
    <2> QED
      BY <2>1, <2>2 DEF TypeOK, WalkInv, WalkTypeOK, DeviceTypeOK
  <1> QED
    BY <1>1, Inductive, PTL

(* register_callback and unregister keep one slot for each descriptor.      *)
THEOREM SlotsDistinct == Spec => []OneSlotEach
  <1>1. IInv => OneSlotEach
    BY DEF IInv, LoopInv
  <1> QED
    BY <1>1, Inductive, PTL

(* The loop calls nothing for an object that is gone, although a callback   *)
(* may delete its object and the slots shift under the index.  What it may  *)
(* call besides is the garbage of the slot past the last one, nowhere else, *)
(* and only while nothing was ever registered there.                        *)
THEOREM CallsAreRegistered == Spec => []CalledWhileRegistered
  <1>1. ASSUME IInv, pc = "call", pending # {}
        PROVE  slots[idx].fd \in Registered \/ (slots[idx].fd = NoFd /\ idx = size)
    <2>1. Calling(slots[idx].fd)
      BY <1>1 DEF Calling
    <2> QED
      BY <1>1, <2>1, Called DEF IInv, RelayInv
  <1>2. IInv => CalledWhileRegistered
    BY <1>1 DEF CalledWhileRegistered
  <1> QED
    BY <1>2, Inductive, PTL

(* parse_recv, which checks nothing, reads only where its peer wrote.       *)
THEOREM StaysInStep == Spec => []WalkInStep
  <1>1. ASSUME IInv PROVE WalkInStep
    <2>1. CASE at = "idle"
      BY <2>1 DEF WalkInStep
    <2>2. CASE at # "idle"
      <3>1. PICK d \in Datagrams \ {NoData} : Walking(Bytes(d))
        BY <1>1, <2>2 DEF IInv, WalkInv
      <3> QED
        BY <3>1, ReceivedIsWellFormed, WalkingInStep
    <2> QED
      BY <2>1, <2>2
  <1> QED
    BY <1>1, Inductive, PTL
===============================================================================
