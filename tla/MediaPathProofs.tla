---------------------------- MODULE MediaPathProofs ----------------------------
(***************************************************************************)
(* Safety of the sound on its way, for counters of any width, periods of    *)
(* any length, any number of calls and faults, and whatever the network     *)
(* does with the packets.                                                   *)
(***************************************************************************)
EXTENDS MediaPath, SequenceTheorems, FiniteSetTheorems, TLAPS

(* A packet as send_packet makes it: the payload is missing exactly when    *)
(* the encoding failed.                                                     *)
Encoded(p) ==
    \E status \in Statuses : p.len = PacketLen(status) /\ (p.sound = NoSound <=> status < 0)

(* Two packets, or a packet and the sender's counters, differ in their time *)
(* stamps as they do in their sequence numbers, up to wrapping.             *)
Aligned(p, q) ==
    \E k \in Int : (p.ts - Frames * p.seq) - (q.ts - Frames * q.seq) = SeqMod * k

Counters == [seq |-> seq, ts |-> ts]

(* Where period k is on its way and has arrived.                            *)
Coming(k)  == {p \in net : k \in p.sound}
Places(s, k) == {i \in DOMAIN s : k \in s[i]}

(* The writes that lost sound.                                              *)
Lossy(s) == {i \in DOMAIN s : s[i].taken # "all"}

(* The sound that the player has handed to its device.                      *)
Handed(s) == [i \in DOMAIN s |-> s[i].sound]

(* Nothing is ahead of the reads, and no period is sent again without a     *)
(* failed or short read, or taken again without a copy.                     *)
Accounted ==
    /\ IsFiniteSet(net)
    /\ \A p \in net : p.sound \subseteq 0..reads
    /\ \A i \in DOMAIN delivered : delivered[i] \subseteq 0..reads /\ delivered[i] # NoSound
    /\ \A k \in 1..reads :
          Cardinality(Coming(k)) + Cardinality(Places(delivered, k)) <= 1 + faults

IInv ==
    /\ TypeOK /\ reads <= sends
    /\ open
    /\ \A p \in net : Encoded(p) /\ Aligned(p, Counters)
    /\ hand # None => Encoded(hand)
    /\ PlaysWhatArrives
    /\ Accounted

-------------------------------------------------------------------------------
(***************************************************************************)
(* Arithmetic of counters that wrap                                         *)
(***************************************************************************)
LEMMA DivMod ==
    ASSUME NEW a \in Int, NEW m \in Nat \ {0}
    PROVE  a \div m \in Int /\ a % m \in 0..(m - 1) /\ a = (m * (a \div m)) + (a % m)
  OBVIOUS

LEMMA MultipleIsZero ==
    ASSUME NEW z \in Int, NEW m \in Nat \ {0}, -m < m * z, m * z < m
    PROVE  z = 0
  OBVIOUS

(* What differs by a multiple has the same remainder.                       *)
LEMMA SameRemainder ==
    ASSUME NEW a \in Int, NEW b \in Int, NEW k \in Int, NEW m \in Nat \ {0}, a - b = m * k
    PROVE  a % m = b % m
  <1> DEFINE p == a \div m
             q == b \div m
             r == a % m
             s == b % m
             z == (k - p) + q
  <1>1. /\ p \in Int /\ q \in Int /\ r \in 0..(m - 1) /\ s \in 0..(m - 1)
        /\ a = (m * p) + r /\ b = (m * q) + s
    BY DivMod
  <1> HIDE DEF p, q, r, s
  <1>2. z \in Int /\ r - s = m * z
    BY <1>1
  <1> HIDE DEF z
  <1>3. z = 0
    BY <1>1, <1>2, MultipleIsZero
  <1>4. m * 0 = 0
    OBVIOUS
  <1> QED
    BY <1>1, <1>2, <1>3, <1>4 DEF r, s

LEMMA OwnRemainder ==
    ASSUME NEW m \in Nat \ {0}, NEW a \in 0..(m - 1)
    PROVE  a % m = a
  <1>1. a \div m \in Int /\ a % m \in 0..(m - 1) /\ a - (a % m) = m * (a \div m)
    BY DivMod
  <1>2. a \div m = 0
    BY <1>1, MultipleIsZero
  <1>3. m * 0 = 0
    OBVIOUS
  <1> QED
    BY <1>1, <1>2, <1>3

-------------------------------------------------------------------------------
(***************************************************************************)
(* Lengths                                                                  *)
(***************************************************************************)
(* The header outweighs every error number: no packet is empty, and the     *)
(* receiver computes from its length what the encoder had returned.         *)
LEMMA LengthKept ==
    ASSUME NEW status \in Statuses, NEW p, p.len = PacketLen(status)
    PROVE  /\ p.len \in 1..(UIntMod - 1)
           /\ PayloadLen(p) = status
  <1>1. /\ status \in Int /\ status # 0 /\ status >= -7 /\ 2 * (status + 12) < UIntMod
        /\ UIntMod \in Nat \ {0} /\ 24 < UIntMod
    BY MediaAssumption DEF MediaAssumption, HeaderLen
  <1>2. p.len = status + 12 /\ p.len \in 1..(UIntMod - 1)
    <2>1. status + 12 \in 0..(UIntMod - 1)
      BY <1>1
    <2>2. (status + 12) % UIntMod = status + 12
      BY <1>1, <2>1, OwnRemainder
    <2> QED
      BY <1>1, <2>2 DEF PacketLen, HeaderLen
  <1>3. p.len - 12 = status
    BY <1>1, <1>2
  <1>4. CASE status > 0
    <2>1. status \in 0..(UIntMod - 1)
      BY <1>1, <1>4
    <2>2. status % UIntMod = status
      BY <1>1, <2>1, OwnRemainder
    <2>3. Signed(status) = status
      BY <1>1, <1>4 DEF Signed
    <2> QED
      BY <1>2, <1>3, <2>2, <2>3 DEF PayloadLen, HeaderLen
  <1>5. CASE status < 0
    <2>1. status + UIntMod \in 0..(UIntMod - 1)
      BY <1>1, <1>5
    <2>2. (status + UIntMod) - status = UIntMod * 1
      BY <1>1
    <2>3. status % UIntMod = status + UIntMod
      <3>1. status \in Int /\ status + UIntMod \in Int /\ UIntMod \in Nat \ {0} /\ 1 \in Int
        BY <1>1
      <3>2. (status + UIntMod) % UIntMod = status % UIntMod
        BY <2>2, <3>1, SameRemainder
      <3>3. (status + UIntMod) % UIntMod = status + UIntMod
        BY <2>1, <3>1, OwnRemainder
      <3> QED
        BY <3>2, <3>3
    <2>4. Signed(status + UIntMod) = status
      BY <1>1, <1>5 DEF Signed
    <2> QED
      BY <1>2, <1>3, <2>3, <2>4 DEF PayloadLen, HeaderLen
  <1> QED
    BY <1>1, <1>2, <1>4, <1>5

(* The player can tell a failed encoding from sound.                        *)
LEMMA DecodableIsSound ==
    ASSUME NEW p, Encoded(p)
    PROVE  p.len > 0 /\ (Decodable(p) <=> p.sound # NoSound)
  <1>1. PICK status \in Statuses : p.len = PacketLen(status) /\ (p.sound = NoSound <=> status < 0)
    BY DEF Encoded
  <1>2. status \in Int /\ status # 0 /\ UIntMod \in Nat
    BY MediaAssumption DEF MediaAssumption
  <1>3. p.len \in 1..(UIntMod - 1) /\ PayloadLen(p) = status
    BY <1>1, LengthKept
  <1> QED
    BY <1>1, <1>2, <1>3 DEF Decodable

-------------------------------------------------------------------------------
(***************************************************************************)
(* Sequence numbers and time stamps                                         *)
(***************************************************************************)
(* Both counters advance by one packet and wrap: they stay aligned, as the  *)
(* width of the time stamp is a multiple of that of the sequence number.    *)
LEMMA StampAligned ==
    ASSUME NEW p, p.seq \in Nat, p.ts \in Nat, NEW s \in Nat, NEW t \in Nat,
           Aligned(p, [seq |-> s, ts |-> t])
    PROVE  Aligned(p, [seq |-> (s + 1) % SeqMod, ts |-> (t + Frames) % TsMod])
  <1> DEFINE s1 == (s + 1) % SeqMod
             t1 == (t + Frames) % TsMod
             i  == (s + 1) \div SeqMod
             j  == (t + Frames) \div TsMod
             m  == TsMod \div SeqMod
  <1>1. Frames \in Nat /\ SeqMod \in Nat \ {0} /\ TsMod \in Nat \ {0} /\ TsMod % SeqMod = 0
    BY MediaAssumption DEF MediaAssumption
  <1>2. s1 \in Int /\ i \in Int /\ s + 1 = (SeqMod * i) + s1
    BY <1>1, DivMod
  <1>3. t1 \in Int /\ j \in Int /\ t + Frames = (TsMod * j) + t1
    BY <1>1, DivMod
  <1>4. m \in Int /\ TsMod = SeqMod * m
    BY <1>1, DivMod
  <1>5. PICK k \in Int : (p.ts - Frames * p.seq) - (t - Frames * s) = SeqMod * k
    BY DEF Aligned
  <1> HIDE DEF s1, t1, i, j, m
  <1>6. t1 - Frames * s1 = (t - Frames * s) + SeqMod * ((Frames * i) - (m * j))
    <2>1. Frames * s1 = (Frames * s) + Frames - (Frames * (SeqMod * i))
      BY <1>1, <1>2
    <2>2. t1 = (t + Frames) - ((SeqMod * m) * j)
      BY <1>1, <1>3, <1>4
    <2> QED
      BY <1>1, <1>2, <1>3, <1>4, <2>1, <2>2
  <1>7. (Frames * i) - (m * j) \in Int /\ k - ((Frames * i) - (m * j)) \in Int
    BY <1>1, <1>2, <1>3, <1>4, <1>5
  <1>8. (p.ts - Frames * p.seq) - (t1 - Frames * s1) = SeqMod * (k - ((Frames * i) - (m * j)))
    <2> DEFINE w == (Frames * i) - (m * j)
               x == p.ts - Frames * p.seq
               y == t - Frames * s
               z == t1 - Frames * s1
    <2>1. w \in Int /\ x \in Int /\ y \in Int /\ z \in Int
      BY <1>1, <1>2, <1>3, <1>7
    <2>2. x - y = SeqMod * k /\ z = y + SeqMod * w
      BY <1>5, <1>6
    <2> HIDE DEF w, x, y, z
    <2>3. SeqMod * (k - w) = (SeqMod * k) - (SeqMod * w)
      BY <1>1, <2>1
    <2>4. SeqMod * k \in Int /\ SeqMod * w \in Int
      BY <1>1, <2>1
    <2>5. x - z = SeqMod * (k - w)
      BY <2>1, <2>2, <2>3, <2>4
    <2> QED
      BY <2>5 DEF w, x, z
  <1>9. Aligned(p, [seq |-> s1, ts |-> t1])
    BY <1>7, <1>8 DEF Aligned
  <1> QED
    BY <1>9 DEF s1, t1

(* Aligned packets are in step, as the receiver computes it.                *)
LEMMA AlignedInStep ==
    ASSUME NEW p, NEW q, NEW c,
           p.seq \in Nat, p.ts \in Nat, q.seq \in Nat, q.ts \in Nat, c.seq \in Nat, c.ts \in Nat,
           Aligned(p, c), Aligned(q, c)
    PROVE  (p.ts - q.ts) % SeqMod = (Frames * (p.seq - q.seq)) % SeqMod
  <1>1. Frames \in Nat /\ SeqMod \in Nat \ {0}
    BY MediaAssumption DEF MediaAssumption
  <1>2. PICK k \in Int : (p.ts - Frames * p.seq) - (c.ts - Frames * c.seq) = SeqMod * k
    BY DEF Aligned
  <1>3. PICK l \in Int : (q.ts - Frames * q.seq) - (c.ts - Frames * c.seq) = SeqMod * l
    BY DEF Aligned
  <1>4. (p.ts - q.ts) - (Frames * (p.seq - q.seq)) = SeqMod * (k - l)
    BY <1>1, <1>2, <1>3
  <1>5. p.ts - q.ts \in Int /\ Frames * (p.seq - q.seq) \in Int /\ k - l \in Int
    BY <1>1
  <1> DEFINE a == p.ts - q.ts
             b == Frames * (p.seq - q.seq)
             n == k - l
  <1>6. a \in Int /\ b \in Int /\ n \in Int /\ a - b = SeqMod * n
    BY <1>4, <1>5
  <1> HIDE DEF a, b, n
  <1>7. a % SeqMod = b % SeqMod
    BY <1>1, <1>6, SameRemainder
  <1> QED
    BY <1>7 DEF a, b

-------------------------------------------------------------------------------
(***************************************************************************)
(* What is in the network                                                   *)
(***************************************************************************)
LEMMA CountersTyped ==
    ASSUME TypeOK
    PROVE  /\ seq \in Nat /\ ts \in Nat
           /\ \A p \in net : p.seq \in Nat /\ p.ts \in Nat
  <1> SeqMod \in Nat /\ TsMod \in Nat
    BY MediaAssumption DEF MediaAssumption
  <1> QED
    BY DEF TypeOK, Packets

(* The places of a sequence with an element in it are finitely many, and    *)
(* another element adds at most one to them.                                *)
LEMMA PlacesFinite ==
    ASSUME NEW S, NEW s \in Seq(S), NEW k
    PROVE  IsFiniteSet(Places(s, k)) /\ Cardinality(Places(s, k)) \in Nat
  <1>1. Len(s) \in Nat /\ DOMAIN s = 1..Len(s)
    OBVIOUS
  <1>2. IsFiniteSet(1..Len(s))
    BY <1>1, FS_Interval
  <1>3. Places(s, k) \subseteq 1..Len(s)
    BY <1>1 DEF Places
  <1> QED
    BY <1>2, <1>3, FS_Subset, FS_CardinalityType

LEMMA PlacesAppended ==
    ASSUME NEW S, NEW s \in Seq(S), NEW e \in S, NEW k
    PROVE  Cardinality(Places(Append(s, e), k)) =
               Cardinality(Places(s, k)) + (IF k \in e THEN 1 ELSE 0)
  <1>1. /\ Len(s) \in Nat /\ DOMAIN s = 1..Len(s)
        /\ DOMAIN Append(s, e) = 1..(Len(s) + 1)
        /\ Append(s, e)[Len(s) + 1] = e
        /\ \A i \in 1..Len(s) : Append(s, e)[i] = s[i]
    OBVIOUS
  <1>2. IsFiniteSet(Places(s, k)) /\ Cardinality(Places(s, k)) \in Nat
    BY PlacesFinite
  <1>3. CASE k \in e
    <2>1. Places(Append(s, e), k) = Places(s, k) \cup {Len(s) + 1}
      BY <1>1, <1>3 DEF Places
    <2>2. Len(s) + 1 \notin Places(s, k)
      BY <1>1 DEF Places
    <2> QED
      BY <1>2, <1>3, <2>1, <2>2, FS_AddElement
  <1>4. CASE k \notin e
    <2>1. Places(Append(s, e), k) = Places(s, k)
      BY <1>1, <1>4 DEF Places
    <2> QED
      BY <1>2, <1>4, <2>1
  <1> QED
    BY <1>3, <1>4

(* A write that the device took as a whole is not counted, another one is.  *)
LEMMA LossyAppended ==
    ASSUME NEW S, NEW s \in Seq(S), NEW e \in S
    PROVE  /\ Cardinality(Lossy(s)) \in Nat
           /\ Cardinality(Lossy(Append(s, e))) =
                  Cardinality(Lossy(s)) + (IF e.taken = "all" THEN 0 ELSE 1)
  <1>1. /\ Len(s) \in Nat /\ DOMAIN s = 1..Len(s)
        /\ DOMAIN Append(s, e) = 1..(Len(s) + 1)
        /\ Append(s, e)[Len(s) + 1] = e
        /\ \A i \in 1..Len(s) : Append(s, e)[i] = s[i]
    OBVIOUS
  <1>2. IsFiniteSet(Lossy(s)) /\ Cardinality(Lossy(s)) \in Nat
    <2>1. IsFiniteSet(1..Len(s)) /\ Lossy(s) \subseteq 1..Len(s)
      BY <1>1, FS_Interval DEF Lossy
    <2> QED
      BY <2>1, FS_Subset, FS_CardinalityType
  <1>3. CASE e.taken # "all"
    <2>1. Lossy(Append(s, e)) = Lossy(s) \cup {Len(s) + 1}
      BY <1>1, <1>3 DEF Lossy
    <2>2. Len(s) + 1 \notin Lossy(s)
      BY <1>1 DEF Lossy
    <2> QED
      BY <1>2, <1>3, <2>1, <2>2, FS_AddElement
  <1>4. CASE e.taken = "all"
    <2>1. Lossy(Append(s, e)) = Lossy(s)
      BY <1>1, <1>4 DEF Lossy
    <2> QED
      BY <1>2, <1>4, <2>1
  <1> QED
    BY <1>2, <1>3, <1>4

LEMMA AtMostOneMore ==
    ASSUME NEW S, IsFiniteSet(S), NEW x, NEW T \in SUBSET (S \cup {x})
    PROVE  /\ Cardinality(S) \in Nat /\ Cardinality(T) \in Nat
           /\ Cardinality(T) <= Cardinality(S) + 1
  <1>1. IsFiniteSet(S \cup {x})
    BY FS_AddElement
  <1>2. Cardinality(S \cup {x}) = IF x \in S THEN Cardinality(S) ELSE Cardinality(S) + 1
    BY FS_AddElement
  <1>3. Cardinality(S) \in Nat
    BY FS_CardinalityType
  <1>4. IsFiniteSet(T) /\ Cardinality(T) <= Cardinality(S \cup {x})
    BY <1>1, FS_Subset
  <1>5. Cardinality(T) \in Nat
    BY <1>4, FS_CardinalityType
  <1> QED
    BY <1>2, <1>3, <1>4, <1>5

LEMMA ComingFinite ==
    ASSUME IsFiniteSet(net), NEW k
    PROVE  IsFiniteSet(Coming(k)) /\ Cardinality(Coming(k)) \in Nat
  BY FS_Subset, FS_CardinalityType DEF Coming

-------------------------------------------------------------------------------
(***************************************************************************)
(* The inductive invariant                                                  *)
(***************************************************************************)
LEMMA InitInv == ASSUME Init PROVE IInv
  <1>1. /\ SeqMod \in Nat \ {0} /\ TsMod \in Nat \ {0} /\ UIntMod \in Nat \ {0}
        /\ Room \in Nat /\ MaxSends \in Nat /\ MaxFaults \in Nat /\ MaxErrors \in Nat
    BY MediaAssumption DEF MediaAssumption
  <1>2. TypeOK
    BY <1>1 DEF Init, TypeOK, None, Packets, Sounds, NoSound
  <1>3. Accounted
    BY FS_EmptySet DEF Init, Accounted
  <1>4. PlaysWhatArrives
    <2>1. DOMAIN played = {}
      BY DEF Init
    <2>2. {i \in DOMAIN played : played[i].taken # "all"} = {}
      BY <2>1
    <2>3. [i \in DOMAIN played |-> played[i].sound] = << >>
      BY <2>1
    <2> QED
      BY <2>2, <2>3, FS_EmptySet DEF Init, PlaysWhatArrives
  <1> QED
    BY <1>2, <1>3, <1>4 DEF Init, IInv

(* What do_loop makes of a status of the encoder.                           *)
Sent(status) ==
    [len |-> PacketLen(status), seq |-> seq', ts |-> ts',
     sound |-> IF status > 0 THEN buf' ELSE NoSound]

LEMMA StampTyped ==
    ASSUME TypeOK, NEW sent, Stamp(sent)
    PROVE  seq' \in 0..(SeqMod - 1) /\ ts' \in 0..(TsMod - 1)
  <1>1. SeqMod \in Nat \ {0} /\ TsMod \in Nat \ {0} /\ Frames \in Nat
    BY MediaAssumption DEF MediaAssumption
  <1>2. seq + 1 \in Int /\ ts + Frames \in Int
    BY <1>1 DEF TypeOK
  <1> QED
    BY <1>1, <1>2, DivMod DEF Stamp

LEMMA SentTyped ==
    ASSUME TypeOK, NEW sent, Stamp(sent), NEW status \in Statuses,
           buf' \in Sounds, buf' # {}
    PROVE  /\ Sent(status) \in Packets
           /\ Encoded(Sent(status))
           /\ Aligned(Sent(status), [seq |-> seq', ts |-> ts'])
  <1>1. /\ status \in Int /\ status # 0 /\ Frames \in Nat /\ SeqMod \in Nat \ {0}
        /\ MaxSends \in Nat /\ UIntMod \in Nat \ {0} /\ TsMod \in Nat \ {0}
    BY MediaAssumption DEF MediaAssumption
  <1>2. seq' \in 0..(SeqMod - 1) /\ ts' \in 0..(TsMod - 1)
    BY StampTyped
  <1>3. Sent(status).len \in 1..(UIntMod - 1)
    BY LengthKept DEF Sent
  <1>4. Sent(status) \in Packets
    BY <1>1, <1>2, <1>3 DEF Sent, Packets, Sounds, NoSound
  <1>5. Encoded(Sent(status))
    BY <1>1 DEF Encoded, Sent, NoSound
  <1>6. Aligned(Sent(status), [seq |-> seq', ts |-> ts'])
    <2>1. SeqMod * 0 = 0 /\ ts' - (Frames * seq') \in Int
      BY <1>1, <1>2
    <2>2. (ts' - Frames * seq') - (ts' - Frames * seq') = SeqMod * 0
      BY <2>1
    <2>3. Sent(status).ts = ts' /\ Sent(status).seq = seq'
      BY DEF Sent
    <2> QED
      BY <2>2, <2>3 DEF Aligned
  <1> QED
    BY <1>4, <1>5, <1>6

(* What the reads of do_loop leave in the buffer.                           *)
LEMMA Refilled ==
    ASSUME TypeOK, DoLoop
    PROVE  /\ buf' \subseteq 0..reads' /\ buf' # {}
           /\ reads' \in Nat /\ reads' >= reads
           /\ \/ reads' = reads + 1 /\ buf' = {reads'} /\ UNCHANGED faults
              \/ reads' \in {reads, reads + 1} /\ faults' = faults + 1
  <1>1. reads \in Nat /\ buf \subseteq 0..reads /\ buf # {}
    BY MediaAssumption DEF TypeOK, MediaAssumption
  <1>2. CASE ReadWhole
    BY <1>1, <1>2 DEF ReadWhole
  <1>3. CASE ReadShort
    <2>1. PICK rest \in SUBSET buf \ {{}} : buf' = {reads'} \cup rest
      BY <1>3 DEF ReadShort
    <2>2. reads' = reads + 1 /\ faults' = faults + 1
      BY <1>3 DEF ReadShort
    <2>3. rest \subseteq 0..reads'
      BY <1>1, <2>2
    <2> QED
      BY <1>1, <2>1, <2>2, <2>3
  <1>4. CASE ReadFails
    BY <1>1, <1>4 DEF ReadFails
  <1> QED
    BY <1>2, <1>3, <1>4 DEF DoLoop

(* A period sent again is explained by the failed or short read.            *)
LEMMA DoLoopAccounted ==
    ASSUME IInv, DoLoop, NEW status \in Statuses, net' \subseteq net \cup {Sent(status)}
    PROVE  Accounted'
  <1> DEFINE new == Sent(status)
  <1>1. /\ reads \in Nat /\ faults \in Nat
        /\ delivered \in Seq(Sounds)
        /\ IsFiniteSet(net)
    BY MediaAssumption DEF MediaAssumption, IInv, TypeOK, Accounted
  <1>2. delivered' = delivered
    BY DEF DoLoop, player
  <1>3. /\ buf' \subseteq 0..reads' /\ reads' >= reads /\ reads' \in Nat
        /\ \/ reads' = reads + 1 /\ buf' = {reads'} /\ UNCHANGED faults
           \/ reads' \in {reads, reads + 1} /\ faults' = faults + 1
    BY Refilled DEF IInv
  <1>4. new.sound = buf' \/ new.sound = NoSound
    BY DEF Sent
  <1> HIDE DEF new
  <1>5. IsFiniteSet(net')
    BY <1>1, FS_AddElement, FS_Subset DEF new
  <1>6. 0..reads \subseteq 0..reads'
    BY <1>1, <1>3
  <1>7. \A p \in net' : p.sound \subseteq 0..reads'
    BY <1>3, <1>4, <1>6 DEF IInv, Accounted, NoSound, new
  <1>8. \A n \in DOMAIN delivered : delivered[n] \subseteq 0..reads' /\ delivered[n] # NoSound
    BY <1>6 DEF IInv, Accounted
  <1>9. ASSUME NEW k \in 1..reads'
        PROVE  Cardinality({p \in net' : k \in p.sound}) + Cardinality(Places(delivered, k)) <= 1 + faults'
    <2> DEFINE C == {p \in net' : k \in p.sound}
    <2>1. /\ IsFiniteSet(Coming(k)) /\ Cardinality(Coming(k)) \in Nat
          /\ Cardinality(Places(delivered, k)) \in Nat
      BY <1>1, ComingFinite, PlacesFinite
    <2>2. C \subseteq Coming(k) \cup {new}
      BY DEF Coming, new
    <2>3. IsFiniteSet(C) /\ Cardinality(C) \in Nat
      BY <1>5, FS_Subset, FS_CardinalityType
    <2>4. ASSUME k > reads
          PROVE  Cardinality(C) <= 1 /\ Cardinality(Places(delivered, k)) = 0
      <3>1. k \notin 0..reads
        BY <1>1, <2>4
      <3>2. Coming(k) = {} /\ Places(delivered, k) = {}
        BY <3>1 DEF Coming, Places, IInv, Accounted
      <3>3. Cardinality({new}) = 1 /\ IsFiniteSet({new})
        BY FS_Singleton
      <3>4. C \subseteq {new}
        BY <2>2, <3>2
      <3> QED
        BY <3>2, <3>3, <3>4, FS_Subset, FS_EmptySet
    <2>5. ASSUME k <= reads
          PROVE  Cardinality(Coming(k)) + Cardinality(Places(delivered, k)) <= 1 + faults
      <3>1. k \in 1..reads
        BY <1>1, <1>3, <2>5
      <3> QED
        BY <3>1 DEF IInv, Accounted
    <2> HIDE DEF C
    <2>6. k \in Nat /\ (k > reads \/ k <= reads)
      BY <1>1, <1>3
    <2>7. CASE k > reads
      <3>1. faults' >= faults /\ faults' \in Nat
        BY <1>1, <1>3
      <3> QED
        BY <1>1, <2>3, <2>4, <2>7, <3>1 DEF C
    <2>8. CASE k <= reads /\ reads' = reads + 1 /\ buf' = {reads'} /\ UNCHANGED faults
      <3>1. k \notin new.sound
        BY <1>1, <1>4, <2>6, <2>8 DEF NoSound
      <3>2. C \subseteq Coming(k)
        BY <2>2, <3>1 DEF C
      <3>3. Cardinality(C) <= Cardinality(Coming(k))
        BY <2>1, <3>2, FS_Subset
      <3> QED
        BY <1>1, <2>1, <2>3, <2>5, <2>8, <3>3 DEF C
    <2>9. CASE k <= reads /\ faults' = faults + 1
      <3>1. Cardinality(C) <= Cardinality(Coming(k)) + 1
        BY <2>1, <2>2, AtMostOneMore
      <3> QED
        BY <1>1, <2>1, <2>3, <2>5, <2>9, <3>1 DEF C
    <2> QED
      BY <1>3, <2>6, <2>7, <2>8, <2>9
  <1> QED
    BY <1>2, <1>5, <1>7, <1>8, <1>9 DEF Accounted, Coming

LEMMA DoLoopInv == ASSUME IInv, DoLoop PROVE IInv'
  <1>1. PICK status \in Statuses, sent \in BOOLEAN :
            Stamp(sent) /\ net' = IF ~sent THEN net ELSE net \cup {Sent(status)}
    BY DEF DoLoop, EncodeAndSend, Sent
  <1>2. /\ MaxSends \in Nat /\ MaxFaults \in Nat
        /\ reads \in Nat /\ sends \in Nat /\ faults \in Nat
        /\ reads <= sends /\ faults <= MaxFaults
    BY MediaAssumption DEF MediaAssumption, IInv, TypeOK
  <1>3. /\ reads' \in 0..MaxSends /\ sends' \in 0..MaxSends
        /\ reads' <= sends' /\ faults' \in 0..MaxFaults
    BY <1>2 DEF DoLoop, ReadWhole, ReadShort, ReadFails
  <1>4. buf' \subseteq 0..reads' /\ buf' # {} /\ buf' \in Sounds
    <2>1. buf' \subseteq 0..reads' /\ buf' # {}
      BY Refilled DEF IInv
    <2>2. 0..reads' \subseteq 0..MaxSends
      BY <1>2, <1>3
    <2> QED
      BY <2>1, <2>2 DEF Sounds
  <1>5. /\ Sent(status) \in Packets /\ Encoded(Sent(status))
        /\ Aligned(Sent(status), [seq |-> seq', ts |-> ts'])
    BY <1>1, <1>4, SentTyped DEF IInv
  <1>6. UNCHANGED <<open, hand, pcm, level, errors, delivered, played>>
    BY DEF DoLoop, player, device
  <1>7. TypeOK'
    BY <1>1, <1>3, <1>4, <1>5, <1>6, StampTyped DEF IInv, TypeOK
  <1>8. ASSUME NEW p \in net'
        PROVE  Encoded(p) /\ Aligned(p, [seq |-> seq', ts |-> ts'])
    <2>1. CASE p \in net
      <3>1. Encoded(p) /\ Aligned(p, [seq |-> seq, ts |-> ts])
        BY <2>1 DEF IInv, Counters
      <3>2. p.seq \in Nat /\ p.ts \in Nat /\ seq \in Nat /\ ts \in Nat
        BY <2>1, CountersTyped DEF IInv
      <3>3. Aligned(p, [seq |-> (seq + 1) % SeqMod, ts |-> (ts + Frames) % TsMod])
        BY <3>1, <3>2, StampAligned
      <3>4. Aligned(p, [seq |-> seq', ts |-> ts'])
        BY <1>1, <3>3 DEF Stamp
      <3> QED
        BY <3>1, <3>4
    <2>2. CASE p = Sent(status)
      BY <1>5, <2>2
    <2> QED
      BY <1>1, <2>1, <2>2
  <1>9. Accounted'
    BY <1>1, DoLoopAccounted
  <1>10. PlaysWhatArrives'
    BY <1>6 DEF IInv, PlaysWhatArrives
  <1>11. \A p \in net' : Encoded(p) /\ Aligned(p, Counters')
    BY <1>8 DEF Counters
  <1> QED
    BY <1>3, <1>6, <1>7, <1>9, <1>10, <1>11 DEF IInv, Encoded, Aligned

(* The steps that send nothing.                                             *)
LEMMA AccountedKept ==
    ASSUME Accounted, UNCHANGED <<net, reads, delivered, faults>>
    PROVE  Accounted'
  BY DEF Accounted, Coming, Places

LEMMA LoseInv == ASSUME IInv, NEW p \in net, Lose(p) PROVE IInv'
  <1>1. UNCHANGED <<sender, faults, player>> /\ net' \subseteq net
    BY DEF Lose
  <1>2. TypeOK'
    BY <1>1 DEF IInv, TypeOK, sender, player, device
  <1>3. ASSUME NEW k \in 1..reads
        PROVE  Cardinality({q \in net' : k \in q.sound}) + Cardinality(Places(delivered, k)) <= 1 + faults
    <2>1. IsFiniteSet(Coming(k)) /\ {q \in net' : k \in q.sound} \subseteq Coming(k)
      BY <1>1, ComingFinite DEF IInv, Accounted, Coming
    <2>2. /\ Cardinality({q \in net' : k \in q.sound}) <= Cardinality(Coming(k))
          /\ Cardinality({q \in net' : k \in q.sound}) \in Nat /\ Cardinality(Coming(k)) \in Nat
      BY <2>1, FS_Subset, FS_CardinalityType
    <2>3. Cardinality(Coming(k)) + Cardinality(Places(delivered, k)) <= 1 + faults
      BY DEF IInv, Accounted
    <2>4. Cardinality(Places(delivered, k)) \in Nat /\ faults \in Nat
      BY PlacesFinite, MediaAssumption DEF IInv, TypeOK, MediaAssumption
    <2> QED
      BY <2>2, <2>3, <2>4
  <1>4. IsFiniteSet(net')
    BY <1>1, FS_Subset DEF IInv, Accounted
  <1>5. Accounted'
    BY <1>1, <1>3, <1>4 DEF IInv, Accounted, Coming, sender, player, device
  <1> QED
    BY <1>1, <1>2, <1>5 DEF IInv, PlaysWhatArrives, Encoded, Aligned, Counters, sender, player, device

(* A period taken again is explained by the copy.                           *)
LEMMA TakeAccounted ==
    ASSUME IInv, NEW p \in net, NEW copied, Take(p, copied)
    PROVE  Accounted'
  <1>1. /\ reads \in Nat /\ faults \in Nat /\ MaxSends \in Nat
        /\ delivered \in Seq(Sounds)
        /\ IsFiniteSet(net)
        /\ p.sound \in Sounds /\ p.sound \subseteq 0..reads
    BY MediaAssumption DEF MediaAssumption, IInv, TypeOK, Accounted, Packets
  <1>2. reads' = reads
    BY DEF Take, sender
  <1>3. Decodable(p) <=> p.sound # NoSound
    BY DecodableIsSound DEF IInv
  <1>4. delivered' = IF p.sound # NoSound THEN Append(delivered, p.sound) ELSE delivered
    BY <1>3 DEF Take
  <1>5. \/ net' = net /\ faults' = faults + 1
        \/ net' = net \ {p} /\ faults' = faults
    BY DEF Take
  <1>6. IsFiniteSet(net') /\ net' \subseteq net
    BY <1>1, <1>5, FS_Subset
  <1>7. ASSUME NEW n \in DOMAIN delivered'
        PROVE  delivered'[n] \subseteq 0..reads /\ delivered'[n] # NoSound
    <2>1. CASE p.sound = NoSound
      BY <1>4, <2>1 DEF IInv, Accounted
    <2>2. CASE p.sound # NoSound
      <3>1. n \in 1..(Len(delivered) + 1) /\ Len(delivered) \in Nat
        BY <1>1, <1>4, <2>2
      <3>2. CASE n \in 1..Len(delivered)
        BY <1>1, <1>4, <2>2, <3>1, <3>2 DEF IInv, Accounted
      <3>3. CASE n = Len(delivered) + 1
        BY <1>1, <1>4, <2>2, <3>1, <3>3
      <3> QED
        BY <3>1, <3>2, <3>3
    <2> QED
      BY <2>1, <2>2
  <1>8. ASSUME NEW k \in 1..reads
        PROVE  Cardinality({q \in net' : k \in q.sound}) + Cardinality(Places(delivered', k)) <= 1 + faults'
    <2> DEFINE c == Cardinality(Coming(k))
               d == Cardinality(Places(delivered, k))
    <2>1. /\ IsFiniteSet(Coming(k)) /\ c \in Nat /\ d \in Nat
          /\ c + d <= 1 + faults
      BY <1>1, ComingFinite, PlacesFinite DEF IInv, Accounted
    <2>2. k \notin NoSound
      BY DEF NoSound
    <2>3. Cardinality(Places(delivered', k)) = d + (IF k \in p.sound THEN 1 ELSE 0)
      <3>1. CASE p.sound = NoSound
        BY <1>4, <2>1, <2>2, <3>1
      <3>2. CASE p.sound # NoSound
        <4>1. Cardinality(Places(Append(delivered, p.sound), k)) = d + (IF k \in p.sound THEN 1 ELSE 0)
          <5> DEFINE S == Sounds
                     e == p.sound
          <5>1. delivered \in Seq(S) /\ e \in S
            BY <1>1
          <5> HIDE DEF S, e
          <5>2. Cardinality(Places(Append(delivered, e), k)) =
                    Cardinality(Places(delivered, k)) + (IF k \in e THEN 1 ELSE 0)
            BY <5>1, PlacesAppended
          <5> QED
            BY <5>2 DEF e
        <4>2. delivered' = Append(delivered, p.sound)
          BY <1>4, <3>2
        <4> QED
          BY <4>1, <4>2
      <3> QED
        BY <3>1, <3>2
    <2>4. CASE net' = net /\ faults' = faults + 1
      <3>1. Cardinality({q \in net' : k \in q.sound}) = c
        BY <2>4 DEF Coming
      <3> QED
        BY <1>1, <2>1, <2>3, <2>4, <3>1
    <2>5. CASE net' = net \ {p} /\ faults' = faults
      <3>1. /\ {q \in net' : k \in q.sound} = Coming(k) \ {p}
            /\ p \in Coming(k) <=> k \in p.sound
        BY <2>5 DEF Coming
      <3>2. Cardinality({q \in net' : k \in q.sound}) = IF k \in p.sound THEN c - 1 ELSE c
        BY <2>1, <3>1, FS_RemoveElement
      <3> QED
        BY <1>1, <2>1, <2>3, <2>5, <3>2
    <2> QED
      BY <1>5, <2>4, <2>5
  <1>9. \A q \in net' : q.sound \subseteq 0..reads
    BY <1>6 DEF IInv, Accounted
  <1> QED
    BY <1>2, <1>6, <1>7, <1>8, <1>9 DEF Accounted, Coming, Places

LEMMA TakeInv == ASSUME IInv, NEW p \in net, NEW copied, Take(p, copied) PROVE IInv'
  <1>1. p.len > 0 /\ p \in Packets /\ Encoded(p)
    BY DecodableIsSound DEF IInv, TypeOK
  <1>2. p.len # 0 /\ p # None /\ p.sound \in Sounds
    BY <1>1 DEF None, Packets
  <1>3. /\ UNCHANGED <<sender, device, open>>
        /\ hand = None /\ hand' = p
        /\ delivered' = IF Decodable(p) THEN Append(delivered, p.sound) ELSE delivered
        /\ net' \subseteq net
        /\ faults' \in 0..MaxFaults
    BY <1>2, MediaAssumption DEF Take, MediaAssumption, IInv, TypeOK
  <1>4. TypeOK'
    <2>1. delivered' \in Seq(Sounds)
      <3> DEFINE S == Sounds
      <3>1. delivered \in Seq(S) /\ p.sound \in S
        BY <1>2 DEF IInv, TypeOK
      <3> HIDE DEF S
      <3>2. delivered' \in Seq(S)
        BY <1>3, <3>1
      <3> QED
        BY <3>2 DEF S
    <2>2. net' \subseteq Packets
      BY <1>3 DEF IInv, TypeOK
    <2> QED
      BY <1>1, <1>3, <2>1, <2>2 DEF IInv, TypeOK, sender, device
  <1>5. PlaysWhatArrives'
    <2>1. delivered = Handed(played) /\ UNCHANGED <<played, errors>>
      BY <1>3 DEF IInv, PlaysWhatArrives, Handed, device
    <2>2. Decodable(hand') = Decodable(p)
      BY <1>3
    <2>3. delivered' = IF hand' # None /\ Decodable(hand')
                       THEN Append(Handed(played'), hand'.sound) ELSE Handed(played')
      BY <1>2, <1>3, <2>1, <2>2
    <2>4. Cardinality({i \in DOMAIN played' : played'[i].taken # "all"}) <= errors'
      BY <2>1 DEF IInv, PlaysWhatArrives
    <2> QED
      BY <2>3, <2>4 DEF PlaysWhatArrives, Decodable, PayloadLen, Handed
  <1>6. Accounted'
    BY TakeAccounted
  <1>7. \A q \in net' : Encoded(q) /\ Aligned(q, Counters')
    BY <1>3 DEF IInv, Counters, sender
  <1>8. Encoded(hand')
    BY <1>1, <1>3
  <1> QED
    BY <1>3, <1>4, <1>5, <1>6, <1>7, <1>8 DEF IInv, Encoded, Aligned, sender

(* Whatever the device takes, the sound in hand is handed over once, and    *)
(* what it does not take is an error.                                       *)
LEMMA PassOnPlays ==
    ASSUME IInv, NEW taken \in {"all", "some", "none"}, PassOn(taken)
    PROVE  PlaysWhatArrives' /\ played' \in Seq(Writes) /\ errors' \in 0..MaxErrors
  <1> DEFINE write == [sound |-> hand.sound, taken |-> taken]
  <1>1. hand # None /\ Decodable(hand)
    BY MediaAssumption DEF PassOn, Decodable, None, MediaAssumption
  <1>2. write \in Writes /\ write.taken = taken /\ write.sound = hand.sound
    BY DEF IInv, TypeOK, Packets, Writes
  <1>3. played \in Seq(Writes) /\ errors \in 0..MaxErrors /\ MaxErrors \in Nat
    BY MediaAssumption DEF IInv, TypeOK, MediaAssumption
  <1>4. /\ played' = Append(played, write) /\ hand' = None /\ delivered' = delivered
        /\ errors' = IF taken = "all" THEN errors ELSE errors + 1
        /\ taken # "all" => errors < MaxErrors
    BY DEF PassOn
  <1> HIDE DEF write
  <1>5. delivered = Append(Handed(played), hand.sound)
    BY <1>1 DEF IInv, PlaysWhatArrives, Handed
  <1>6. Handed(played') = Append(Handed(played), hand.sound)
    BY <1>2, <1>3, <1>4 DEF Handed
  <1>7. Cardinality(Lossy(played)) <= errors
    BY DEF IInv, PlaysWhatArrives, Lossy
  <1>8. /\ Cardinality(Lossy(played)) \in Nat
        /\ Cardinality(Lossy(played')) = Cardinality(Lossy(played)) + (IF taken = "all" THEN 0 ELSE 1)
    BY <1>2, <1>3, <1>4, LossyAppended
  <1>9. Cardinality(Lossy(played')) <= errors'
    BY <1>3, <1>4, <1>7, <1>8
  <1>10. delivered' = Handed(played')
    BY <1>4, <1>5, <1>6
  <1>11. PlaysWhatArrives'
    BY <1>4, <1>9, <1>10 DEF PlaysWhatArrives, Handed, Lossy
  <1>12. played' \in Seq(Writes) /\ errors' \in 0..MaxErrors
    BY <1>2, <1>3, <1>4
  <1> QED
    BY <1>11, <1>12

LEMMA PassOnInv ==
    ASSUME IInv, NEW taken \in {"all", "some", "none"}, PassOn(taken),
           pcm' \in {"prepared", "running", "xrun"}, level' \in 0..Room,
           pcm' = "running" => level' > 0
    PROVE  IInv'
  <1>1. None \in Packets
    BY MediaAssumption DEF None, Packets, Sounds, NoSound, MediaAssumption
  <1>2. hand' = None /\ UNCHANGED <<sender, faults, net, open, delivered>>
    BY DEF PassOn
  <1>3. PlaysWhatArrives' /\ played' \in Seq(Writes) /\ errors' \in 0..MaxErrors
    BY PassOnPlays
  <1>4. TypeOK'
    BY <1>1, <1>2, <1>3 DEF IInv, TypeOK, sender
  <1>5. Accounted'
    BY <1>2, AccountedKept DEF IInv, sender
  <1> QED
    BY <1>2, <1>3, <1>4, <1>5 DEF IInv, Encoded, Aligned, Counters, sender

LEMMA PlayerInv == ASSUME IInv, Player PROVE IInv'
  <1> Room \in Nat \ {0}
    BY MediaAssumption DEF MediaAssumption
  <1>1. CASE DecodeFails
    <2>1. None \in Packets
      BY MediaAssumption DEF None, Packets, Sounds, NoSound, MediaAssumption
    <2>2. TypeOK'
      BY <1>1, <2>1 DEF DecodeFails, IInv, TypeOK, sender, device
    <2>3. UNCHANGED <<played, errors, delivered>> /\ hand' = None /\ ~Decodable(hand)
      BY <1>1 DEF DecodeFails, device
    <2>4. PlaysWhatArrives'
      BY <2>3 DEF IInv, PlaysWhatArrives
    <2>5. Accounted'
      BY <1>1, AccountedKept DEF DecodeFails, IInv, sender
    <2> QED
      BY <1>1, <2>2, <2>4, <2>5 DEF DecodeFails, IInv, Encoded, Aligned, Counters, sender
  <1>2. CASE WriteSound
    <2>1. CASE \E taken \in {"all", "some"} :
                  PassOn(taken) /\ level < Room /\ level' = level + 1 /\ pcm' = "running"
      <3>1. level \in 0..Room
        BY DEF IInv, TypeOK
      <3>2. level + 1 \in 0..Room /\ level + 1 > 0
        BY <2>1, <3>1
      <3> QED
        BY <2>1, <3>2, PassOnInv
    <2>2. CASE PassOn("none") /\ UNCHANGED <<pcm, level>>
      <3>1. pcm \in {"prepared", "running", "xrun"} /\ level \in 0..Room /\ (pcm = "running" => level > 0)
        BY DEF IInv, TypeOK
      <3> QED
        BY <2>2, <3>1, PassOnInv
    <2> QED
      BY <1>2, <2>1, <2>2 DEF WriteSound
  <1>3. CASE Restart
    <2>1. CASE \E taken \in {"all", "some"} : PassOn(taken) /\ level' = 1 /\ pcm' = "running"
      <3>1. 1 \in 0..Room /\ 1 > 0
        OBVIOUS
      <3> QED
        BY <2>1, <3>1, PassOnInv
    <2>2. CASE PassOn("none") /\ level' = 0 /\ pcm' \in {"prepared", "xrun"}
      <3>1. 0 \in 0..Room /\ "running" \notin {"prepared", "xrun"}
        OBVIOUS
      <3> QED
        BY <2>2, <3>1, PassOnInv
    <2> QED
      BY <1>3, <2>1, <2>2 DEF Restart
  <1> QED
    BY <1>1, <1>2, <1>3 DEF Player

LEMMA DrainInv == ASSUME IInv, Drain PROVE IInv'
  <1>1. TypeOK'
    BY MediaAssumption DEF Drain, IInv, TypeOK, sender, MediaAssumption
  <1>2. PlaysWhatArrives'
    BY DEF Drain, IInv, PlaysWhatArrives
  <1>3. Accounted'
    BY AccountedKept DEF Drain, IInv, sender
  <1> QED
    BY <1>1, <1>2, <1>3 DEF Drain, IInv, Encoded, Aligned, Counters, sender

LEMMA StutterInv == ASSUME IInv, UNCHANGED vars PROVE IInv'
  <1>1. TypeOK'
    BY DEF IInv, TypeOK, vars, sender, player, device
  <1>2. PlaysWhatArrives'
    BY DEF IInv, PlaysWhatArrives, vars, player, device
  <1>3. Accounted'
    BY AccountedKept DEF IInv, vars, sender, player, device
  <1> QED
    BY <1>1, <1>2, <1>3 DEF IInv, Encoded, Aligned, Counters, vars, sender, player, device

THEOREM Inductive == Spec => []IInv
  <1>1. Init => IInv
    BY InitInv
  <1>2. IInv /\ [Next]_vars => IInv'
    BY DoLoopInv, LoseInv, TakeInv, PlayerInv, DrainInv, StutterInv DEF Next
  <1> QED
    BY <1>1, <1>2, PTL DEF Spec

-------------------------------------------------------------------------------
(***************************************************************************)
(* The theorems                                                             *)
(***************************************************************************)
THEOREM TypeCorrect == Spec => []TypeOK
  <1>1. IInv => TypeOK
    BY DEF IInv
  <1> QED
    BY <1>1, Inductive, PTL

(* Whatever fails and whenever the counters wrap, sequence numbers and time *)
(* stamps tell of the same gaps (Stamp in DoLoop).                          *)
THEOREM CountersInStep == Spec => []InStep
  <1>1. ASSUME IInv PROVE InStep
    <2>1. Aligned(Counters, Counters)
      <3>1. SeqMod \in Int /\ Frames \in Int /\ seq \in Int /\ ts \in Int
        BY <1>1, CountersTyped, MediaAssumption DEF IInv, MediaAssumption
      <3>2. SeqMod * 0 = 0 /\ ts - Frames * seq \in Int
        BY <3>1
      <3>3. (ts - Frames * seq) - (ts - Frames * seq) = SeqMod * 0
        BY <3>2
      <3> QED
        BY <3>3 DEF Aligned, Counters
    <2>2. ASSUME NEW p \in net \cup {Counters}
          PROVE  p.seq \in Nat /\ p.ts \in Nat /\ Aligned(p, Counters)
      <3>1. CASE p \in net
        BY <1>1, <3>1, CountersTyped DEF IInv
      <3>2. CASE p = Counters
        <4>1. Counters.seq \in Nat /\ Counters.ts \in Nat
          BY <1>1, CountersTyped DEF IInv, Counters
        <4> QED
          BY <2>1, <3>2, <4>1
      <3> QED
        BY <3>1, <3>2
    <2>3. ASSUME NEW p \in net \cup {Counters}, NEW q \in net
          PROVE  (p.ts - q.ts) % SeqMod = (Frames * (p.seq - q.seq)) % SeqMod
      BY <2>2, AlignedInStep
    <2> QED
      BY <2>3 DEF InStep, Counters
  <1> QED
    BY <1>1, Inductive, PTL

(* No packet is empty: nothing that the relay sends makes the player delete *)
(* its RtpServer.                                                           *)
THEOREM NeverClosed == Spec => []PlayerStaysOpen
  <1>1. IInv => PlayerStaysOpen
    BY DecodableIsSound DEF IInv, PlayerStaysOpen
  <1> QED
    BY <1>1, Inductive, PTL

(* What arrives is handed to the device once and in order, and only a write *)
(* that fails after the restart, or otherwise than by an underrun, or that  *)
(* is short, loses any of it (WriteSound and Restart).                      *)
THEOREM WritesWhatArrives == Spec => []PlaysWhatArrives
  <1>1. IInv => PlaysWhatArrives
    BY DEF IInv
  <1> QED
    BY <1>1, Inductive, PTL

(* What was handed to the device is the beginning of what was delivered.    *)
LEMMA PlayedIsDelivered ==
    ASSUME IInv
    PROVE  \A i \in DOMAIN played : i \in DOMAIN delivered /\ delivered[i] = played[i].sound
  <1>1. played \in Seq(Writes)
    BY DEF IInv, TypeOK
  <1>2. Handed(played) \in Seq(Sounds) /\ DOMAIN Handed(played) = DOMAIN played
    <2>1. Len(played) \in Nat /\ DOMAIN played = 1..Len(played)
      BY <1>1
    <2>2. ASSUME NEW i \in 1..Len(played)
          PROVE  played[i].sound \in Sounds
      <3>1. played[i] \in Writes
        BY <1>1, <2>1
      <3> QED
        BY <3>1 DEF Writes
    <2>3. Handed(played) = [i \in 1..Len(played) |-> played[i].sound]
      BY <2>1 DEF Handed
    <2>4. Handed(played) \in [1..Len(played) -> Sounds]
      BY <2>2, <2>3
    <2>5. Handed(played) \in Seq(Sounds)
      BY <2>1, <2>4
    <2> QED
      BY <2>5 DEF Handed
  <1>3. CASE hand # None /\ Decodable(hand)
    <2>1. delivered = Append(Handed(played), hand.sound)
      BY <1>3 DEF IInv, PlaysWhatArrives, Handed
    <2>2. \A i \in DOMAIN Handed(played) : i \in DOMAIN delivered /\ delivered[i] = Handed(played)[i]
      BY <1>2, <2>1
    <2> QED
      BY <1>2, <2>2 DEF Handed
  <1>4. CASE ~(hand # None /\ Decodable(hand))
    BY <1>4 DEF IInv, PlaysWhatArrives
  <1> QED
    BY <1>3, <1>4

(* No packet of a failed encoding is written to the device (PayloadLen).    *)
THEOREM OnlySoundPlayed == Spec => []ErrorsNotPlayed
  <1>1. IInv => ErrorsNotPlayed
    BY PlayedIsDelivered DEF ErrorsNotPlayed, IInv, Accounted
  <1> QED
    BY <1>1, Inductive, PTL

(* A period is heard once, and once more at most for every failed read and  *)
(* every copy in the network.                                               *)
THEOREM Explained == Spec => []RepeatsExplained
  <1>1. ASSUME IInv, NEW k \in 1..reads
        PROVE  Cardinality({i \in DOMAIN played : k \in played[i].sound}) <= 1 + faults
    <2> DEFINE P == {i \in DOMAIN played : k \in played[i].sound}
    <2>1. P \subseteq Places(delivered, k)
      BY <1>1, PlayedIsDelivered DEF Places
    <2>2. IsFiniteSet(Places(delivered, k)) /\ Cardinality(Places(delivered, k)) \in Nat
      BY <1>1, PlacesFinite DEF IInv, TypeOK
    <2>3. Cardinality(P) <= Cardinality(Places(delivered, k)) /\ Cardinality(P) \in Nat
      BY <2>1, <2>2, FS_Subset, FS_CardinalityType
    <2>4. Cardinality(Coming(k)) + Cardinality(Places(delivered, k)) <= 1 + faults
      BY <1>1 DEF IInv, Accounted
    <2>5. Cardinality(Coming(k)) \in Nat /\ faults \in Nat
      BY <1>1, ComingFinite, MediaAssumption DEF IInv, Accounted, TypeOK, MediaAssumption
    <2> HIDE DEF P
    <2>6. Cardinality(P) <= 1 + faults
      BY <2>2, <2>3, <2>4, <2>5
    <2> QED
      BY <2>6 DEF P
  <1>2. IInv => RepeatsExplained
    BY <1>1 DEF RepeatsExplained
  <1> QED
    BY <1>2, Inductive, PTL
===============================================================================
