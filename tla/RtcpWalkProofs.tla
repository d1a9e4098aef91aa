---------------------------- MODULE RtcpWalkProofs ----------------------------
(***************************************************************************)
(* The walk over a compound RTCP packet stays in step with its sender, for  *)
(* any well-formed datagram: any packets of any types, reports of any       *)
(* number of blocks with any extension, descriptions with any chunks and    *)
(* items.                                                                   *)
(***************************************************************************)
EXTENDS RtcpWalk, TLAPS

Header(placed, h) == h \in placed /\ h.field.kind = "header"

(* The walk is within a packet: at its report's blocks, at its chunks or    *)
(* items, or past what it understands.                                      *)
Within(placed, h) ==
    /\ Header(placed, h) /\ h.begin < pos /\ h.begin % 4 = 0 /\ PacketEnd(h) = pos + left
    /\ at = "ssrc" => h.field.type = "RR" /\ pos = h.begin + 4 /\ rc = h.field.count
    /\ at = "block" =>
          h.field.type = "RR" /\ rc <= h.field.count /\ pos = h.begin + 8 + 24 * (h.field.count - rc)
    /\ at = "chunk" => h.field.type = "SDES" /\ (left = 0 \/ Begins(placed, pos, {"ssrc"}))
    /\ at = "item" =>
          h.field.type = "SDES" /\ rc > 0 /\ n < left /\ Begins(placed, pos + n, {"item", "end"})

(* What is left of the packet and what is left of the others is all that    *)
(* there is before the end of the datagram.                                 *)
Accounts(placed, bytes) ==
    /\ WellFormed(placed, bytes)
    /\ pos + left + pktLeft = bytes
    /\ pos % 4 = 0
    /\ at = "header" => left = 0 /\ (pktLeft = 0 \/ Begins(placed, pos, {"header"}))
    /\ at # "header" => \E h \in placed : Within(placed, h)

WalkTypeOK ==
    /\ pos \in Nat /\ pktLeft \in Nat /\ rc \in Nat /\ left \in Nat /\ n \in Nat
    /\ at \in {"idle", "header", "ssrc", "block", "chunk", "item", "skip"}

(* The walk of a datagram of so many bytes.                                 *)
Walking(bytes) == WalkTypeOK /\ at # "idle" /\ Accounts(compound, bytes)

-------------------------------------------------------------------------------
(***************************************************************************)
(* Fields of a well-formed datagram                                         *)
(***************************************************************************)
LEMMA FieldTyped ==
    ASSUME NEW placed, NEW bytes, WellFormed(placed, bytes), NEW f \in placed
    PROVE  /\ f.begin \in Nat /\ f.field.size \in Nat
           /\ End(f) = f.begin + f.field.size /\ End(f) <= bytes
           /\ f.field.kind = "item" => f.field.size >= 2
           /\ f.field.kind = "end" => f.field.size \in 1..4
  BY DEF WellFormed, End

LEMMA HeaderTyped ==
    ASSUME NEW placed, NEW bytes, WellFormed(placed, bytes), NEW h, Header(placed, h)
    PROVE  /\ h.begin \in Nat /\ h.field.size = 4
           /\ h.field.count \in Nat /\ h.field.length \in Nat
           /\ PacketEnd(h) = h.begin + 4 * (h.field.length + 1)
           /\ PacketEnd(h) \in Nat
           /\ PacketEnd(h) = bytes \/ Begins(placed, PacketEnd(h), {"header"})
  <1>1. /\ h.begin \in Nat /\ h.field.size = 4
        /\ h.field.count \in Nat /\ h.field.length \in Nat
        /\ PacketEnd(h) = bytes \/ Begins(placed, PacketEnd(h), {"header"})
    BY DEF WellFormed, Header
  <1> QED
    BY <1>1 DEF PacketEnd

(* No two fields with data begin at the same place.                         *)
LEMMA OneAtAPlace ==
    ASSUME NEW placed, NEW bytes, WellFormed(placed, bytes),
           NEW f \in placed, NEW g \in placed, f.begin = g.begin,
           f.field.size > 0, g.field.size > 0
    PROVE  f = g
  <1>1. f = g \/ End(f) <= g.begin \/ End(g) <= f.begin
    BY DEF WellFormed
  <1>2. /\ f.begin \in Nat /\ f.field.size \in Nat /\ End(f) = f.begin + f.field.size
        /\ g.begin \in Nat /\ g.field.size \in Nat /\ End(g) = g.begin + g.field.size
    BY FieldTyped
  <1> QED
    BY <1>1, <1>2

(* A packet does not end within a field, and so not within the datagram's   *)
(* end either.                                                              *)
LEMMA FieldWithin ==
    ASSUME NEW placed, NEW bytes, WellFormed(placed, bytes),
           NEW h, Header(placed, h), NEW f \in placed, f.begin < PacketEnd(h)
    PROVE  End(f) <= PacketEnd(h)
  <1>1. PacketEnd(h) \in Nat /\ f.begin \in Nat /\ f.field.size \in Nat /\ End(f) <= bytes
    BY FieldTyped, HeaderTyped
  <1>2. CASE Begins(placed, PacketEnd(h), {"header"})
    <2>1. PICK g \in placed : g.begin = PacketEnd(h) /\ g.field.kind = "header"
      BY <1>2 DEF Begins
    <2>2. g.field.size = 4
      BY <2>1, HeaderTyped DEF Header
    <2>3. f = g \/ End(f) <= g.begin \/ End(g) <= f.begin
      BY DEF WellFormed
    <2> QED
      BY <1>1, <2>1, <2>2, <2>3 DEF End
  <1>3. CASE PacketEnd(h) = bytes
    BY <1>1, <1>3
  <1> QED
    BY <1>2, <1>3, HeaderTyped

(* The packets fill the datagram.                                           *)
LEMMA PacketWithin ==
    ASSUME NEW placed, NEW bytes, bytes \in Nat, WellFormed(placed, bytes), NEW h, Header(placed, h)
    PROVE  PacketEnd(h) <= bytes
  <1>1. CASE PacketEnd(h) = bytes
    BY <1>1
  <1>2. CASE Begins(placed, PacketEnd(h), {"header"})
    <2>1. PICK g \in placed : g.begin = PacketEnd(h)
      BY <1>2 DEF Begins
    <2> QED
      BY <2>1, FieldTyped
  <1> QED
    BY <1>1, <1>2, HeaderTyped

(* Where the items of a chunk have not ended, the packet has not.           *)
LEMMA ItemWithin ==
    ASSUME NEW placed, NEW bytes, bytes \in Nat, WellFormed(placed, bytes),
           NEW h, Header(placed, h), NEW b \in Nat, b <= PacketEnd(h),
           Begins(placed, b, {"item", "end"})
    PROVE  b < PacketEnd(h)
  <1>1. PICK f \in placed : f.begin = b /\ f.field.kind \in {"item", "end"}
    BY DEF Begins
  <1>2. f.field.size \in Nat /\ f.field.size > 0 /\ End(f) = b + f.field.size /\ End(f) <= bytes
    BY <1>1, FieldTyped
  <1>3. PacketEnd(h) \in Nat
    BY HeaderTyped
  <1>4. ASSUME b = PacketEnd(h) PROVE FALSE
    <2>1. CASE PacketEnd(h) = bytes
      BY <1>2, <1>4, <2>1
    <2>2. CASE Begins(placed, PacketEnd(h), {"header"})
      <3>1. PICK g \in placed : g.begin = PacketEnd(h) /\ g.field.kind = "header"
        BY <2>2 DEF Begins
      <3>2. g.field.size = 4
        BY <3>1, HeaderTyped DEF Header
      <3>3. f = g
        BY <1>1, <1>2, <1>4, <3>1, <3>2, OneAtAPlace
      <3> QED
        BY <1>1, <3>1, <3>3
    <2> QED
      BY <2>1, <2>2, HeaderTyped
  <1> QED
    BY <1>3, <1>4

(* The field that the walk reads is the one that it finds.                  *)
LEMMA ReadFinds ==
    ASSUME NEW b, NEW kind, Finds(b, kind)
    PROVE  \E f \in compound : f.begin = b /\ f.field.kind = kind /\ Read(b, kind) = f.field
  BY DEF Finds, Read

-------------------------------------------------------------------------------
(***************************************************************************)
(* The steps of the walk                                                    *)
(***************************************************************************)
LEMMA WalkFromWalks ==
    ASSUME NEW d, WalkFrom(d), WellFormed(Placed(d), Bytes(d))
    PROVE  Walking(Bytes(d))'
  <1> DEFINE placed == Placed(d)
             bytes == Bytes(d)
  <1> HIDE DEF placed, bytes
  <1>1. WellFormed(placed, bytes)
    BY DEF placed, bytes
  <1>2. PICK f \in placed : f.begin = 0
    BY <1>1 DEF WellFormed, Begins
  <1>3. PICK g \in placed : End(g) = bytes
    BY <1>1 DEF WellFormed
  <1>4. bytes \in Nat
    BY <1>1, <1>3, FieldTyped
  <1>5. /\ compound' = placed /\ pos' = 0 /\ pktLeft' = bytes
        /\ rc' = 0 /\ left' = 0 /\ n' = 0 /\ at' = "header"
    BY DEF WalkFrom, placed, bytes
  <1>6. Begins(placed, 0, {"header"})
    BY <1>1 DEF WellFormed
  <1>7. WalkTypeOK'
    BY <1>4, <1>5 DEF WalkTypeOK
  <1>8. Accounts(compound, bytes)'
    BY <1>1, <1>4, <1>5, <1>6 DEF Accounts
  <1> QED
    BY <1>5, <1>7, <1>8 DEF Walking, bytes

LEMMA ReadHeaderWalks ==
    ASSUME NEW bytes \in Nat, Walking(bytes), ReadHeader
    PROVE  Walking(bytes)'
  <1>1. /\ WalkTypeOK /\ WellFormed(compound, bytes) /\ pos + left + pktLeft = bytes
        /\ left = 0 /\ Begins(compound, pos, {"header"}) /\ pos % 4 = 0
    BY DEF Walking, Accounts, ReadHeader, WalkTypeOK
  <1>2. Finds(pos, "header")
    BY <1>1 DEF Begins, Finds
  <1>3. PICK h \in compound :
            h.begin = pos /\ h.field.kind = "header" /\ Read(pos, "header") = h.field
    BY <1>2, ReadFinds
  <1>4. Header(compound, h)
    BY <1>3 DEF Header
  <1> DEFINE words == h.field.length
  <1>5. /\ h.field.count \in Nat /\ words \in Nat
        /\ PacketEnd(h) = pos + 4 * (words + 1) /\ PacketEnd(h) <= bytes
    BY <1>1, <1>3, <1>4, HeaderTyped, PacketWithin
  <1>6. /\ compound' = compound /\ pos' = pos + 4 /\ n' = n
        /\ rc' = h.field.count
        /\ left' = (words + 1) * 4 - 4
        /\ pktLeft' = pktLeft - (words + 1) * 4
    BY <1>3 DEF ReadHeader
  <1> DEFINE type == h.field.type
  <1>7. at' = CASE type = "RR"   -> "ssrc"
                [] type = "SDES" -> "chunk"
                [] OTHER         -> "skip"
    BY <1>3 DEF ReadHeader
  <1> HIDE DEF words
  <1>8. /\ at' \in {"ssrc", "chunk", "skip"}
        /\ at' = "ssrc" => type = "RR"
        /\ at' = "chunk" => type = "SDES"
    <2> HIDE DEF type
    <2>1. CASE type = "RR"
      BY <1>7, <2>1
    <2>2. CASE type = "SDES"
      BY <1>7, <2>2
    <2>3. CASE type \notin {"RR", "SDES"}
      BY <1>7, <2>3
    <2> QED
      BY <2>1, <2>2, <2>3
  <1>9. /\ left' = 4 * words /\ pktLeft' = bytes - PacketEnd(h) /\ pktLeft' \in Nat
        /\ pos' \in Nat /\ pos' + left' = PacketEnd(h) /\ pos' % 4 = 0
    <2> DEFINE last == PacketEnd(h)
    <2>1. last = pos + 4 * (words + 1) /\ last <= bytes /\ words \in Nat
      BY <1>5
    <2>2. pos \in Nat /\ pktLeft \in Nat /\ pos + pktLeft = bytes /\ pos % 4 = 0
      BY <1>1 DEF WalkTypeOK
    <2> HIDE DEF last
    <2>3. /\ left' = 4 * words /\ pktLeft' = bytes - last /\ pktLeft' \in Nat
          /\ pos' \in Nat /\ pos' + left' = last
      BY <1>6, <2>1, <2>2
    <2>4. pos' % 4 = 0
      BY <1>6, <2>2
    <2> QED
      BY <2>3, <2>4 DEF last
  <1>10. WalkTypeOK'
    BY <1>1, <1>5, <1>6, <1>8, <1>9 DEF WalkTypeOK
  <1>11. Within(compound, h)'
    <2>1. h.begin < pos' /\ h.begin % 4 = 0 /\ PacketEnd(h) = pos' + left'
      BY <1>1, <1>3, <1>6, <1>9 DEF WalkTypeOK
    <2>2. at' = "chunk" => left' = 0 \/ Begins(compound, pos', {"ssrc"})
      <3>1. CASE words = 0
        BY <1>9, <3>1
      <3>2. CASE words > 0 /\ h.field.type = "SDES"
        BY <1>1, <1>3, <1>6, <3>2 DEF WellFormed, WellFormedChunks, words
      <3> QED
        BY <1>5, <1>8, <3>1, <3>2
    <2> QED
      BY <1>3, <1>4, <1>6, <1>8, <2>1, <2>2 DEF Within, Header
  <1>12. pos' + left' + pktLeft' = bytes
    BY <1>5, <1>9, HeaderTyped, <1>1, <1>4
  <1> QED
    BY <1>1, <1>3, <1>6, <1>8, <1>9, <1>10, <1>11, <1>12 DEF Walking, Accounts

LEMMA ReadSourceWalks ==
    ASSUME NEW bytes \in Nat, Walking(bytes), ReadSource
    PROVE  Walking(bytes)'
  <1>1. /\ WalkTypeOK /\ WellFormed(compound, bytes) /\ pos + left + pktLeft = bytes
        /\ pos % 4 = 0
    BY DEF Walking, Accounts
  <1>2. PICK h \in compound : Within(compound, h)
    BY DEF Walking, Accounts, ReadSource
  <1>3. /\ Header(compound, h) /\ h.field.type = "RR" /\ pos = h.begin + 4 /\ rc = h.field.count
        /\ h.begin < pos /\ h.begin % 4 = 0 /\ PacketEnd(h) = pos + left
    BY <1>2 DEF Within, ReadSource
  <1>4. /\ h.begin \in Nat /\ h.field.count \in Nat
        /\ h.begin + 8 + 24 * h.field.count <= PacketEnd(h)
    BY <1>1, <1>3, HeaderTyped DEF WellFormed, WellFormedReport, Header
  <1>5. /\ UNCHANGED <<compound, pktLeft, rc, n>>
        /\ pos' = pos + 4 /\ left' = left - 4 /\ at' = "block"
    BY DEF ReadSource
  <1>6. WalkTypeOK'
    BY <1>1, <1>3, <1>4, <1>5 DEF WalkTypeOK
  <1>7. pos' = h.begin + 8 + 24 * (h.field.count - rc')
    BY <1>3, <1>4, <1>5
  <1>8. h.begin < pos' /\ rc' <= h.field.count /\ PacketEnd(h) = pos' + left'
    BY <1>1, <1>3, <1>4, <1>5 DEF WalkTypeOK
  <1>9. Within(compound, h)'
    BY <1>3, <1>5, <1>7, <1>8 DEF Within, Header
  <1> QED
    BY <1>1, <1>5, <1>6, <1>9 DEF Walking, Accounts, WalkTypeOK

LEMMA ReadBlockWalks ==
    ASSUME NEW bytes \in Nat, Walking(bytes), ReadBlock
    PROVE  Walking(bytes)'
  <1>1. /\ WalkTypeOK /\ WellFormed(compound, bytes) /\ pos + left + pktLeft = bytes
        /\ pos % 4 = 0
    BY DEF Walking, Accounts
  <1>2. PICK h \in compound : Within(compound, h)
    BY DEF Walking, Accounts, ReadBlock
  <1>3. /\ Header(compound, h) /\ h.field.type = "RR" /\ rc <= h.field.count
        /\ pos = h.begin + 8 + 24 * (h.field.count - rc)
        /\ h.begin < pos /\ h.begin % 4 = 0 /\ PacketEnd(h) = pos + left
    BY <1>2 DEF Within, ReadBlock
  <1>4. /\ h.begin \in Nat /\ h.field.count \in Nat
        /\ h.begin + 8 + 24 * h.field.count <= PacketEnd(h)
    BY <1>1, <1>3, HeaderTyped DEF WellFormed, WellFormedReport, Header
  <1>5. /\ UNCHANGED <<compound, pktLeft, n, at>> /\ at = "block" /\ rc > 0
        /\ pos' = pos + 24 /\ left' = left - 24 /\ rc' = rc - 1
    BY DEF ReadBlock, More
  <1>6. WalkTypeOK'
    BY <1>1, <1>3, <1>4, <1>5 DEF WalkTypeOK
  <1>7. pos' = h.begin + 8 + 24 * (h.field.count - rc') /\ rc' <= h.field.count
    <2> DEFINE b == h.begin
               c == h.field.count
    <2>1. /\ b \in Nat /\ c \in Nat /\ rc \in Nat /\ rc <= c
          /\ pos = b + 8 + 24 * (c - rc)
      BY <1>1, <1>3, <1>4 DEF WalkTypeOK
    <2> HIDE DEF b, c
    <2>2. pos' = b + 8 + 24 * (c - rc') /\ rc' <= c
      BY <1>5, <2>1
    <2> QED
      BY <2>2 DEF b, c
  <1>8. Within(compound, h)'
    BY <1>1, <1>3, <1>4, <1>5, <1>7 DEF Within, WalkTypeOK, Header
  <1> QED
    BY <1>1, <1>5, <1>6, <1>8 DEF Walking, Accounts, WalkTypeOK

LEMMA ReadChunkWalks ==
    ASSUME NEW bytes \in Nat, Walking(bytes), ReadChunk
    PROVE  Walking(bytes)'
  <1>1. /\ WalkTypeOK /\ WellFormed(compound, bytes) /\ pos + left + pktLeft = bytes
        /\ pos % 4 = 0
    BY DEF Walking, Accounts
  <1>2. PICK h \in compound : Within(compound, h)
    BY DEF Walking, Accounts, ReadChunk
  <1>3. /\ Header(compound, h) /\ h.field.type = "SDES" /\ Begins(compound, pos, {"ssrc"})
        /\ h.begin < pos /\ h.begin % 4 = 0 /\ PacketEnd(h) = pos + left
    BY <1>1, <1>2 DEF Within, ReadChunk, More, WalkTypeOK
  <1>4. /\ UNCHANGED <<compound, pktLeft, rc>> /\ rc > 0 /\ left > 0
        /\ pos' = pos + 4 /\ left' = left - 4 /\ n' = 0 /\ at' = "item"
    BY DEF ReadChunk, More
  <1>5. PICK f \in compound : f.begin = pos /\ f.field.kind = "ssrc"
    BY <1>3 DEF Begins
  <1>6. f.begin < PacketEnd(h)
    BY <1>1, <1>3, <1>4, <1>5 DEF WalkTypeOK
  <1>7. f.field.size = 4 /\ Begins(compound, End(f), {"item", "end"})
    BY <1>1, <1>3, <1>5, <1>6 DEF WellFormed, WellFormedChunks, Header
  <1>8. End(f) = pos + 4 /\ pos + 4 <= PacketEnd(h)
    BY <1>1, <1>3, <1>5, <1>6, <1>7, FieldWithin DEF End
  <1>9. pos + 4 < PacketEnd(h)
    BY <1>1, <1>3, <1>7, <1>8, ItemWithin DEF WalkTypeOK
  <1>10. WalkTypeOK'
    BY <1>1, <1>3, <1>4, <1>9 DEF WalkTypeOK
  <1>11. Within(compound, h)'
    <2>1. pos' + n' = End(f) /\ n' < left' /\ PacketEnd(h) = pos' + left' /\ h.begin < pos'
      BY <1>1, <1>3, <1>4, <1>8, <1>9, HeaderTyped DEF WalkTypeOK
    <2> QED
      BY <1>3, <1>4, <1>7, <2>1 DEF Within, Header
  <1> QED
    BY <1>1, <1>4, <1>10, <1>11 DEF Walking, Accounts, WalkTypeOK

LEMMA ReadItemWalks ==
    ASSUME NEW bytes \in Nat, Walking(bytes), ReadItem
    PROVE  Walking(bytes)'
  <1>1. /\ WalkTypeOK /\ WellFormed(compound, bytes) /\ pos + left + pktLeft = bytes
        /\ pos % 4 = 0
    BY DEF Walking, Accounts
  <1>2. PICK h \in compound : Within(compound, h)
    BY DEF Walking, Accounts, ReadItem
  <1>3. /\ Header(compound, h) /\ h.field.type = "SDES" /\ rc > 0 /\ n < left
        /\ h.begin < pos /\ h.begin % 4 = 0 /\ PacketEnd(h) = pos + left
    BY <1>2 DEF Within, ReadItem
  <1>4. PICK f \in compound :
            f.begin = pos + n /\ f.field.kind = "item" /\ Read(pos + n, "item") = f.field
    BY ReadFinds DEF ReadItem
  <1>5. /\ UNCHANGED <<compound, pos, pktLeft, rc, left, at>> /\ at = "item"
        /\ n' = n + f.field.size
    BY <1>4 DEF ReadItem
  <1>6. f.field.size \in Nat /\ End(f) = pos + n + f.field.size
    BY <1>1, <1>4, FieldTyped
  <1>7. f.begin < PacketEnd(h) /\ h.begin < f.begin
    BY <1>1, <1>3, <1>4, HeaderTyped DEF WalkTypeOK
  <1>8. Begins(compound, End(f), {"item", "end"})
    BY <1>1, <1>3, <1>4, <1>7 DEF WellFormed, WellFormedChunks, Header
  <1>9. End(f) <= PacketEnd(h)
    BY <1>1, <1>3, <1>7, FieldWithin
  <1>10. End(f) < PacketEnd(h)
    BY <1>1, <1>3, <1>6, <1>8, <1>9, ItemWithin DEF WalkTypeOK
  <1>11. WalkTypeOK'
    BY <1>1, <1>5, <1>6 DEF WalkTypeOK
  <1>12. Within(compound, h)'
    <2>1. pos' + n' = End(f) /\ n' < left'
      <3> DEFINE size == f.field.size
                 last == PacketEnd(h)
                 end == End(f)
      <3>1. /\ size \in Nat /\ pos \in Nat /\ n \in Nat /\ left \in Nat
            /\ end = pos + n + size /\ end < last /\ last = pos + left
            /\ n' = n + size /\ pos' = pos /\ left' = left
        BY <1>1, <1>3, <1>5, <1>6, <1>10 DEF WalkTypeOK
      <3> HIDE DEF size, last, end
      <3>2. pos' + n' = end /\ n' < left'
        BY <3>1
      <3> QED
        BY <3>2 DEF end
    <2> QED
      BY <1>3, <1>5, <1>8, <2>1 DEF Within, Header
  <1> QED
    BY <1>1, <1>5, <1>11, <1>12 DEF Walking, Accounts

(* A chunk ends at the next full word, as the walk computes it.             *)
LEMMA PaddedToTheEnd ==
    ASSUME NEW p \in Nat, NEW m \in Nat, NEW size \in 1..4, p % 4 = 0, (p + m + size) % 4 = 0
    PROVE  Padded(m + 1) = m + size
  <1>1. (m + size) % 4 = 0
    OBVIOUS
  <1>2. ((m + 4) \div 4) * 4 = m + size
    BY <1>1
  <1> QED
    BY <1>2 DEF Padded

LEMMA ReadChunkEndWalks ==
    ASSUME NEW bytes \in Nat, Walking(bytes), ReadChunkEnd
    PROVE  Walking(bytes)'
  <1>1. /\ WalkTypeOK /\ WellFormed(compound, bytes) /\ pos + left + pktLeft = bytes
        /\ pos % 4 = 0
    BY DEF Walking, Accounts
  <1>2. PICK h \in compound : Within(compound, h)
    BY DEF Walking, Accounts, ReadChunkEnd
  <1>3. /\ Header(compound, h) /\ h.field.type = "SDES" /\ rc > 0 /\ n < left
        /\ h.begin < pos /\ h.begin % 4 = 0 /\ PacketEnd(h) = pos + left
    BY <1>2 DEF Within, ReadChunkEnd
  <1>4. PICK f \in compound : f.begin = pos + n /\ f.field.kind = "end"
    BY DEF ReadChunkEnd, Finds
  <1>5. f.field.size \in 1..4 /\ End(f) = pos + n + f.field.size
    BY <1>1, <1>4, FieldTyped
  <1>6. f.begin < PacketEnd(h) /\ h.begin < f.begin
    BY <1>1, <1>3, <1>4, HeaderTyped DEF WalkTypeOK
  <1>7. End(f) % 4 = 0 /\ (End(f) = PacketEnd(h) \/ Begins(compound, End(f), {"ssrc"}))
    BY <1>1, <1>3, <1>4, <1>6 DEF WellFormed, WellFormedChunks, Header
  <1>8. End(f) <= PacketEnd(h)
    BY <1>1, <1>3, <1>6, FieldWithin
  <1>9. Padded(n + 1) = n + f.field.size
    <2> DEFINE size == f.field.size
    <2>1. /\ pos \in Nat /\ n \in Nat /\ size \in 1..4
          /\ pos % 4 = 0 /\ (pos + n + size) % 4 = 0
      BY <1>1, <1>5, <1>7 DEF WalkTypeOK
    <2> HIDE DEF size
    <2>2. Padded(n + 1) = n + size
      BY <2>1, PaddedToTheEnd
    <2> QED
      BY <2>2 DEF size
  <1>10. /\ UNCHANGED <<compound, pktLeft, n>> /\ at' = "chunk" /\ rc' = rc - 1
         /\ pos' = End(f) /\ left' = PacketEnd(h) - End(f)
    BY <1>1, <1>3, <1>5, <1>9 DEF ReadChunkEnd, WalkTypeOK
  <1>11. WalkTypeOK'
    BY <1>1, <1>3, <1>5, <1>8, <1>10 DEF WalkTypeOK
  <1>12. Within(compound, h)'
    <2>1. h.begin < pos' /\ PacketEnd(h) = pos' + left'
      BY <1>1, <1>3, <1>4, <1>5, <1>6, <1>10, HeaderTyped DEF WalkTypeOK
    <2>2. left' = 0 \/ Begins(compound, pos', {"ssrc"})
      BY <1>3, <1>7, <1>10, HeaderTyped, <1>1
    <2> QED
      BY <1>3, <1>10, <2>1, <2>2 DEF Within, Header
  <1>13. pos' + left' + pktLeft' = bytes /\ pos' % 4 = 0
    <2> DEFINE last == PacketEnd(h)
               end == End(f)
    <2>1. /\ last = pos + left /\ last \in Int /\ end \in Int /\ end % 4 = 0
          /\ pos' = end /\ left' = last - end /\ pktLeft' = pktLeft /\ pktLeft \in Int
          /\ pos + left + pktLeft = bytes
      BY <1>1, <1>3, <1>5, <1>7, <1>10 DEF WalkTypeOK
    <2> HIDE DEF last, end
    <2> QED
      BY <2>1
  <1> QED
    BY <1>1, <1>10, <1>11, <1>12, <1>13 DEF Walking, Accounts

LEMMA SkipRestWalks ==
    ASSUME NEW bytes \in Nat, Walking(bytes), SkipRest
    PROVE  Walking(bytes)'
  <1>1. /\ WalkTypeOK /\ WellFormed(compound, bytes) /\ pos + left + pktLeft = bytes
        /\ pos % 4 = 0 /\ at # "header"
    BY DEF Walking, Accounts, SkipRest
  <1>2. PICK h \in compound : Header(compound, h) /\ PacketEnd(h) = pos + left /\ h.begin % 4 = 0
    BY <1>1 DEF Walking, Accounts, Within
  <1>3. /\ UNCHANGED <<compound, pktLeft, rc, n>> /\ at' = "header"
        /\ pos' = PacketEnd(h) /\ left' = 0
    BY <1>2 DEF SkipRest
  <1>4. PacketEnd(h) = bytes \/ Begins(compound, PacketEnd(h), {"header"})
    BY <1>1, <1>2, HeaderTyped
  <1>5. WalkTypeOK'
    BY <1>1, <1>2, <1>3 DEF WalkTypeOK
  <1>6. pos' % 4 = 0
    <2> DEFINE b == h.begin
               words == h.field.length
               last == PacketEnd(h)
    <2>1. b \in Nat /\ words \in Nat /\ last = b + 4 * (words + 1) /\ b % 4 = 0 /\ pos' = last
      BY <1>1, <1>2, <1>3, HeaderTyped
    <2> HIDE DEF b, words, last
    <2> QED
      BY <2>1
  <1>7. pktLeft' = 0 \/ Begins(compound', pos', {"header"})
    BY <1>1, <1>2, <1>3, <1>4 DEF WalkTypeOK
  <1> QED
    BY <1>1, <1>2, <1>3, <1>5, <1>6, <1>7 DEF Walking, Accounts, WalkTypeOK

LEMMA WalkStepWalks ==
    ASSUME NEW bytes \in Nat, Walking(bytes), WalkStep
    PROVE  Walking(bytes)'
  BY ReadHeaderWalks, ReadSourceWalks, ReadBlockWalks, ReadChunkWalks, ReadItemWalks,
     ReadChunkEndWalks, SkipRestWalks DEF WalkStep

(* A walk is in step with the sender.                                       *)
LEMMA WalkingInStep ==
    ASSUME NEW bytes \in Nat, Walking(bytes)
    PROVE  WalkInStep
  <1>1. /\ WalkTypeOK /\ WellFormed(compound, bytes) /\ pos + left + pktLeft = bytes
        /\ at = "header" => pktLeft = 0 \/ Begins(compound, pos, {"header"})
    BY DEF Walking, Accounts
  <1>2. EndsAt(pos + left + pktLeft)
    BY <1>1 DEF WellFormed, EndsAt, End
  <1>3. at = "header" /\ pktLeft >= 4 => Finds(pos, "header")
    BY <1>1 DEF Begins, Finds, WalkTypeOK
  <1>4. ASSUME NEW h \in compound, Within(compound, h)
        PROVE  /\ at = "ssrc" \/ (at = "chunk" /\ More) => Finds(pos, "ssrc")
               /\ at = "block" /\ More => Finds(pos, "block")
               /\ at = "item" => Finds(pos + n, "item") \/ Finds(pos + n, "end")
    <2>1. Header(compound, h)
      BY <1>4 DEF Within
    <2>2. CASE at = "ssrc"
      <3>1. Begins(compound, pos, {"ssrc"})
        BY <1>1, <1>4, <2>1, <2>2 DEF Within, WellFormed, WellFormedReport, Header
      <3> QED
        BY <2>2, <3>1 DEF Begins, Finds
    <2>3. CASE at = "block"
      <3>1. /\ h.field.type = "RR" /\ h.field.count \in Nat /\ rc \in Nat /\ rc <= h.field.count
            /\ pos = h.begin + 8 + 24 * (h.field.count - rc)
        BY <1>1, <1>4, <2>1, <2>3, HeaderTyped DEF Within, WalkTypeOK
      <3>2. ASSUME More PROVE Finds(pos, "block")
        <4>1. h.field.count - rc \in 0..(h.field.count - 1)
          BY <3>1, <3>2 DEF More
        <4>2. Begins(compound, pos, {"block"})
          BY <1>1, <2>1, <3>1, <4>1 DEF WellFormed, WellFormedReport, Header
        <4> QED
          BY <4>2 DEF Begins, Finds
      <3> QED
        BY <2>3, <3>2
    <2>4. CASE at = "chunk"
      BY <1>1, <1>4, <2>4 DEF Within, More, Begins, Finds
    <2>5. CASE at = "item"
      BY <1>1, <1>4, <2>5 DEF Within, Begins, Finds
    <2>6. CASE at \notin {"ssrc", "block", "chunk", "item"}
      BY <2>6
    <2> QED
      BY <2>2, <2>3, <2>4, <2>5, <2>6
  <1>5. CASE at = "header"
    BY <1>1, <1>2, <1>3, <1>5 DEF WalkInStep, WalkTypeOK
  <1>6. CASE at # "header"
    <2>1. PICK h \in compound : Within(compound, h)
      BY <1>6 DEF Walking, Accounts
    <2> QED
      BY <1>1, <1>2, <1>4, <1>6, <2>1 DEF WalkInStep, WalkTypeOK
  <1> QED
    BY <1>5, <1>6
===============================================================================
