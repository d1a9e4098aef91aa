------------------------------- MODULE RtcpWalk -------------------------------
(***************************************************************************)
(* RtcpServer::parse_recv (src/c_src/rtcp_server.cpp): the walk over a      *)
(* compound RTCP packet, which advances by what it computes from counts and *)
(* lengths in the packet.  A datagram is the sequence of fields that its    *)
(* sender wrote, each with its size in bytes; the walk knows bytes only.    *)
(* Datagrams are well-formed and fit the receive buffer.                    *)
(***************************************************************************)
EXTENDS Integers, Sequences, SequencesExt

VARIABLES
    compound,   \* the datagram that is walked over: its fields by where they begin
    pos,        \* pData, counted from the start of the datagram
    pktLeft,    \* bytes not yet accounted for
    rc,         \* report or chunk count that is left
    left,       \* bytes left of the packet
    n,          \* bytes of the current SDES chunk, past its source
    at          \* what is read next, or "idle"

walkVars == <<compound, pos, pktLeft, rc, left, n, at>>

(***************************************************************************)
(* What a sender writes.  `length` counts words after the first one.        *)
(***************************************************************************)
Field(kind, size) == [kind |-> kind, size |-> size]

Bytes(fields) == FoldLeft(LAMBDA sum, f : sum + f.size, 0, fields)

Packet(type, count, fields) ==
    <<[kind |-> "header", size |-> 4, type |-> type, count |-> count,
       length |-> Bytes(fields) \div 4]>> \o fields

ReceiverReport(blocks, extension) ==
    Packet("RR", blocks,
           <<Field("ssrc", 4)>> \o [i \in 1..blocks |-> Field("block", 24)]
                                \o <<Field("rest", extension)>>)

(* The items of a chunk end with one to four zero bytes, up to a full word. *)
Chunk(texts) ==
    LET items == [i \in DOMAIN texts |-> Field("item", 2 + texts[i])]
    IN  <<Field("ssrc", 4)>> \o items \o <<Field("end", 4 - (Bytes(items) % 4))>>

Description(chunks) ==
    Packet("SDES", Len(chunks), FlattenSeq([i \in DOMAIN chunks |-> Chunk(chunks[i])]))

Other(bytes) == Packet("other", 1, <<Field("rest", bytes)>>)

(***************************************************************************)
(* What the walk reads.                                                     *)
(***************************************************************************)
Placed(fields) ==
    {[begin |-> Bytes(SubSeq(fields, 1, i - 1)), field |-> fields[i]] : i \in DOMAIN fields}

(* An empty field may share its place with the one after it.                *)
Finds(b, kind) == \E f \in compound : f.begin = b /\ f.field.kind = kind
Read(b, kind)  == (CHOOSE f \in compound : f.begin = b /\ f.field.kind = kind).field

EndsAt(b) ==
    /\ \A f \in compound : f.begin + f.field.size <= b
    /\ \E f \in compound : f.begin + f.field.size = b

(***************************************************************************)
(* What a datagram of a conforming peer is, by where its fields begin.      *)
(***************************************************************************)
End(f)       == f.begin + f.field.size
PacketEnd(h) == h.begin + 4 * (h.field.length + 1)

Begins(placed, b, kinds) == \E f \in placed : f.begin = b /\ f.field.kind \in kinds

(* A source and so many blocks; what comes after them may be anything.      *)
WellFormedReport(placed, h) ==
    /\ h.begin + 8 + 24 * h.field.count <= PacketEnd(h)
    /\ Begins(placed, h.begin + 4, {"ssrc"})
    /\ \A i \in 0..(h.field.count - 1) : Begins(placed, h.begin + 8 + 24 * i, {"block"})

(* Chunks of a source, items and an end, one after the other.               *)
WellFormedChunks(placed, h) ==
    /\ h.field.length > 0 => Begins(placed, h.begin + 4, {"ssrc"})
    /\ \A f \in placed : h.begin < f.begin /\ f.begin < PacketEnd(h) =>
          /\ f.field.kind = "ssrc" => f.field.size = 4
          /\ f.field.kind \in {"ssrc", "item"} => Begins(placed, End(f), {"item", "end"})
          /\ f.field.kind = "end" =>
                End(f) % 4 = 0 /\ (End(f) = PacketEnd(h) \/ Begins(placed, End(f), {"ssrc"}))

(* Packets that follow one another up to the end of the datagram, with      *)
(* fields that do not overlap.                                              *)
WellFormed(placed, bytes) ==
    /\ Begins(placed, 0, {"header"})
    /\ \E f \in placed : End(f) = bytes
    /\ \A f \in placed :
          /\ f.begin \in Nat /\ f.field.size \in Nat /\ End(f) <= bytes
          /\ f.field.kind = "item" => f.field.size >= 2
          /\ f.field.kind = "end" => f.field.size \in 1..4
          /\ \A g \in placed : f = g \/ End(f) <= g.begin \/ End(g) <= f.begin
    /\ \A h \in placed : h.field.kind = "header" =>
          /\ h.field.size = 4 /\ h.field.count \in Nat /\ h.field.length \in Nat
          /\ PacketEnd(h) = bytes \/ Begins(placed, PacketEnd(h), {"header"})
          /\ h.field.type = "RR" => WellFormedReport(placed, h)
          /\ h.field.type = "SDES" => WellFormedChunks(placed, h)

WalkInit ==
    /\ compound = {}
    /\ pos = 0 /\ pktLeft = 0 /\ rc = 0 /\ left = 0 /\ n = 0
    /\ at = "idle"

WalkFrom(datagram) ==
    /\ at = "idle"
    /\ compound' = Placed(datagram)
    /\ pos' = 0
    /\ pktLeft' = Bytes(datagram)
    /\ rc' = 0 /\ left' = 0 /\ n' = 0
    /\ at' = "header"

(* The four bytes of the header; the length is taken off pktLeft after the  *)
(* packet, which nothing can tell from here.                                *)
ReadHeader ==
    /\ at = "header"
    /\ pktLeft >= 4
    /\ LET header == Read(pos, "header")
           length == (header.length + 1) * 4
       IN  /\ rc' = header.count
           /\ left' = length - 4
           /\ pktLeft' = pktLeft - length
           /\ at' = CASE header.type = "RR"   -> "ssrc"
                      [] header.type = "SDES" -> "chunk"
                      [] OTHER                -> "skip"
    /\ pos' = pos + 4
    /\ UNCHANGED <<compound, n>>

(* RR: the sender's source, then a block for each count.                    *)
ReadSource ==
    /\ at = "ssrc"
    /\ pos' = pos + 4
    /\ left' = left - 4
    /\ at' = "block"
    /\ UNCHANGED <<compound, pktLeft, rc, n>>

More == rc > 0 /\ left > 0

ReadBlock ==
    /\ at = "block" /\ More
    /\ pos' = pos + 24
    /\ left' = left - 24
    /\ rc' = rc - 1
    /\ UNCHANGED <<compound, pktLeft, n, at>>

(* SDES: a source, items of a type, a length and a text up to a zero type,  *)
(* and on to the next multiple of four.                                     *)
ReadChunk ==
    /\ at = "chunk" /\ More
    /\ pos' = pos + 4
    /\ left' = left - 4
    /\ n' = 0
    /\ at' = "item"
    /\ UNCHANGED <<compound, pktLeft, rc>>

ReadItem ==
    /\ at = "item"
    /\ Finds(pos + n, "item")
    /\ n' = n + Read(pos + n, "item").size
    /\ UNCHANGED <<compound, pos, pktLeft, rc, left, at>>

(* Mutants of Padded: rounded down; a full word added to a full word.       *)
Padded_Down(bytes) == (bytes \div 4) * 4

Padded_Past(bytes) == (bytes \div 4 + 1) * 4

Padded(bytes) == ((bytes + 3) \div 4) * 4

ReadChunkEnd ==
    /\ at = "item"
    /\ Finds(pos + n, "end")
    /\ pos' = pos + Padded(n + 1)
    /\ left' = left - Padded(n + 1)
    /\ rc' = rc - 1
    /\ at' = "chunk"
    /\ UNCHANGED <<compound, pktLeft, n>>

(* What the counts do not cover is skipped.                                 *)
SkipRest ==
    /\ at = "skip" \/ (at \in {"block", "chunk"} /\ ~More)
    /\ pos' = pos + left
    /\ left' = 0
    /\ at' = "header"
    /\ UNCHANGED <<compound, pktLeft, rc, n>>

WalkStep ==
    ReadHeader \/ ReadSource \/ ReadBlock \/ ReadChunk \/ ReadItem \/ ReadChunkEnd \/ SkipRest

(* parse_recv returns, and its variables are gone.                          *)
WalkEnd ==
    /\ at = "header"
    /\ pktLeft < 4
    /\ compound' = {}
    /\ pos' = 0 /\ pktLeft' = 0 /\ rc' = 0 /\ left' = 0 /\ n' = 0
    /\ at' = "idle"

(* The walk stays in step with the sender: it reads a header, a block, a    *)
(* source or an item only where one was written, the counts of bytes, which *)
(* are unsigned, do not pass zero, and it ends where the datagram ends.     *)
WalkInStep ==
    at # "idle" =>
        /\ left >= 0 /\ pktLeft >= 0
        /\ at # "item" => EndsAt(pos + left + pktLeft)
        /\ at = "header" /\ pktLeft >= 4 => Finds(pos, "header")
        /\ at = "ssrc" \/ (at = "chunk" /\ More) => Finds(pos, "ssrc")
        /\ at = "block" /\ More => Finds(pos, "block")
        /\ at = "item" => Finds(pos + n, "item") \/ Finds(pos + n, "end")
===============================================================================
