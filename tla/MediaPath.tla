------------------------------- MODULE MediaPath -------------------------------
(***************************************************************************)
(* The sound on its way (src/c_src): Capture::do_loop of the relay reads,   *)
(* encodes and sends one period after the other, the network loses,         *)
(* duplicates and reorders the packets, and the player decodes and writes   *)
(* what arrives.  The ALSA devices, the Opus codec and the network are      *)
(* external.                                                                *)
(***************************************************************************)
EXTENDS Integers, Sequences, FiniteSetsExt

CONSTANTS
    SeqMod,      \* 2^16, the values of the RTP sequence number
    TsMod,       \* 2^32, those of the RTP time stamp
    UIntMod,     \* 2^32, those of unsigned
    Frames,      \* frames of a period
    Statuses,    \* what opus_encode returns: a length, or a negative error
    Room,        \* periods that the playback buffer holds
    MaxSends,    \* bound: calls of do_loop
    MaxFaults,   \* bound: failed and short reads and duplicated packets
    MaxErrors    \* bound: failed and short writes

HeaderLen == 12

(* The errors of Opus are -1 to -7, and a length is at most that of the     *)
(* buffer that it is given: both are far from where unsigned wraps.         *)
ASSUME MediaAssumption ==
    /\ SeqMod \in Nat \ {0} /\ TsMod \in Nat \ {0} /\ UIntMod \in Nat \ {0}
    /\ TsMod % SeqMod = 0
    /\ Frames \in Nat \ {0}
    /\ Statuses \subseteq Int \ {0}
    /\ \A status \in Statuses : status >= -7 /\ 2 * (status + HeaderLen) < UIntMod
    /\ 2 * HeaderLen < UIntMod
    /\ Room \in Nat \ {0}
    /\ MaxSends \in Nat /\ MaxFaults \in Nat /\ MaxErrors \in Nat

VARIABLES
    seq, ts,     \* the sender's mSequenceNumber and mTimeStamp
    reads,       \* how many periods the sender has read
    buf,         \* the periods in the sender's mpBuffer, 0 for uninitialised memory
    sends,       \* how often do_loop has run
    faults,      \* how many reads were failed or short and packets duplicated
    net,         \* packets in the network or in the player's socket
    open,        \* whether the player still has its RtpServer
    hand,        \* the packet that the player is handling
    pcm,         \* the playback device: "prepared", "running" or "xrun"
    level,       \* periods in its buffer
    errors,      \* how many writes were failed or short, underruns apart
    delivered,   \* the sound of the packets that the player took and could decode
    played       \* the sound it has passed on, and how much the device took of it

sender == <<seq, ts, reads, buf, sends>>
device == <<pcm, level, errors, played>>
player == <<open, hand, delivered, device>>
vars == <<sender, faults, net, player>>

Sounds  == SUBSET (0..MaxSends)
NoSound == {}       \* the payload of a packet whose encoding failed
None == [len |-> 0, sound |-> NoSound, seq |-> 0, ts |-> 0]

Packets ==
    [len: 0..(UIntMod - 1), sound: Sounds, seq: 0..(SeqMod - 1), ts: 0..(TsMod - 1)]

Writes == [sound: Sounds, taken: {"all", "some", "none"}]

TypeOK ==
    /\ seq \in 0..(SeqMod - 1) /\ ts \in 0..(TsMod - 1)
    /\ reads \in 0..MaxSends /\ sends \in 0..MaxSends
    /\ buf \subseteq 0..reads /\ buf # {}
    /\ faults \in 0..MaxFaults /\ errors \in 0..MaxErrors
    /\ net \subseteq Packets
    /\ open \in BOOLEAN
    /\ hand \in Packets
    /\ pcm \in {"prepared", "running", "xrun"}
    /\ level \in 0..Room /\ (pcm = "running" => level > 0)
    /\ delivered \in Seq(Sounds) /\ played \in Seq(Writes)

(* The sender draws its first sequence number and time stamp at random.     *)
Init ==
    /\ seq \in 0..(SeqMod - 1)
    /\ ts \in 0..(TsMod - 1)
    /\ reads = 0 /\ buf = {0} /\ sends = 0
    /\ faults = 0 /\ errors = 0
    /\ net = {}
    /\ open = TRUE
    /\ hand = None
    /\ pcm = "prepared" /\ level = 0
    /\ delivered = <<>> /\ played = <<>>

(***************************************************************************)
(* The sender                                                               *)
(***************************************************************************)
(* Mutants of PacketLen: no header, or an empty payload, after a failure.   *)
PacketLen_NoHeader(status) == IF status < 0 THEN 0 ELSE status + HeaderLen

PacketLen_EmptyPayload(status) == IF status < 0 THEN HeaderLen ELSE status + HeaderLen

(* send_packet adds the header to a length that is an error number when the *)
(* encoding failed, both of them unsigned.                                  *)
PacketLen(status) == (status + HeaderLen) % UIntMod

(* Mutants of Stamp: the time stamp stands still when the send fails; the   *)
(* sequence number does not wrap.                                           *)
Stamp_WhenSent(sent) ==
    /\ seq' = (seq + 1) % SeqMod
    /\ ts' = IF sent THEN (ts + Frames) % TsMod ELSE ts

Stamp_NoWrap(sent) ==
    /\ seq' = seq + 1
    /\ ts' = (ts + Frames) % TsMod

(* Both advance with every call, before the packet is sent or not.          *)
Stamp(sent) ==
    /\ seq' = (seq + 1) % SeqMod
    /\ ts' = (ts + Frames) % TsMod

(* Encode what is in the buffer and send it; a SocketException is counted   *)
(* and the packet is lost.                                                  *)
EncodeAndSend ==
    \E status \in Statuses, sent \in BOOLEAN :
        /\ Stamp(sent)
        /\ net' = IF ~sent THEN net
                  ELSE net \cup {[len |-> PacketLen(status), seq |-> seq', ts |-> ts',
                                  sound |-> IF status > 0 THEN buf' ELSE NoSound]}

ReadWhole ==
    /\ reads' = reads + 1 /\ buf' = {reads'}
    /\ UNCHANGED faults

(* The end of the buffer keeps what was in it before.                       *)
ReadShort ==
    /\ faults < MaxFaults /\ faults' = faults + 1
    /\ reads' = reads + 1
    /\ \E rest \in SUBSET buf \ {{}} : buf' = {reads'} \cup rest

ReadFails ==
    /\ faults < MaxFaults /\ faults' = faults + 1
    /\ UNCHANGED <<reads, buf>>

(* Capture::do_loop goes on to encode and send a whole period, even when    *)
(* its read failed or was short: with what was read before.                 *)
DoLoop ==
    /\ sends < MaxSends
    /\ sends' = sends + 1
    /\ ReadWhole \/ ReadShort \/ ReadFails
    /\ EncodeAndSend
    /\ UNCHANGED player

Lose(p) ==
    /\ net' = net \ {p}
    /\ UNCHANGED <<sender, faults, player>>

(***************************************************************************)
(* The player                                                               *)
(***************************************************************************)
(* What parse_recv passes on as the length of the payload, and what the int *)
(* parameter of opus_decode makes of it.  A negative length is an error; an *)
(* empty payload is decoded as a loss that has to be concealed.             *)
Signed(n) == IF 2 * n >= UIntMod THEN n - UIntMod ELSE n
PayloadLen(p) == Signed((p.len - HeaderLen) % UIntMod)
Decodable(p)  == p.len > 0 /\ PayloadLen(p) >= 0

(* UdpConnection::recv reads a packet, which the network may have copied.   *)
(* An empty one makes it delete the RtpServer.                              *)
Take(p, copied) ==
    /\ open /\ hand = None
    /\ IF copied
       THEN faults < MaxFaults /\ faults' = faults + 1 /\ UNCHANGED net
       ELSE net' = net \ {p} /\ UNCHANGED faults
    /\ IF p.len = 0
       THEN open' = FALSE /\ UNCHANGED hand
       ELSE hand' = p /\ UNCHANGED open
    /\ delivered' = IF Decodable(p) THEN Append(delivered, p.sound) ELSE delivered
    /\ UNCHANGED <<sender, device>>

DecodeFails ==
    /\ hand # None /\ ~Decodable(hand)
    /\ hand' = None
    /\ UNCHANGED <<sender, faults, net, open, delivered, device>>

(* The packet in hand is done with, whatever the device took of its sound:  *)
(* nothing but an underrun is tried again.                                  *)
PassOn(taken) ==
    /\ Decodable(hand)
    /\ hand' = None
    /\ played' = Append(played, [sound |-> hand.sound, taken |-> taken])
    /\ IF taken = "all" THEN UNCHANGED errors
       ELSE errors < MaxErrors /\ errors' = errors + 1
    /\ UNCHANGED <<sender, faults, net, open, delivered>>

(* Mutant of WriteSound: the period is written once more.                   *)
WriteSound_Twice ==
    /\ Decodable(hand)
    /\ pcm # "xrun" /\ level < Room
    /\ pcm' = "running" /\ level' = level + 1
    /\ played' = LET write == [sound |-> hand.sound, taken |-> "all"]
                 IN  Append(Append(played, write), write)
    /\ hand' = None
    /\ UNCHANGED <<sender, faults, net, open, errors, delivered>>

(* snd_pcm_writei waits until there is room, and starts a prepared device.  *)
(* A write that is interrupted is short, one that fails leaves the device   *)
(* as it is; both are logged, and what is left of the period is dropped.    *)
WriteSound ==
    /\ pcm # "xrun"
    /\ \/ \E taken \in {"all", "some"} :
             PassOn(taken) /\ level < Room /\ level' = level + 1 /\ pcm' = "running"
       \/ PassOn("none") /\ UNCHANGED <<pcm, level>>

(* Mutants of Restart: the device is only prepared, as Capture does; the    *)
(* write is tried again without preparing it.                               *)
Restart_OnlyPrepares ==
    /\ Decodable(hand)
    /\ pcm = "xrun"
    /\ pcm' = "prepared" /\ level' = 0
    /\ hand' = None
    /\ played' = Append(played, [sound |-> hand.sound, taken |-> "none"])
    /\ UNCHANGED <<sender, faults, net, open, errors, delivered>>

Restart_Retries ==
    /\ Decodable(hand)
    /\ pcm = "xrun"
    /\ UNCHANGED vars

(* The write found the device in underrun: it is prepared and the period is *)
(* written again.  Nobody looks at the status of either.                    *)
Restart ==
    /\ pcm = "xrun"
    /\ \/ \E taken \in {"all", "some"} :
             PassOn(taken) /\ level' = 1 /\ pcm' = "running"
       \/ PassOn("none") /\ level' = 0 /\ pcm' \in {"prepared", "xrun"}

(* The device has played a period; without another it stops.                *)
Drain ==
    /\ pcm = "running"
    /\ level' = level - 1
    /\ pcm' = IF level = 1 THEN "xrun" ELSE "running"
    /\ UNCHANGED <<sender, faults, net, open, hand, errors, delivered, played>>

Player == DecodeFails \/ WriteSound \/ Restart

Next ==
    \/ DoLoop
    \/ \E p \in net : Lose(p) \/ \E copied \in BOOLEAN : Take(p, copied)
    \/ Player
    \/ Drain

Spec == Init /\ [][Next]_vars

(* The player's process runs and its device plays; the network owes nothing. *)
FairSpec == Spec /\ WF_vars(Player) /\ WF_vars(Drain)

(***************************************************************************)
(* Properties                                                               *)
(***************************************************************************)
(* Through failed reads, failed encodings, failed sends and wrap, sequence  *)
(* number and time stamp stay in step: a receiver can tell how much sound   *)
(* is missing between any two packets from either of them.                  *)
InStep ==
    \A p \in net \cup {[seq |-> seq, ts |-> ts]}, q \in net :
        (p.ts - q.ts) % SeqMod = (Frames * (p.seq - q.seq)) % SeqMod

(* Nothing that the relay sends is an empty datagram, which would make the  *)
(* player close its connection, not even after a failed encoding.           *)
PlayerStaysOpen == open /\ \A p \in net : p.len > 0

(* A packet whose encoding failed is shorter than its header: the length of *)
(* its payload comes out negative, and it is neither played nor taken for   *)
(* a loss to be concealed.                                                  *)
ErrorsNotPlayed == \A i \in DOMAIN played : played[i].sound # NoSound

(* The player writes what it takes and can decode once and in the order of  *)
(* arrival.  An underrun of its device costs no sound, nor does a restart   *)
(* that works: only writes that fail otherwise, or are short, do, and each  *)
(* of them the sound of one packet.                                         *)
PlaysWhatArrives ==
    /\ delivered =
          LET written == [i \in DOMAIN played |-> played[i].sound]
          IN  IF hand # None /\ Decodable(hand) THEN Append(written, hand.sound) ELSE written
    /\ Cardinality({i \in DOMAIN played : played[i].taken # "all"}) <= errors

(* Sound is repeated only as often as reads failed or were short and        *)
(* packets were copied.                                                     *)
RepeatsExplained ==
    \A k \in 1..reads : Cardinality({i \in DOMAIN played : k \in played[i].sound}) <= 1 + faults

(* The player is never stuck with a packet: a full device makes room, and   *)
(* one in underrun is restarted.                                            *)
PlayerReady == (hand # None) ~> (hand = None)
===============================================================================
