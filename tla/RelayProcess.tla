----------------------------- MODULE RelayProcess -----------------------------
(***************************************************************************)
(* The relay process sound_relay after Session::capture() (src/c_src): the  *)
(* event loop with its two descriptors, the RTCP socket and the ALSA        *)
(* capture device, and their callbacks.  The device and its interrupts are  *)
(* external: a period fills, and a full buffer overruns, at any point of    *)
(* the loop.  Encoding and sending a period changes nothing here.           *)
(***************************************************************************)
EXTENDS EventLoop, RtcpWalk

CONSTANTS
    rtcp, sound,    \* the two descriptors
    Datagrams,      \* what the peer sends to the RTCP port
    NoDatagram,     \* an empty queue of the RTCP socket
    Periods         \* how many periods the capture buffer holds

ASSUME RelayAssumption ==
    /\ rtcp \in Fds /\ sound \in Fds /\ rtcp # sound
    /\ NoDatagram \notin Datagrams
    /\ Periods \in Nat \ {0}

NoData == <<>>

(* The peer sends what RFC 3550 lets it send, and empty datagrams.          *)
ASSUME DatagramsAssumption ==
    \A d \in Datagrams \ {NoData} : WellFormed(Placed(d), Bytes(d))

VARIABLES
    inbox,    \* the datagram in the RTCP socket's queue, or NoDatagram
    pcm,      \* state of the capture device: "running", "xrun" or "prepared"
    avail     \* periods that are ready to be read

vars == <<loopVars, walkVars, inbox, pcm, avail>>

(* Mutants of SessionCapture: the device registers before the socket; no    *)
(* error callback.                                                          *)
SessionCapture_SoundFirst ==
    <<[fd |-> sound, kind |-> "in"], [fd |-> sound, kind |-> "err"], [fd |-> rtcp, kind |-> "in"]>>

SessionCapture_NoError ==
    <<[fd |-> rtcp, kind |-> "in"], [fd |-> sound, kind |-> "in"]>>

(* Session::capture(): the RtpClient has no receive buffer and registers    *)
(* nothing, the RtcpServer registers its socket, and Capture::run()         *)
(* registers the device.                                                    *)
SessionCapture ==
    <<[fd |-> rtcp, kind |-> "in"], [fd |-> sound, kind |-> "in"], [fd |-> sound, kind |-> "err"]>>

ASSUME ScriptAssumption == Script = SessionCapture

TypeOK ==
    /\ LoopTypeOK
    /\ compound \in {Placed(d) : d \in Datagrams} \cup {{}}
    /\ {pos, pktLeft, rc, left, n} \subseteq Nat
    /\ at \in {"idle", "header", "ssrc", "block", "chunk", "item", "skip"}
    /\ inbox \in Datagrams \cup {NoDatagram}
    /\ pcm \in {"running", "xrun", "prepared"}
    /\ avail \in 0..Periods

(* Capture::run() starts the device, and goes on if that fails.             *)
Init ==
    /\ LoopInit
    /\ WalkInit
    /\ inbox = NoDatagram
    /\ pcm \in {"running", "prepared"}
    /\ avail = 0

(* What poll() reports: the kernel signals POLLERR with POLLIN for a device *)
(* in overrun, and nothing for one that is prepared and was not started.    *)
Ready ==
    [f \in Fds \cup {NoFd} |->
        IF f = rtcp /\ inbox # NoDatagram THEN {"in"}
        ELSE IF f = sound /\ pcm = "xrun" THEN {"in", "err"}
        ELSE IF f = sound /\ pcm = "running" /\ avail > 0 THEN {"in"}
        ELSE {}]

LoopStep ==
    /\ Register \/ Start \/ Poll(Ready) \/ NextSlot \/ CallGarbage \/ SlotDone
    /\ UNCHANGED <<walkVars, inbox, pcm, avail>>

(* RtcpServer's UdpConnection::recv: the datagram is taken and walked over. *)
(* One without data counts as the end of the connection: the object is      *)
(* deleted, which unregisters its socket.  Without any datagram recv()      *)
(* would block.                                                             *)
RtcpReceives ==
    /\ Calling(rtcp)
    /\ inbox \notin {NoDatagram, NoData}
    /\ WalkFrom(inbox)
    /\ inbox' = NoDatagram
    /\ UNCHANGED <<loopVars, pcm, avail>>

RtcpWalks ==
    /\ Calling(rtcp)
    /\ WalkStep
    /\ UNCHANGED <<loopVars, inbox, pcm, avail>>

RtcpReturns ==
    /\ Calling(rtcp)
    /\ WalkEnd
    /\ ReturnToSlot
    /\ UNCHANGED <<inbox, pcm, avail>>

(* recv() fails: nobody catches the exception.                              *)
RtcpFails ==
    /\ Calling(rtcp)
    /\ at = "idle"
    /\ pc' = "thrown"
    /\ UNCHANGED <<slots, size, changed, done, idx, hitCnt, pending, walkVars, inbox, pcm, avail>>

RtcpEmpty ==
    /\ Calling(rtcp)
    /\ at = "idle"
    /\ inbox = NoData
    /\ inbox' = NoDatagram
    /\ ReturnUnregistered(rtcp)
    /\ UNCHANGED <<walkVars, pcm, avail>>

(* Capture::do_loop, which the read and the error callback both call.  The  *)
(* device is opened in blocking mode, so that snd_pcm_readi waits for a     *)
(* period; it starts a device that is prepared.                             *)
CaptureReads ==
    /\ Calling(sound)
    /\ pcm = "running" /\ avail > 0
    /\ avail' = avail - 1
    /\ ReturnToSlot
    /\ UNCHANGED <<walkVars, inbox, pcm>>

(* An error other than an overrun is logged.                                *)
CaptureFails ==
    /\ Calling(sound)
    /\ pcm = "running"
    /\ ReturnToSlot
    /\ UNCHANGED <<walkVars, inbox, pcm, avail>>

CaptureOverrun ==
    /\ Calling(sound)
    /\ pcm = "xrun"
    /\ pcm' = "prepared"
    /\ avail' = 0
    /\ ReturnToSlot
    /\ UNCHANGED <<walkVars, inbox>>

CaptureStarts ==
    /\ Calling(sound)
    /\ pcm = "prepared"
    /\ pcm' = "running"
    /\ UNCHANGED <<loopVars, walkVars, inbox, avail>>

(* The device's interrupt: another period is captured, or there is no room. *)
Tick ==
    /\ ~Ended
    /\ pcm = "running"
    /\ IF avail < Periods
       THEN avail' = avail + 1 /\ UNCHANGED pcm
       ELSE pcm' = "xrun" /\ UNCHANGED avail
    /\ UNCHANGED <<loopVars, walkVars, inbox>>

Arrives(d) ==
    /\ ~Ended
    /\ rtcp \in Registered
    /\ inbox = NoDatagram
    /\ inbox' = d
    /\ UNCHANGED <<loopVars, walkVars, pcm, avail>>

Process ==
    \/ LoopStep
    \/ RtcpReceives \/ RtcpWalks \/ RtcpReturns \/ RtcpFails \/ RtcpEmpty
    \/ CaptureReads \/ CaptureFails \/ CaptureOverrun \/ CaptureStarts

Next == Process \/ Tick \/ \E d \in Datagrams : Arrives(d)

Spec == Init /\ [][Next]_vars

(* The process runs and the device interrupts; nobody has to send RTCP.     *)
FairSpec == Spec /\ WF_vars(Process) /\ WF_vars(Tick)

(***************************************************************************)
(* Properties                                                               *)
(***************************************************************************)
(* What arrives on the RTCP socket is read, and walked to its end, however  *)
(* busy the device is, unless the process ends.                             *)
RtcpHandled ==
    /\ (inbox # NoDatagram) ~> (inbox = NoDatagram \/ Ended)
    /\ (at # "idle") ~> (at = "idle" \/ Ended)

(* An overrun that a poll reports is recovered from, unless the process     *)
(* ends: the read callback prepares the device and the error callback,      *)
(* called in the same visit, starts it again.  (Once an empty datagram has  *)
(* cost the process its RTCP socket, the slot that it leaves behind is      *)
(* visited as well, and takes the count of the device's.)                   *)
SeenOverrunRecovers ==
    [](inbox # NoData) => ((pc = "poll" /\ pcm = "xrun") ~> (pcm = "running" \/ Ended))

(* Capture goes on after any overrun while the process does: the sound is   *)
(* relayed.                                                                 *)
CaptureGoesOn == (pcm = "xrun") ~> (pcm = "running" \/ Ended)
===============================================================================
