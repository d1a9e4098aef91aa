------------------------------ MODULE SoundSetup ------------------------------
(***************************************************************************)
(* What Capture and Replay (src/c_src) agree on with their sound devices,   *)
(* and what becomes of a period of sound on its way from one device to the  *)
(* other: sample rates, period sizes, buffers and Opus frames.  The devices *)
(* and Opus are external.                                                   *)
(***************************************************************************)
EXTENDS Integers, FiniteSets

CONSTANTS
    Devices,   \* sound devices, by the rates and period sizes they can do
    None       \* no encoder, no decoder, nothing played yet

Sides == {"relay", "player"}

OpusRates == {8000, 12000, 16000, 24000, 48000}

(* As many values as mSampleRate, a uint16_t, can have.                     *)
ShortMod == 65536

(* Rates are far from where 16 bits would turn one into a rate of Opus.     *)
ASSUME DevicesAssumption ==
    /\ Devices \subseteq [rates: SUBSET Nat, periods: SUBSET Nat]
    /\ \A d \in Devices :
          /\ d.rates # {} /\ d.periods # {}
          /\ IsFiniteSet(d.rates) /\ IsFiniteSet(d.periods)
          /\ \A r \in d.rates : r % ShortMod \in OpusRates => r < ShortMod
    /\ None \notin Nat

VARIABLES
    device,      \* device[s]: the sound device of side s
    rate,        \* rate[s]: the rate that the device runs at, 0 before it is set
    mSampleRate, \* mSampleRate[s]: what the program takes it to be
    periodSize,  \* periodSize[s]: mPeriodSize and m_periodSize, in frames
    codec,       \* codec[s]: the rate of the encoder or decoder, or None
    buffer,      \* buffer[s]: samples that mpBuffer has room for
    stage,       \* stage[s]: "params", "run", "running", "mute" or "dead"
    sent,        \* the last packet: its duration in units of 2.5 ms and what
                 \* was captured for it, or None
    played       \* what the last packet became, or None

vars == <<device, rate, mSampleRate, periodSize, codec, buffer, stage, sent, played>>

Channels == 2

(* So many frames at a device that runs at a rate.                          *)
SoundType == [frames: Nat, rate: Nat]

TypeOK ==
    /\ device \in [Sides -> Devices]
    /\ rate \in [Sides -> Nat]
    /\ mSampleRate \in [Sides -> 0..(ShortMod - 1)]
    /\ periodSize \in [Sides -> Nat]
    /\ codec \in [Sides -> OpusRates \cup {None}]
    /\ buffer \in [Sides -> Nat]
    /\ stage \in [Sides -> {"params", "run", "running", "mute", "dead"}]
    /\ sent \in [duration: Nat, captured: SoundType] \cup {None}
    /\ played \in [captured: SoundType, heard: SoundType, room: Nat] \cup {None}

Init ==
    /\ device \in [Sides -> Devices]
    /\ rate = [s \in Sides |-> 0]
    /\ mSampleRate = [s \in Sides |-> 48000]
    /\ periodSize = [s \in Sides |-> 0]
    /\ codec = [s \in Sides |-> None]
    /\ buffer = [s \in Sides |-> 0]
    /\ stage = [s \in Sides |-> "params"]
    /\ sent = None
    /\ played = None

(***************************************************************************)
(* Agreeing with the device                                                 *)
(***************************************************************************)
Distance(a, b) == IF a < b THEN b - a ELSE a - b

(* snd_pcm_hw_params_set_rate_near, without resampling.                     *)
NearestRates(s) ==
    {r \in device[s].rates :
        \A other \in device[s].rates : Distance(r, mSampleRate[s]) <= Distance(other, mSampleRate[s])}

(* snd_pcm_hw_params_set_period_time_near with a time in microseconds.      *)
NearestPeriods(s, r, time) ==
    LET Error(p) == Distance(p * (1000000 \div 100), (r \div 100) * time)
    IN  {p \in device[s].periods : \A other \in device[s].periods : Error(p) <= Error(other)}

(* Mutant of Narrow: the member is signed.                                  *)
Narrow_Signed(val) == ((val + ShortMod \div 2) % ShortMod) - ShortMod \div 2

(* Mutant of Narrow: the member keeps the rate that was asked for.          *)
Narrow_Wish(val) == 48000

(* What a uint16_t keeps.                                                   *)
Narrow(val) == val % ShortMod

(* ALSA grants what is nearest to a wish, or refuses a parameter and ends   *)
(* the process with an exception.  The program does not look at how near.   *)
SetHwParams(s, time) ==
    /\ stage[s] = "params"
    /\ \/ /\ stage' = [stage EXCEPT ![s] = "dead"]
          /\ UNCHANGED <<rate, mSampleRate, periodSize>>
       \/ \E r \in NearestRates(s) : \E p \in NearestPeriods(s, r, time) :
             /\ rate' = [rate EXCEPT ![s] = r]
             /\ mSampleRate' = [mSampleRate EXCEPT ![s] = Narrow(r)]
             /\ periodSize' = [periodSize EXCEPT ![s] = p]
             /\ stage' = [stage EXCEPT ![s] = "run"]
    /\ UNCHANGED <<device, codec, buffer, sent, played>>

(* mPeriodTime * 1000, from Capture's constructor.                          *)
CaptureSetHwParams == SetHwParams("relay", 10 * 1000)

ReplaySetHwParams == SetHwParams("player", 10000)

(***************************************************************************)
(* Running                                                                  *)
(***************************************************************************)
(* A codec is created for the program's idea of the rate, or not at all.    *)
(* Capture then stays out of the event loop.                                *)
Run(s, samples) ==
    /\ stage[s] = "run"
    /\ buffer' = [buffer EXCEPT ![s] = samples]
    /\ IF mSampleRate[s] \in OpusRates
       THEN /\ codec' = [codec EXCEPT ![s] = mSampleRate[s]]
            /\ stage' = [stage EXCEPT ![s] = "running"]
       ELSE /\ stage' = [stage EXCEPT ![s] = "mute"]
            /\ UNCHANGED codec
    /\ UNCHANGED <<device, rate, mSampleRate, periodSize, sent, played>>

CaptureRun == Run("relay", periodSize["relay"] * Channels)

(* Mutant of Longest: room for as much as the player's own period.          *)
Longest_OwnPeriod == (mSampleRate["player"] * 10) \div 1000

(* "Opus says allow for 120 ms": the frames that write() lets the decoder   *)
(* fill.                                                                    *)
Longest == (mSampleRate["player"] * 120) \div 1000

ReplayRun == Run("player", Longest * 2)

(* opus_encode takes frames of 2.5, 5, 10, 20, 40 and 60 ms, and since      *)
(* libopus 1.2 of 80, 100 and 120 ms; here counted in the shortest of them. *)
FrameDurations == {1, 2, 4, 8, 16, 24, 32, 40, 48}

Encodable(frames) == {k \in FrameDurations : frames * 400 = k * codec["relay"]}

(* do_loop: a whole period is read and encoded.  When the encoder refuses,  *)
(* what leaves is no packet that a decoder would take.                      *)
CaptureLoop ==
    /\ stage["relay"] = "running"
    /\ \/ \E k \in Encodable(periodSize["relay"]) :
             sent' = [duration |-> k,
                      captured |-> [frames |-> periodSize["relay"], rate |-> rate["relay"]]]
       \/ /\ Encodable(periodSize["relay"]) = {}
          /\ sent' = None
    /\ UNCHANGED <<device, rate, mSampleRate, periodSize, codec, buffer, stage, played>>

(* write(): the frames that the decoder returns go to the device.  Without  *)
(* a decoder the first packet ends the process.                             *)
ReplayWrite ==
    /\ sent # None
    /\ sent' = None
    /\ \/ /\ stage["player"] = "running"
          /\ LET frames == (sent.duration * codec["player"]) \div 400 IN
             played' = IF frames > Longest THEN None
                       ELSE [captured |-> sent.captured,
                             heard |-> [frames |-> frames, rate |-> rate["player"]],
                             room |-> buffer["player"]]
          /\ UNCHANGED stage
       \/ /\ stage["player"] = "mute"
          /\ stage' = [stage EXCEPT !["player"] = "dead"]
          /\ UNCHANGED played
    /\ UNCHANGED <<device, rate, mSampleRate, periodSize, codec, buffer>>

Next ==
    \/ CaptureSetHwParams \/ CaptureRun \/ CaptureLoop
    \/ ReplaySetHwParams \/ ReplayRun \/ ReplayWrite

Spec == Init /\ [][Next]_vars

(* Both processes run.                                                      *)
FairSpec ==
    /\ Spec
    /\ WF_vars(CaptureSetHwParams \/ CaptureRun \/ CaptureLoop)
    /\ WF_vars(ReplaySetHwParams \/ ReplayRun \/ ReplayWrite)

(***************************************************************************)
(* Properties                                                               *)
(***************************************************************************)
(* What is heard takes as long as what was captured, whatever rates the two *)
(* devices run at: neither pitch nor speed changes on the way.              *)
PlaysAtSpeed ==
    played # None =>
        played.captured.frames * played.heard.rate = played.heard.frames * played.captured.rate

(* No frame that a relay can send, from any device, is too long for the     *)
(* player: what was decoded fits its buffer, and is played.                 *)
FitsPlayer ==
    /\ played # None => played.heard.frames * Channels <= played.room
    /\ sent # None /\ stage["player"] = "running" =>
          (sent.duration * codec["player"]) \div 400 <= Longest

(* Devices that can do a rate of Opus and ten milliseconds are heard, if    *)
(* ALSA does not refuse a parameter.                                        *)
Good(s) ==
    \E r \in OpusRates :
        device[s].rates = {r} /\ (r \div 100) \in device[s].periods

GoodDevicesPlay ==
    (\A s \in Sides : Good(s)) ~> (played # None \/ \E s \in Sides : stage[s] = "dead")

(* "frames can only be 120,240,480 or 960 @ 48000" (Capture::do_loop).      *)
FramesAreOpusFrames ==
    stage["relay"] = "running" /\ mSampleRate["relay"] = 48000 =>
        periodSize["relay"] \in {120, 240, 480, 960}
===============================================================================
