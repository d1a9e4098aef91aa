--------------------------- MODULE SoundSetupProofs ---------------------------
(***************************************************************************)
(* What is heard is as fast as what was captured and fits the player, for   *)
(* any two sound devices, whatever rates and periods they can do.           *)
(***************************************************************************)
EXTENDS SoundSetup, TLAPS

(* A packet lasts as long as what was captured for it.                      *)
Measured(packet) ==
    /\ packet.duration \in FrameDurations
    /\ packet.captured.frames * 400 = packet.duration * packet.captured.rate

(* What was heard lasts as long as what was captured, and had room.         *)
Faithful(sound) ==
    /\ sound.captured.frames * sound.heard.rate = sound.heard.frames * sound.captured.rate
    /\ sound.heard.frames * Channels <= sound.room

(* The program's idea of the rate is the device's own, up to 16 bits, until *)
(* a codec is created for it; then it is exact.                             *)
RateKnown(s) ==
    /\ stage[s] \in {"run", "running", "mute"} =>
          rate[s] \in device[s].rates /\ mSampleRate[s] = Narrow(rate[s])
    /\ stage[s] = "running" => mSampleRate[s] \in OpusRates /\ codec[s] = mSampleRate[s]

IInv ==
    /\ TypeOK
    /\ \A s \in Sides : RateKnown(s)
    /\ stage["player"] = "running" => buffer["player"] = Longest * 2
    /\ sent # None => Measured(sent)
    /\ played # None => Faithful(played)

-------------------------------------------------------------------------------
(* A device whose rate is taken for one of Opus runs at that rate.          *)
LEMMA RunsAtCodecRate ==
    ASSUME IInv, NEW s \in Sides, stage[s] = "running"
    PROVE  codec[s] = rate[s] /\ codec[s] = mSampleRate[s] /\ rate[s] \in OpusRates
  <1>1. rate[s] \in device[s].rates /\ device[s] \in Devices /\ rate[s] \in Nat
    BY DEF IInv, TypeOK, RateKnown
  <1>2. rate[s] % ShortMod \in OpusRates
    BY DEF IInv, RateKnown, Narrow
  <1>3. rate[s] < ShortMod
    BY <1>1, <1>2, DevicesAssumption DEF DevicesAssumption
  <1>4. rate[s] % ShortMod = rate[s]
    BY <1>1, <1>3, SMT DEF ShortMod
  <1> QED
    BY <1>2, <1>4 DEF IInv, RateKnown, Narrow

(* The frames of a packet, decoded for a rate of Opus, are a whole number,  *)
(* and no more than "Opus says allow for".                                  *)
LEMMA FramesOfPacket ==
    ASSUME NEW duration \in FrameDurations, NEW r \in OpusRates
    PROVE  /\ (duration * r) \div 400 \in Nat
           /\ ((duration * r) \div 400) * 400 = duration * r
           /\ (duration * r) \div 400 <= (r * 120) \div 1000
  <1>1. CASE r = 8000
    BY <1>1, SMT DEF FrameDurations
  <1>2. CASE r = 12000
    BY <1>2, SMT DEF FrameDurations
  <1>3. CASE r = 16000
    BY <1>3, SMT DEF FrameDurations
  <1>4. CASE r = 24000
    BY <1>4, SMT DEF FrameDurations
  <1>5. CASE r = 48000
    BY <1>5, SMT DEF FrameDurations
  <1> QED
    BY <1>1, <1>2, <1>3, <1>4, <1>5, SMT DEF OpusRates

-------------------------------------------------------------------------------
(***************************************************************************)
(* The inductive invariant                                                  *)
(***************************************************************************)
LEMMA InitInv == ASSUME Init PROVE IInv
  <1>1. TypeOK
    BY SMT DEF Init, TypeOK, ShortMod
  <1>2. \A s \in Sides : RateKnown(s)
    BY SMT DEF Init, RateKnown
  <1> QED
    BY <1>1, <1>2, SMT DEF Init, IInv, Sides

LEMMA SetHwParamsInv ==
    ASSUME IInv, NEW s \in Sides, NEW time, SetHwParams(s, time)
    PROVE  IInv'
  <1>1. CASE /\ stage' = [stage EXCEPT ![s] = "dead"]
             /\ UNCHANGED <<rate, mSampleRate, periodSize>>
    <2>1. TypeOK'
      BY <1>1 DEF SetHwParams, IInv, TypeOK
    <2>2. \A o \in Sides : stage'[o] = "dead" \/ stage'[o] = stage[o]
      BY <1>1 DEF IInv, TypeOK
    <2>3. \A o \in Sides : RateKnown(o)'
      BY <1>1, <2>2 DEF SetHwParams, IInv, RateKnown
    <2> QED
      BY <1>1, <2>1, <2>2, <2>3 DEF SetHwParams, IInv, Longest, Sides, Measured, Faithful
  <1>2. ASSUME NEW r \in NearestRates(s), NEW p \in NearestPeriods(s, r, time),
               rate' = [rate EXCEPT ![s] = r],
               mSampleRate' = [mSampleRate EXCEPT ![s] = Narrow(r)],
               periodSize' = [periodSize EXCEPT ![s] = p],
               stage' = [stage EXCEPT ![s] = "run"]
        PROVE  IInv'
    <2>1. r \in device[s].rates /\ p \in device[s].periods /\ device[s] \in Devices
      BY SMT DEF NearestRates, NearestPeriods, IInv, TypeOK
    <2>2. r \in Nat /\ p \in Nat
      BY <2>1, DevicesAssumption DEF DevicesAssumption
    <2>3. Narrow(r) \in 0..(ShortMod - 1)
      BY <2>2, SMT DEF Narrow, ShortMod
    <2>4. TypeOK'
      BY <1>2, <2>2, <2>3 DEF SetHwParams, IInv, TypeOK
    <2>5. ASSUME NEW o \in Sides PROVE RateKnown(o)'
      <3>1. CASE o = s
        BY <1>2, <2>1, <3>1 DEF SetHwParams, IInv, TypeOK, RateKnown, Narrow
      <3>2. CASE o # s
        BY <1>2, <3>2 DEF SetHwParams, IInv, TypeOK, RateKnown, Narrow
      <3> QED
        BY <3>1, <3>2
    <2>6. stage'["player"] = "running" =>
              stage["player"] = "running" /\ mSampleRate'["player"] = mSampleRate["player"]
      BY <1>2 DEF IInv, TypeOK, Sides
    <2> QED
      BY <2>4, <2>5, <2>6 DEF SetHwParams, IInv, Longest, Measured, Faithful
  <1> QED
    BY <1>1, <1>2 DEF SetHwParams

LEMMA RunInv ==
    ASSUME IInv, NEW s \in Sides, NEW samples \in Nat, Run(s, samples),
           s = "player" => samples = Longest * 2
    PROVE  IInv'
  <1>1. TypeOK'
    BY DEF Run, IInv, TypeOK
  <1>2. ASSUME NEW o \in Sides PROVE RateKnown(o)'
    <2>1. CASE o = s
      BY <2>1 DEF Run, IInv, TypeOK, RateKnown, Narrow
    <2>2. CASE o # s
      BY <2>2 DEF Run, IInv, TypeOK, RateKnown, Narrow
    <2> QED
      BY <2>1, <2>2
  <1>3. (stage["player"] = "running" => buffer["player"] = Longest * 2)'
    <2>1. Longest' = Longest
      BY DEF Run, Longest
    <2>2. CASE s = "player"
      BY <2>1, <2>2 DEF Run, IInv, TypeOK
    <2>3. CASE s = "relay"
      BY <2>1, <2>3 DEF Run, IInv, TypeOK, Sides
    <2> QED
      BY <2>2, <2>3 DEF Sides
  <1> QED
    BY <1>1, <1>2, <1>3 DEF Run, IInv, Measured, Faithful

LEMMA CaptureLoopInv == ASSUME IInv, CaptureLoop PROVE IInv'
  <1>1. "relay" \in Sides /\ periodSize["relay"] \in Nat /\ rate["relay"] \in Nat
    BY DEF IInv, TypeOK, Sides
  <1>2. codec["relay"] = rate["relay"]
    BY <1>1, RunsAtCodecRate DEF CaptureLoop
  <1>3. CASE sent' = None
    <2>1. TypeOK'
      BY <1>3 DEF CaptureLoop, IInv, TypeOK
    <2> QED
      BY <1>3, <2>1 DEF CaptureLoop, IInv, RateKnown, Longest, Measured, Faithful
  <1>4. ASSUME NEW k \in Encodable(periodSize["relay"]),
               sent' = [duration |-> k,
                        captured |-> [frames |-> periodSize["relay"], rate |-> rate["relay"]]]
        PROVE  IInv'
    <2>1. k \in FrameDurations /\ periodSize["relay"] * 400 = k * rate["relay"] /\ k \in Nat
      BY <1>2 DEF Encodable, FrameDurations
    <2>2. Measured(sent')
      BY <1>4, <2>1 DEF Measured
    <2>3. sent' \in [duration: Nat, captured: SoundType]
      BY <1>1, <1>4, <2>1 DEF SoundType
    <2>4. TypeOK'
      BY <2>3 DEF CaptureLoop, IInv, TypeOK
    <2> QED
      BY <2>2, <2>4 DEF CaptureLoop, IInv, RateKnown, Longest, Measured, Faithful
  <1> QED
    BY <1>3, <1>4 DEF CaptureLoop

(* What the player's decoder makes of a packet.                             *)
LEMMA DecodedFits ==
    ASSUME IInv, sent # None, stage["player"] = "running"
    PROVE  /\ (sent.duration * codec["player"]) \div 400 \in Nat
           /\ ((sent.duration * codec["player"]) \div 400) * 400 = sent.duration * rate["player"]
           /\ (sent.duration * codec["player"]) \div 400 <= Longest
           /\ Longest \in Nat
  <1>1. /\ codec["player"] = rate["player"] /\ mSampleRate["player"] = rate["player"]
        /\ rate["player"] \in OpusRates
    BY RunsAtCodecRate DEF Sides
  <1>2. sent.duration \in FrameDurations
    BY DEF IInv, Measured
  <1>3. Longest = (rate["player"] * 120) \div 1000
    BY <1>1 DEF Longest
  <1>4. Longest \in Nat
    BY <1>1, <1>3, SMT DEF OpusRates
  <1> QED
    BY <1>1, <1>2, <1>3, <1>4, FramesOfPacket

(* Frames that last equally long at two rates.                              *)
LEMMA SameSpeed ==
    ASSUME NEW duration \in Nat, NEW captured \in Nat, NEW heard \in Nat, NEW from \in Nat,
           NEW at \in OpusRates,
           captured * 400 = duration * from, heard * 400 = duration * at
    PROVE  captured * at = heard * from
  <1>1. CASE at = 8000
    BY <1>1, SMT
  <1>2. CASE at = 12000
    BY <1>2, SMT
  <1>3. CASE at = 16000
    BY <1>3, SMT
  <1>4. CASE at = 24000
    BY <1>4, SMT
  <1>5. CASE at = 48000
    BY <1>5, SMT
  <1> QED
    BY <1>1, <1>2, <1>3, <1>4, <1>5, SMT DEF OpusRates

LEMMA ReplayWriteInv == ASSUME IInv, ReplayWrite PROVE IInv'
  <1>1. CASE stage["player"] = "running"
    <2> DEFINE frames == (sent.duration * codec["player"]) \div 400
               sound == [captured |-> sent.captured,
                         heard |-> [frames |-> frames, rate |-> rate["player"]],
                         room |-> buffer["player"]]
    <2>1. /\ frames \in Nat /\ frames * 400 = sent.duration * rate["player"]
          /\ frames <= Longest /\ Longest \in Nat
      BY <1>1, DecodedFits DEF ReplayWrite
    <2>2. /\ sent \in [duration: Nat, captured: SoundType] /\ Measured(sent)
          /\ rate["player"] \in OpusRates /\ rate["player"] \in Nat
          /\ buffer["player"] = Longest * 2 /\ buffer["player"] \in Nat
      BY <1>1, RunsAtCodecRate DEF ReplayWrite, IInv, TypeOK, Sides
    <2> HIDE DEF frames
    <2>3. sent.captured.frames * rate["player"] = frames * sent.captured.rate
      <3>1. /\ sent.duration \in Nat /\ sent.captured.frames \in Nat
            /\ sent.captured.rate \in Nat
            /\ sent.captured.frames * 400 = sent.duration * sent.captured.rate
        BY <2>2 DEF Measured, SoundType
      <3> DEFINE d == sent.duration
                 c == sent.captured.frames
                 f == sent.captured.rate
                 a == rate["player"]
      <3>2. /\ d \in Nat /\ c \in Nat /\ f \in Nat /\ a \in OpusRates
            /\ c * 400 = d * f /\ frames * 400 = d * a
        BY <2>1, <2>2, <3>1
      <3> HIDE DEF d, c, f, a
      <3>3. c * a = frames * f
        BY <2>1, <3>2, SameSpeed
      <3> QED
        BY <3>3 DEF c, f, a
    <2>4. Faithful(sound)
      BY <2>1, <2>2, <2>3 DEF Faithful, Channels
    <2>5. sound \in [captured: SoundType, heard: SoundType, room: Nat]
      BY <2>1, <2>2 DEF SoundType
    <2>6. played' = sound /\ stage' = stage
      BY <1>1, <2>1 DEF ReplayWrite, frames
    <2> HIDE DEF sound
    <2>7. TypeOK'
      BY <2>5, <2>6 DEF ReplayWrite, IInv, TypeOK
    <2> QED
      BY <2>4, <2>6, <2>7 DEF ReplayWrite, IInv, RateKnown, Longest, Measured, Faithful
  <1>2. CASE stage["player"] = "mute"
    <2>1. stage' = [stage EXCEPT !["player"] = "dead"] /\ played' = played
      BY <1>2 DEF ReplayWrite
    <2>2. TypeOK'
      BY <2>1 DEF ReplayWrite, IInv, TypeOK
    <2>3. \A o \in Sides : stage'[o] = "dead" \/ stage'[o] = stage[o]
      BY <2>1 DEF IInv, TypeOK
    <2>4. \A o \in Sides : RateKnown(o)'
      BY <2>3 DEF ReplayWrite, IInv, RateKnown
    <2>5. stage'["player"] # "running"
      BY <2>1 DEF IInv, TypeOK, Sides
    <2> QED
      BY <2>1, <2>2, <2>4, <2>5 DEF ReplayWrite, IInv, Measured, Faithful
  <1> QED
    BY <1>1, <1>2 DEF ReplayWrite

LEMMA StutterInv == ASSUME IInv, UNCHANGED vars PROVE IInv'
  BY DEF IInv, TypeOK, RateKnown, Longest, Measured, Faithful, vars

THEOREM Inductive == Spec => []IInv
  <1>1. Init => IInv
    BY InitInv
  <1>2. ASSUME IInv, [Next]_vars PROVE IInv'
    <2>1. periodSize["relay"] * Channels \in Nat
      BY <1>2 DEF IInv, TypeOK, Sides, Channels
    <2>2. Longest * 2 \in Nat
      <3>1. mSampleRate["player"] \in Nat
        <4>1. mSampleRate["player"] \in 0..(ShortMod - 1)
          BY <1>2 DEF IInv, TypeOK, Sides
        <4> QED
          BY <4>1
      <3>2. (mSampleRate["player"] * 120) \div 1000 \in Nat
        BY <3>1, SMT
      <3> QED
        BY <3>2 DEF Longest
    <2>3. CASE CaptureSetHwParams
      BY <1>2, <2>3, SetHwParamsInv DEF CaptureSetHwParams, Sides
    <2>4. CASE CaptureRun
      BY <1>2, <2>1, <2>4, RunInv DEF CaptureRun, Sides
    <2>5. CASE CaptureLoop
      BY <1>2, <2>5, CaptureLoopInv
    <2>6. CASE ReplaySetHwParams
      BY <1>2, <2>6, SetHwParamsInv DEF ReplaySetHwParams, Sides
    <2>7. CASE ReplayRun
      BY <1>2, <2>2, <2>7, RunInv DEF ReplayRun, Sides
    <2>8. CASE ReplayWrite
      BY <1>2, <2>8, ReplayWriteInv
    <2>9. CASE UNCHANGED vars
      BY <1>2, <2>9, StutterInv
    <2> QED
      BY <1>2, <2>3, <2>4, <2>5, <2>6, <2>7, <2>8, <2>9 DEF Next
  <1> QED
    BY <1>1, <1>2, PTL DEF Spec

-------------------------------------------------------------------------------
(***************************************************************************)
(* The theorems                                                             *)
(***************************************************************************)
(* The variables keep their types.                                          *)
THEOREM TypeCorrect == Spec => []TypeOK
  <1>1. IInv => TypeOK
    BY DEF IInv
  <1> QED
    BY <1>1, Inductive, PTL

(* Neither pitch nor speed changes between any two devices, although the    *)
(* two processes never exchange their rates (Capture::set_hw_params and     *)
(* Replay::set_hw_params).                                                  *)
THEOREM SpeedKept == Spec => []PlaysAtSpeed
  <1>1. IInv => PlaysAtSpeed
    BY DEF IInv, Faithful, PlaysAtSpeed
  <1> QED
    BY <1>1, Inductive, PTL

(* The player's buffer has room for every packet that any relay can send    *)
(* (Replay::write).                                                         *)
THEOREM RoomForAll == Spec => []FitsPlayer
  <1>1. IInv => FitsPlayer
    BY DecodedFits DEF IInv, Faithful, FitsPlayer
  <1> QED
    BY <1>1, Inductive, PTL
===============================================================================
