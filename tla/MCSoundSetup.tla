----------------------------- MODULE MCSoundSetup -----------------------------
(***************************************************************************)
(* Instances of SoundSetup for TLC.                                         *)
(***************************************************************************)
EXTENDS SoundSetup

(* Devices of one and of several rates, among them rates that Opus does not *)
(* have and one beyond 16 bits, with periods of 2.5 to 120 ms of some rate  *)
(* and periods that are powers of two.                                      *)
RateChoices   == {{8000}, {24000}, {48000}, {44100}, {96000}, {16000, 44100}, {44100, 48000}}
PeriodChoices == {{80, 240, 480}, {2880}, {5760}, {256, 1024}, {441, 480, 512}}

AllDevices == [rates: RateChoices, periods: PeriodChoices]

(* A device at 48000 whose periods are powers of two.                       *)
PowersOfTwo == {[rates |-> {48000}, periods |-> {256, 512, 1024}]}
===============================================================================
