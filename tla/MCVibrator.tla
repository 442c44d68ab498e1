------------------------------ MODULE MCVibrator ------------------------------
(* Effects in and out of the range of an interface, without a waveform,    *)
(* two ringtones and one without a queue, with and without a valid         *)
(* strength; an amplitude that fits a byte, one that does not, none, and a  *)
(* timeout that wraps.                                                     *)
EXTENDS Vibrator

MCTimeouts == {Word - 1}
MCPerforms == { Call("perform", TICK, "LIGHT"), Call("perform_1_1", TICK, "STRONG"),
                Call("perform_1_2", TICK, "LIGHT"), Call("perform_1_2", 3, "LIGHT"),
                Call("perform_1_2", RINGTONE_1, "LIGHT"), Call("perform_1_2", RINGTONE_1, "invalid"),
                Call("perform_1_2", RINGTONE_12, "STRONG"),
                Call("perform_1_2", RINGTONE_15, "MEDIUM") }
MCAmplitudes == {0, 6, 127}
MCAttenuation == [a \in {6, 85, 127, 255} |-> CASE a = 6 -> 261 [] a = 85 -> 76
                                                [] a = 127 -> 48 [] a = 255 -> 0]
=============================================================================
