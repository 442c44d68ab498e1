------------------------------- MODULE Vibrator -------------------------------
(***************************************************************************)
(* The vibrator HAL (vibrator/Vibrator.cpp, impl.cpp).  A call is a series *)
(* of writes to sysfs attributes of the haptics driver, each through a     *)
(* stream of its own.  A std::ofstream whose write failed drops every      *)
(* later write, so a failure stays until the process is restarted, while   *)
(* the driver keeps what it was told across restarts.  The service has one *)
(* thread (recovery/vibrator/service.cpp): calls do not overlap.           *)
(*                                                                         *)
(* External: the driver, which starts to play with the index, duration and *)
(* scale it holds when activate is written, and stops by itself; init,     *)
(* which restarts the service; the enumerations of IVibrator.              *)
(***************************************************************************)
EXTENDS Integers, Sequences

CONSTANTS
  Timeouts,     \* milliseconds a client asks for
  Performs,     \* calls of perform, perform_1_1 and perform_1_2 a client makes
  Amplitudes,   \* amplitudes a client asks for, beside the three of perform
  Attenuation,  \* Attenuation[a]: round(-20 * log10(a / 255) / 0.125)
  Word          \* numbers of a uint32_t

CLICK == 0
DOUBLE_CLICK == 1
TICK == 2
HEAVY_CLICK == 5
RINGTONE_1 == 6
RINGTONE_12 == 17
RINGTONE_15 == 20

UINT8_MAX == 255
UsedAmplitudes == Amplitudes \cup {UINT8_MAX \div 3, UINT8_MAX \div 2, UINT8_MAX}

ASSUME VibratorAssumption ==
  /\ Timeouts \subseteq 0 .. Word - 1
  /\ Amplitudes \subseteq 0 .. UINT8_MAX
  /\ Attenuation \in [UsedAmplitudes \ {0} -> Nat]
  /\ Word \in Nat /\ Word > 30000

Call(op, n, strength) == [op |-> op, n |-> n, strength |-> strength]

Streams == {"mActivate", "mDuration", "mEffectIndex", "mEffectQueue", "mScale"}
Strengths == {"LIGHT", "MEDIUM", "STRONG", "invalid"}
Interfaces == {"perform", "perform_1_1", "perform_1_2"}

(* Effects are numbered as in IVibrator 1.2.                               *)
ASSUME PerformsAssumption == Performs \subseteq [op : Interfaces, n : Nat, strength : Strengths]

VARIABLES
  good,         \* the streams without failbit
  attribute,    \* attribute[s]: what the driver was last told through s
  playing,      \* the driver vibrates
  call,         \* the call in progress, or the last one
  todo,         \* the writes it has still to make
  told,         \* the milliseconds it reports
  answer        \* what its caller was told; "none" while it is in progress

device == <<attribute, playing>>
vars == <<good, attribute, playing, call, todo, told, answer>>

NoCall == Call("none", 0, "invalid")

Calls == {Call("on", t, "invalid") : t \in Timeouts}
           \cup {Call(op, 0, "invalid") : op \in {"off", "supportsAmplitudeControl"}}
           \cup {Call("setAmplitude", a, "invalid") : a \in Amplitudes}
           \cup Performs

Answers == {"none", "OK", "UNKNOWN_ERROR", "BAD_VALUE", "UNSUPPORTED_OPERATION", "TRUE", "FALSE"}

Write(s, v) == [stream |-> s, value |-> v]

TypeOK == /\ good \subseteq Streams
          /\ attribute \in [Streams -> Nat]
          /\ playing \in BOOLEAN
          /\ call \in Calls \cup {NoCall}
          /\ todo \in Seq([stream : Streams, value : Nat])
          /\ told \in 0 .. Word - 1
          /\ answer \in Answers

-----------------------------------------------------------------------------
(* What a call writes.                                                     *)

MAX_TRIGGER_LATENCY_MS == 6

(* Mutant: the driver is started before it is told what to play.           *)
On_early(timeoutMs, effectIndex) ==
  << Write("mActivate", 1), Write("mEffectIndex", effectIndex),
     Write("mDuration", (timeoutMs + MAX_TRIGGER_LATENCY_MS) % Word) >>

On(timeoutMs, effectIndex) ==
  << Write("mEffectIndex", effectIndex),
     Write("mDuration", (timeoutMs + MAX_TRIGGER_LATENCY_MS) % Word),
     Write("mActivate", 1) >>

(* amplitudeToScale returns a uint8_t.  For amplitudes below 7 the value   *)
(* does not fit, and the conversion from double is undefined: a build may  *)
(* keep the low eight bits, or leave the check of the range out.           *)
AmplitudeToScale(amplitude) ==
  {Attenuation[amplitude]} \cup {Attenuation[amplitude] % 256}

IsPerform(c) == c.op \in Interfaces
IsRingtone(effect) == effect \in RINGTONE_1 .. RINGTONE_15

(* hidl_enum_range of the interface's version.                             *)
InRange(c) == c.n <= CASE c.op = "perform" -> DOUBLE_CLICK
                       [] c.op = "perform_1_1" -> TICK
                       [] OTHER -> RINGTONE_15

HasWaveform(effect) == effect \in {CLICK, DOUBLE_CLICK, TICK, HEAVY_CLICK}
                                    \cup RINGTONE_1 .. RINGTONE_12
Supported(c) == InRange(c) /\ HasWaveform(c.n)
Accepted(c) == Supported(c) /\ c.strength # "invalid"

Waveform(effect) == CASE effect = TICK -> 2
                      [] effect = CLICK -> 3
                      [] effect = HEAVY_CLICK -> 4
                      [] effect = DOUBLE_CLICK -> 7

Step(strength) == CASE strength = "LIGHT" -> -1 [] strength = "STRONG" -> 1 [] OTHER -> 0

(* Mutant: the waveforms are numbered from 0.                              *)
EffectIndex_zero(c) == IF IsRingtone(c.n) THEN 65534 ELSE Waveform(c.n) - 2 + Step(c.strength)

EffectIndex(c) == IF IsRingtone(c.n) THEN 65534 ELSE Waveform(c.n) + Step(c.strength)

TimeMs(c) == CASE IsRingtone(c.n) -> 30000
               [] c.n = DOUBLE_CLICK -> 130 + MAX_TRIGGER_LATENCY_MS
               [] c.n = HEAVY_CLICK /\ c.strength = "STRONG" -> 12 + MAX_TRIGGER_LATENCY_MS
               [] OTHER -> 9 + MAX_TRIGGER_LATENCY_MS

Amplitude(c) == CASE IsRingtone(c.n) /\ c.strength = "LIGHT" -> UINT8_MAX \div 3
                  [] IsRingtone(c.n) /\ c.strength = "MEDIUM" -> UINT8_MAX \div 2
                  [] OTHER -> UINT8_MAX

(* The queue of a ringtone is written before its strength is looked at.    *)
QueueWrites(c) == IF Supported(c) /\ IsRingtone(c.n) THEN <<Write("mEffectQueue", c.n)>> ELSE <<>>

PerformWrites(c, scale) ==
  QueueWrites(c) \o (IF Accepted(c) THEN <<Write("mScale", scale)>> \o On(TimeMs(c), EffectIndex(c))
                                    ELSE <<>>)

(* The amplitude a call sets; 0: none.                                     *)
SetsAmplitude(c) == CASE c.op = "setAmplitude" -> c.n
                      [] IsPerform(c) /\ Accepted(c) -> Amplitude(c)
                      [] OTHER -> 0

Scales(c) == IF SetsAmplitude(c) = 0 THEN {0} ELSE AmplitudeToScale(SetsAmplitude(c))

Writes(c, scale) == CASE c.op = "on" -> On(c.n, 0)
                      [] c.op = "off" -> <<Write("mActivate", 0)>>
                      [] c.op = "setAmplitude" /\ c.n # 0 -> <<Write("mScale", scale)>>
                      [] IsPerform(c) -> PerformWrites(c, scale)
                      [] OTHER -> <<>>

-----------------------------------------------------------------------------
(* Whatever an earlier process or the kernel left, the driver is silent.   *)
Init == /\ good \in SUBSET Streams
        /\ attribute = [s \in Streams |-> 0]
        /\ playing = FALSE
        /\ call = NoCall /\ todo = <<>> /\ told = 0 /\ answer = "OK"

Begin(c) == /\ answer # "none"
            /\ call' = c
            /\ \E scale \in Scales(c) : todo' = Writes(c, scale)
            /\ told' = IF IsPerform(c) /\ Accepted(c) THEN TimeMs(c) ELSE 0
            /\ answer' = "none"
            /\ UNCHANGED <<good, device>>

Stored(w) == /\ attribute' = [attribute EXCEPT ![w.stream] = w.value]
             /\ playing' = IF w.stream = "mActivate" THEN w.value = 1 ELSE playing
             /\ UNCHANGED good

(* The write fails, or is not made because an earlier one failed.          *)
Dropped(w) == good' = good \ {w.stream} /\ UNCHANGED device

NextWrite == /\ todo # <<>>
             /\ \/ Head(todo).stream \in good /\ Stored(Head(todo))
                \/ Dropped(Head(todo))
             /\ todo' = Tail(todo)
             /\ UNCHANGED <<call, told, answer>>

(* Mutant: the stream is not looked at.                                    *)
StatusOf_blind(s) == "OK"

StatusOf(s) == IF s \in good THEN "OK" ELSE "UNKNOWN_ERROR"

(* on() and perform do not look at their streams.                          *)
Status(c) == CASE c.op = "off" -> StatusOf("mActivate")
               [] c.op = "supportsAmplitudeControl" -> IF "mScale" \in good THEN "TRUE" ELSE "FALSE"
               [] c.op = "setAmplitude" -> IF c.n = 0 THEN "BAD_VALUE" ELSE StatusOf("mScale")
               [] IsPerform(c) /\ ~Accepted(c) -> "UNSUPPORTED_OPERATION"
               [] OTHER -> "OK"

Return == /\ answer = "none" /\ todo = <<>>
          /\ answer' = Status(call)
          /\ UNCHANGED <<good, device, call, todo, told>>

(* The duration has passed.                                                *)
Ends == /\ playing
        /\ playing' = FALSE
        /\ UNCHANGED <<good, attribute, call, todo, told, answer>>

(* The process dies, at any write, and a new one opens its streams; each   *)
(* may fail to open, which is only logged.                                 *)
Restart == /\ good' \in SUBSET Streams
           /\ call' = NoCall /\ todo' = <<>> /\ told' = 0 /\ answer' = "OK"
           /\ UNCHANGED device

Next == \/ \E c \in Calls : Begin(c)
        \/ NextWrite \/ Return \/ Ends \/ Restart

Spec == Init /\ [][Next]_vars

-----------------------------------------------------------------------------
(* The driver holds exactly what a call that starts it asks for: its       *)
(* waveform, for the time the caller is told and the start-up, at its      *)
(* strength, and for a ringtone its queue.                                 *)
Asked(c) == IF c.op = "on"
              THEN /\ attribute["mEffectIndex"] = 0
                   /\ attribute["mDuration"] = (c.n + MAX_TRIGGER_LATENCY_MS) % Word
              ELSE /\ attribute["mEffectIndex"] = EffectIndex(c)
                   /\ attribute["mDuration"] = (told + MAX_TRIGGER_LATENCY_MS) % Word
                   /\ attribute["mScale"] \in AmplitudeToScale(Amplitude(c))
                   /\ IsRingtone(c.n) => attribute["mEffectQueue"] = c.n

(* Each time the driver is started while no stream has failed it plays one *)
(* request: nothing is left of an earlier one, of a refused one or of one  *)
(* that a restart cut short.                                               *)
Started == /\ todo # <<>> /\ Head(todo) = Write("mActivate", 1)
           /\ todo' = Tail(todo) /\ answer' = "none"
OneRequest == [][Started /\ good' = Streams => Asked(call)]_vars

(* What a caller is told of off and setAmplitude is what the driver holds, *)
(* whatever failed and was restarted before: after OK the vibration has    *)
(* ended, or the scale is the one asked for if it fits a byte.             *)
AnswersTrue ==
  answer = "OK" =>
    /\ call.op = "off" => ~playing
    /\ call.op = "setAmplitude" /\ Attenuation[call.n] < 256 => attribute["mScale"] = Attenuation[call.n]
=============================================================================
