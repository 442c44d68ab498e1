---------------------------- MODULE VibratorProofs ----------------------------
(***************************************************************************)
(* Proofs about the vibrator HAL, for any amplitudes, timeouts and calls   *)
(* of perform, any writes that fail and any restarts of the service.       *)
(***************************************************************************)
EXTENDS Vibrator, TLAPS, SequenceTheorems

-----------------------------------------------------------------------------
(* The writes of a call, as tuples.                                        *)

Writing == [stream : Streams, value : Nat]

LEMMA Concat4 ==
  ASSUME NEW m, NEW a, NEW b, NEW c
  PROVE  <<m>> \o <<a, b, c>> = <<m, a, b, c>>
<1>. DEFINE S == {m, a, b, c}
            s == <<m>> \o <<a, b, c>>
            t == <<m, a, b, c>>
<1>1. <<m>> \in Seq(S) /\ <<a, b, c>> \in Seq(S) /\ t \in Seq(S) /\ Len(t) = 4
  OBVIOUS
<1>2. s \in Seq(S) /\ Len(s) = 4 /\ s[1] = m /\ s[2] = a /\ s[3] = b /\ s[4] = c
  BY <1>1
<1>3. \A i \in 1 .. Len(s) : s[i] = t[i]
  BY <1>2
<1>. HIDE DEF s, t, S
<1>4. s = t
  BY <1>1, <1>2, <1>3, SeqEqual
<1>5. QED
  BY <1>4 DEF s, t

LEMMA Concat5 ==
  ASSUME NEW q, NEW m, NEW a, NEW b, NEW c
  PROVE  <<q>> \o <<m, a, b, c>> = <<q, m, a, b, c>>
<1>. DEFINE S == {q, m, a, b, c}
            s == <<q>> \o <<m, a, b, c>>
            t == <<q, m, a, b, c>>
<1>1. <<q>> \in Seq(S) /\ <<m, a, b, c>> \in Seq(S) /\ t \in Seq(S) /\ Len(t) = 5
  OBVIOUS
<1>2. s \in Seq(S) /\ Len(s) = 5 /\ s[1] = q /\ s[2] = m /\ s[3] = a /\ s[4] = b /\ s[5] = c
  BY <1>1
<1>3. \A i \in 1 .. Len(s) : s[i] = t[i]
  BY <1>2
<1>. HIDE DEF s, t, S
<1>4. s = t
  BY <1>1, <1>2, <1>3, SeqEqual
<1>5. QED
  BY <1>4 DEF s, t

(* What On writes, after the latency is added and the sum wraps.           *)
Duration(t) == (t + MAX_TRIGGER_LATENCY_MS) % Word

LEMMA PerformTuple ==
  ASSUME NEW c, NEW s
  PROVE  PerformWrites(c, s) =
           IF Accepted(c)
             THEN IF IsRingtone(c.n)
                    THEN << Write("mEffectQueue", c.n), Write("mScale", s),
                            Write("mEffectIndex", EffectIndex(c)),
                            Write("mDuration", Duration(TimeMs(c))), Write("mActivate", 1) >>
                    ELSE << Write("mScale", s), Write("mEffectIndex", EffectIndex(c)),
                            Write("mDuration", Duration(TimeMs(c))), Write("mActivate", 1) >>
             ELSE IF Supported(c) /\ IsRingtone(c.n) THEN <<Write("mEffectQueue", c.n)>>
                                                     ELSE << >>
<1>. DEFINE M == Write("mScale", s)
            A == Write("mEffectIndex", EffectIndex(c))
            B == Write("mDuration", Duration(TimeMs(c)))
            C == Write("mActivate", 1)
            Q == Write("mEffectQueue", c.n)
<1>1. On(TimeMs(c), EffectIndex(c)) = <<A, B, C>>
  BY DEF On, Duration
<1>2. QueueWrites(c) = IF Supported(c) /\ IsRingtone(c.n) THEN <<Q>> ELSE << >>
  BY DEF QueueWrites
<1>3. PerformWrites(c, s) = QueueWrites(c) \o (IF Accepted(c) THEN <<M>> \o <<A, B, C>> ELSE << >>)
  BY <1>1 DEF PerformWrites
<1>4. <<M>> \o <<A, B, C>> = <<M, A, B, C>> /\ <<Q>> \o <<M, A, B, C>> = <<Q, M, A, B, C>>
  BY Concat4, Concat5
<1>5. Accepted(c) => Supported(c)
  BY DEF Accepted
<1>. HIDE DEF M, A, B, C, Q
<1>6. <<Q>> \o << >> = <<Q>> /\ << >> \o << >> = << >> /\ << >> \o <<M, A, B, C>> = <<M, A, B, C>>
  OBVIOUS
<1>7. PerformWrites(c, s) =
        IF Accepted(c)
          THEN IF IsRingtone(c.n) THEN <<Q, M, A, B, C>> ELSE <<M, A, B, C>>
          ELSE IF Supported(c) /\ IsRingtone(c.n) THEN <<Q>> ELSE << >>
  BY <1>2, <1>3, <1>4, <1>5, <1>6
<1>8. QED
  BY <1>7 DEF M, A, B, C, Q

LEMMA WordRange == Word \in Nat \ {0} /\ \A n \in Nat : n <= 30000 => n \in 0 .. Word - 1
<1>1. Word \in Nat /\ Word > 30000
  BY VibratorAssumption
<1>2. QED
  BY <1>1

LEMMA TimeoutRange == \A t \in Timeouts : t \in 0 .. Word - 1 /\ t \in Nat
<1>1. Word \in Nat /\ Timeouts \subseteq 0 .. Word - 1
  BY VibratorAssumption
<1>2. QED
  BY <1>1

(* The waveforms and times of perform fit what they are written to.        *)
LEMMA EffectType ==
  ASSUME NEW c \in Performs, Accepted(c)
  PROVE  EffectIndex(c) \in Nat /\ TimeMs(c) \in 0 .. Word - 1 /\ Amplitude(c) \in UsedAmplitudes \ {0}
<1>1. EffectIndex(c) \in Nat /\ TimeMs(c) \in Nat /\ TimeMs(c) <= 30000
  BY PerformsAssumption
     DEF Accepted, Supported, HasWaveform, EffectIndex, IsRingtone, Waveform, Step, TimeMs, CLICK,
         DOUBLE_CLICK, TICK, HEAVY_CLICK, RINGTONE_1, RINGTONE_12, RINGTONE_15,
         MAX_TRIGGER_LATENCY_MS
<1>2. UINT8_MAX \div 3 # 0 /\ UINT8_MAX \div 2 # 0 /\ UINT8_MAX # 0
  BY DEF UINT8_MAX
<1>3. Amplitude(c) \in {UINT8_MAX \div 3, UINT8_MAX \div 2, UINT8_MAX}
  BY DEF Amplitude
<1>4. Amplitude(c) \in UsedAmplitudes \ {0}
  BY <1>2, <1>3 DEF UsedAmplitudes
<1>5. TimeMs(c) \in 0 .. Word - 1
  BY <1>1, WordRange
<1>6. QED
  BY <1>1, <1>4, <1>5

LEMMA CallCases ==
  ASSUME NEW c \in Calls
  PROVE  \/ c.op = "on" /\ c.n \in Timeouts
         \/ c.op \in {"off", "supportsAmplitudeControl"}
         \/ c.op = "setAmplitude" /\ c.n \in Amplitudes
         \/ c \in Performs /\ c.op \in Interfaces /\ c.n \in Nat
BY PerformsAssumption DEF Calls, Call

LEMMA ScaleType ==
  ASSUME NEW c \in Calls, NEW s \in Scales(c)
  PROVE  s \in Nat
<1>1. SetsAmplitude(c) = 0 \/ SetsAmplitude(c) \in UsedAmplitudes \ {0}
  <2>1. CASE c.op = "setAmplitude"
    BY <2>1, CallCases DEF SetsAmplitude, UsedAmplitudes, Interfaces, IsPerform
  <2>2. CASE c.op # "setAmplitude" /\ IsPerform(c) /\ Accepted(c)
    <3>1. c \in Performs
      BY <2>2, CallCases DEF IsPerform, Interfaces
    <3>2. SetsAmplitude(c) = Amplitude(c)
      BY <2>2 DEF SetsAmplitude
    <3>3. QED
      BY <2>2, <3>1, <3>2, EffectType
  <2>3. CASE c.op # "setAmplitude" /\ ~(IsPerform(c) /\ Accepted(c))
    BY <2>3 DEF SetsAmplitude
  <2>4. QED
    BY <2>1, <2>2, <2>3
<1>2. QED
  BY <1>1, VibratorAssumption DEF Scales, AmplitudeToScale

(* The writes of any call.                                                 *)
LEMMA WritesCases ==
  ASSUME NEW c \in Calls, NEW s \in Scales(c)
  PROVE  \/ /\ c.op = "on" /\ c.n \in Timeouts
            /\ Writes(c, s) = << Write("mEffectIndex", 0), Write("mDuration", Duration(c.n)),
                                 Write("mActivate", 1) >>
         \/ c.op = "off" /\ Writes(c, s) = <<Write("mActivate", 0)>>
         \/ c.op = "setAmplitude" /\ c.n # 0 /\ Writes(c, s) = <<Write("mScale", s)>>
         \/ c.op \in {"setAmplitude", "supportsAmplitudeControl"} /\ Writes(c, s) = << >>
         \/ /\ c \in Performs /\ IsPerform(c) /\ c.n \in Nat
            /\ Writes(c, s) = PerformWrites(c, s)
<1>1. CASE c.op = "on"
  BY <1>1, CallCases DEF Writes, On, Duration, Interfaces, IsPerform
<1>2. CASE c.op = "off"
  BY <1>2 DEF Writes, IsPerform, Interfaces
<1>3. CASE c.op \in {"setAmplitude", "supportsAmplitudeControl"}
  BY <1>3 DEF Writes, IsPerform, Interfaces
<1>4. CASE c \in Performs /\ c.op \in Interfaces /\ c.n \in Nat
  BY <1>4 DEF Writes, IsPerform, Interfaces
<1>5. QED
  BY <1>1, <1>2, <1>3, <1>4, CallCases

LEMMA TupleTypes ==
  ASSUME NEW S, NEW a \in S, NEW b \in S, NEW c \in S, NEW d \in S, NEW e \in S
  PROVE  /\ << >> \in Seq(S) /\ <<a>> \in Seq(S) /\ <<a, b, c>> \in Seq(S)
         /\ <<a, b, c, d>> \in Seq(S) /\ <<a, b, c, d, e>> \in Seq(S)
OBVIOUS

LEMMA WritesType ==
  ASSUME NEW c \in Calls, NEW s \in Scales(c)
  PROVE  Writes(c, s) \in Seq(Writing)
<1>1. Write("mScale", s) \in Writing
  BY ScaleType DEF Write, Writing, Streams
<1>2. \A n \in Nat : Write("mEffectIndex", n) \in Writing /\ Write("mEffectQueue", n) \in Writing
  BY DEF Write, Writing, Streams
<1>3. \A t \in Nat : Write("mDuration", Duration(t)) \in Writing
  BY WordRange DEF Duration, MAX_TRIGGER_LATENCY_MS, Write, Writing, Streams
<1>4. Write("mActivate", 0) \in Writing /\ Write("mActivate", 1) \in Writing
  BY DEF Write, Writing, Streams
<1>5. \A a, b, d, e, f \in Writing :
        /\ << >> \in Seq(Writing) /\ <<a>> \in Seq(Writing) /\ <<a, b, d>> \in Seq(Writing)
        /\ <<a, b, d, e>> \in Seq(Writing) /\ <<a, b, d, e, f>> \in Seq(Writing)
  BY TupleTypes
<1>6. CASE c.op = "on" /\ c.n \in Timeouts
           /\ Writes(c, s) = << Write("mEffectIndex", 0), Write("mDuration", Duration(c.n)),
                                Write("mActivate", 1) >>
  <2>1. c.n \in Nat
    BY <1>6, TimeoutRange
  <2>2. QED
    BY <1>2, <1>3, <1>4, <1>5, <1>6, <2>1
<1>7. CASE \/ Writes(c, s) = <<Write("mActivate", 0)>> \/ Writes(c, s) = <<Write("mScale", s)>>
           \/ Writes(c, s) = << >>
  BY <1>1, <1>4, <1>5, <1>7
<1>8. CASE c \in Performs /\ c.n \in Nat /\ Writes(c, s) = PerformWrites(c, s)
  <2>1. CASE Accepted(c)
    <3>1. EffectIndex(c) \in Nat /\ TimeMs(c) \in Nat
      BY <1>8, <2>1, EffectType, WordRange
    <3>2. Write("mEffectIndex", EffectIndex(c)) \in Writing /\ Write("mEffectQueue", c.n) \in Writing
          /\ Write("mDuration", Duration(TimeMs(c))) \in Writing
      BY <1>2, <1>3, <1>8, <3>1
    <3>3. CASE IsRingtone(c.n)
      <4>1. Writes(c, s) = << Write("mEffectQueue", c.n), Write("mScale", s),
                              Write("mEffectIndex", EffectIndex(c)),
                              Write("mDuration", Duration(TimeMs(c))), Write("mActivate", 1) >>
        BY <1>8, <2>1, <3>3, PerformTuple
      <4>2. QED
        BY <1>1, <1>4, <3>2, <4>1, TupleTypes
    <3>4. CASE ~IsRingtone(c.n)
      <4>1. Writes(c, s) = << Write("mScale", s), Write("mEffectIndex", EffectIndex(c)),
                              Write("mDuration", Duration(TimeMs(c))), Write("mActivate", 1) >>
        BY <1>8, <2>1, <3>4, PerformTuple
      <4>2. QED
        BY <1>1, <1>4, <1>5, <3>2, <4>1, Zenon
    <3>5. QED
      BY <3>3, <3>4
  <2>2. CASE ~Accepted(c)
    <3>1. Writes(c, s) \in {<<Write("mEffectQueue", c.n)>>, << >>}
      BY <1>8, <2>2, PerformTuple
    <3>2. QED
      BY <1>1, <1>2, <1>5, <1>8, <3>1
  <2>3. QED
    BY <2>1, <2>2
<1>9. QED
  BY <1>6, <1>7, <1>8, WritesCases

-----------------------------------------------------------------------------
(* Types.                                                                  *)

LEMMA BeginType ==
  ASSUME TypeOK, NEW c \in Calls, Begin(c)
  PROVE  TypeOK'
<1>1. todo' \in Seq(Writing)
  <2>1. PICK s \in Scales(c) : todo' = Writes(c, s)
    BY DEF Begin
  <2>2. QED
    BY <2>1, WritesType
<1>2. told' \in 0 .. Word - 1
  <2>1. CASE IsPerform(c) /\ Accepted(c)
    <3>1. c \in Performs
      BY <2>1, CallCases DEF IsPerform, Interfaces
    <3>2. QED
      BY <2>1, <3>1, EffectType DEF Begin
  <2>2. CASE ~(IsPerform(c) /\ Accepted(c))
    BY <2>2, WordRange DEF Begin
  <2>3. QED
    BY <2>1, <2>2
<1>3. good' = good /\ attribute' = attribute /\ playing' = playing /\ call' = c /\ answer' = "none"
  BY DEF Begin, device
<1>4. QED
  BY <1>1, <1>2, <1>3 DEF TypeOK, Writing, Answers

LEMMA NextWriteType ==
  ASSUME TypeOK, NextWrite
  PROVE  TypeOK'
<1>1. Head(todo) \in Writing /\ todo' \in Seq(Writing)
  <2>1. todo \in Seq(Writing) /\ todo # << >> /\ todo' = Tail(todo)
    BY DEF TypeOK, NextWrite, Writing
  <2>2. QED
    BY <2>1
<1>2. Head(todo).stream \in Streams /\ Head(todo).value \in Nat
  BY <1>1 DEF Writing
<1>3. CASE Stored(Head(todo))
  <2>1. attribute' \in [Streams -> Nat]
    BY <1>2, <1>3 DEF Stored, TypeOK
  <2>2. playing' \in BOOLEAN
    BY <1>3, Zenon DEF Stored, TypeOK
  <2>3. QED
    BY <1>1, <1>3, <2>1, <2>2 DEF Stored, NextWrite, TypeOK, Writing
<1>4. CASE Dropped(Head(todo))
  BY <1>1, <1>4 DEF Dropped, device, NextWrite, TypeOK, Writing
<1>5. QED
  BY <1>3, <1>4 DEF NextWrite

LEMMA NextType == TypeOK /\ [Next]_vars => TypeOK'
<1>. SUFFICES ASSUME TypeOK, [Next]_vars PROVE TypeOK'
  OBVIOUS
<1>1. CASE Return
  BY <1>1 DEF Return, device, TypeOK, Status, StatusOf, Answers
<1>2. CASE Ends
  BY <1>2 DEF Ends, TypeOK
<1>3. CASE Restart
  <2>1. told' \in 0 .. Word - 1 /\ << >> \in Seq(Writing)
    BY <1>3, WordRange DEF Restart
  <2>2. QED
    BY <1>3, <2>1 DEF Restart, device, TypeOK, Answers, Writing
<1>4. CASE UNCHANGED vars
  BY <1>4 DEF vars, TypeOK
<1>5. QED
  BY <1>1, <1>2, <1>3, <1>4, BeginType, NextWriteType DEF Next

LEMMA InitType == Init => TypeOK
<1>1. 0 \in 0 .. Word - 1 /\ << >> \in Seq(Writing)
  BY WordRange
<1>2. ASSUME Init PROVE attribute \in [Streams -> Nat] /\ playing \in BOOLEAN
  BY <1>2 DEF Init
<1>3. QED
  BY <1>1, <1>2 DEF Init, TypeOK, Answers, Writing

(* Every variable keeps its type: above all, no write carries a negative   *)
(* number, and no waveform is missing for an effect that is accepted.      *)
THEOREM TypeCorrect == Spec => []TypeOK
BY InitType, NextType, PTL DEF Spec

-----------------------------------------------------------------------------
(* The writes of a call go to different streams, and what follows from     *)
(* the ones that were made.                                                *)

Distinct(w) == \A i, j \in 1 .. Len(w) : i # j => w[i].stream # w[j].stream

(* The driver holds a write that was made while its stream is good; it     *)
(* may stop by itself, but it does not start.                              *)
Holds(w) == w.stream \in good => /\ attribute[w.stream] = w.value
                                 /\ w = Write("mActivate", 0) => ~playing

Progress(w) ==
  /\ Len(todo) <= Len(w)
  /\ \A i \in 1 .. Len(todo) : todo[i] = w[Len(w) - Len(todo) + i]
  /\ \A i \in 1 .. Len(w) - Len(todo) : Holds(w[i])

LEMMA TuplesDistinct ==
  ASSUME NEW q, NEW m, NEW a, NEW b, NEW c
  PROVE  /\ Distinct(<< Write("mEffectIndex", a), Write("mDuration", b), Write("mActivate", c) >>)
         /\ Distinct(<< Write("mScale", m), Write("mEffectIndex", a), Write("mDuration", b),
                        Write("mActivate", c) >>)
         /\ Distinct(<< Write("mEffectQueue", q), Write("mScale", m), Write("mEffectIndex", a),
                        Write("mDuration", b), Write("mActivate", c) >>)
BY DEF Distinct, Write

LEMMA WritesDistinct ==
  ASSUME NEW c \in Calls, NEW s \in Scales(c)
  PROVE  Distinct(Writes(c, s))
<1>1. Distinct(<< >>) /\ \A x : Distinct(<<x>>)
  BY DEF Distinct
<1>2. CASE \/ Writes(c, s) = <<Write("mActivate", 0)>> \/ Writes(c, s) = <<Write("mScale", s)>>
           \/ Writes(c, s) = << >>
  BY <1>1, <1>2
<1>3. CASE Writes(c, s) = << Write("mEffectIndex", 0), Write("mDuration", Duration(c.n)),
                             Write("mActivate", 1) >>
  BY <1>3, TuplesDistinct
<1>4. CASE Writes(c, s) = PerformWrites(c, s)
  <2>1. CASE Accepted(c) /\ IsRingtone(c.n)
    <3>1. Writes(c, s) = << Write("mEffectQueue", c.n), Write("mScale", s),
                            Write("mEffectIndex", EffectIndex(c)),
                            Write("mDuration", Duration(TimeMs(c))), Write("mActivate", 1) >>
      BY <1>4, <2>1, PerformTuple
    <3>2. QED
      BY <3>1, TuplesDistinct
  <2>2. CASE Accepted(c) /\ ~IsRingtone(c.n)
    <3>1. Writes(c, s) = << Write("mScale", s), Write("mEffectIndex", EffectIndex(c)),
                            Write("mDuration", Duration(TimeMs(c))), Write("mActivate", 1) >>
      BY <1>4, <2>2, PerformTuple
    <3>2. QED
      BY <3>1, TuplesDistinct
  <2>3. CASE ~Accepted(c)
    BY <1>1, <1>4, <2>3, PerformTuple
  <2>4. QED
    BY <2>1, <2>2, <2>3
<1>5. QED
  BY <1>2, <1>3, <1>4, WritesCases

LEMMA HeldAfterStore ==
  ASSUME TypeOK, NEW x \in Writing, NEW v \in Writing, Stored(v),
         x = v \/ (x.stream # v.stream /\ Holds(x))
  PROVE  Holds(x)'
<1>1. v.stream \in Streams /\ x.stream \in Streams
  BY DEF Writing
<1>2. attribute'[x.stream] = IF x = v THEN v.value ELSE attribute[x.stream]
  BY <1>1 DEF Stored, TypeOK
<1>3. ASSUME x = Write("mActivate", 0), x = v \/ (x.stream # v.stream /\ ~playing)
      PROVE  ~playing'
  <2>1. x.stream = "mActivate" /\ x.value = 0
    BY <1>3 DEF Write
  <2>2. CASE x = v
    <3>1. playing' = (0 = 1)
      BY <2>1, <2>2, Zenon DEF Stored
    <3>2. ~(0 = 1)
      OBVIOUS
    <3>3. QED
      BY <3>1, <3>2, Zenon
  <2>3. CASE x.stream # v.stream /\ ~playing
    BY <2>1, <2>3 DEF Stored
  <2>4. QED
    BY <1>3, <2>2, <2>3
<1>4. QED
  BY <1>1, <1>2, <1>3 DEF Holds, Stored

LEMMA NextWriteProgress ==
  ASSUME TypeOK, NEW w \in Seq(Writing), Distinct(w), Progress(w), NextWrite
  PROVE  Progress(w)'
<1>0. PICK k : k = Len(w) - Len(todo) + 1
  OBVIOUS
<1>1. todo \in Seq(Writing) /\ todo # << >> /\ todo' = Tail(todo)
  BY DEF TypeOK, NextWrite, Writing
<1>2. /\ Len(todo) \in Nat \ {0} /\ Len(w) \in Nat /\ Len(todo') = Len(todo) - 1
      /\ \A i \in 1 .. Len(todo') : todo'[i] = todo[i + 1]
      /\ Head(todo) = todo[1]
  BY <1>1
<1>3. Len(todo) <= Len(w) /\ \A i \in 1 .. Len(todo) : todo[i] = w[Len(w) - Len(todo) + i]
  BY DEF Progress
<1>4. k \in 1 .. Len(w) /\ w[k] = Head(todo)
  BY <1>0, <1>2, <1>3
<1>5. \A i \in 1 .. Len(w) : w[i] \in Writing
  OBVIOUS
<1>6. \A i \in 1 .. Len(todo') : todo'[i] = w[Len(w) - Len(todo') + i]
  BY <1>2, <1>3
<1>7. good' \subseteq good
  BY DEF NextWrite, Stored, Dropped
<1>8. ASSUME NEW i \in 1 .. k - 1 PROVE Holds(w[i])'
  <2>1. Holds(w[i])
    BY <1>0, <1>2 DEF Progress
  <2>2. w[i].stream # w[k].stream
    BY <1>2, <1>4 DEF Distinct
  <2>3. w[i] \in Writing /\ w[k] \in Writing
    BY <1>2, <1>4, <1>5
  <2>4. CASE Stored(w[k])
    BY <2>1, <2>2, <2>3, <2>4, HeldAfterStore
  <2>5. CASE Dropped(w[k])
    BY <1>7, <2>1, <2>5 DEF Dropped, device, Holds
  <2>6. QED
    BY <1>4, <2>4, <2>5 DEF NextWrite
<1>9. Holds(w[k])'
  <2>1. w[k] \in Writing
    BY <1>4, <1>5
  <2>2. CASE Stored(w[k])
    BY <2>1, <2>2, HeldAfterStore
  <2>3. CASE Dropped(w[k])
    BY <2>3 DEF Dropped, Holds
  <2>4. QED
    BY <1>4, <2>2, <2>3 DEF NextWrite
<1>10. Len(w) - Len(todo') = k /\ Len(todo') <= Len(w)
  BY <1>0, <1>2, <1>3
<1>11. \A i \in 1 .. k : Holds(w[i])'
  BY <1>2, <1>4, <1>8, <1>9
<1>12. QED
  BY <1>6, <1>10, <1>11 DEF Progress

-----------------------------------------------------------------------------
(* What a call in progress, and an answered one, has established.          *)

InCall ==
  /\ answer # "none" => todo = << >>
  /\ answer = "none" => /\ call \in Calls
                        /\ \E s \in Scales(call) : Progress(Writes(call, s))
                        /\ IsPerform(call) /\ Accepted(call) => told = TimeMs(call)

LEMMA BeginInCall ==
  ASSUME TypeOK, InCall, NEW c \in Calls, Begin(c)
  PROVE  InCall'
<1>1. PICK s \in Scales(c) : todo' = Writes(c, s)
  BY DEF Begin
<1>2. call' = c /\ answer' = "none" /\ (IsPerform(c) /\ Accepted(c) => told' = TimeMs(c))
  BY DEF Begin
<1>. DEFINE w == Writes(c, s)
<1>3. w \in Seq(Writing)
  BY WritesType
<1>. HIDE DEF w
<1>4. Len(w) \in Nat
  BY <1>3
<1>5. todo' = w
  BY <1>1 DEF w
<1>6. Progress(w)'
  BY <1>4, <1>5 DEF Progress
<1>7. Progress(Writes(c, s))'
  BY <1>6 DEF w
<1>8. QED
  BY <1>1, <1>2, <1>7 DEF InCall

LEMMA NextWriteInCall ==
  ASSUME TypeOK, InCall, NextWrite
  PROVE  InCall'
<1>1. answer = "none" /\ UNCHANGED <<call, told, answer>>
  BY DEF InCall, NextWrite
<1>2. PICK s \in Scales(call) : Progress(Writes(call, s))
  BY <1>1 DEF InCall
<1>3. PICK c \in Calls : c = call
  BY <1>1 DEF InCall
<1>4. s \in Scales(c) /\ Progress(Writes(c, s))
  BY <1>2, <1>3
<1>5. Progress(Writes(c, s))'
  BY <1>4, WritesType, WritesDistinct, NextWriteProgress
<1>6. QED
  BY <1>1, <1>3, <1>4, <1>5 DEF InCall

LEMMA NextInCall == TypeOK /\ InCall /\ [Next]_vars => InCall'
<1>. SUFFICES ASSUME TypeOK, InCall, [Next]_vars PROVE InCall'
  OBVIOUS
<1>1. CASE Return
  <2>1. answer' # "none"
    BY <1>1 DEF Return, Status, StatusOf
  <2>2. QED
    BY <1>1, <2>1 DEF Return, InCall
<1>2. CASE Ends
  <2>1. \A x : Holds(x) => Holds(x)'
    BY <1>2 DEF Ends, Holds
  <2>2. \A c, s : Progress(Writes(c, s)) => Progress(Writes(c, s))'
    BY <1>2, <2>1 DEF Ends, Progress
  <2>3. QED
    BY <1>2, <2>2 DEF Ends, InCall
<1>3. CASE Restart
  BY <1>3 DEF Restart, InCall
<1>4. CASE UNCHANGED vars
  <2>1. \A c, s : Progress(Writes(c, s)) => Progress(Writes(c, s))'
    BY <1>4 DEF vars, Progress, Holds
  <2>2. QED
    BY <1>4, <2>1 DEF vars, InCall
<1>5. QED
  BY <1>1, <1>2, <1>3, <1>4, BeginInCall, NextWriteInCall DEF Next

LEMMA InitInCall == Init => InCall
BY DEF Init, InCall

(* A write of 1 to activate is the last of its call.                       *)
LEMMA StartIsLast ==
  ASSUME NEW c \in Calls, NEW s \in Scales(c), NEW k \in 1 .. Len(Writes(c, s)),
         Writes(c, s)[k] = Write("mActivate", 1)
  PROVE  \/ /\ c.op = "on" /\ k = 3
            /\ Writes(c, s)[1] = Write("mEffectIndex", 0)
            /\ Writes(c, s)[2] = Write("mDuration", Duration(c.n))
         \/ /\ c \in Performs /\ IsPerform(c) /\ Accepted(c) /\ IsRingtone(c.n) /\ k = 5
            /\ Writes(c, s)[1] = Write("mEffectQueue", c.n)
            /\ Writes(c, s)[2] = Write("mScale", s)
            /\ Writes(c, s)[3] = Write("mEffectIndex", EffectIndex(c))
            /\ Writes(c, s)[4] = Write("mDuration", Duration(TimeMs(c)))
         \/ /\ c \in Performs /\ IsPerform(c) /\ Accepted(c) /\ ~IsRingtone(c.n) /\ k = 4
            /\ Writes(c, s)[1] = Write("mScale", s)
            /\ Writes(c, s)[2] = Write("mEffectIndex", EffectIndex(c))
            /\ Writes(c, s)[3] = Write("mDuration", Duration(TimeMs(c)))
<1>1. \A st, v : /\ Write(st, v).stream = st /\ Write(st, v).value = v
  BY DEF Write
<1>. DEFINE w == Writes(c, s)
<1>2. CASE c.op = "on" /\ w = << Write("mEffectIndex", 0), Write("mDuration", Duration(c.n)),
                                 Write("mActivate", 1) >>
  <2>1. Write("mEffectIndex", 0) # Write("mActivate", 1)
        /\ Write("mDuration", Duration(c.n)) # Write("mActivate", 1)
    BY <1>1
  <2>2. QED
    BY <1>2, <2>1
<1>3. CASE w = <<Write("mActivate", 0)>> \/ w = <<Write("mScale", s)>> \/ w = << >>
  BY <1>3 DEF Write
<1>4. CASE c \in Performs /\ IsPerform(c) /\ w = PerformWrites(c, s)
  <2>1. /\ Write("mEffectQueue", c.n) # Write("mActivate", 1)
        /\ Write("mScale", s) # Write("mActivate", 1)
        /\ Write("mEffectIndex", EffectIndex(c)) # Write("mActivate", 1)
        /\ Write("mDuration", Duration(TimeMs(c))) # Write("mActivate", 1)
    BY <1>1
  <2>2. CASE Accepted(c) /\ IsRingtone(c.n)
    <3>1. w = << Write("mEffectQueue", c.n), Write("mScale", s),
                 Write("mEffectIndex", EffectIndex(c)),
                 Write("mDuration", Duration(TimeMs(c))), Write("mActivate", 1) >>
      BY <1>4, <2>2, PerformTuple
    <3>2. QED
      BY <1>4, <2>1, <2>2, <3>1
  <2>3. CASE Accepted(c) /\ ~IsRingtone(c.n)
    <3>1. w = << Write("mScale", s), Write("mEffectIndex", EffectIndex(c)),
                 Write("mDuration", Duration(TimeMs(c))), Write("mActivate", 1) >>
      BY <1>4, <2>3, PerformTuple
    <3>2. QED
      BY <1>4, <2>1, <2>3, <3>1
  <2>4. CASE ~Accepted(c)
    <3>1. w = <<Write("mEffectQueue", c.n)>> \/ w = << >>
      BY <1>4, <2>4, PerformTuple
    <3>2. QED
      BY <2>1, <3>1
  <2>5. QED
    BY <2>2, <2>3, <2>4
<1>5. QED
  BY <1>2, <1>3, <1>4, WritesCases

(* A start with no stream failed plays what the call in progress asks for. *)
LEMMA StartsAsked ==
  ASSUME TypeOK, InCall, [Next]_vars, Started, good' = Streams
  PROVE  Asked(call)
<1>1. NextWrite
  <2>1. todo # << >> /\ answer = "none"
    BY DEF Started, InCall, Next, Begin, NextWrite, Return, Ends, Restart, vars
  <2>2. todo' # todo
    <3>1. todo \in Seq(Writing)
      BY DEF TypeOK, Writing
    <3>2. Len(Tail(todo)) # Len(todo)
      BY <2>1, <3>1
    <3>3. QED
      BY <3>2 DEF Started
  <2>3. QED
    BY <2>1, <2>2 DEF Started, InCall, Next, Begin, Return, Ends, Restart, vars
<1>2. good = Streams
  BY <1>1 DEF NextWrite, Stored, Dropped, TypeOK
<1>3. answer = "none" /\ call \in Calls
  BY <1>1 DEF InCall, NextWrite
<1>4. PICK s \in Scales(call) : Progress(Writes(call, s))
  BY <1>3 DEF InCall
<1>. DEFINE w == Writes(call, s)
<1>5. PICK k : k = Len(w) - Len(todo) + 1
  OBVIOUS
<1>6. w \in Seq(Writing) /\ todo \in Seq(Writing) /\ todo # << >>
  BY <1>3, WritesType DEF TypeOK, Writing, Started
<1>7. k \in 1 .. Len(w) /\ w[k] = Head(todo) /\ \A i \in 1 .. k - 1 : Holds(w[i])
  BY <1>4, <1>5, <1>6 DEF Progress
<1>8. w[k] = Write("mActivate", 1)
  BY <1>7 DEF Started
<1>9. \A i \in 1 .. k - 1 : attribute[w[i].stream] = w[i].value
  <2>. SUFFICES ASSUME NEW i \in 1 .. k - 1 PROVE attribute[w[i].stream] = w[i].value
    OBVIOUS
  <2>. HIDE DEF w
  <2>1. Holds(w[i]) /\ i \in 1 .. Len(w)
    BY <1>6, <1>7
  <2>2. w[i] \in Writing
    BY <1>6, <2>1
  <2>3. w[i].stream \in good
    BY <1>2, <2>2 DEF Writing
  <2>4. QED
    BY <2>1, <2>3 DEF Holds
<1>10. \A st, v : Write(st, v).stream = st /\ Write(st, v).value = v
  BY DEF Write
<1>11. CASE call.op = "on" /\ k = 3 /\ w[1] = Write("mEffectIndex", 0)
            /\ w[2] = Write("mDuration", Duration(call.n))
  BY <1>9, <1>10, <1>11 DEF Asked, Duration
<1>12. CASE IsPerform(call) /\ Accepted(call)
  <2>1. told = TimeMs(call)
    BY <1>3, <1>12 DEF InCall
  <2>2. call.op # "on" /\ call \in Performs
    BY <1>3, <1>12, CallCases DEF IsPerform, Interfaces
  <2>3. s \in AmplitudeToScale(Amplitude(call))
    <3>1. SetsAmplitude(call) = Amplitude(call) /\ Amplitude(call) # 0
      BY <1>12, <2>2, EffectType DEF SetsAmplitude, IsPerform, Interfaces
    <3>2. QED
      BY <1>4, <3>1 DEF Scales
  <2>4. CASE /\ IsRingtone(call.n) /\ k = 5
             /\ w[1] = Write("mEffectQueue", call.n) /\ w[2] = Write("mScale", s)
             /\ w[3] = Write("mEffectIndex", EffectIndex(call))
             /\ w[4] = Write("mDuration", Duration(TimeMs(call)))
    BY <1>9, <1>10, <2>1, <2>2, <2>3, <2>4 DEF Asked, Duration
  <2>5. CASE /\ ~IsRingtone(call.n) /\ k = 4
             /\ w[1] = Write("mScale", s)
             /\ w[2] = Write("mEffectIndex", EffectIndex(call))
             /\ w[3] = Write("mDuration", Duration(TimeMs(call)))
    BY <1>9, <1>10, <2>1, <2>2, <2>3, <2>5 DEF Asked, Duration
  <2>6. QED
    BY <1>3, <1>7, <1>8, <2>2, <2>4, <2>5, StartIsLast
<1>13. QED
  BY <1>3, <1>7, <1>8, <1>11, <1>12, StartIsLast

(* Every start of the driver plays exactly one request, whatever writes    *)
(* failed and whichever calls were refused or cut short before.            *)
THEOREM EveryStartIsOneRequest == Spec => OneRequest
<1>1. TypeOK /\ InCall /\ [Next]_vars => [Started /\ good' = Streams => Asked(call)]_vars
  BY StartsAsked
<1>2. QED
  BY <1>1, InitType, NextType, InitInCall, NextInCall, PTL DEF Spec, OneRequest

(* What a caller is told of off and setAmplitude is what the driver holds. *)
LEMMA ReturnsTrue ==
  ASSUME TypeOK, InCall, Return
  PROVE  AnswersTrue'
<1>1. answer = "none" /\ call \in Calls /\ todo = << >>
  BY DEF InCall, Return
<1>2. PICK s \in Scales(call) : Progress(Writes(call, s))
  BY <1>1 DEF InCall
<1>3. UNCHANGED <<good, attribute, playing, call>> /\ answer' = Status(call)
  BY DEF Return, device
<1>4. \A w \in Writing : Writes(call, s) = <<w>> => Holds(w)
  BY <1>1, <1>2 DEF Progress
<1>5. CASE call.op = "off"
  <2>1. Holds(Write("mActivate", 0))
    <3>1. Write("mActivate", 0) \in Writing
      BY DEF Write, Writing, Streams
    <3>2. QED
      BY <1>4, <1>5, <3>1 DEF Writes, IsPerform, Interfaces
  <2>2. answer' = "OK" => ~playing
    BY <1>3, <1>5, <2>1 DEF Status, StatusOf, Holds, Write
  <2>3. QED
    BY <1>3, <1>5, <2>2 DEF AnswersTrue
<1>6. CASE call.op = "setAmplitude" /\ call.n = 0
  BY <1>3, <1>6 DEF Status, AnswersTrue
<1>7. CASE call.op = "setAmplitude" /\ call.n # 0
  <2>1. call.n \in Amplitudes \ {0}
    BY <1>1, <1>7, CallCases, PerformsAssumption DEF Interfaces
  <2>2. Attenuation[call.n] \in Nat
    BY <2>1, VibratorAssumption DEF UsedAmplitudes
  <2>3. s \in AmplitudeToScale(call.n)
    BY <1>2, <1>7 DEF Scales, SetsAmplitude, IsPerform, Interfaces
  <2>4. Attenuation[call.n] < 256 => s = Attenuation[call.n]
    BY <2>2, <2>3 DEF AmplitudeToScale
  <2>5. Holds(Write("mScale", s))
    <3>1. Write("mScale", s) \in Writing
      BY <1>1, ScaleType DEF Write, Writing, Streams
    <3>2. QED
      BY <1>4, <1>7, <3>1 DEF Writes, IsPerform, Interfaces
  <2>6. answer' = "OK" => attribute["mScale"] = s
    BY <1>3, <1>7, <2>5 DEF Status, StatusOf, Holds, Write
  <2>7. QED
    BY <1>3, <1>7, <2>4, <2>6 DEF AnswersTrue
<1>8. CASE call.op \notin {"off", "setAmplitude"}
  BY <1>3, <1>8 DEF AnswersTrue
<1>9. QED
  BY <1>5, <1>6, <1>7, <1>8

(* OK from off or setAmplitude means that the driver was told so.          *)
THEOREM AnswersAreTrue == Spec => []AnswersTrue
<1>1. Init => AnswersTrue
  BY DEF Init, AnswersTrue, NoCall, Call
<1>2. TypeOK /\ InCall /\ AnswersTrue /\ [Next]_vars => AnswersTrue'
  <2>. SUFFICES ASSUME TypeOK, InCall, AnswersTrue, [Next]_vars PROVE AnswersTrue'
    OBVIOUS
  <2>1. ASSUME NEW c \in Calls, Begin(c) PROVE AnswersTrue'
    BY <2>1 DEF Begin, AnswersTrue
  <2>2. CASE NextWrite
    BY <2>2 DEF NextWrite, InCall, AnswersTrue
  <2>3. CASE Ends
    BY <2>3 DEF Ends, AnswersTrue
  <2>4. CASE Restart
    BY <2>4 DEF Restart, AnswersTrue, NoCall, Call
  <2>5. CASE UNCHANGED vars
    BY <2>5 DEF vars, AnswersTrue
  <2>6. QED
    BY <2>1, <2>2, <2>3, <2>4, <2>5, ReturnsTrue DEF Next
<1>3. QED
  BY <1>1, <1>2, InitType, NextType, InitInCall, NextInCall, PTL DEF Spec
=============================================================================
