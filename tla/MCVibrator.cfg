SPECIFICATION Spec
CONSTANTS
  Timeouts <- MCTimeouts
  Performs <- MCPerforms
  Amplitudes <- MCAmplitudes
  Attenuation <- MCAttenuation
  Word = 40000
INVARIANTS
  TypeOK
  AnswersTrue
PROPERTIES
  OneRequest
