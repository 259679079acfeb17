\* Streams of up to four parts; frames of at most seven bytes.
\* The system stops when the peer has sent all.
CONSTANTS
  FRAME_LEN_MAX = 7
  EXIT_BUFFER_LEN = 8
  MaxParts = 4
  Sendable <- Streams
SPECIFICATION Spec
INVARIANTS TypeOK CutsDontMatter FramesArrive
CHECK_DEADLOCK FALSE
