---------------------------- MODULE FrameRestruct ----------------------------
(***************************************************************************)
(* CFrameRestruct (src/FrameRestruct.cpp): the frames of one client from    *)
(* the pieces that read() returns.  What is left of a read without its end  *)
(* is kept in m_pExitBuffer; RestructFrame runs over it and the next read   *)
(* without copying them together, so that every access asks in which of the *)
(* two a byte is.  Indices are those of the code, from 0.                   *)
(*                                                                          *)
(* A frame: FRAME_HEAD, two bytes of length, a code, data, FRAME_END; the   *)
(* length counts all of them.  SaveFrame always gets a block here; the      *)
(* frame that does not is in FlowControl.                                   *)
(***************************************************************************)
EXTENDS Integers, Sequences, SequencesExt

CONSTANTS
  FRAME_LEN_MAX,    \* 1124
  EXIT_BUFFER_LEN,  \* 2048
  Sendable          \* sequences of parts that the peer may send, frames or not

FRAME_HEAD == 126
FRAME_END == 165
FRAME_LEN_MIN == 5

ASSUME FrameAssumption ==
  /\ FRAME_LEN_MAX \in Nat /\ EXIT_BUFFER_LEN \in Nat
  /\ FRAME_LEN_MIN <= FRAME_LEN_MAX /\ FRAME_LEN_MAX <= EXIT_BUFFER_LEN
  /\ Sendable \subseteq Seq(Seq(0 .. 255))

VARIABLES
  parts,          \* what the peer sends
  pos,            \* bytes of it that were read
  m_pExitBuffer,  \* the rest of the reads so far; its length is m_iExitLen
  frames          \* frames saved, in order

vars == <<parts, pos, m_pExitBuffer, frames>>

stream == FlattenSeq(parts)

Init ==
  /\ parts \in Sendable
  /\ pos = 0
  /\ m_pExitBuffer = <<>>
  /\ frames = <<>>

-----------------------------------------------------------------------------
(* The helpers, over the rest "exit" and the new bytes "recv"               *)

Total(exit, recv) == Len(exit) + Len(recv)

GetHeadIndex(cur, exit, recv) ==
  LET heads == {i \in cur .. Total(exit, recv) - 1 :
                  FRAME_HEAD = IF i < Len(exit) THEN exit[i + 1] ELSE recv[i - Len(exit) + 1]}
  IN IF heads = {} THEN -1 ELSE CHOOSE i \in heads : \A j \in heads : i <= j

\* Mutant: the bytes of a length that is cut in two are swapped.
LengthBytesSwapped(cur, exit, recv) ==
  IF cur < Len(exit) - 2 THEN 256 * exit[cur + 2] + exit[cur + 3]
  ELSE IF cur = Len(exit) - 2 THEN 256 * recv[1] + exit[cur + 2]
  ELSE 256 * recv[cur + 2 - Len(exit)] + recv[cur + 3 - Len(exit)]

\* The two bytes of length: both in exit, one in each, or both in recv.
LengthBytes(cur, exit, recv) ==
  IF cur < Len(exit) - 2 THEN 256 * exit[cur + 2] + exit[cur + 3]
  ELSE IF cur = Len(exit) - 2 THEN 256 * exit[cur + 2] + recv[1]
  ELSE 256 * recv[cur + 2 - Len(exit)] + recv[cur + 3 - Len(exit)]

\* Mutant: there is no upper limit.
GetFrameLenUnlimited(cur, exit, recv) ==
  LET len == LengthBytes(cur, exit, recv)
  IN IF len < FRAME_LEN_MIN THEN -1 ELSE len

GetFrameLen(cur, exit, recv) ==
  LET len == LengthBytes(cur, exit, recv)
  IN IF len < FRAME_LEN_MIN \/ len > FRAME_LEN_MAX THEN -1 ELSE len

\* The last byte is the end.
CheckSum(cur, exit, recv, len) ==
  FRAME_END = IF cur + len <= Len(exit) THEN exit[cur + len] ELSE recv[cur - Len(exit) + len]

\* Mutant: what is left of the rest is not kept.
CopyRestForgets(cur, exit, recv) ==
  IF cur < Len(exit) THEN recv ELSE SubSeq(recv, cur - Len(exit) + 1, Len(recv))

CopyRestToExitBuff(cur, exit, recv) ==
  IF cur < Len(exit)
    THEN SubSeq(exit, cur + 1, Len(exit)) \o recv
    ELSE SubSeq(recv, cur - Len(exit) + 1, Len(recv))

\* The bytes that SaveFrame copies: out of exit, out of both, or out of recv.
SaveFrame(cur, exit, recv, len) ==
  IF cur + len <= Len(exit) THEN SubSeq(exit, cur + 1, cur + len)
  ELSE IF cur < Len(exit)
    THEN SubSeq(exit, cur + 1, Len(exit)) \o SubSeq(recv, 1, len - (Len(exit) - cur))
    ELSE SubSeq(recv, cur - Len(exit) + 1, cur - Len(exit) + len)

\* One turn of the loop of RestructFrame, at the index cur: the frames that are saved
\* from there on and the rest that is kept; from[c] is the same for a later index c.
Turn(cur, exit, recv, from) ==
  LET total == Total(exit, recv)
      head == GetHeadIndex(cur, exit, recv)
      len == GetFrameLen(head, exit, recv)
  IN IF head = -1 THEN [saved |-> <<>>, rest |-> <<>>]
     ELSE IF head + FRAME_LEN_MIN > total \/ head + len > total
       THEN [saved |-> <<>>, rest |-> CopyRestToExitBuff(head, exit, recv)]
     ELSE IF len = -1 \/ ~ CheckSum(head, exit, recv, len) THEN from[head + 1]
     ELSE [saved |-> <<SaveFrame(head, exit, recv, len)>> \o from[head + len].saved,
           rest |-> from[head + len].rest]

Loop(exit, recv) ==
  LET from[cur \in 0 .. Total(exit, recv)] == Turn(cur, exit, recv, from) IN from[0]

\* One read of n bytes.
RestructFrame(n) ==
  LET out == Loop(m_pExitBuffer, SubSeq(stream, pos + 1, pos + n))
  IN /\ pos' = pos + n
     /\ m_pExitBuffer' = out.rest
     /\ frames' = frames \o out.saved
     /\ UNCHANGED parts

Next == \E n \in 1 .. Len(stream) - pos : RestructFrame(n)

Spec == Init /\ [][Next]_vars

-----------------------------------------------------------------------------
(* What a reader of the uncut stream finds                                  *)

\* The length that the frame at p claims, if it is there; and whether it is a frame.
Claimed(s, p) == 256 * s[p + 1] + s[p + 2]
Plausible(s, p) == Claimed(s, p) \in FRAME_LEN_MIN .. FRAME_LEN_MAX
IsFrame(f) ==
  /\ Len(f) \in FRAME_LEN_MIN .. FRAME_LEN_MAX
  /\ f[1] = FRAME_HEAD /\ Claimed(f, 1) = Len(f) /\ f[Len(f)] = FRAME_END

\* The frame at p has not been read to its end yet.
Incomplete(s, p) ==
  \/ p + FRAME_LEN_MIN - 1 > Len(s)
  \/ Plausible(s, p) /\ p + Claimed(s, p) - 1 > Len(s)

\* What is found from p on; at[q] is the same for a later q.
ParseAt(s, p, at) ==
  IF p > Len(s) THEN [saved |-> <<>>, rest |-> <<>>]
  ELSE IF s[p] # FRAME_HEAD THEN at[p + 1]
  ELSE IF Incomplete(s, p) THEN [saved |-> <<>>, rest |-> SubSeq(s, p, Len(s))]
  ELSE LET f == SubSeq(s, p, p + Claimed(s, p) - 1)
       IN IF Plausible(s, p) /\ IsFrame(f)
          THEN [saved |-> <<f>> \o at[p + Claimed(s, p)].saved,
                rest |-> at[p + Claimed(s, p)].rest]
          ELSE at[p + 1]

Parse(s) ==
  LET at[p \in 1 .. Len(s) + 1] == ParseAt(s, p, at) IN at[1]

-----------------------------------------------------------------------------
(* Properties                                                               *)

\* The indices and buffers have their types; the rest fits in its buffer, because a
\* frame that is waited for is shorter than FRAME_LEN_MAX (the memcpy of lines 150
\* and 155 has no check of its own).
TypeOK ==
  /\ pos \in 0 .. Len(stream)
  /\ m_pExitBuffer \in Seq(0 .. 255)
  /\ Len(m_pExitBuffer) < FRAME_LEN_MAX
  /\ frames \in Seq(Seq(0 .. 255))

\* The frames and the rest do not depend on how read() cuts the stream: they are what
\* the bytes read so far give in one piece, wherever a cut falls, in the head, between
\* the bytes of length or before the end.
CutsDontMatter ==
  LET whole == Parse(SubSeq(stream, 1, pos))
  IN frames = whole.saved /\ m_pExitBuffer = whole.rest

\* A peer that sends frames only gets each of them processed, byte by byte and in
\* order, whatever heads and ends are in their data.
FramesArrive ==
  (\A i \in DOMAIN parts : IsFrame(parts[i])) =>
     /\ IsPrefix(frames, parts)
     /\ pos = Len(stream) => frames = parts
=============================================================================
