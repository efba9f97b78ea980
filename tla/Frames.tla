------------------------------- MODULE Frames -------------------------------
(***************************************************************************)
(* The frames of websocket.c: the header onion_websocket_write puts before *)
(* a message and the length onion_websocket_read_packet_header reads out   *)
(* of one.  Of a message only its length counts, and of the bytes that are *)
(* sent how many there are of it, from its start.                          *)
(***************************************************************************)
EXTENDS Integers, Sequences, SequencesExt

Unset == 0        \* a byte of the header that nobody has written
BlockBytes == 1024
TempBytes == 512
Fin == 128

\* The bytes of a number, the highest first.
BytesOf(v, n) == [i \in 1 .. n |-> (v \div (256 ^ (n - i))) % 256]
Number(bytes) == FoldLeft(LAMBDA v, b: 256 * v + b, 0, bytes)

\* The eight bytes of a long length are two places too far: the lower two are
\* not sent.
FrameHeader(opcode, n) ==
  CASE n < 126 -> <<Fin + opcode, n>>
    [] n \in 126 .. 65534 -> <<Fin + opcode, 126>> \o BytesOf(n, 2)
    [] OTHER -> <<Fin + opcode, 127, Unset, Unset>> \o BytesOf(n \div 65536, 6)

\* Blocks as long as more than one block is left, then the remainder; of a
\* message of whole blocks the last one is taken for nothing.
Blocks(n) == IF n = 0 THEN 0 ELSE (n - 1) \div BlockBytes
BytesSent(n) == Blocks(n) * BlockBytes + (n % BlockBytes)

Frame(opcode, n) == [header |-> FrameHeader(opcode, n), bytes |-> BytesSent(n)]

\* What vsnprintf leaves of a text of n bytes in the buffer it is given: all of it,
\* or its last byte is a NUL.
Printed(n) == IF n < TempBytes THEN (IF n <= TempBytes - 2 THEN n ELSE TempBytes - 2) ELSE n - 1

\* The length in a header; the mask and the opcode do not matter here.
HeaderLength(h) ==
  LET short == h[2] % 128
  IN  CASE short = 126 -> Number(SubSeq(h, 3, 4))
        [] short = 127 -> Number(SubSeq(h, 3, 10))
        [] OTHER -> short

\* What the other side reads: a message it waits for the end of is none.
FrameRead(f) == IF f.bytes < HeaderLength(f.header) THEN -1 ELSE HeaderLength(f.header)
=============================================================================
