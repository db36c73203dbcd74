----------------------------- MODULE ByteStream -----------------------------
(***************************************************************************)
(* What a readable, seekable stream over a file of Size bytes promises: a    *)
(* read hands out some of the bytes that follow the position, none skipped,   *)
(* repeated or out of place, and a seek moves within the file.               *)
(***************************************************************************)
EXTENDS Integers

CONSTANT Size

VARIABLES
  position,   \* in 0..Size
  got         \* the last read: a sequence of the positions of its bytes

Init == position = 0 /\ got = <<>>

\* k bytes are read; a read that fails hands out nothing and moves nothing.
Read(k) ==
  /\ position + k <= Size
  /\ position' = position + k /\ got' = [i \in 1..k |-> position + i - 1]

Seek(p) == position' = p /\ got' = <<>>

Next == \E k \in 0..Size : Read(k) \/ Seek(k)

Spec == Init /\ [][Next]_<<position, got>>
=============================================================================
