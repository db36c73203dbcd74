----------------------------- MODULE GridStream -----------------------------
(***************************************************************************)
(* The stream of MongoGridFSFile::getResource(): gridfs/gridfs_stream.c.     *)
(*                                                                         *)
(* One chunk of the file is kept in a buffer.  A read takes what is left of  *)
(* the chunk at the offset and at most one chunk more; a seek moves offset   *)
(* and buffer_offset and leaves the buffer as it is.  Chunks may be gone, or *)
(* the query for one may fail, between any two calls.  A byte of the file is *)
(* represented by its position.                                            *)
(***************************************************************************)
EXTENDS Integers, Sequences

CONSTANTS
  Size,        \* length of the file
  chunkSize,
  Counts,      \* numbers of bytes asked for
  MaxSeeks     \* bound on the seeks

ASSUME StreamAssumption ==
  /\ Size \in Nat /\ chunkSize \in Nat \ {0} /\ Counts \subseteq Nat /\ MaxSeeks \in Nat

VARIABLES
  present,        \* the chunks that are on the server
  offset,         \* self->offset
  chunk_id,       \* self->chunkId: the chunk in the buffer, or -1
  buffer,         \* self->buffer, buffer_size bytes of it
  buffer_offset,
  got,            \* what the last call handed out
  status,         \* of the last call: "ok" or "failed"
  seeks
streamVars == <<present, offset, chunk_id, buffer, buffer_offset, got, status, seeks>>

-----------------------------------------------------------------------------
Least(a, b) == IF a < b THEN a ELSE b

\* GridStore: full chunks, and a last one with the rest.
Chunks == 0..((Size + chunkSize - 1) \div chunkSize - 1)
Data(n) == [i \in 1..Least(chunkSize, Size - n * chunkSize) |-> n * chunkSize + i - 1]

\* ceil() of a division of integers: a last chunk that is not full is not counted.
totalChunks == Size \div chunkSize

StreamTypeOK ==
  /\ present \subseteq Chunks /\ offset \in 0..Size /\ chunk_id \in Chunks \cup {-1}
  /\ buffer \in Seq(0..Size) /\ buffer_offset \in Nat /\ got \in Seq(0..Size)
  /\ status \in {"ok", "failed"} /\ seeks \in 0..MaxSeeks

StreamInit ==
  /\ present = Chunks /\ offset = 0 /\ chunk_id = -1 /\ buffer = <<>> /\ buffer_offset = 0
  /\ got = <<>> /\ status = "ok" /\ seeks = 0

-----------------------------------------------------------------------------
Stream == [id |-> chunk_id, data |-> buffer, at |-> buffer_offset]

\* Mutant: the chunk that is loaded is taken for the one needed.
MutantLoaded(s, n) == s.id # -1

Loaded(s, n) == s.id = n

Placed(s) == offset % chunkSize

\* gridfs_read_chunk(): the streams it may leave; none when it fails.
LoadChunk(s, n) ==
  IF Loaded(s, n) THEN {s}
  ELSE { [id |-> k, data |-> Data(k), at |-> Placed(s)] : k \in present \cap {n} }

\* The chunk was not there, or its query threw: nothing is handed out.
Fails(s) ==
  /\ chunk_id' = s.id /\ buffer' = s.data /\ buffer_offset' = s.at
  /\ status' = "failed" /\ got' = <<>> /\ UNCHANGED <<present, offset, seeks>>

HandsOut(s, bytes) ==
  /\ chunk_id' = s.id /\ buffer' = s.data /\ buffer_offset' = s.at + Len(bytes)
  /\ offset' = offset + Len(bytes) /\ got' = bytes /\ status' = "ok"
  /\ UNCHANGED <<present, seeks>>

FirstBytes(s, count) ==
  LET from == s.at % chunkSize
  IN  SubSeq(s.data, from + 1, from + Least(count, Len(s.data) - from))

\* gridfs_read(): a second chunk only where totalChunks knows of one.
Read(count) ==
  LET n == offset \div chunkSize
  IN  \/ Fails(Stream)
      \/ \E s \in LoadChunk(Stream, n) :
           LET first == FirstBytes(s, count)
               missing == count - Len(first)
               more == missing > 0 /\ n + 1 < totalChunks
           IN  \/ ~more /\ HandsOut(s, first)
               \/ /\ more
                  /\ \/ Fails(s)
                     \/ \E t \in LoadChunk(s, n + 1) :
                          HandsOut(t, first \o SubSeq(t.data, 1, Least(missing, Len(t.data))))

\* size_t arithmetic takes a position before the start to one beyond the end.
Within(to) == to \in 0..Size

\* gridfs_seek()
Seek(base, delta) ==
  LET to == base + delta
  IN  /\ seeks < MaxSeeks /\ seeks' = seeks + 1
      /\ got' = <<>> /\ UNCHANGED <<present, chunk_id, buffer>>
      /\ IF Within(to)
         THEN /\ offset' = to /\ status' = "ok"
              /\ buffer_offset' = IF chunk_id # -1 THEN to % chunkSize ELSE buffer_offset
         ELSE /\ status' = "failed" /\ UNCHANGED <<offset, buffer_offset>>

SeekSet(delta) == Seek(0, delta)
SeekCur(delta) == Seek(offset, delta)
SeekEnd(delta) == Seek(Size, delta)

\* feof(), by gridfs_option().
AtEnd == offset = Size

\* The file is removed, or a part of it.
ChunkGone(n) ==
  /\ n \in present /\ present' = present \ {n}
  /\ UNCHANGED <<offset, chunk_id, buffer, buffer_offset, got, status, seeks>>
-----------------------------------------------------------------------------
Deltas == -(Size + 1)..(Size + 1)

StreamNext ==
  \/ \E count \in Counts : Read(count)
  \/ \E delta \in Deltas : SeekSet(delta) \/ SeekCur(delta) \/ SeekEnd(delta)
  \/ \E n \in Chunks : ChunkGone(n)

StreamSpec == StreamInit /\ [][StreamNext]_streamVars

\* The reader calls fread() for some bytes until feof(), as in the example of
\* docs/mongogridfsfile.getresource.html:69.
ReadsOn == ~AtEnd /\ \E count \in Counts \ {0} : Read(count) /\ status' = "ok"
FairSpec == StreamSpec /\ WF_streamVars(ReadsOn)

-----------------------------------------------------------------------------
Bytes == INSTANCE ByteStream WITH position <- offset

\* Whatever is read, sought and missing, what a read hands out are the bytes of
\* the file from the offset on, none skipped, repeated or out of place.
IsByteStream == Bytes!Spec

\* The buffer is the chunk it is taken for, and the place in it that of the
\* offset, though seeks move one without the other and failures come between.
BufferInStep ==
  chunk_id # -1 =>
    buffer = Data(chunk_id) /\ buffer_offset % chunkSize = offset % chunkSize

\* The loop while (!feof()) fread() ends, unless a chunk of the file is missing.
ReaderFinishes == <>[](AtEnd \/ present # Chunks)
=============================================================================
