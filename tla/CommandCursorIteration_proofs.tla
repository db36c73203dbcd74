-------------------- MODULE CommandCursorIteration_proofs --------------------
(***************************************************************************)
(* Proofs about CommandCursorIteration: its types, and that it implements  *)
(* ResultStream, for results and batches of any size.                      *)
(***************************************************************************)
EXTENDS CommandCursorIteration, SequenceTheorems, TLAPS

-----------------------------------------------------------------------------
(* Runs of consecutive documents.                                          *)

LEMMA NumberedType ==
  ASSUME NEW f \in Nat, NEW n \in Nat, f + n <= MaxDocuments
  PROVE  Numbered(f, n) \in Seq(Document) /\ Len(Numbered(f, n)) = n
BY ParameterAssumption DEF Numbered, Document

LEMMA NumberedEmpty == ASSUME NEW f \in Nat PROVE Numbered(f, 0) = <<>>
BY DEF Numbered

\* (Opaque, so that the lemmas below apply to whatever is known to be a number.)
Count(n) == n \in Nat

LEMMA NumberedTail ==
  ASSUME NEW f, NEW n, Count(f), Count(n), n # 0
  PROVE  /\ Numbered(f, n) # <<>>
         /\ Head(Numbered(f, n)) = f + 1
         /\ Tail(Numbered(f, n)) = Numbered(f + 1, n - 1)
<1> DEFINE s == Numbered(f, n)
<1> USE DEF Count
<1>1. s \in Seq(Nat) /\ Len(s) = n /\ \A i \in 1..n : s[i] = f + i
  BY DEF Numbered
<1>2. s # <<>>
  BY <1>1
<1>3. Head(s) = f + 1
  BY <1>1, <1>2
<1>4. /\ Tail(s) \in Seq(Nat) /\ Len(Tail(s)) = n - 1
      /\ \A i \in 1 .. n - 1 : Tail(s)[i] = s[i + 1]
  BY <1>1, <1>2, HeadTailProperties
<1>5. \A i \in 1 .. n - 1 : s[i + 1] = f + 1 + i
  BY <1>1
<1> DEFINE t == Numbered(f + 1, n - 1)
<1>6. t \in Seq(Nat) /\ Len(t) = n - 1 /\ \A i \in 1 .. n - 1 : t[i] = f + 1 + i
  BY DEF Numbered
<1> HIDE DEF s, t
<1>7. Tail(s) = t
  BY <1>4, <1>5, <1>6, SeqEqual
<1> QED BY <1>2, <1>3, <1>7 DEF s, t

LEMMA NumberedAppend ==
  ASSUME NEW n, Count(n)
  PROVE  Append(Numbered(0, n), n + 1) = Numbered(0, n + 1)
<1> USE DEF Count
<1> DEFINE s == Numbered(0, n)
<1> DEFINE t == Append(s, n + 1)
<1>1. s \in Seq(Nat) /\ Len(s) = n /\ \A i \in 1..n : s[i] = 0 + i
  BY DEF Numbered
<1>2. t \in Seq(Nat) /\ Len(t) = n + 1 /\ \A i \in 1 .. n + 1 : t[i] = 0 + i
  BY <1>1
<1>3. t = [i \in 1 .. n + 1 |-> 0 + i]
  BY <1>2
<1> QED BY <1>3 DEF Numbered

-----------------------------------------------------------------------------
(* Outcomes of a call and their types.                                     *)

CursorTypes ==
  [started_iterating : BOOLEAN, at : 0 .. MaxDocuments + 2, num : Nat,
   open : BOOLEAN, dead : BOOLEAN, flag : BOOLEAN,
   buf : Seq(Document \cup {Error}),
   first_batch : Seq(Document) \cup {None}, first_batch_at : Nat,
   first_batch_num : Nat, current : Document \cup {Garbage, Error, None}]

\* A cursor of the right types; the two kinds of batches take turns.
GoodCursor(c) ==
  /\ c \in CursorTypes
  /\ c.dead => ~c.open
  /\ c.first_batch # None =>
       c.first_batch_num = Len(c.first_batch) /\ c.at = 0 /\ c.num = 0

OutcomeTypes ==
  [cursor : CursorTypes, sent : Nat, result : {"none", "ok", "exception", "crash"},
   cut : {"no", "closed", "lost"}]

GoodOutcome(o) == o \in OutcomeTypes /\ GoodCursor(o.cursor) /\ o.sent <= total

\* An error document is current only until php_mongo_handle_error() saw it.
Settled(o) == GoodOutcome(o) /\ o.cursor.current # Error

Setting ==
  /\ batch_size \in BatchSizes \cup {0}
  /\ total \in 0..MaxDocuments

\* A reply of a server that still has the cursor is the next part of the result.
LEMMA ReplyIsNext ==
  ASSUME Setting, NEW from \in 0..total, NEW r \in GetMoreReplies(from)
  PROVE  \E k \in Nat :
           /\ from + k <= total /\ r.docs = Numbered(from, k) /\ Len(r.docs) = k
           /\ r.docs \in Seq(Document) /\ r.open \in BOOLEAN /\ r.flag = FALSE
           /\ (k = 0 => from = total /\ ~r.open)
           /\ (~r.open => batch_size < 0 \/ from + k = total)
<1> DEFINE most == Least(total - from, IF batch_size = 0 THEN DefaultBatch ELSE Magnitude(batch_size))
<1>1. batch_size \in Int /\ total \in Nat /\ total <= MaxDocuments /\ MaxDocuments \in Nat
  BY ParameterAssumption DEF Setting
<1>2. most \in Int /\ most <= total - from
  BY <1>1, ParameterAssumption DEF Least, Magnitude
<1>3. r \in [docs : {Numbered(from, k) : k \in 0..most}, open : BOOLEAN, flag : {FALSE}]
      /\ (r.docs = <<>> => from = total /\ ~r.open)
      /\ (batch_size >= 0 /\ from + Len(r.docs) < total => r.open)
  BY DEF GetMoreReplies
<1> HIDE DEF most
<1>4. PICK k \in 0..most : r.docs = Numbered(from, k)
  BY <1>3
<1>5. k \in Nat /\ from + k <= total
  BY <1>1, <1>2
<1>6. r.docs \in Seq(Document) /\ Len(r.docs) = k
  BY <1>1, <1>4, <1>5, NumberedType
<1>7. k = 0 => from = total /\ ~r.open
  BY <1>3, <1>4, <1>5, NumberedEmpty
<1>8. ~r.open => batch_size < 0 \/ from + k = total
  BY <1>1, <1>3, <1>5, <1>6
<1> QED BY <1>3, <1>4, <1>5, <1>6, <1>7, <1>8

LEMMA FirstBatchIsFirst ==
  ASSUME Setting, NEW b \in FirstBatches
  PROVE  \E k \in Nat :
           /\ k <= total /\ b.docs = Numbered(0, k) /\ Len(b.docs) = k
           /\ b.docs \in Seq(Document) /\ b.docs # None /\ b.open \in BOOLEAN
           /\ (~b.open => k = total)
<1>1. total \in Nat /\ total <= MaxDocuments /\ MaxDocuments \in Nat
  BY ParameterAssumption DEF Setting
<1>2. PICK k \in 0 .. Least(total, DefaultBatch) : b.docs = Numbered(0, k)
  BY DEF FirstBatches
<1>3. k \in Nat /\ k <= total
  BY <1>1, ParameterAssumption DEF Least
<1>4. b.docs \in Seq(Document) /\ Len(b.docs) = k
  BY <1>1, <1>2, <1>3, NumberedType
<1>5. b.docs # None
  BY <1>1, <1>2, <1>3, ParameterAssumption DEF Numbered
<1>6. b.open \in BOOLEAN /\ (Len(b.docs) < total => b.open)
  BY DEF FirstBatches
<1> QED BY <1>1, <1>2, <1>3, <1>4, <1>5, <1>6

-----------------------------------------------------------------------------
(* Load and HandleError, whatever they find.                               *)

\* The places of a cursor, which they leave alone.
SamePlace(c, d) ==
  /\ d.started_iterating = c.started_iterating
  /\ d.at = c.at /\ d.num = c.num
  /\ d.first_batch = c.first_batch
  /\ d.first_batch_at = c.first_batch_at
  /\ d.first_batch_num = c.first_batch_num

LEMMA FailedGood ==
  ASSUME NEW c, GoodCursor(c)
  PROVE  /\ GoodCursor(Failed(c)) /\ SamePlace(c, Failed(c)) /\ ~Failed(c).open
         /\ Failed(c).current = c.current /\ Failed(c).buf = c.buf
BY DEF GoodCursor, CursorTypes, Failed, SamePlace

LEMMA CurrentGood ==
  ASSUME NEW c, GoodCursor(c), NEW x \in Document \cup {Garbage, Error, None}
  PROVE  /\ GoodCursor([c EXCEPT !.current = x]) /\ SamePlace(c, [c EXCEPT !.current = x])
         /\ [c EXCEPT !.current = x].current = x /\ [c EXCEPT !.current = x].buf = c.buf
         /\ [c EXCEPT !.current = x].open = c.open /\ [c EXCEPT !.current = x].flag = c.flag
BY DEF GoodCursor, CursorTypes, SamePlace

\* What an outcome may hold besides its cursor.
Fits(s, r, w) ==
  /\ s \in Nat /\ s <= total
  /\ r \in {"none", "ok", "exception", "crash"} /\ w \in {"no", "closed", "lost"}

LEMMA OutcomeGood ==
  ASSUME NEW c, GoodCursor(c), NEW s, NEW r, NEW w, Fits(s, r, w)
  PROVE  /\ GoodOutcome(Outcome(c, s, r, w))
         /\ Outcome(c, s, r, w).cursor = c /\ Outcome(c, s, r, w).sent = s
         /\ Outcome(c, s, r, w).result = r /\ Outcome(c, s, r, w).cut = w
BY DEF GoodOutcome, OutcomeTypes, GoodCursor, Outcome, Fits

LEMMA OutcomeFields ==
  ASSUME NEW o, GoodOutcome(o)
  PROVE  /\ o = Outcome(o.cursor, o.sent, o.result, o.cut)
         /\ GoodCursor(o.cursor) /\ o.cursor \in CursorTypes
         /\ Fits(o.sent, o.result, o.cut) /\ Fits(o.sent, "exception", o.cut)
BY DEF GoodOutcome, OutcomeTypes, Outcome, Fits

\* php_mongo_handle_error() throws for an error document and for the flags of a
\* reply, and clears the error document.
LEMMA HandleErrorCases ==
  ASSUME NEW o, GoodOutcome(o), NEW p \in HandleError(o)
  PROVE  /\ Settled(p) /\ SamePlace(o.cursor, p.cursor)
         /\ p.sent = o.sent /\ p.cut = o.cut
         /\ p.result \in {o.result, "exception"}
         /\ o.cursor.current = Error \/ o.cursor.flag => Thrown(p)
         /\ ~Thrown(p) => p = o
<1>1. o \in OutcomeTypes /\ GoodCursor(o.cursor) /\ o.sent <= total
  BY DEF GoodOutcome
<1> DEFINE cleared == [o.cursor EXCEPT !.current = None]
<1>2. GoodCursor(cleared) /\ SamePlace(o.cursor, cleared) /\ cleared.current = None
  BY <1>1, CurrentGood
<1>3. None # Error
  BY ParameterAssumption DEF Error
<1> DEFINE thrown == [o EXCEPT !.result = "exception", !.cursor.current = None]
<1>4. thrown = Outcome(cleared, o.sent, "exception", o.cut)
  <2>1. thrown = [o EXCEPT !.cursor = cleared, !.result = "exception"]
    BY <1>1 DEF OutcomeTypes
  <2> HIDE DEF cleared, thrown
  <2> QED BY <1>1, <2>1 DEF OutcomeTypes, Outcome
<1> HIDE DEF cleared, thrown
<1>5. /\ GoodOutcome(thrown) /\ thrown.cursor = cleared /\ thrown.result = "exception"
      /\ thrown.sent = o.sent /\ thrown.cut = o.cut
  <2>1. Fits(o.sent, "exception", o.cut)
    BY OutcomeFields
  <2> QED BY <1>2, <1>4, <2>1, OutcomeGood
<1>6. o.cursor.current = Error => p \in {thrown, [thrown EXCEPT !.cursor = Failed(@)]}
  BY DEF HandleError, thrown
<1>7. /\ o.cursor.current # Error /\ o.cursor.flag => p = [o EXCEPT !.result = "exception"]
      /\ o.cursor.current # Error /\ ~o.cursor.flag => p = o
  <2>1. CASE o.cursor.current # Error /\ o.cursor.flag
    BY <2>1 DEF HandleError
  <2>2. CASE o.cursor.current # Error /\ ~o.cursor.flag
    BY <2>2 DEF HandleError
  <2> QED BY <2>1, <2>2
<1>8. CASE o.cursor.current = Error /\ p = thrown
  BY <1>2, <1>3, <1>5, <1>8 DEF Settled, Thrown
<1>9. CASE o.cursor.current = Error /\ p = [thrown EXCEPT !.cursor = Failed(@)]
  <2>1. /\ GoodCursor(Failed(cleared)) /\ SamePlace(cleared, Failed(cleared))
        /\ Failed(cleared).current = None
    BY <1>2, FailedGood
  <2>2. p = Outcome(Failed(cleared), thrown.sent, "exception", thrown.cut)
    BY <1>5, <1>9 DEF GoodOutcome, OutcomeTypes, Outcome
  <2>3. /\ GoodOutcome(p) /\ p.cursor = Failed(cleared) /\ p.result = "exception"
        /\ p.sent = thrown.sent /\ p.cut = thrown.cut
    <3>1. Fits(thrown.sent, "exception", thrown.cut)
      BY <1>5, OutcomeFields
    <3> QED BY <2>1, <2>2, <3>1, OutcomeGood
  <2> QED BY <1>2, <1>3, <1>5, <2>1, <2>3 DEF Settled, Thrown, SamePlace
<1>10. CASE o.cursor.current # Error /\ o.cursor.flag
  <2>1. p = Outcome(o.cursor, o.sent, "exception", o.cut)
    BY <1>1, <1>7, <1>10 DEF OutcomeTypes, Outcome
  <2>2. /\ GoodOutcome(p) /\ p.cursor = o.cursor /\ p.result = "exception"
        /\ p.sent = o.sent /\ p.cut = o.cut
    <3>1. Fits(o.sent, "exception", o.cut)
      BY OutcomeFields
    <3> QED BY <1>1, <2>1, <3>1, OutcomeGood
  <2> QED BY <1>10, <2>2 DEF Settled, Thrown, SamePlace
<1>11. CASE o.cursor.current # Error /\ ~o.cursor.flag
  <2>1. p = o
    BY <1>7, <1>11
  <2> QED BY <2>1, <1>11 DEF Settled, SamePlace
<1> QED BY <1>6, <1>8, <1>9, <1>10, <1>11

\* The element comes from the first batch, as long as that has one.
InFirst(c) == c.first_batch # None /\ c.first_batch_at < Len(c.first_batch)

\* Any load: an exception is never taken back, and without one the cursor shows
\* the next element of the first batch, that of the buffer, or none.
LEMMA LoadCases ==
  ASSUME NEW o, GoodOutcome(o), NEW p, p \in Load(o)
  PROVE  /\ Settled(p) /\ SamePlace(o.cursor, p.cursor)
         /\ p.sent = o.sent /\ p.cut = o.cut /\ p.result \in {o.result, "exception"}
         /\ Thrown(o) => Thrown(p)
         /\ ~Thrown(p) =>
              /\ p.cursor.open = o.cursor.open
              /\ InFirst(o.cursor) =>
                   /\ p.cursor.current = o.cursor.first_batch[o.cursor.first_batch_at + 1]
                   /\ p.cursor.buf = o.cursor.buf
              /\ ~InFirst(o.cursor) /\ o.cursor.at >= o.cursor.num =>
                   p.cursor.current = None /\ p.cursor.buf = o.cursor.buf
              /\ ~InFirst(o.cursor) /\ ~(o.cursor.at >= o.cursor.num) /\ o.cursor.buf # <<>> =>
                   /\ Head(o.cursor.buf) # Error
                   /\ p.cursor.current = Head(o.cursor.buf)
                   /\ p.cursor.buf = Tail(o.cursor.buf)
<1> DEFINE c == [o.cursor EXCEPT !.current = None]
<1>1. GoodCursor(o.cursor) /\ o = Outcome(o.cursor, o.sent, o.result, o.cut)
      /\ Fits(o.sent, o.result, o.cut) /\ Fits(o.sent, "exception", o.cut)
  BY OutcomeFields
<1>2. /\ GoodCursor(c) /\ SamePlace(o.cursor, c) /\ c.current = None /\ c.buf = o.cursor.buf
      /\ c.open = o.cursor.open
  BY <1>1, CurrentGood
<1>3. None # Error /\ Garbage # Error
  BY ParameterAssumption DEF Error, Garbage
<1>4. CASE InFirst(o.cursor)
  <2> DEFINE d == [c EXCEPT !.current = c.first_batch[c.first_batch_at + 1]]
  <2>1. p = [o EXCEPT !.cursor = d]
    BY <1>4, <1>2 DEF Load, InFirst, SamePlace
  <2>2. /\ c.first_batch[c.first_batch_at + 1] \in Document
        /\ c.first_batch[c.first_batch_at + 1] =
             o.cursor.first_batch[o.cursor.first_batch_at + 1]
    BY <1>1, <1>2, <1>4 DEF GoodCursor, CursorTypes, InFirst, SamePlace
  <2>3. /\ GoodCursor(d) /\ SamePlace(c, d) /\ d.buf = c.buf /\ d.open = c.open
        /\ d.current = c.first_batch[c.first_batch_at + 1]
    <3> HIDE DEF c
    <3> QED BY <1>2, <2>2 DEF GoodCursor, CursorTypes, SamePlace
  <2> HIDE DEF d, c
  <2>4. p = Outcome(d, o.sent, o.result, o.cut)
    BY <2>1, <1>1 DEF Outcome
  <2>5. /\ GoodOutcome(p) /\ p.cursor = d /\ p.sent = o.sent /\ p.result = o.result
        /\ p.cut = o.cut
    BY <1>1, <2>3, <2>4, OutcomeGood
  <2>6. SamePlace(o.cursor, d) /\ d.current # Error
    BY <1>2, <2>2, <2>3 DEF SamePlace, Document, Error
  <2> QED BY <1>2, <1>4, <2>2, <2>3, <2>5, <2>6 DEF Settled, Thrown
<1>5. CASE ~InFirst(o.cursor) /\ o.cursor.at >= o.cursor.num
  <2>1. p = [o EXCEPT !.cursor = c]
    BY <1>5, <1>2 DEF Load, InFirst, SamePlace
  <2> HIDE DEF c
  <2>2. p = Outcome(c, o.sent, o.result, o.cut)
    BY <2>1, <1>1 DEF Outcome
  <2>3. /\ GoodOutcome(p) /\ p.cursor = c /\ p.sent = o.sent /\ p.result = o.result
        /\ p.cut = o.cut
    BY <1>1, <1>2, <2>2, OutcomeGood
  <2> QED BY <1>2, <1>3, <1>5, <2>3 DEF Settled, Thrown
<1>6. CASE ~InFirst(o.cursor) /\ ~(o.cursor.at >= o.cursor.num)
  <2> DEFINE read == IF c.buf = <<>> THEN [c EXCEPT !.current = Garbage]
                     ELSE [c EXCEPT !.current = Head(c.buf), !.buf = Tail(c.buf)]
  <2> DEFINE o2 == [o EXCEPT !.cursor = read]
  <2>1. PICK q \in HandleError(o2) : p = IF Thrown(q) THEN [q EXCEPT !.cursor.current = None] ELSE q
    BY <1>6, <1>2 DEF Load, InFirst, SamePlace
  <2>2. /\ GoodCursor(read) /\ SamePlace(c, read) /\ read.open = c.open
        /\ c.buf # <<>> => read.current = Head(c.buf) /\ read.buf = Tail(c.buf)
    <3>1. c.buf \in Seq(Document \cup {Error})
      BY <1>2 DEF GoodCursor, CursorTypes
    <3>2. CASE c.buf = <<>>
      BY <1>2, <3>2, CurrentGood
    <3>3. CASE c.buf # <<>>
      <4>1. Head(c.buf) \in Document \cup {Error} /\ Tail(c.buf) \in Seq(Document \cup {Error})
        BY <3>1, <3>3, HeadTailProperties
      <4>2. read = [c EXCEPT !.current = Head(c.buf), !.buf = Tail(c.buf)]
        BY <3>3
      <4> HIDE DEF c, read
      <4> QED BY <1>2, <4>1, <4>2 DEF GoodCursor, CursorTypes, SamePlace
    <3> QED BY <3>2, <3>3
  <2> HIDE DEF read
  <2>3. o2 = Outcome(read, o.sent, o.result, o.cut)
    BY <1>1 DEF Outcome
  <2> HIDE DEF o2, c
  <2>4. /\ GoodOutcome(o2) /\ o2.cursor = read /\ o2.sent = o.sent /\ o2.result = o.result
        /\ o2.cut = o.cut
    BY <1>1, <2>2, <2>3, OutcomeGood
  <2>5. /\ Settled(q) /\ SamePlace(o2.cursor, q.cursor)
        /\ q.sent = o2.sent /\ q.cut = o2.cut /\ q.result \in {o2.result, "exception"}
        /\ o2.cursor.current = Error => Thrown(q)
        /\ ~Thrown(q) => q = o2
    BY <2>4, HandleErrorCases
  <2>6. SamePlace(o.cursor, q.cursor)
    BY <1>2, <2>2, <2>4, <2>5 DEF SamePlace
  <2>7. CASE Thrown(q)
    <3> DEFINE e == [q.cursor EXCEPT !.current = None]
    <3>1. GoodCursor(q.cursor) /\ q = Outcome(q.cursor, q.sent, q.result, q.cut)
          /\ Fits(q.sent, "exception", q.cut) /\ q.result = "exception"
      BY <2>5, <2>7, OutcomeFields DEF Settled, Thrown
    <3>2. GoodCursor(e) /\ SamePlace(q.cursor, e) /\ e.current = None
      BY <3>1, CurrentGood
    <3>3. p = [q EXCEPT !.cursor = e]
      BY <2>1, <2>7
    <3> HIDE DEF e
    <3>4. p = Outcome(e, q.sent, "exception", q.cut)
      BY <3>1, <3>3 DEF Outcome
    <3>5. /\ GoodOutcome(p) /\ p.cursor = e /\ p.sent = q.sent /\ p.result = "exception"
          /\ p.cut = q.cut
      BY <3>1, <3>2, <3>4, OutcomeGood
    <3> QED BY <1>3, <2>4, <2>5, <2>6, <3>2, <3>5 DEF Settled, Thrown, SamePlace
  <2>8. CASE ~Thrown(q)
    <3>1. p = o2 /\ q = o2
      BY <2>1, <2>5, <2>8
    <3>2. o2.cursor.current # Error
      BY <2>5, <2>8
    <3> QED BY <1>2, <1>6, <2>2, <2>4, <2>5, <2>6, <2>8, <3>1, <3>2 DEF Thrown
  <2> QED BY <2>7, <2>8
<1> QED BY <1>4, <1>5, <1>6

-----------------------------------------------------------------------------
(* get_more.                                                               *)

\* A cursor that has no first batch, or has none any more, receives a reply.
LEMMA ReceiveGood ==
  ASSUME NEW c, GoodCursor(c), c.first_batch = None, ~c.dead, NEW reply,
         reply.docs \in Seq(Document \cup {Error}), reply.open \in BOOLEAN, reply.flag \in BOOLEAN
  PROVE  LET d == Receive(c, reply) IN
         /\ GoodCursor(d)
         /\ d.started_iterating = c.started_iterating /\ d.at = c.at
         /\ d.num = c.num + Len(reply.docs) /\ d.open = reply.open /\ d.buf = reply.docs
         /\ d.first_batch = None /\ d.first_batch_num = c.first_batch_num
         /\ d.current = c.current /\ ~d.dead
<1>1. Len(reply.docs) \in Nat
  BY LenProperties
<1>2. c \in CursorTypes
  BY DEF GoodCursor
<1> DEFINE n == c.num + Len(reply.docs)
<1>3. n \in Nat
  BY <1>1, <1>2 DEF CursorTypes
<1> DEFINE u == reply.docs
<1> DEFINE d == [c EXCEPT !.num = n, !.open = reply.open, !.flag = reply.flag, !.buf = u]
<1>4. Receive(c, reply) = d
  BY DEF Receive
<1>5. u \in Seq(Document \cup {Error})
  OBVIOUS
<1> HIDE DEF n, u
<1>6. d \in CursorTypes /\ ~d.dead
  BY <1>2, <1>3, <1>5 DEF CursorTypes
<1>7. /\ d.started_iterating = c.started_iterating /\ d.at = c.at
      /\ d.num = n /\ d.open = reply.open /\ d.buf = u
      /\ d.first_batch = None /\ d.first_batch_num = c.first_batch_num
      /\ d.current = c.current
  BY <1>2 DEF CursorTypes
<1> QED BY <1>4, <1>6, <1>7 DEF GoodCursor, n, u

\* Nothing of the reply is kept when the exchange fails.
LEMMA BrokenGood ==
  ASSUME NEW c, GoodCursor(c)
  PROVE  LET d == Failed([c EXCEPT !.buf = <<>>]) IN
         /\ GoodCursor(d) /\ SamePlace(c, d) /\ d.current = c.current
<1>1. <<>> \in Seq(Document \cup {Error})
  BY EmptySeq
<1> QED BY <1>1 DEF GoodCursor, CursorTypes, Failed, SamePlace

\* What get_more may leave behind, without an exception: the next part of the
\* result, nothing from a server that lost the cursor, or one error document.
Received(o, g) ==
  \/ g.cursor.buf = <<Error>> /\ g.cursor.num = o.cursor.num + 1
  \/ \E k \in Nat :
       /\ g.cursor.buf = Numbered(o.sent, k)
       /\ g.sent = o.sent + k /\ g.cursor.num = o.cursor.num + k
       /\ k = 0 => ~g.cursor.open
       /\ ~g.cursor.open => g.cut # "no" \/ g.sent = total

LEMMA GetMoreCases ==
  ASSUME Setting, NEW o, Settled(o), o.cursor.first_batch = None, ~o.cursor.dead,
         NEW g, g \in GetMore(o)
  PROVE  /\ Settled(g) /\ g.result \in {o.result, "exception"}
         /\ g.cursor.first_batch = None
         /\ g.cursor.started_iterating = o.cursor.started_iterating
         /\ g.cursor.at = o.cursor.at
         /\ g.cursor.first_batch_num = o.cursor.first_batch_num
         /\ ~Thrown(g) => Received(o, g)
<1>1. /\ GoodOutcome(o) /\ GoodCursor(o.cursor) /\ o = Outcome(o.cursor, o.sent, o.result, o.cut)
      /\ Fits(o.sent, o.result, o.cut) /\ Fits(o.sent, "exception", o.cut)
      /\ o.cursor.current # Error
  BY OutcomeFields DEF Settled
<1>2. o.sent \in Nat /\ o.sent <= total /\ total \in Nat /\ o.sent \in 0..total
  BY <1>1, ParameterAssumption DEF Fits, Setting
<1> DEFINE received(reply) == [o EXCEPT !.cursor = Receive(@, reply)]
<1> DEFINE failed(p) ==
      [p EXCEPT !.cursor = Failed([@ EXCEPT !.buf = <<>>]), !.result = "exception"]
<1> DEFINE Same(p) ==
      /\ p.cursor.first_batch = None
      /\ p.cursor.started_iterating = o.cursor.started_iterating
      /\ p.cursor.at = o.cursor.at
      /\ p.cursor.first_batch_num = o.cursor.first_batch_num
<1> DEFINE Reply(reply) ==
      reply.docs \in Seq(Document \cup {Error}) /\ reply.open \in BOOLEAN /\ reply.flag \in BOOLEAN
<1>3. ASSUME NEW reply, Reply(reply)
      PROVE  LET p == received(reply) IN
             /\ Settled(p) /\ Same(p) /\ p.result = o.result
             /\ p.sent = o.sent /\ p.cut = o.cut
             /\ p.cursor.num = o.cursor.num + Len(reply.docs)
             /\ p.cursor.open = reply.open /\ p.cursor.buf = reply.docs
             /\ p = Outcome(p.cursor, o.sent, o.result, o.cut)
  <2> DEFINE d == Receive(o.cursor, reply)
  <2>1. /\ GoodCursor(d)
        /\ d.started_iterating = o.cursor.started_iterating /\ d.at = o.cursor.at
        /\ d.num = o.cursor.num + Len(reply.docs) /\ d.open = reply.open /\ d.buf = reply.docs
        /\ d.first_batch = None /\ d.first_batch_num = o.cursor.first_batch_num
        /\ d.current = o.cursor.current
    BY <1>1, <1>3, ReceiveGood
  <2>2. received(reply) = Outcome(d, o.sent, o.result, o.cut)
    BY <1>1 DEF Outcome
  <2> HIDE DEF d, received
  <2>3. LET p == received(reply) IN
        /\ GoodOutcome(p) /\ p.cursor = d /\ p.sent = o.sent /\ p.result = o.result
        /\ p.cut = o.cut
    BY <1>1, <2>1, <2>2, OutcomeGood
  <2> QED BY <1>1, <2>1, <2>2, <2>3 DEF Settled
<1>4. ASSUME NEW p, Settled(p), Same(p)
      PROVE  Settled(failed(p)) /\ Same(failed(p)) /\ failed(p).result = "exception"
  <2>1. GoodCursor(p.cursor) /\ p = Outcome(p.cursor, p.sent, p.result, p.cut)
        /\ Fits(p.sent, "exception", p.cut) /\ p.cursor.current # Error
    BY <1>4, OutcomeFields DEF Settled
  <2> DEFINE d == Failed([p.cursor EXCEPT !.buf = <<>>])
  <2>2. GoodCursor(d) /\ SamePlace(p.cursor, d) /\ d.current = p.cursor.current
    BY <2>1, BrokenGood
  <2>3. failed(p) = Outcome(d, p.sent, "exception", p.cut)
    <3>1. failed(p) = [p EXCEPT !.cursor = d, !.result = "exception"]
      OBVIOUS
    <3>2. p \in OutcomeTypes
      BY <1>4 DEF Settled, GoodOutcome
    <3> HIDE DEF d, failed
    <3> QED BY <3>1, <3>2 DEF Outcome, OutcomeTypes
  <2> HIDE DEF d, failed
  <2>4. GoodOutcome(failed(p)) /\ failed(p).cursor = d /\ failed(p).result = "exception"
    BY <2>1, <2>2, <2>3, OutcomeGood
  <2> QED BY <1>4, <2>1, <2>2, <2>4 DEF Settled, SamePlace
<1> DEFINE replies == GetMoreReplies(o.sent)
<1> DEFINE counted(r) ==
      [received(r) EXCEPT !.sent = @ + Len(r.docs), !.cut = IF batch_size < 0 THEN "closed" ELSE @]
<1>5. \/ g = failed(o)
      \/ g = [received(CursorNotFound) EXCEPT !.cut = "lost"]
      \/ g = received(QueryFailure)
      \/ \E r \in replies : g = failed(received(r))
      \/ \E r \in replies : g = counted(r)
  BY DEF GetMore
<1> HIDE DEF failed
<1>6. Same(o)
  BY DEF Settled
<1>7. CASE g = failed(o)
  BY <1>4, <1>6, <1>7 DEF Thrown
<1>8. CASE g = [received(CursorNotFound) EXCEPT !.cut = "lost"]
  <2>1. Reply(CursorNotFound) /\ CursorNotFound.docs = <<>> /\ CursorNotFound.open = FALSE
        /\ Len(CursorNotFound.docs) = 0
    BY EmptySeq DEF CursorNotFound
  <2> DEFINE p == received(CursorNotFound)
  <2> HIDE DEF received
  <2>2. /\ Settled(p) /\ Same(p) /\ p.result = o.result
        /\ p.sent = o.sent /\ p.cut = o.cut /\ p.cursor.num = o.cursor.num + 0
        /\ p.cursor.open = FALSE /\ p.cursor.buf = <<>>
        /\ p = Outcome(p.cursor, o.sent, o.result, o.cut)
    BY <1>3, <2>1
  <2> HIDE DEF p
  <2>3. g = Outcome(p.cursor, o.sent, o.result, "lost")
    BY <1>8, <2>2 DEF Outcome, p
  <2>4. GoodCursor(p.cursor) /\ Fits(o.sent, o.result, "lost")
    BY <1>1, <2>2, OutcomeFields DEF Settled, Fits
  <2>5. /\ GoodOutcome(g) /\ g.cursor = p.cursor /\ g.sent = o.sent /\ g.result = o.result
        /\ g.cut = "lost"
    BY <2>3, <2>4, OutcomeGood
  <2>6. Received(o, g)
    <3>1. o.cursor.num \in Nat
      BY <1>1 DEF GoodCursor, CursorTypes
    <3>2. /\ g.cursor.buf = Numbered(o.sent, 0) /\ g.sent = o.sent + 0
          /\ g.cursor.num = o.cursor.num + 0 /\ ~g.cursor.open /\ g.cut # "no"
      BY <1>2, <2>2, <2>5, NumberedEmpty
    <3> QED BY <3>2 DEF Received
  <2> QED BY <2>2, <2>5, <2>6 DEF Settled
<1>9. CASE g = received(QueryFailure)
  <2>1. Reply(QueryFailure) /\ QueryFailure.docs = <<Error>> /\ Len(QueryFailure.docs) = 1
    BY DEF QueryFailure
  <2> HIDE DEF received
  <2>2. /\ Settled(g) /\ Same(g) /\ g.result = o.result
        /\ g.cursor.num = o.cursor.num + 1 /\ g.cursor.buf = <<Error>>
    BY <1>3, <1>9, <2>1
  <2> QED BY <2>2 DEF Received
<1>10. ASSUME NEW r \in replies PROVE
         \E k \in Nat :
           /\ o.sent + k <= total /\ r.docs = Numbered(o.sent, k) /\ Len(r.docs) = k
           /\ Reply(r) /\ (k = 0 => ~r.open)
           /\ (~r.open => batch_size < 0 \/ o.sent + k = total)
  <2>1. PICK k \in Nat :
           /\ o.sent + k <= total /\ r.docs = Numbered(o.sent, k) /\ Len(r.docs) = k
           /\ r.docs \in Seq(Document) /\ r.open \in BOOLEAN /\ r.flag = FALSE
           /\ (k = 0 => o.sent = total /\ ~r.open)
           /\ (~r.open => batch_size < 0 \/ o.sent + k = total)
    BY <1>2, ReplyIsNext
  <2>2. r.docs \in Seq(Document \cup {Error})
    BY <2>1, SeqMonotonic
  <2> QED BY <2>1, <2>2
<1>11. ASSUME NEW r \in replies, g = failed(received(r))
       PROVE  Settled(g) /\ Same(g) /\ g.result = "exception"
  <2> HIDE DEF received
  <2>1. Reply(r)
    BY <1>10
  <2>2. Settled(received(r)) /\ Same(received(r))
    BY <1>3, <2>1
  <2> QED BY <1>4, <1>11, <2>2
<1>12. ASSUME NEW r \in replies, g = counted(r)
       PROVE  Settled(g) /\ Same(g) /\ g.result = o.result /\ Received(o, g)
  <2>1. PICK k \in Nat :
           /\ o.sent + k <= total /\ r.docs = Numbered(o.sent, k) /\ Len(r.docs) = k
           /\ Reply(r) /\ (k = 0 => ~r.open)
           /\ (~r.open => batch_size < 0 \/ o.sent + k = total)
    BY <1>10
  <2> DEFINE p == received(r)
  <2> HIDE DEF received
  <2>2. /\ Settled(p) /\ Same(p) /\ p.result = o.result
        /\ p.sent = o.sent /\ p.cut = o.cut /\ p.cursor.num = o.cursor.num + k
        /\ p.cursor.open = r.open /\ p.cursor.buf = Numbered(o.sent, k)
        /\ p = Outcome(p.cursor, o.sent, o.result, o.cut)
    BY <1>3, <2>1
  <2> DEFINE w == IF batch_size < 0 THEN "closed" ELSE o.cut
  <2>3. g = Outcome(p.cursor, o.sent + k, o.result, w)
    <3> HIDE DEF p
    <3> QED BY <1>12, <2>1, <2>2 DEF Outcome, p
  <2> HIDE DEF p
  <2>4. GoodCursor(p.cursor) /\ Fits(o.sent + k, o.result, w)
    BY <1>1, <1>2, <2>1, <2>2, OutcomeFields DEF Settled, Fits
  <2>5. w = "closed" \/ batch_size >= 0
    BY ParameterAssumption DEF Setting
  <2> HIDE DEF w
  <2>6. /\ GoodOutcome(g) /\ g.cursor = p.cursor /\ g.sent = o.sent + k /\ g.result = o.result
        /\ g.cut = w
    BY <2>3, <2>4, OutcomeGood
  <2>7. ~g.cursor.open => g.cut # "no" \/ g.sent = total
    BY <2>1, <2>2, <2>5, <2>6, ParameterAssumption DEF Setting
  <2>8. Received(o, g)
    BY <2>1, <2>2, <2>6, <2>7 DEF Received
  <2> QED BY <2>2, <2>6, <2>8 DEF Settled
<1> QED BY <1>5, <1>7, <1>8, <1>9, <1>11, <1>12 DEF Thrown

-----------------------------------------------------------------------------
(* Where an iteration stands.                                              *)

\* After k documents: the first batch is at its place, or the buffer holds what
\* is left of the reply.  `n` is how much of the later batches was used up.
Left(c, s, k, n) ==
  /\ s = c.first_batch_num + c.num /\ k = c.first_batch_num + n
  /\ c.buf = Numbered(k, c.num - n)
  /\ c.open => c.at < c.num

InArray(c, s) ==
  c.first_batch = Numbered(0, c.first_batch_num) /\ s = c.first_batch_num /\ c.buf = <<>>

EmptyArray(c) == c.first_batch_at = 0 /\ c.first_batch_num = 0 /\ ~c.open

\* A closed cursor got everything, unless the end was cut off.
ClosedAtEnd(c, s, w) == ~c.open => w # "no" \/ s = total

\* The next load hands out document k + 1, or finds the end.
Ready(o, k) ==
  LET c == o.cursor IN
  /\ Settled(o) /\ o.result = "ok" /\ k \in Nat
  /\ c.first_batch # None =>
       /\ InArray(c, o.sent) /\ k = c.first_batch_at
       /\ c.first_batch_at < c.first_batch_num \/ EmptyArray(c)
  /\ c.first_batch = None => Left(c, o.sent, k, Least(c.at, c.num))
  /\ ClosedAtEnd(c, o.sent, o.cut)

\* k documents were handed out.
Tracked(c, s, w, k) ==
  /\ k \in Nat
  /\ c.first_batch # None =>
       /\ InArray(c, s)
       /\ (c.first_batch_at < c.first_batch_num /\ k = c.first_batch_at + 1) \/ (EmptyArray(c) /\ k = 0)
  /\ c.first_batch = None => Left(c, s, k, Least(c.at + 1, c.num))
  /\ ClosedAtEnd(c, s, w)

\* What a call shows that had k documents before it.
ShowsNext(c, s, w, k) ==
  /\ c.current = k /\ k \in Document /\ k <= s /\ Tracked(c, s, w, k)
  /\ c.first_batch = None => c.at < c.num

ShowsEnd(c, s, w, k) ==
  c.current = None /\ ~c.open /\ k = s /\ Tracked(c, s, w, k)

Shows(o, k) ==
  ShowsNext(o.cursor, o.sent, o.cut, k + 1) \/ ShowsEnd(o.cursor, o.sent, o.cut, k)

LEMMA LoadShows ==
  ASSUME Setting, NEW o, NEW k, Ready(o, k), NEW p, p \in Load(o)
  PROVE  /\ Settled(p) /\ SamePlace(o.cursor, p.cursor) /\ p.result \in {"ok", "exception"}
         /\ Thrown(p) \/ Shows(p, k)
<1> DEFINE c == o.cursor
<1> DEFINE d == p.cursor
<1>1. /\ Settled(p) /\ SamePlace(c, d) /\ p.sent = o.sent /\ p.cut = o.cut
      /\ p.result \in {"ok", "exception"}
  BY LoadCases DEF Ready, Settled
<1>2. /\ c \in CursorTypes /\ GoodCursor(c) /\ o.sent \in Nat /\ o.sent <= total /\ k \in Nat
      /\ total \in Nat /\ total <= MaxDocuments /\ MaxDocuments \in Nat
  BY ParameterAssumption DEF Ready, Settled, GoodOutcome, OutcomeTypes, Setting, GoodCursor
<1>3. /\ c.at \in Nat /\ c.num \in Nat /\ c.first_batch_at \in Nat /\ c.first_batch_num \in Nat
  BY <1>2, ParameterAssumption DEF CursorTypes
<1> SUFFICES ASSUME ~Thrown(p) PROVE Shows(p, k)
  BY <1>1
<1>4. /\ d.open = c.open
      /\ InFirst(c) => d.current = c.first_batch[c.first_batch_at + 1] /\ d.buf = c.buf
      /\ ~InFirst(c) /\ c.at >= c.num => d.current = None /\ d.buf = c.buf
      /\ ~InFirst(c) /\ ~(c.at >= c.num) /\ c.buf # <<>> =>
           d.current = Head(c.buf) /\ d.buf = Tail(c.buf)
  BY LoadCases DEF Ready, Settled
<1>5. /\ d.at = c.at /\ d.num = c.num /\ d.first_batch = c.first_batch
      /\ d.first_batch_at = c.first_batch_at /\ d.first_batch_num = c.first_batch_num
  BY <1>1 DEF SamePlace
<1>6. ClosedAtEnd(d, p.sent, p.cut)
  BY <1>1, <1>4 DEF Ready, ClosedAtEnd
<1>7. CASE c.first_batch # None
  <2>1. /\ InArray(c, o.sent) /\ k = c.first_batch_at
        /\ c.first_batch_at < c.first_batch_num \/ EmptyArray(c)
    BY <1>7 DEF Ready
  <2>2. c.first_batch_num <= MaxDocuments /\ Len(c.first_batch) = c.first_batch_num
    BY <1>2, <1>3, <2>1, NumberedType DEF InArray
  <2>3. CASE c.first_batch_at < c.first_batch_num
    <3>1. InFirst(c)
      BY <1>7, <2>2, <2>3 DEF InFirst
    <3>2. d.current = k + 1
      <4>1. c.first_batch_at + 1 \in 1 .. c.first_batch_num
        BY <1>3, <2>3
      <4>2. c.first_batch[c.first_batch_at + 1] = 0 + (c.first_batch_at + 1)
        BY <1>3, <2>1, <4>1 DEF InArray, Numbered
      <4> QED BY <1>3, <1>4, <2>1, <3>1, <4>2
    <3>3. k + 1 \in Document /\ k + 1 <= o.sent
      <4>1. k + 1 <= c.first_batch_num /\ 1 <= k + 1
        BY <1>2, <1>3, <2>1, <2>3
      <4> QED BY <1>2, <1>3, <2>1, <2>2, <4>1 DEF Document, InArray
    <3>4. InArray(d, p.sent)
      BY <1>1, <1>4, <1>5, <2>1, <3>1 DEF InArray
    <3> HIDE DEF c, d
    <3> QED BY <1>1, <1>2, <1>5, <1>6, <1>7, <2>1, <2>3, <3>2, <3>3, <3>4
            DEF Shows, ShowsNext, Tracked, d
  <2>4. CASE ~(c.first_batch_at < c.first_batch_num)
    <3>1. EmptyArray(c) /\ k = 0 /\ o.sent = 0
      BY <2>1, <2>4 DEF EmptyArray, InArray
    <3>2. ~InFirst(c) /\ c.at >= c.num
      BY <1>2, <1>7, <2>2, <2>4, <3>1 DEF InFirst, GoodCursor
    <3>3. InArray(d, p.sent) /\ EmptyArray(d)
      BY <1>1, <1>4, <1>5, <2>1, <3>1, <3>2 DEF InArray, EmptyArray
    <3>4. d.current = None /\ ~d.open
      BY <1>4, <3>1, <3>2 DEF EmptyArray
    <3> HIDE DEF c, d
    <3> QED BY <1>1, <1>2, <1>5, <1>6, <1>7, <3>1, <3>3, <3>4
            DEF Shows, ShowsEnd, Tracked, d
  <2> QED BY <2>3, <2>4
<1>8. CASE c.first_batch = None
  <2>1. Left(c, o.sent, k, Least(c.at, c.num)) /\ ~InFirst(c)
    BY <1>8 DEF Ready, InFirst
  <2>2. CASE c.at >= c.num
    <3>1. Least(c.at, c.num) = c.num /\ Least(c.at + 1, c.num) = c.num
      BY <1>3, <2>2 DEF Least
    <3>2. d.current = None /\ ~d.open /\ k = o.sent
      BY <1>3, <1>4, <2>1, <2>2, <3>1 DEF Left
    <3>3. Left(d, p.sent, k, Least(d.at + 1, d.num))
      BY <1>1, <1>4, <1>5, <2>1, <2>2, <3>1 DEF Left
    <3> HIDE DEF c, d
    <3> QED BY <1>1, <1>2, <1>5, <1>6, <1>8, <3>2, <3>3 DEF Shows, ShowsEnd, Tracked, d
  <2>3. CASE ~(c.at >= c.num)
    <3>1. Least(c.at, c.num) = c.at /\ Least(c.at + 1, c.num) = c.at + 1
      BY <1>3, <2>3 DEF Least
    <3>2. c.buf = Numbered(k, c.num - c.at) /\ k = c.first_batch_num + c.at
          /\ o.sent = c.first_batch_num + c.num
      BY <2>1, <3>1 DEF Left
    <3>3. c.num - c.at \in Nat /\ c.num - c.at # 0
      BY <1>3, <2>3
    <3>4. c.buf # <<>> /\ Head(c.buf) = k + 1 /\ Tail(c.buf) = Numbered(k + 1, c.num - c.at - 1)
      <4>1. Count(k) /\ Count(c.num - c.at)
        BY <1>2, <3>3 DEF Count
      <4> QED BY <3>2, <3>3, <4>1, NumberedTail
    <3>5. d.current = k + 1 /\ d.buf = Numbered(k + 1, c.num - c.at - 1)
      BY <1>4, <2>1, <2>3, <3>4
    <3>6. k + 1 \in Document /\ k + 1 <= o.sent
      <4>1. c.at + 1 <= c.num
        BY <1>3, <2>3
      <4>2. k + 1 <= o.sent /\ 1 <= k + 1
        BY <1>2, <1>3, <3>2, <4>1
      <4> QED BY <1>2, <4>2 DEF Document
    <3>7. Left(d, p.sent, k + 1, Least(d.at + 1, d.num))
      <4>1. c.num - c.at - 1 = c.num - (c.at + 1) /\ k + 1 = c.first_batch_num + (c.at + 1)
        BY <1>3, <3>2
      <4> QED BY <1>1, <1>4, <1>5, <2>1, <3>1, <3>2, <3>5, <4>1 DEF Left
    <3>8. d.at < d.num
      BY <1>3, <1>5, <2>3
    <3> HIDE DEF c, d
    <3> QED BY <1>1, <1>2, <1>5, <1>6, <1>8, <3>5, <3>6, <3>7, <3>8
            DEF Shows, ShowsNext, Tracked, d
  <2> QED BY <2>2, <2>3
<1> QED BY <1>7, <1>8

\* A cursor at the end of what it received asks for more and loads.
LEMMA FurtherTypes ==
  ASSUME Setting, NEW o, Settled(o), o.result = "ok",
         o.cursor.first_batch = None, o.cursor.open,
         NEW g, g \in GetMore(o), NEW p, (p = g /\ Thrown(g)) \/ p \in Load(g)
  PROVE  /\ Settled(p) /\ p.result \in {"ok", "exception"}
         /\ p.cursor.started_iterating = o.cursor.started_iterating
         /\ Thrown(g) => Thrown(p)
<1>1. ~o.cursor.dead
  BY DEF Settled, GoodOutcome, GoodCursor
<1>2. /\ Settled(g) /\ g.result \in {"ok", "exception"}
      /\ g.cursor.started_iterating = o.cursor.started_iterating
  BY <1>1, GetMoreCases
<1>3. CASE p = g
  BY <1>2, <1>3
<1>4. CASE p \in Load(g)
  <2>1. /\ Settled(p) /\ SamePlace(g.cursor, p.cursor) /\ p.result \in {g.result, "exception"}
        /\ Thrown(g) => Thrown(p)
    BY <1>2, <1>4, LoadCases DEF Settled
  <2> QED BY <1>2, <2>1 DEF SamePlace
<1> QED BY <1>3, <1>4

LEMMA FurtherShows ==
  ASSUME Setting, NEW o, Settled(o), o.result = "ok",
         o.cursor.first_batch = None, o.cursor.open,
         o.cursor.at = o.cursor.num, o.sent = o.cursor.first_batch_num + o.cursor.num,
         NEW g, g \in GetMore(o), NEW p, (p = g /\ Thrown(g)) \/ p \in Load(g)
  PROVE  Thrown(p) \/ Shows(p, o.sent)
<1>1. ~o.cursor.dead
  BY DEF Settled, GoodOutcome, GoodCursor
<1>2. /\ Settled(g) /\ g.result \in {"ok", "exception"} /\ g.cursor.first_batch = None
      /\ g.cursor.at = o.cursor.at /\ g.cursor.first_batch_num = o.cursor.first_batch_num
      /\ ~Thrown(g) => Received(o, g)
  BY <1>1, GetMoreCases
<1>3. CASE Thrown(g)
  BY <1>3, FurtherTypes
<1>4. CASE ~Thrown(g)
  <2>1. p \in Load(g) /\ g.result = "ok"
    BY <1>2, <1>4 DEF Thrown
  <2>2. /\ o.cursor.num \in Nat /\ o.cursor.first_batch_num \in Nat /\ o.sent \in Nat
    BY DEF Settled, GoodOutcome, OutcomeTypes, CursorTypes
  <2>3. CASE g.cursor.buf = <<Error>> /\ g.cursor.num = o.cursor.num + 1
    <3>1. ~(g.cursor.at >= g.cursor.num) /\ ~InFirst(g.cursor)
      BY <1>2, <2>2, <2>3 DEF InFirst
    <3>2. g.cursor.buf # <<>> /\ Head(g.cursor.buf) = Error
      BY <2>3
    <3> QED BY <1>2, <2>1, <3>1, <3>2, LoadCases DEF Settled
  <2>4. ASSUME NEW n \in Nat,
               g.cursor.buf = Numbered(o.sent, n),
               g.sent = o.sent + n, g.cursor.num = o.cursor.num + n,
               n = 0 => ~g.cursor.open,
               ~g.cursor.open => g.cut # "no" \/ g.sent = total
        PROVE  Thrown(p) \/ Shows(p, o.sent)
    <3>1. Least(g.cursor.at, g.cursor.num) = o.cursor.num
      BY <1>2, <2>2, <2>4 DEF Least
    <3>2. g.cursor.num - o.cursor.num = n /\ (g.cursor.open => g.cursor.at < g.cursor.num)
      BY <1>2, <2>2, <2>4
    <3>3. g.sent = g.cursor.first_batch_num + g.cursor.num
      BY <1>2, <2>2, <2>4
    <3>4. Left(g.cursor, g.sent, o.sent, Least(g.cursor.at, g.cursor.num))
      BY <1>2, <2>4, <3>1, <3>2, <3>3 DEF Left
    <3>5. Ready(g, o.sent)
      BY <1>2, <2>1, <2>2, <2>4, <3>4 DEF Ready, ClosedAtEnd
    <3> QED BY <2>1, <3>5, LoadShows
  <2> QED BY <1>2, <1>4, <2>3, <2>4 DEF Received
<1> QED BY <1>3, <1>4

-----------------------------------------------------------------------------
(* next().                                                                 *)

Types ==
  /\ TypeOK /\ Setting /\ GoodCursor(cursor) /\ cursor.current # Error /\ sent <= total

NextCursor == [cursor EXCEPT !.current = None, !.first_batch_at = @ + 1]
Dropped == [cursor EXCEPT !.current = None, !.first_batch_at = @ + 1, !.first_batch = None]
Later == [cursor EXCEPT !.current = None, !.at = @ + 1]

\* Every outcome of next() comes from a load, or from get_more.
LEMMA AdvanceCases ==
  ASSUME Types, NEW o, o \in Advance
  PROVE  \/ /\ cursor.first_batch # None /\ ~FirstBatchOver(NextCursor)
            /\ o \in Load(Outcome(NextCursor, sent, "ok", cut))
         \/ /\ cursor.first_batch # None /\ FirstBatchOver(NextCursor)
            /\ ~Dropped.open /\ o \in Load(Outcome(Dropped, sent, "ok", cut))
         \/ /\ cursor.first_batch # None /\ FirstBatchOver(NextCursor) /\ Dropped.open
            /\ \E g \in GetMore(Outcome(Dropped, sent, "ok", cut)) :
                 (o = g /\ Thrown(g)) \/ o \in Load(g)
         \/ /\ cursor.first_batch = None /\ ~BatchOver(Later)
            /\ o \in Load(Outcome(Later, sent, "ok", cut))
         \/ /\ cursor.first_batch = None /\ BatchOver(Later)
            /\ \E g \in GetMore(Outcome(Later, sent, "ok", cut)) :
                 (o = g /\ Thrown(g)) \/ o \in Load(g)
<1> DEFINE unloaded == [cursor EXCEPT !.current = None]
<1> DEFINE in_first == [unloaded EXCEPT !.first_batch_at = @ + 1]
<1> DEFINE dropped == [in_first EXCEPT !.first_batch = None]
<1> DEFINE later == [unloaded EXCEPT !.at = @ + 1]
<1> DEFINE further(c) ==
      UNION {IF Thrown(q) THEN {q} ELSE Load(q) : q \in GetMore(Outcome(c, sent, "ok", cut))}
<1>1. cursor \in CursorTypes
  BY DEF Types, GoodCursor
<1>2. in_first = NextCursor /\ dropped = Dropped /\ later = Later
  BY <1>1 DEF CursorTypes, NextCursor, Dropped, Later
<1>3. o \in IF cursor.first_batch # None
            THEN IF ~FirstBatchOver(in_first) THEN Load(Outcome(in_first, sent, "ok", cut))
                 ELSE IF dropped.open THEN further(dropped)
                      ELSE Load(Outcome(dropped, sent, "ok", cut))
            ELSE IF BatchOver(later) THEN further(later)
                 ELSE Load(Outcome(later, sent, "ok", cut))
  BY DEF Advance
<1> HIDE DEF unloaded, in_first, dropped, later
<1>4. ASSUME NEW c, o \in further(c)
      PROVE  \E g \in GetMore(Outcome(c, sent, "ok", cut)) : (o = g /\ Thrown(g)) \/ o \in Load(g)
  <2>1. PICK g \in GetMore(Outcome(c, sent, "ok", cut)) :
          o \in IF Thrown(g) THEN {g} ELSE Load(g)
    BY <1>4
  <2> QED BY <2>1
<1> HIDE DEF further
<1>5. CASE cursor.first_batch # None /\ ~FirstBatchOver(in_first)
  BY <1>2, <1>3, <1>5
<1>6. CASE cursor.first_batch # None /\ FirstBatchOver(in_first) /\ dropped.open
  BY <1>2, <1>3, <1>4, <1>6
<1>7. CASE cursor.first_batch # None /\ FirstBatchOver(in_first) /\ ~dropped.open
  BY <1>2, <1>3, <1>7
<1>8. CASE cursor.first_batch = None /\ BatchOver(later)
  BY <1>2, <1>3, <1>4, <1>8
<1>9. CASE cursor.first_batch = None /\ ~BatchOver(later)
  BY <1>2, <1>3, <1>9
<1> QED BY <1>5, <1>6, <1>7, <1>8, <1>9

LEMMA OkFits == ASSUME Types PROVE Fits(sent, "ok", cut)
BY DEF Types, TypeOK, Fits

\* The cursors next() makes before it loads.
LEMMA NextCursors ==
  ASSUME Types, cursor.at <= MaxDocuments + 1
  PROVE  /\ cursor.first_batch # None =>
              /\ Settled(Outcome(NextCursor, sent, "ok", cut))
              /\ Settled(Outcome(Dropped, sent, "ok", cut))
         /\ cursor.first_batch = None => Settled(Outcome(Later, sent, "ok", cut))
<1>1. cursor \in CursorTypes /\ GoodCursor(cursor) /\ Fits(sent, "ok", cut) /\ None # Error
  BY OkFits, ParameterAssumption DEF Types, GoodCursor, Error
<1>2. ASSUME cursor.first_batch # None
      PROVE  GoodCursor(NextCursor) /\ NextCursor.current = None
  <2> DEFINE n == cursor.first_batch_at + 1
  <2>1. n \in Nat /\ NextCursor = [cursor EXCEPT !.current = None, !.first_batch_at = n]
    BY <1>1 DEF CursorTypes, NextCursor
  <2> HIDE DEF n
  <2> QED BY <1>1, <1>2, <2>1 DEF GoodCursor, CursorTypes
<1>3. GoodCursor(Dropped) /\ Dropped.current = None
  <2> DEFINE n == cursor.first_batch_at + 1
  <2>1. /\ n \in Nat
        /\ Dropped = [cursor EXCEPT !.current = None, !.first_batch_at = n, !.first_batch = None]
    BY <1>1 DEF CursorTypes, Dropped
  <2> HIDE DEF n
  <2> QED BY <1>1, <2>1 DEF GoodCursor, CursorTypes
<1>4. ASSUME cursor.first_batch = None
      PROVE  GoodCursor(Later) /\ Later.current = None
  <2>1. cursor.at + 1 \in 0 .. MaxDocuments + 2
    BY <1>1, ParameterAssumption DEF CursorTypes
  <2> QED BY <1>1, <1>4, <2>1 DEF GoodCursor, CursorTypes, Later
<1>5. ASSUME NEW c, GoodCursor(c), c.current = None
      PROVE  Settled(Outcome(c, sent, "ok", cut))
  <2>1. GoodOutcome(Outcome(c, sent, "ok", cut)) /\ Outcome(c, sent, "ok", cut).cursor = c
    BY <1>1, <1>5, OutcomeGood
  <2> QED BY <1>1, <1>5, <2>1 DEF Settled
<1> QED BY <1>2, <1>3, <1>4, <1>5

\* Whatever next() finds.
LEMMA AdvanceTypes ==
  ASSUME Types, cursor.at <= MaxDocuments + 1, NEW o, o \in Advance
  PROVE  /\ Settled(o) /\ o.result \in {"ok", "exception"}
         /\ o.cursor.started_iterating = cursor.started_iterating
<1>1. cursor \in CursorTypes /\ Setting
  BY DEF Types, GoodCursor
<1>2. /\ NextCursor.started_iterating = cursor.started_iterating
      /\ Dropped.started_iterating = cursor.started_iterating /\ Dropped.first_batch = None
      /\ Later.started_iterating = cursor.started_iterating
      /\ Later.first_batch = cursor.first_batch
  BY <1>1 DEF CursorTypes, NextCursor, Dropped, Later
<1>3. ASSUME NEW c, Settled(Outcome(c, sent, "ok", cut)), o \in Load(Outcome(c, sent, "ok", cut)),
             c.started_iterating = cursor.started_iterating
      PROVE  /\ Settled(o) /\ o.result \in {"ok", "exception"}
             /\ o.cursor.started_iterating = cursor.started_iterating
  <2>1. Outcome(c, sent, "ok", cut).cursor = c /\ Outcome(c, sent, "ok", cut).result = "ok"
    BY DEF Outcome
  <2>2. /\ Settled(o) /\ SamePlace(Outcome(c, sent, "ok", cut).cursor, o.cursor)
        /\ o.result \in {Outcome(c, sent, "ok", cut).result, "exception"}
    BY <1>3, LoadCases DEF Settled
  <2> QED BY <1>3, <2>1, <2>2 DEF SamePlace
<1>4. ASSUME NEW c, Settled(Outcome(c, sent, "ok", cut)), c.first_batch = None, c.open,
             c.started_iterating = cursor.started_iterating,
             \E g \in GetMore(Outcome(c, sent, "ok", cut)) : (o = g /\ Thrown(g)) \/ o \in Load(g)
      PROVE  /\ Settled(o) /\ o.result \in {"ok", "exception"}
             /\ o.cursor.started_iterating = cursor.started_iterating
  <2>1. Outcome(c, sent, "ok", cut).cursor = c /\ Outcome(c, sent, "ok", cut).result = "ok"
    BY DEF Outcome
  <2> QED BY <1>1, <1>4, <2>1, FurtherTypes
<1>5. CASE cursor.first_batch # None
  BY <1>2, <1>3, <1>4, <1>5, AdvanceCases, NextCursors
<1>6. CASE cursor.first_batch = None
  <2>1. BatchOver(Later) => Later.open
    BY DEF BatchOver
  <2> QED BY <1>2, <1>3, <1>4, <1>6, <2>1, AdvanceCases, NextCursors
<1> QED BY <1>5, <1>6

\* ... and where the iteration stands after it.
LEMMA AdvanceShows ==
  ASSUME Types, cursor.at <= MaxDocuments + 1, NEW k, Tracked(cursor, sent, cut, k),
         NEW o, o \in Advance
  PROVE  Thrown(o) \/ Shows(o, k)
<1>1. cursor \in CursorTypes /\ GoodCursor(cursor) /\ Setting /\ k \in Nat
  BY DEF Types, GoodCursor, Tracked
<1>2. /\ cursor.at \in Nat /\ cursor.num \in Nat
      /\ cursor.first_batch_at \in Nat /\ cursor.first_batch_num \in Nat
  BY <1>1, ParameterAssumption DEF CursorTypes
<1>3. ASSUME NEW c, Ready(Outcome(c, sent, "ok", cut), k), o \in Load(Outcome(c, sent, "ok", cut))
      PROVE  Thrown(o) \/ Shows(o, k)
  BY <1>1, <1>3, LoadShows
<1>4. ASSUME NEW c, Settled(Outcome(c, sent, "ok", cut)), c.first_batch = None, c.open,
             c.at = c.num, sent = c.first_batch_num + c.num, k = sent,
             \E g \in GetMore(Outcome(c, sent, "ok", cut)) : (o = g /\ Thrown(g)) \/ o \in Load(g)
      PROVE  Thrown(o) \/ Shows(o, k)
  <2>1. /\ Outcome(c, sent, "ok", cut).cursor = c /\ Outcome(c, sent, "ok", cut).result = "ok"
        /\ Outcome(c, sent, "ok", cut).sent = sent
    BY DEF Outcome
  <2> QED BY <1>1, <1>4, <2>1, FurtherShows
<1>5. ASSUME NEW c PROVE
        /\ Outcome(c, sent, "ok", cut).cursor = c /\ Outcome(c, sent, "ok", cut).result = "ok"
        /\ Outcome(c, sent, "ok", cut).sent = sent /\ Outcome(c, sent, "ok", cut).cut = cut
  BY DEF Outcome
<1>6. CASE cursor.first_batch # None
  <2>1. /\ InArray(cursor, sent) /\ ClosedAtEnd(cursor, sent, cut)
        /\ \/ cursor.first_batch_at < cursor.first_batch_num /\ k = cursor.first_batch_at + 1
           \/ EmptyArray(cursor) /\ k = 0
    BY <1>6 DEF Tracked
  <2>2. cursor.at = 0 /\ cursor.num = 0
    BY <1>1, <1>6 DEF GoodCursor
  <2>3. /\ NextCursor.first_batch = cursor.first_batch /\ NextCursor.buf = cursor.buf
        /\ NextCursor.first_batch_at = cursor.first_batch_at + 1
        /\ NextCursor.first_batch_num = cursor.first_batch_num /\ NextCursor.open = cursor.open
    BY <1>1 DEF CursorTypes, NextCursor
  <2>4. /\ Dropped.first_batch = None /\ Dropped.buf = cursor.buf
        /\ Dropped.at = 0 /\ Dropped.num = 0
        /\ Dropped.first_batch_num = cursor.first_batch_num /\ Dropped.open = cursor.open
    BY <1>1, <2>2 DEF CursorTypes, Dropped
  <2>5. CASE ~FirstBatchOver(NextCursor)
    <3>1. cursor.first_batch_at + 1 < cursor.first_batch_num /\ k = cursor.first_batch_at + 1
      BY <1>2, <2>1, <2>3, <2>5 DEF FirstBatchOver, EmptyArray
    <3>2. InArray(NextCursor, sent) /\ ClosedAtEnd(NextCursor, sent, cut)
      BY <2>1, <2>3 DEF InArray, ClosedAtEnd
    <3>3. Ready(Outcome(NextCursor, sent, "ok", cut), k)
      BY <1>1, <1>5, <1>6, <2>3, <3>1, <3>2, NextCursors DEF Ready
    <3> QED BY <1>3, <1>6, <2>5, <3>3, AdvanceCases
  <2>6. CASE FirstBatchOver(NextCursor)
    <3>1. k = cursor.first_batch_num /\ k = sent
      BY <1>2, <2>1, <2>3, <2>6 DEF FirstBatchOver, EmptyArray, InArray
    <3>2. CASE Dropped.open
      <4>1. sent = Dropped.first_batch_num + Dropped.num /\ Dropped.at = Dropped.num
        BY <1>2, <2>4, <3>1
      <4> QED BY <1>4, <1>6, <2>4, <2>6, <3>1, <3>2, <4>1, AdvanceCases, NextCursors
    <3>3. CASE ~Dropped.open
      <4>1. Left(Dropped, sent, k, Least(Dropped.at, Dropped.num))
        <5>1. Dropped.buf = Numbered(k, 0)
          BY <1>1, <2>1, <2>4, NumberedEmpty DEF InArray
        <5>2. Least(Dropped.at, Dropped.num) = 0
          BY <2>4 DEF Least
        <5> QED BY <1>2, <2>4, <3>1, <3>3, <5>1, <5>2 DEF Left
      <4>2. ClosedAtEnd(Dropped, sent, cut)
        BY <2>1, <2>4 DEF ClosedAtEnd
      <4>3. Ready(Outcome(Dropped, sent, "ok", cut), k)
        BY <1>1, <1>5, <1>6, <2>4, <4>1, <4>2, NextCursors DEF Ready
      <4> QED BY <1>3, <1>6, <2>6, <3>3, <4>3, AdvanceCases
    <3> QED BY <3>2, <3>3
  <2> QED BY <2>5, <2>6
<1>7. CASE cursor.first_batch = None
  <2>1. Left(cursor, sent, k, Least(cursor.at + 1, cursor.num)) /\ ClosedAtEnd(cursor, sent, cut)
    BY <1>7 DEF Tracked
  <2>2. /\ Later.first_batch = None /\ Later.buf = cursor.buf
        /\ Later.at = cursor.at + 1 /\ Later.num = cursor.num
        /\ Later.first_batch_num = cursor.first_batch_num /\ Later.open = cursor.open
    BY <1>1, <1>7 DEF CursorTypes, Later
  <2>3. CASE BatchOver(Later)
    <3>1. Later.open /\ Later.at = Later.num
      BY <2>3 DEF BatchOver
    <3>2. Least(cursor.at + 1, cursor.num) = cursor.num
      BY <1>2, <2>2, <3>1 DEF Least
    <3>3. sent = Later.first_batch_num + Later.num /\ k = sent
      BY <2>1, <2>2, <3>2 DEF Left
    <3> QED BY <1>4, <1>7, <2>2, <2>3, <3>1, <3>3, AdvanceCases, NextCursors
  <2>4. CASE ~BatchOver(Later)
    <3>1. Later.open => Later.at < Later.num
      BY <1>2, <2>1, <2>2, <2>4 DEF BatchOver, Left
    <3>2. Left(Later, sent, k, Least(Later.at, Later.num))
      BY <2>1, <2>2, <3>1 DEF Left
    <3>3. ClosedAtEnd(Later, sent, cut)
      BY <2>1, <2>2 DEF ClosedAtEnd
    <3>4. Ready(Outcome(Later, sent, "ok", cut), k)
      BY <1>1, <1>5, <1>7, <2>2, <3>2, <3>3, NextCursors DEF Ready
    <3> QED BY <1>3, <1>7, <2>4, <3>4, AdvanceCases
  <2> QED BY <2>3, <2>4
<1> QED BY <1>6, <1>7

-----------------------------------------------------------------------------
(* rewind().                                                               *)

Parted(o) == [o EXCEPT !.cursor.first_batch = None]
Begun(o) == [o EXCEPT !.cursor.started_iterating = TRUE]

LEMMA PartedGood ==
  ASSUME NEW o, Settled(o)
  PROVE  /\ Settled(Parted(o)) /\ Parted(o).result = o.result /\ Parted(o).sent = o.sent
         /\ Parted(o).cursor.first_batch = None /\ Parted(o).cursor.open = o.cursor.open
         /\ Parted(o).cursor.at = o.cursor.at /\ Parted(o).cursor.num = o.cursor.num
         /\ Parted(o).cursor.first_batch_num = o.cursor.first_batch_num
<1>1. /\ GoodCursor(o.cursor) /\ o = Outcome(o.cursor, o.sent, o.result, o.cut)
      /\ Fits(o.sent, o.result, o.cut) /\ o.cursor.current # Error
  BY OutcomeFields DEF Settled
<1> DEFINE d == [o.cursor EXCEPT !.first_batch = None]
<1>2. /\ GoodCursor(d) /\ d.current = o.cursor.current /\ d.first_batch = None
      /\ d.open = o.cursor.open /\ d.at = o.cursor.at /\ d.num = o.cursor.num
      /\ d.first_batch_num = o.cursor.first_batch_num
  BY <1>1 DEF GoodCursor, CursorTypes
<1>3. Parted(o) = [o EXCEPT !.cursor = d]
  BY DEF Parted
<1> HIDE DEF d
<1>4. Parted(o) = Outcome(d, o.sent, o.result, o.cut)
  BY <1>1, <1>3 DEF Outcome
<1>5. /\ GoodOutcome(Parted(o)) /\ Parted(o).cursor = d
      /\ Parted(o).sent = o.sent /\ Parted(o).result = o.result
  BY <1>1, <1>2, <1>4, OutcomeGood
<1> QED BY <1>1, <1>2, <1>5 DEF Settled

LEMMA BegunGood ==
  ASSUME NEW o, Settled(o)
  PROVE  /\ Settled(Begun(o)) /\ Begun(o).result = o.result
         /\ Begun(o).cursor.started_iterating
         /\ \A k : Shows(o, k) => Shows(Begun(o), k)
<1>1. /\ GoodCursor(o.cursor) /\ o = Outcome(o.cursor, o.sent, o.result, o.cut)
      /\ Fits(o.sent, o.result, o.cut) /\ o.cursor.current # Error
  BY OutcomeFields DEF Settled
<1> DEFINE d == [o.cursor EXCEPT !.started_iterating = TRUE]
<1>2. /\ GoodCursor(d) /\ d.current = o.cursor.current /\ d.first_batch = o.cursor.first_batch
      /\ d.open = o.cursor.open /\ d.at = o.cursor.at /\ d.num = o.cursor.num
      /\ d.first_batch_at = o.cursor.first_batch_at /\ d.buf = o.cursor.buf
      /\ d.first_batch_num = o.cursor.first_batch_num
  BY <1>1 DEF GoodCursor, CursorTypes
<1>3. d.started_iterating
  BY <1>1 DEF GoodCursor, CursorTypes
<1>4. Begun(o) = [o EXCEPT !.cursor = d]
  BY DEF Begun
<1> HIDE DEF d
<1>5. Begun(o) = Outcome(d, o.sent, o.result, o.cut)
  BY <1>1, <1>4 DEF Outcome
<1>6. /\ GoodOutcome(Begun(o)) /\ Begun(o).cursor = d
      /\ Begun(o).sent = o.sent /\ Begun(o).result = o.result /\ Begun(o).cut = o.cut
  BY <1>1, <1>2, <1>5, OutcomeGood
<1>7. ASSUME NEW k, Shows(o, k) PROVE Shows(Begun(o), k)
  BY <1>2, <1>6, <1>7
     DEF Shows, ShowsNext, ShowsEnd, Tracked, InArray, EmptyArray, Left, ClosedAtEnd
<1> QED BY <1>1, <1>2, <1>3, <1>6, <1>7 DEF Settled

\* What is loaded after the first batch was looked at.
LEMMA FetchCases ==
  ASSUME NEW o, NEW p, p \in FetchAndLoad(o)
  PROVE  \/ /\ o.cursor.first_batch_num = 0 /\ o.cursor.open
            /\ \E g \in GetMore(Parted(o)) : p \in Load(g)
         \/ ~(o.cursor.first_batch_num = 0 /\ o.cursor.open) /\ p \in Load(o)
<1>1. CASE o.cursor.first_batch_num = 0 /\ o.cursor.open
  BY <1>1 DEF FetchAndLoad, Parted
<1>2. CASE ~(o.cursor.first_batch_num = 0 /\ o.cursor.open)
  BY <1>2 DEF FetchAndLoad
<1> QED BY <1>1, <1>2

LEMMA FetchTypes ==
  ASSUME Setting, NEW o, Settled(o), o.result = "ok", NEW p, p \in FetchAndLoad(o)
  PROVE  Settled(p) /\ p.result \in {"ok", "exception"}
<1>1. CASE o.cursor.first_batch_num = 0 /\ o.cursor.open
           /\ \E g \in GetMore(Parted(o)) : p \in Load(g)
  BY <1>1, PartedGood, FurtherTypes
<1>2. CASE p \in Load(o)
  BY <1>2, LoadCases DEF Settled
<1> QED BY <1>1, <1>2, FetchCases

\* An array that nothing was taken from.
Untouched(c, s, w) ==
  c.first_batch # None /\ InArray(c, s) /\ c.first_batch_at = 0 /\ ClosedAtEnd(c, s, w)

LEMMA FetchShows ==
  ASSUME Setting, NEW o, Settled(o), o.result = "ok", Untouched(o.cursor, o.sent, o.cut),
         NEW p, p \in FetchAndLoad(o)
  PROVE  Thrown(p) \/ Shows(p, 0)
<1>1. /\ o.cursor.at = 0 /\ o.cursor.num = 0 /\ o.cursor.first_batch_num \in Nat
      /\ o.sent = o.cursor.first_batch_num
  BY DEF Settled, GoodOutcome, GoodCursor, CursorTypes, Untouched, InArray
<1>2. CASE o.cursor.first_batch_num = 0 /\ o.cursor.open
           /\ \E g \in GetMore(Parted(o)) : p \in Load(g)
  <2>1. /\ Parted(o).cursor.at = Parted(o).cursor.num /\ Parted(o).sent = 0
        /\ Parted(o).sent = Parted(o).cursor.first_batch_num + Parted(o).cursor.num
    BY <1>1, <1>2, PartedGood
  <2> QED BY <1>2, <2>1, PartedGood, FurtherShows
<1>3. CASE ~(o.cursor.first_batch_num = 0 /\ o.cursor.open) /\ p \in Load(o)
  <2>1. o.cursor.first_batch_at < o.cursor.first_batch_num \/ EmptyArray(o.cursor)
    BY <1>1, <1>3 DEF EmptyArray, Untouched
  <2>2. Ready(o, 0)
    BY <2>1 DEF Ready, Untouched
  <2> QED BY <1>3, <2>2, LoadShows
<1> QED BY <1>2, <1>3, FetchCases

-----------------------------------------------------------------------------
(* The invariant.                                                          *)

\* Before rewind() nothing was taken from the reply; afterwards the documents
\* that were handed over are the first ones of the result, and what the cursor
\* holds starts with the next one.
Inv ==
  /\ Types
  /\ phase = "new" =>
       /\ delivered = <<>> /\ ~cursor.started_iterating /\ cursor.current = None
       /\ pre_created => Untouched(cursor, sent, cut)
  /\ phase \in {"open", "ended"} =>
       cursor.started_iterating /\ delivered = Numbered(0, Len(delivered))
  /\ phase = "open" => ShowsNext(cursor, sent, cut, Len(delivered))
  /\ phase = "ended" => ShowsEnd(cursor, sent, cut, Len(delivered))

LEMMA FirstBatchGood ==
  ASSUME NEW c, GoodCursor(c), c.at = 0, c.num = 0, NEW docs \in Seq(Document), NEW open,
         open \in BOOLEAN, ~c.dead
  PROVE  LET d == WithFirstBatch(c, docs, open) IN
         /\ d \in CursorTypes /\ GoodCursor(d)
         /\ d.current = c.current /\ d.started_iterating = c.started_iterating
         /\ d.first_batch = docs /\ d.first_batch_num = Len(docs) /\ d.first_batch_at = 0
         /\ d.buf = c.buf /\ d.open = open
<1>1. c \in CursorTypes /\ Len(docs) \in Nat
  BY LenProperties DEF GoodCursor
<1> DEFINE n == Len(docs)
<1> DEFINE d == [c EXCEPT !.first_batch = docs, !.first_batch_num = n,
                          !.first_batch_at = 0, !.open = open]
<1>2. WithFirstBatch(c, docs, open) = d
  BY DEF WithFirstBatch
<1>3. n \in Nat /\ n = Len(docs)
  BY <1>1
<1> HIDE DEF n
<1>4. /\ d \in CursorTypes
      /\ d.current = c.current /\ d.started_iterating = c.started_iterating
      /\ d.first_batch = docs /\ d.first_batch_num = n /\ d.first_batch_at = 0
      /\ d.buf = c.buf /\ d.open = open /\ d.at = 0 /\ d.num = 0 /\ ~d.dead
  BY <1>1, <1>3 DEF CursorTypes
<1> QED BY <1>2, <1>3, <1>4 DEF GoodCursor

LEMMA InitInv == Init => Inv
<1> SUFFICES ASSUME Init PROVE Inv
  OBVIOUS
<1>1. Setting /\ total \in Nat
  BY ParameterAssumption DEF Init, Setting
<1>2. /\ <<>> \in Seq(Document \cup {Error}) /\ <<>> \in Seq(Document)
      /\ None # Error
  BY EmptySeq, ParameterAssumption DEF Error
<1>3. Fresh \in CursorTypes /\ GoodCursor(Fresh)
  BY <1>2, ParameterAssumption DEF Fresh, CursorTypes, GoodCursor
<1> DEFINE Begins ==
      /\ cursor \in CursorTypes /\ GoodCursor(cursor) /\ cursor.current = None
      /\ cursor.started_iterating = FALSE /\ sent \in 0..total /\ pre_created \in BOOLEAN
      /\ pre_created => Untouched(cursor, sent, cut)
<1>4. Begins
  <2>1. CASE pre_created = FALSE /\ cursor = Fresh /\ sent = 0
    <3>1. cursor \in CursorTypes /\ GoodCursor(cursor) /\ sent \in 0..total
      BY <1>1, <1>3, <2>1
    <3>2. cursor.current = None /\ cursor.started_iterating = FALSE
      BY <2>1 DEF Fresh
    <3>3. pre_created \in BOOLEAN /\ ~pre_created
      BY <2>1
    <3> QED BY <3>1, <3>2, <3>3
  <2>2. ASSUME pre_created = TRUE, NEW b \in FirstBatches,
               cursor = WithFirstBatch(Fresh, b.docs, b.open), sent = Len(b.docs)
        PROVE  Begins
    <3>1. PICK k \in Nat :
            /\ k <= total /\ b.docs = Numbered(0, k) /\ Len(b.docs) = k
            /\ b.docs \in Seq(Document) /\ b.docs # None /\ b.open \in BOOLEAN
            /\ (~b.open => k = total)
      BY <1>1, FirstBatchIsFirst
    <3>2. cursor \in CursorTypes /\ GoodCursor(cursor)
      BY <1>3, <2>2, <3>1, FirstBatchGood DEF Fresh
    <3>3. /\ cursor.current = None /\ cursor.started_iterating = FALSE
          /\ cursor.first_batch = Numbered(0, k) /\ cursor.first_batch_num = k
          /\ cursor.first_batch_at = 0 /\ cursor.buf = <<>> /\ cursor.open = b.open
      BY <2>2, <3>1, FirstBatchGood, <1>3 DEF Fresh
    <3>4. Untouched(cursor, sent, cut)
      BY <2>2, <3>1, <3>3 DEF Untouched, InArray, ClosedAtEnd
    <3> QED BY <1>1, <2>2, <3>1, <3>2, <3>3, <3>4
  <2> QED BY <2>1, <2>2 DEF Init
<1>5. TypeOK
  BY <1>2, <1>4, ParameterAssumption
     DEF TypeOK, Init, GoodCursor, CursorTypes, Error
<1> HIDE DEF Begins
<1>6. Types
  BY <1>1, <1>2, <1>4, <1>5 DEF Types, Begins
<1> QED BY <1>4, <1>6 DEF Inv, Init, Begins

\* What a method leaves behind is of the right types.
LEMMA ReturnTypes ==
  ASSUME Types, UNCHANGED <<pre_created, batch_size, total>>, commands' \in 0..MaxCommands,
         NEW o, Settled(o), NEW before \in Seq(Document), NEW stood, Return(o, before, stood)
  PROVE  Types'
<1>1. /\ cursor' = o.cursor /\ sent' = o.sent /\ result' = o.result /\ cut' = o.cut
      /\ delivered' \in {before} \cup {Append(before, d) : d \in {o.cursor.current} \cap Document}
      /\ phase' \in {"open", "ended", "broken"}
  BY DEF Return
<1>2. delivered' \in Seq(Document)
  BY <1>1, AppendProperties
<1>3. /\ GoodCursor(o.cursor) /\ o.cursor.current # Error /\ o.cursor \in CursorTypes
      /\ Fits(o.sent, o.result, o.cut)
  BY OutcomeFields DEF Settled
<1>4. Setting /\ Setting' /\ total' = total /\ total \in Nat
  BY ParameterAssumption DEF Types, Setting
<1>5. sent' \in 0..total' /\ sent' <= total'
  BY <1>1, <1>3, <1>4 DEF Fits
<1>6. GoodCursor(cursor)' /\ (cursor.current # Error)' /\ (cursor \in CursorTypes)'
  BY <1>1, <1>3 DEF GoodCursor, CursorTypes
<1>7. TypeOK'
  <2>1. pre_created' \in BOOLEAN /\ batch_size' \in BatchSizes \cup {0}
    BY DEF Types, TypeOK
  <2>2. total' \in 0..MaxDocuments
    BY <1>4 DEF Setting
  <2>3. result' \in {"none", "ok", "exception", "crash"} /\ cut' \in {"no", "closed", "lost"}
    BY <1>1, <1>3 DEF Fits
  <2>4. /\ cursor' \in [started_iterating : BOOLEAN, at : 0 .. MaxDocuments + 2, num : Nat,
                        open : BOOLEAN, dead : BOOLEAN, flag : BOOLEAN,
                        buf : Seq(Document \cup {Error}),
                        first_batch : Seq(Document) \cup {None}, first_batch_at : Nat,
                        first_batch_num : Nat, current : Document \cup {Garbage, None}]
        /\ cursor'.dead => ~cursor'.open
        /\ cursor'.first_batch # None =>
             /\ cursor'.first_batch_num = Len(cursor'.first_batch)
             /\ cursor'.at = 0 /\ cursor'.num = 0
    BY <1>6 DEF GoodCursor, CursorTypes
  <2> QED BY <1>1, <1>2, <1>5, <2>1, <2>2, <2>3, <2>4 DEF TypeOK
<1> QED BY <1>4, <1>5, <1>6, <1>7 DEF Types

\* ... and either breaks the iteration off, hands out the next document, or
\* finds the end.
Breaks(before) == phase' = "broken" /\ delivered' = before

HandsOut(before) ==
  /\ phase' = "open" /\ delivered' = Append(before, Len(before) + 1)
  /\ ShowsNext(cursor', sent', cut', Len(before) + 1) /\ cursor'.started_iterating

Ends(before) ==
  /\ phase' = "ended" /\ delivered' = before
  /\ ShowsEnd(cursor', sent', cut', Len(before)) /\ cursor'.started_iterating

LEMMA ReturnCases ==
  ASSUME NEW o, NEW before \in Seq(Document), NEW stood, Return(o, before, stood),
         stood = "broken" \/ (/\ Thrown(o) \/ Shows(o, Len(before))
                              /\ o.cursor.started_iterating)
  PROVE  Breaks(before) \/ HandsOut(before) \/ Ends(before)
<1> DEFINE d == o.cursor.current
<1>1. /\ cursor' = o.cursor /\ sent' = o.sent /\ result' = o.result /\ cut' = o.cut
      /\ delivered' = IF d \in Document /\ ~Thrown(o) /\ stood # "broken"
                      THEN Append(before, d) ELSE before
      /\ phase' = IF Thrown(o) \/ d = Garbage \/ stood = "broken" THEN "broken"
                  ELSE IF d = None THEN "ended" ELSE "open"
  BY DEF Return
<1>2. None \notin Document /\ None # Garbage /\ Garbage \notin Document
  BY ParameterAssumption DEF Document, Garbage
<1> HIDE DEF d
<1>3. CASE stood = "broken" \/ Thrown(o)
  BY <1>1, <1>3 DEF Breaks
<1>4. CASE stood # "broken" /\ ~Thrown(o)
  <2>1. Shows(o, Len(before)) /\ o.cursor.started_iterating
    BY <1>4
  <2>2. CASE ShowsNext(o.cursor, o.sent, o.cut, Len(before) + 1)
    <3>1. d = Len(before) + 1 /\ d \in Document
      BY <2>2 DEF ShowsNext, d
    <3>2. d # Garbage /\ d # None
      BY <1>2, <3>1
    <3>3. phase' = "open" /\ delivered' = Append(before, Len(before) + 1)
      BY <1>1, <1>4, <3>1, <3>2
    <3> QED BY <1>1, <2>1, <2>2, <3>3 DEF HandsOut
  <2>3. CASE ShowsEnd(o.cursor, o.sent, o.cut, Len(before))
    <3>1. d = None
      BY <2>3 DEF ShowsEnd, d
    <3>2. phase' = "ended" /\ delivered' = before
      BY <1>1, <1>2, <1>4, <3>1
    <3> QED BY <1>1, <2>1, <2>3, <3>2 DEF Ends
  <2> QED BY <2>1, <2>2, <2>3 DEF Shows
<1> QED BY <1>3, <1>4

LEMMA ReturnKeeps ==
  ASSUME Types', UNCHANGED total, NEW before \in Seq(Document), before = Numbered(0, Len(before)),
         Breaks(before) \/ HandsOut(before) \/ Ends(before)
  PROVE  Inv'
<1>1. Len(before) \in Nat
  BY LenProperties
<1>2. CASE Breaks(before)
  BY <1>2 DEF Breaks, Inv
<1>3. CASE HandsOut(before)
  <2>1. Len(delivered') = Len(before) + 1
    BY <1>1, <1>3, AppendProperties DEF HandsOut, ShowsNext
  <2>2. delivered' = Numbered(0, Len(delivered'))
    BY <1>1, <1>3, <2>1, NumberedAppend DEF HandsOut, Count
  <2>3. phase' = "open" /\ phase' # "new" /\ phase' # "ended"
    BY <1>3 DEF HandsOut
  <2>4. cursor'.started_iterating /\ ShowsNext(cursor', sent', cut', Len(delivered'))
    BY <1>3, <2>1 DEF HandsOut
  <2>5. ShowsNext(cursor, sent, cut, Len(delivered))'
    BY <2>4 DEF ShowsNext, Tracked, InArray, EmptyArray, Left, ClosedAtEnd, Document, Numbered, Least
  <2>6. (delivered = Numbered(0, Len(delivered)))'
    BY <2>2 DEF Numbered
  <2> QED BY <2>3, <2>4, <2>5, <2>6 DEF Inv
<1>4. CASE Ends(before)
  <2>1. phase' = "ended" /\ phase' # "new" /\ phase' # "open" /\ delivered' = before
    BY <1>4 DEF Ends
  <2>2. cursor'.started_iterating /\ ShowsEnd(cursor', sent', cut', Len(delivered'))
    BY <1>4 DEF Ends
  <2>3. ShowsEnd(cursor, sent, cut, Len(delivered))'
    BY <2>2 DEF ShowsEnd, Tracked, InArray, EmptyArray, Left, ClosedAtEnd, Numbered, Least
  <2>4. (delivered = Numbered(0, Len(delivered)))'
    BY <2>1 DEF Numbered
  <2> QED BY <2>1, <2>2, <2>3, <2>4 DEF Inv
<1> QED BY <1>2, <1>3, <1>4

\* Breaking off needs no order.
LEMMA BreaksKeeps == ASSUME Types', phase' = "broken" PROVE Inv'
BY DEF Inv

-----------------------------------------------------------------------------
(* The methods.                                                            *)

LEMMA NextDocumentStep ==
  ASSUME Inv, NextDocument
  PROVE  /\ Types' /\ UNCHANGED total
         /\ \/ phase' = "broken" /\ delivered' = delivered
            \/ phase \in {"open", "ended"} /\ (HandsOut(delivered) \/ Ends(delivered))
<1>1. PICK o \in Advance :
        Return(o, delivered, IF cursor.started_iterating THEN phase ELSE "broken")
  BY DEF NextDocument
<1>2. Types /\ cursor.at <= MaxDocuments + 1 /\ UNCHANGED <<pre_created, batch_size, total, commands>>
  BY DEF Inv, NextDocument
<1>3. delivered \in Seq(Document) /\ commands \in 0..MaxCommands
      /\ phase \in {"new", "open", "ended", "broken"}
  BY <1>2 DEF Types, TypeOK
<1>4. Settled(o) /\ o.cursor.started_iterating = cursor.started_iterating
  BY <1>2, AdvanceTypes
<1>5. Types'
  BY <1>1, <1>2, <1>3, <1>4, ReturnTypes
<1> DEFINE stood == IF cursor.started_iterating THEN phase ELSE "broken"
<1>6. CASE phase \in {"open", "ended"}
  <2>1. cursor.started_iterating /\ Tracked(cursor, sent, cut, Len(delivered))
    BY <1>6 DEF Inv, ShowsNext, ShowsEnd
  <2>2. Thrown(o) \/ Shows(o, Len(delivered))
    BY <1>2, <2>1, AdvanceShows
  <2>3. Breaks(delivered) \/ HandsOut(delivered) \/ Ends(delivered)
    BY <1>1, <1>3, <1>4, <2>1, <2>2, ReturnCases
  <2> QED BY <1>2, <1>5, <1>6, <2>3 DEF Breaks
<1>7. CASE phase \in {"new", "broken"}
  <2>1. stood = "broken"
    BY <1>7 DEF Inv
  <2> HIDE DEF stood
  <2>2. phase' = "broken" /\ delivered' = delivered
    BY <1>1, <2>1 DEF Return, stood
  <2> QED BY <1>2, <1>5, <2>2
<1> QED BY <1>3, <1>6, <1>7

LEMMA RewindRefusedStep ==
  ASSUME Inv, RewindRefused
  PROVE  Types' /\ UNCHANGED total /\ phase' = "broken" /\ delivered' = delivered
<1> DEFINE o == Outcome(cursor, sent, "exception", cut)
<1>1. Types /\ UNCHANGED <<pre_created, batch_size, total, commands>>
      /\ Return(o, delivered, "broken")
  BY DEF Inv, RewindRefused, Refuse
<1>2. delivered \in Seq(Document) /\ commands \in 0..MaxCommands
  BY <1>1 DEF Types, TypeOK
<1>3. GoodCursor(cursor) /\ Fits(sent, "exception", cut) /\ cursor.current # Error
  BY <1>1 DEF Types, TypeOK, Fits
<1>4. GoodOutcome(o) /\ o.cursor = cursor
  BY <1>3, OutcomeGood
<1>5. Settled(o)
  BY <1>3, <1>4 DEF Settled
<1> HIDE DEF o
<1>6. Types'
  BY <1>1, <1>2, <1>5, ReturnTypes
<1>7. phase' = "broken" /\ delivered' = delivered
  BY <1>1 DEF Return
<1> QED BY <1>1, <1>6, <1>7

LEMMA RewindPreCreatedStep ==
  ASSUME Inv, RewindPreCreated
  PROVE  /\ Types' /\ UNCHANGED total
         /\ \/ phase' = "broken" /\ delivered' = delivered
            \/ /\ delivered = <<>>
               /\ Breaks(<<>>) \/ HandsOut(<<>>) \/ Ends(<<>>)
<1> DEFINE i == Outcome(cursor, sent, "ok", cut)
<1>1. /\ Types /\ UNCHANGED <<pre_created, batch_size, total, commands>>
      /\ pre_created /\ ~cursor.started_iterating
  BY DEF Inv, RewindPreCreated
<1>2. PICK p \in FetchAndLoad(i) :
        Return([p EXCEPT !.cursor.started_iterating = TRUE], delivered,
               IF phase = "broken" THEN "broken" ELSE "open")
  BY DEF RewindPreCreated
<1>3. delivered \in Seq(Document) /\ commands \in 0..MaxCommands
      /\ phase \in {"new", "open", "ended", "broken"}
  BY <1>1 DEF Types, TypeOK
<1>4. GoodCursor(cursor) /\ Fits(sent, "ok", cut) /\ cursor.current # Error /\ Setting
  BY <1>1, OkFits DEF Types
<1>5. GoodOutcome(i) /\ i.cursor = cursor /\ i.sent = sent /\ i.result = "ok" /\ i.cut = cut
  BY <1>4, OutcomeGood
<1>6. Settled(i)
  BY <1>4, <1>5 DEF Settled
<1> HIDE DEF i
<1>7. Settled(p)
  BY <1>4, <1>5, <1>6, FetchTypes
<1> DEFINE o == Begun(p)
<1> DEFINE stood == IF phase = "broken" THEN "broken" ELSE "open"
<1>8. Return(o, delivered, stood)
  BY <1>2 DEF Begun
<1>9. /\ Settled(o) /\ o.result = p.result /\ o.cursor.started_iterating
      /\ \A k : Shows(p, k) => Shows(o, k)
  BY <1>7, BegunGood
<1> HIDE DEF o
<1>10. Types'
  BY <1>1, <1>3, <1>8, <1>9, ReturnTypes
<1>11. CASE phase = "broken"
  <2>1. stood = "broken"
    BY <1>11
  <2>2. phase' = "broken" /\ delivered' = delivered
    BY <1>8, <2>1 DEF Return
  <2> QED BY <1>1, <1>10, <2>2
<1>12. CASE phase # "broken"
  <2>1. phase = "new"
    BY <1>1, <1>3, <1>12 DEF Inv
  <2>2. delivered = <<>> /\ Untouched(cursor, sent, cut)
    BY <1>1, <2>1 DEF Inv
  <2>3. Thrown(p) \/ Shows(p, 0)
    BY <1>4, <1>5, <1>6, <2>2, FetchShows
  <2>4. Thrown(o) \/ Shows(o, Len(delivered))
    BY <1>9, <2>2, <2>3, EmptySeq DEF Thrown
  <2>5. Breaks(delivered) \/ HandsOut(delivered) \/ Ends(delivered)
    BY <1>3, <1>8, <1>9, <2>4, ReturnCases
  <2> QED BY <1>1, <1>10, <2>2, <2>5
<1> QED BY <1>11, <1>12

LEMMA RewindRunsCommandStep ==
  ASSUME Inv, RewindRunsCommand
  PROVE  /\ Types' /\ UNCHANGED total
         /\ Breaks(<<>>) \/ HandsOut(<<>>) \/ Ends(<<>>)
<1>1. /\ Types /\ UNCHANGED <<pre_created, batch_size, total>> /\ Setting
      /\ commands < MaxCommands /\ commands' = commands + 1 /\ ~cursor.dead
  BY DEF Inv, RewindRunsCommand, Types
<1>2. commands' \in 0..MaxCommands /\ <<>> \in Seq(Document) /\ Len(<<>>) = 0
      /\ total \in Nat
  BY <1>1, EmptySeq, ParameterAssumption DEF Types, TypeOK, Setting
<1> DEFINE r == Reset(cursor)
<1>3. /\ r \in CursorTypes /\ GoodCursor(r) /\ r.current = None /\ r.buf = <<>>
      /\ r.at = 0 /\ r.num = 0 /\ ~r.dead
  <2> DEFINE f == cursor.flag
  <2>1. <<>> \in Seq(Document \cup {Error}) /\ f \in BOOLEAN
    BY <1>1, EmptySeq DEF Types, GoodCursor, CursorTypes
  <2>2. r = [Fresh EXCEPT !.flag = f]
    BY DEF Reset
  <2> HIDE DEF f, r
  <2>3. /\ r \in CursorTypes /\ r.current = None /\ r.buf = <<>> /\ r.first_batch = None
        /\ r.at = 0 /\ r.num = 0 /\ r.dead = FALSE
    <3>1. /\ Fresh \in CursorTypes
          /\ Fresh.current = None /\ Fresh.buf = <<>> /\ Fresh.first_batch = None
          /\ Fresh.at = 0 /\ Fresh.num = 0 /\ Fresh.dead = FALSE
      BY <2>1, ParameterAssumption DEF Fresh, CursorTypes
    <3> QED BY <2>1, <2>2, <3>1 DEF CursorTypes
  <2> QED BY <2>3 DEF GoodCursor
<1>4. None # Error
  BY ParameterAssumption DEF Error
<1> HIDE DEF r
<1>5. CASE Return(Outcome(r, 0, "exception", "no"), <<>>, "broken")
  <2> DEFINE o == Outcome(r, 0, "exception", "no")
  <2>1. Fits(0, "exception", "no")
    BY <1>2 DEF Fits
  <2>2. GoodOutcome(o) /\ o.cursor = r
    BY <1>3, <2>1, OutcomeGood
  <2>3. Settled(o)
    BY <1>3, <1>4, <2>2 DEF Settled
  <2> HIDE DEF o
  <2>4. Types'
    BY <1>1, <1>2, <1>5, <2>3, ReturnTypes DEF o
  <2>5. Breaks(<<>>)
    BY <1>5 DEF Return, Breaks
  <2> QED BY <1>1, <2>4, <2>5
<1>6. ASSUME NEW b \in FirstBatches,
             NEW p \in FetchAndLoad(Outcome(WithFirstBatch(r, b.docs, b.open),
                                            Len(b.docs), "ok", "no")),
             Return([p EXCEPT !.cursor.started_iterating = TRUE], <<>>, "open")
      PROVE  Types' /\ (Breaks(<<>>) \/ HandsOut(<<>>) \/ Ends(<<>>))
  <2>1. PICK k \in Nat :
          /\ k <= total /\ b.docs = Numbered(0, k) /\ Len(b.docs) = k
          /\ b.docs \in Seq(Document) /\ b.docs # None /\ b.open \in BOOLEAN
          /\ (~b.open => k = total)
    BY <1>1, FirstBatchIsFirst
  <2> DEFINE c == WithFirstBatch(r, b.docs, b.open)
  <2>2. /\ GoodCursor(c) /\ c.current = None /\ c.first_batch = b.docs
        /\ c.first_batch_num = Len(b.docs) /\ c.first_batch_at = 0
        /\ c.buf = <<>> /\ c.open = b.open
    BY <1>3, <2>1, FirstBatchGood
  <2> DEFINE i == Outcome(c, Len(b.docs), "ok", "no")
  <2>3. Fits(Len(b.docs), "ok", "no")
    BY <2>1 DEF Fits
  <2> HIDE DEF c
  <2>4. /\ GoodOutcome(i) /\ i.cursor = c /\ i.sent = Len(b.docs) /\ i.result = "ok"
        /\ i.cut = "no"
    BY <2>2, <2>3, OutcomeGood
  <2>5. Settled(i)
    BY <1>4, <2>2, <2>4 DEF Settled
  <2>6. Untouched(c, Len(b.docs), "no")
    BY <2>1, <2>2 DEF Untouched, InArray, ClosedAtEnd
  <2>7. p \in FetchAndLoad(i)
    BY <1>6 DEF c
  <2> HIDE DEF i
  <2>8. Settled(p) /\ (Thrown(p) \/ Shows(p, 0))
    BY <1>1, <2>4, <2>5, <2>6, <2>7, FetchTypes, FetchShows
  <2> DEFINE o == Begun(p)
  <2>9. Return(o, <<>>, "open")
    BY <1>6 DEF Begun
  <2>10. /\ Settled(o) /\ o.result = p.result /\ o.cursor.started_iterating
         /\ \A j : Shows(p, j) => Shows(o, j)
    BY <2>8, BegunGood
  <2> HIDE DEF o
  <2>11. Types'
    BY <1>1, <1>2, <2>9, <2>10, ReturnTypes
  <2>12. Thrown(o) \/ Shows(o, Len(<<>>))
    BY <1>2, <2>8, <2>10 DEF Thrown
  <2>13. Breaks(<<>>) \/ HandsOut(<<>>) \/ Ends(<<>>)
    BY <1>2, <2>9, <2>10, <2>12, ReturnCases
  <2> QED BY <2>11, <2>13
<1> QED BY <1>1, <1>5, <1>6 DEF RewindRunsCommand, r

LEMMA QuietStep ==
  ASSUME Inv, RewindCrashes \/ (\E b \in BatchSizes : SetBatchSize(b))
  PROVE  /\ Types' /\ UNCHANGED <<total, delivered>>
         /\ \/ phase' = "broken"
            \/ UNCHANGED <<cursor, pre_created, total, sent, delivered, phase, cut>>
<1>1. /\ UNCHANGED <<cursor, pre_created, total, sent, delivered, cut, commands>>
      /\ batch_size' \in BatchSizes \cup {0}
      /\ result' \in {"none", "ok", "exception", "crash"} /\ phase' \in {phase, "broken"}
  BY DEF RewindCrashes, SetBatchSize, Inv, Types, TypeOK
<1>2. Types'
  BY <1>1 DEF Inv, Types, TypeOK, Setting, GoodCursor, CursorTypes
<1> QED BY <1>1, <1>2

LEMMA SameInv ==
  ASSUME Inv, Types',
         UNCHANGED <<cursor, pre_created, total, sent, delivered, phase, cut>>
  PROVE  Inv'
BY DEF Inv, Untouched, ShowsNext, ShowsEnd, Tracked, InArray, EmptyArray, Left, ClosedAtEnd,
       Document, Numbered, Least

LEMMA ConnectionDestroyedStep ==
  ASSUME Inv, ConnectionDestroyed
  PROVE  /\ Inv' /\ UNCHANGED <<total, delivered, phase>>
         /\ phase = "ended" => cut' = cut
<1>1. /\ pre_created /\ cursor' = Failed(cursor) /\ cut' = IF cursor.open THEN "lost" ELSE cut
      /\ UNCHANGED <<pre_created, batch_size, total, sent, result, delivered, phase, commands>>
  BY DEF ConnectionDestroyed
<1>2. Types /\ GoodCursor(cursor) /\ cursor \in CursorTypes
  BY DEF Inv, Types, GoodCursor
<1> DEFINE d == Failed(cursor)
<1>3. /\ GoodCursor(d) /\ SamePlace(cursor, d) /\ ~d.open
      /\ d.current = cursor.current /\ d.buf = cursor.buf /\ d \in CursorTypes
  BY <1>2, FailedGood DEF GoodCursor
<1> HIDE DEF d
<1>4. cursor' = d
  BY <1>1 DEF d
<1>5. cut' \in {"no", "closed", "lost"}
  BY <1>1, <1>2 DEF Types, TypeOK
<1>6. Types'
  <2>1. GoodCursor(cursor)' /\ (cursor.current # Error)' /\ (cursor \in CursorTypes)' /\ Setting'
    BY <1>1, <1>2, <1>3, <1>4 DEF GoodCursor, CursorTypes, Types, Setting
  <2>2. /\ cursor' \in [started_iterating : BOOLEAN, at : 0 .. MaxDocuments + 2, num : Nat,
                        open : BOOLEAN, dead : BOOLEAN, flag : BOOLEAN,
                        buf : Seq(Document \cup {Error}),
                        first_batch : Seq(Document) \cup {None}, first_batch_at : Nat,
                        first_batch_num : Nat, current : Document \cup {Garbage, None}]
        /\ cursor'.dead => ~cursor'.open
        /\ cursor'.first_batch # None =>
             /\ cursor'.first_batch_num = Len(cursor'.first_batch)
             /\ cursor'.at = 0 /\ cursor'.num = 0
    BY <2>1 DEF GoodCursor, CursorTypes
  <2>3. TypeOK'
    BY <1>1, <1>2, <1>5, <2>2 DEF Types, TypeOK
  <2> QED BY <1>1, <1>2, <2>1, <2>3 DEF Types
<1>7. ClosedAtEnd(cursor, sent, cut) => ClosedAtEnd(d, sent, cut')
  <2>1. CASE cursor.open
    BY <1>1, <2>1 DEF ClosedAtEnd
  <2>2. CASE ~cursor.open
    BY <1>1, <2>2 DEF ClosedAtEnd
  <2> QED BY <2>1, <2>2
<1>8. /\ d.started_iterating = cursor.started_iterating /\ d.at = cursor.at /\ d.num = cursor.num
      /\ d.first_batch = cursor.first_batch /\ d.first_batch_at = cursor.first_batch_at
      /\ d.first_batch_num = cursor.first_batch_num
  BY <1>3 DEF SamePlace
<1>9. ASSUME NEW k, Tracked(cursor, sent, cut, k) PROVE Tracked(d, sent, cut', k)
  BY <1>3, <1>7, <1>8, <1>9 DEF Tracked, InArray, EmptyArray, Left
<1>10. phase = "open" => ShowsNext(d, sent, cut', Len(delivered))
  BY <1>3, <1>8, <1>9 DEF Inv, ShowsNext
<1>11. phase = "ended" => ShowsEnd(d, sent, cut', Len(delivered)) /\ cut' = cut
  <2>1. SUFFICES ASSUME phase = "ended"
                 PROVE  ShowsEnd(d, sent, cut', Len(delivered)) /\ cut' = cut
    OBVIOUS
  <2>2. ShowsEnd(cursor, sent, cut, Len(delivered))
    BY <2>1 DEF Inv
  <2>3. ~cursor.open
    BY <2>2 DEF ShowsEnd
  <2>4. cut' = cut
    BY <1>1, <2>3
  <2> QED BY <1>3, <1>9, <2>2, <2>4 DEF ShowsEnd
<1>12. phase = "new" => Untouched(d, sent, cut')
  BY <1>1, <1>3, <1>7, <1>8 DEF Inv, Untouched, InArray
<1>13. Inv'
  <2>1. (phase = "new")' =>
          /\ (delivered = <<>>)' /\ ~cursor'.started_iterating /\ cursor'.current = None
          /\ Untouched(cursor, sent, cut)'
    <3>1. SUFFICES ASSUME phase = "new"
                   PROVE  /\ delivered' = <<>> /\ ~cursor'.started_iterating
                          /\ cursor'.current = None /\ Untouched(cursor, sent, cut)'
      BY <1>1
    <3>2. delivered' = <<>> /\ ~cursor'.started_iterating /\ cursor'.current = None
      BY <1>1, <1>3, <1>4, <1>8, <3>1 DEF Inv
    <3>3. Untouched(cursor, sent, cut)'
      BY <1>1, <1>4, <1>12, <3>1 DEF Untouched, InArray, ClosedAtEnd, Numbered
    <3> QED BY <3>2, <3>3
  <2>2. (phase \in {"open", "ended"})' =>
          cursor'.started_iterating /\ (delivered = Numbered(0, Len(delivered)))'
    BY <1>1, <1>4, <1>8 DEF Inv, Numbered
  <2>3. (phase = "open")' => ShowsNext(cursor, sent, cut, Len(delivered))'
    BY <1>1, <1>4, <1>10
       DEF ShowsNext, Tracked, InArray, EmptyArray, Left, ClosedAtEnd, Document, Numbered, Least
  <2>4. (phase = "ended")' => ShowsEnd(cursor, sent, cut, Len(delivered))'
    BY <1>1, <1>4, <1>11
       DEF ShowsEnd, Tracked, InArray, EmptyArray, Left, ClosedAtEnd, Numbered, Least
  <2> QED BY <1>6, <2>1, <2>2, <2>3, <2>4 DEF Inv
<1> QED BY <1>1, <1>11, <1>13

\* What a step may be: it breaks the iteration off, it starts it, it goes on with
\* it, or it changes nothing the user sees.
Started == Breaks(<<>>) \/ HandsOut(<<>>) \/ Ends(<<>>)
GoesOn == phase \in {"open", "ended"} /\ (HandsOut(delivered) \/ Ends(delivered))

LEMMA StepCases ==
  ASSUME Inv, [Next]_vars
  PROVE  /\ Inv' /\ UNCHANGED total
         /\ \/ phase' = "broken" /\ delivered' = delivered
            \/ Started
            \/ GoesOn
            \/ /\ UNCHANGED <<delivered, phase>>
               /\ phase = "ended" => cut' = cut
<1>1. delivered \in Seq(Document)
  BY DEF Inv, Types, TypeOK
<1>2. <<>> \in Seq(Document) /\ <<>> = Numbered(0, Len(<<>>))
  BY EmptySeq, NumberedEmpty
<1>3. CASE NextDocument
  <2>1. /\ Types' /\ UNCHANGED total
        /\ (phase' = "broken" /\ delivered' = delivered) \/ GoesOn
    BY <1>3, NextDocumentStep DEF GoesOn
  <2>2. GoesOn => delivered = Numbered(0, Len(delivered))
    BY DEF GoesOn, Inv
  <2>3. Inv'
    BY <1>1, <2>1, <2>2, ReturnKeeps, BreaksKeeps DEF GoesOn
  <2> QED BY <2>1, <2>3
<1>4. CASE RewindRefused
  BY <1>4, RewindRefusedStep, BreaksKeeps
<1>5. CASE RewindPreCreated
  <2>1. /\ Types' /\ UNCHANGED total
        /\ (phase' = "broken" /\ delivered' = delivered) \/ Started
    BY <1>5, RewindPreCreatedStep DEF Started
  <2>2. Inv'
    BY <1>2, <2>1, ReturnKeeps, BreaksKeeps DEF Started
  <2> QED BY <2>1, <2>2
<1>6. CASE RewindRunsCommand
  <2>1. Types' /\ UNCHANGED total /\ Started
    BY <1>6, RewindRunsCommandStep DEF Started
  <2>2. Inv'
    BY <1>2, <2>1, ReturnKeeps DEF Started
  <2> QED BY <2>1, <2>2
<1>7. CASE RewindCrashes \/ (\E b \in BatchSizes : SetBatchSize(b))
  <2>1. /\ Types' /\ UNCHANGED <<total, delivered>>
        /\ \/ phase' = "broken"
           \/ UNCHANGED <<cursor, pre_created, total, sent, delivered, phase, cut>>
    BY <1>7, QuietStep
  <2>2. CASE phase' = "broken"
    BY <2>1, <2>2, BreaksKeeps
  <2>3. CASE UNCHANGED <<cursor, pre_created, total, sent, delivered, phase, cut>>
    <3>1. Inv'
      BY <2>1, <2>3, SameInv
    <3> QED BY <2>1, <2>3, <3>1
  <2> QED BY <2>1, <2>2, <2>3
<1>8. CASE ConnectionDestroyed
  BY <1>8, ConnectionDestroyedStep
<1>9. CASE UNCHANGED vars
  <2>1. UNCHANGED <<cursor, pre_created, total, sent, delivered, phase, cut>> /\ Types'
    BY <1>9 DEF vars, Inv, Types, TypeOK, Setting, GoodCursor, CursorTypes
  <2>2. Inv'
    BY <2>1, SameInv
  <2> QED BY <2>1, <2>2
<1> QED BY <1>3, <1>4, <1>5, <1>6, <1>7, <1>8, <1>9 DEF Next, Rewind

-----------------------------------------------------------------------------
(* What follows.                                                           *)

LEMMA Invariance == Spec => []Inv
<1>1. Inv /\ [Next]_vars => Inv'
  BY StepCases
<1> QED BY <1>1, InitInv, PTL DEF Spec

\* The cursor keeps its types, and the two kinds of batches take turns.
THEOREM TypeCorrect == Spec => []TypeOK
<1>1. Inv => TypeOK
  BY DEF Inv, Types
<1> QED BY <1>1, Invariance, PTL

\* key() is the place of the current document in the result, whatever the sizes
\* of the batches.
THEOREM KeysArePlaces == Spec => []KeyIsPosition
<1>1. Inv => KeyIsPosition
  <2> SUFFICES ASSUME Inv, phase # "broken", cursor.current \in Document
               PROVE  Key = cursor.current - 1
    BY DEF KeyIsPosition
  <2>1. None \notin Document
    BY ParameterAssumption DEF Document
  <2>2. /\ cursor.at \in Nat /\ cursor.num \in Nat
        /\ cursor.first_batch_at \in Nat /\ cursor.first_batch_num \in Nat
        /\ phase \in {"new", "open", "ended", "broken"}
    BY ParameterAssumption DEF Inv, Types, TypeOK, GoodCursor, CursorTypes
  <2>3. phase = "open"
    BY <2>1, <2>2 DEF Inv, ShowsEnd
  <2> DEFINE k == Len(delivered)
  <2>4. /\ cursor.current = k /\ k \in Nat /\ k # 0 /\ Tracked(cursor, sent, cut, k)
        /\ cursor.first_batch = None => cursor.at < cursor.num
    BY <2>3 DEF Inv, ShowsNext, Document
  <2> HIDE DEF k
  <2>5. CASE cursor.first_batch # None
    BY <2>2, <2>4, <2>5 DEF Key, Tracked
  <2>6. CASE cursor.first_batch = None
    <3>1. k = cursor.first_batch_num + Least(cursor.at + 1, cursor.num)
      BY <2>4, <2>6 DEF Tracked, Left
    <3>2. Least(cursor.at + 1, cursor.num) = cursor.at + 1
      BY <2>2, <2>4, <2>6 DEF Least
    <3> QED BY <2>2, <2>4, <2>6, <3>1, <3>2 DEF Key
  <2> QED BY <2>5, <2>6
<1> QED BY <1>1, Invariance, PTL

\* The next load never reads behind the end of the buffer.
THEOREM LoadsWithinTheReply == Spec => []WithinTheReply
<1>1. Inv => WithinTheReply
  <2> SUFFICES ASSUME Inv, phase \in {"open", "ended"}, cursor.at < cursor.num - 1
               PROVE  cursor.buf # <<>>
    BY DEF WithinTheReply
  <2>1. /\ cursor.at \in Nat /\ cursor.num \in Nat /\ cursor.first_batch_num \in Nat
    BY ParameterAssumption DEF Inv, Types, TypeOK, GoodCursor, CursorTypes
  <2>2. cursor.first_batch = None
    BY <2>1 DEF Inv, Types, GoodCursor
  <2> DEFINE k == Len(delivered)
  <2>3. Tracked(cursor, sent, cut, k)
    BY DEF Inv, ShowsNext, ShowsEnd
  <2> HIDE DEF k
  <2>4. Least(cursor.at + 1, cursor.num) = cursor.at + 1
    BY <2>1 DEF Least
  <2>5. k \in Nat /\ cursor.buf = Numbered(k, cursor.num - (cursor.at + 1))
    BY <2>2, <2>3, <2>4 DEF Tracked, Left
  <2> DEFINE n == cursor.num - (cursor.at + 1)
  <2>6. Count(k) /\ Count(n) /\ n # 0
    BY <2>1, <2>5 DEF Count
  <2> HIDE DEF n
  <2> QED BY <2>5, <2>6, NumberedTail DEF n
<1> QED BY <1>1, Invariance, PTL

\* The history of what was handed over is what the stream calls the latest.
LEMMA LatestIsLength ==
  ASSUME delivered \in Seq(Document), delivered = Numbered(0, Len(delivered))
  PROVE  Stream!Latest = Len(delivered)
<1>1. CASE delivered = <<>>
  BY <1>1 DEF Stream!Latest
<1>2. CASE delivered # <<>>
  <2> DEFINE n == Len(delivered)
  <2>1. n \in Nat /\ n # 0
    BY <1>2, LenProperties, EmptySeq
  <2>2. delivered[n] = 0 + n
    <3> HIDE DEF n
    <3>1. n \in 1..n
      BY <2>1
    <3>2. delivered = [i \in 1..n |-> 0 + i]
      BY DEF Numbered, n
    <3> QED BY <3>1, <3>2
  <2> QED BY <1>2, <2>1, <2>2 DEF Stream!Latest
<1> QED BY <1>1, <1>2

\* The cursor hands over the documents of the result in order, each of them once,
\* and reports the end only when all that was promised was handed over.
THEOREM CursorIsAStream == Spec => DeliversTheStream
<1>1. Init => Stream!Init
  <2> SUFFICES ASSUME Init PROVE Stream!Init
    OBVIOUS
  <2>1. total \in Nat
    BY ParameterAssumption DEF Init
  <2> QED BY <2>1 DEF Init, Stream!Init, Promised
<1>2. Inv /\ Inv' /\ [Next]_vars => [Stream!Next]_(Stream!vars)
  <2> SUFFICES ASSUME Inv, Inv', [Next]_vars PROVE [Stream!Next]_(Stream!vars)
    OBVIOUS
  <2>1. /\ UNCHANGED total
        /\ \/ phase' = "broken" /\ delivered' = delivered
           \/ Started
           \/ GoesOn
           \/ /\ UNCHANGED <<delivered, phase>>
              /\ phase = "ended" => cut' = cut
    BY StepCases
  <2>2. total \in Nat /\ total' \in Nat /\ sent' <= total' /\ sent' \in Nat
        /\ delivered \in Seq(Document) /\ Len(delivered) \in Nat
    BY ParameterAssumption, LenProperties DEF Inv, Types, TypeOK, Setting
  <2>3. CASE phase' = "broken" /\ delivered' = delivered
    BY <2>1, <2>3 DEF Stream!Next, Stream!Break
  <2>4. ASSUME NEW before, Ends(before), Len(before) \in Nat
        PROVE  Len(before) >= Promised'
    <3>1. ShowsEnd(cursor', sent', cut', Len(before)) /\ total' = total
      BY <2>1, <2>4 DEF Ends
    <3> QED BY <2>2, <2>4, <3>1 DEF ShowsEnd, Tracked, ClosedAtEnd, Promised
  <2>5. CASE Started
    <3>1. Len(<<>>) = 0
      BY EmptySeq
    <3>2. CASE Breaks(<<>>)
      BY <2>1, <3>2 DEF Breaks, Stream!Next, Stream!Start
    <3>3. CASE HandsOut(<<>>)
      <4>1. delivered' = <<1>> /\ phase' = "open"
        BY <3>1, <3>3 DEF HandsOut
      <4>2. 1 <= sent'
        BY <3>1, <3>3 DEF HandsOut, ShowsNext
      <4>3. total >= 1
        BY <2>1, <2>2, <4>2
      <4> QED BY <2>1, <4>1, <4>3 DEF Stream!Next, Stream!Start
    <3>4. CASE Ends(<<>>)
      <4>1. phase' = "ended" /\ delivered' = <<>>
        BY <3>4 DEF Ends
      <4>2. 0 >= Promised' /\ Promised' \in Nat
        BY <2>2, <2>4, <3>1, <3>4 DEF Promised
      <4>3. Promised' = 0
        BY <4>2
      <4> QED BY <2>1, <4>1, <4>3 DEF Stream!Next, Stream!Start
    <3> QED BY <2>5, <3>2, <3>3, <3>4 DEF Started
  <2>6. CASE GoesOn
    <3>1. phase \in {"open", "ended"} /\ delivered = Numbered(0, Len(delivered))
      BY <2>6 DEF GoesOn, Inv
    <3>2. Stream!Latest = Len(delivered)
      BY <2>2, <3>1, LatestIsLength
    <3>3. CASE HandsOut(delivered)
      <4>1. /\ delivered' = Append(delivered, Len(delivered) + 1) /\ phase' = "open"
            /\ Len(delivered) + 1 <= sent'
        BY <3>3 DEF HandsOut, ShowsNext
      <4>2. Len(delivered) + 1 \in Stream!Latest + 1 .. total
        BY <2>1, <2>2, <3>2, <4>1
      <4>3. Stream!Deliver
        BY <2>1, <3>1, <3>2, <4>1, <4>2 DEF Stream!Deliver
      <4> QED BY <4>3 DEF Stream!Next
    <3>4. CASE Ends(delivered)
      <4>1. phase' = "ended" /\ delivered' = delivered
        BY <3>4 DEF Ends
      <4>2. Len(delivered) >= Promised'
        BY <2>2, <2>4, <3>4
      <4>3. Stream!End
        BY <2>1, <3>1, <4>1, <4>2 DEF Stream!End
      <4> QED BY <4>3 DEF Stream!Next
    <3> QED BY <2>6, <3>3, <3>4 DEF GoesOn
  <2>7. CASE UNCHANGED <<delivered, phase>> /\ (phase = "ended" => cut' = cut)
    <3>1. CASE phase = "ended"
      <4>1. Promised' = Promised
        BY <2>1, <2>7, <3>1 DEF Promised
      <4> QED BY <2>1, <2>7, <4>1 DEF Stream!vars
    <3>2. CASE phase # "ended"
      BY <2>1, <2>7, <3>2 DEF Stream!Next, Stream!Stay
    <3> QED BY <3>1, <3>2
  <2> QED BY <2>1, <2>3, <2>5, <2>6, <2>7
<1> QED BY <1>1, <1>2, Invariance, PTL DEF Spec, DeliversTheStream, Stream!Spec

=============================================================================
