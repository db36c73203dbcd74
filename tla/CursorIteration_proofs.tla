----------------------- MODULE CursorIteration_proofs -----------------------
(***************************************************************************)
(* Proofs about CursorIteration: its types, that nothing is read behind the *)
(* end of a reply, that hasNext() keeps its promise, that limit() is         *)
(* respected, and that the documents handed out are a stream as              *)
(* ResultStream has it, for results, limits and batches of any size.         *)
(***************************************************************************)
EXTENDS CursorIteration, SequenceTheorems, TLAPS

-----------------------------------------------------------------------------
(* The invariant, of what a call leaves behind.                            *)

GoodCursor(c) ==
  /\ c \in CursorState
  /\ c.open => c.connected
  /\ c.dead => ~c.connected
  /\ c.dont_advance => c.started_iterating

OutcomeTypes ==
  [cursor : CursorState, sent : 0..total, result : Results, hard : BOOLEAN, in_step : BOOLEAN]

GoodOutcome(o) == o \in OutcomeTypes /\ GoodCursor(o.cursor)

\* The position of the document that next() will load.
Upcoming(c) == IF c.dont_advance THEN c.at ELSE c.at + 1

\* The buffer holds at least what the counters say is left from position `at`.
Holds(c, at) == Len(c.buf) >= c.num - at

\* n documents were handed out, and no more than the replies had brought and
\* the buffer has not.
Counted(c, n) == n \in Nat /\ n + Len(c.buf) <= c.num

Limited(c, stepwise) == limit > 0 /\ stepwise => c.num <= limit

\* What an outcome is, after which n documents have been handed out.
Sound(o, n) ==
  LET c == o.cursor IN
  /\ GoodOutcome(o) /\ Counted(c, n)
  /\ ~c.started_iterating => n = 0
  /\ c.started_iterating => c.dead \/ Holds(c, Upcoming(c))
  /\ c.started_iterating => Limited(c, o.in_step)
  /\ o.result = "true" => c.dead \/ (c.started_iterating /\ Upcoming(c) < c.num)

Now == Outcome(cursor, sent, result)

Invariant == TypeOK /\ Sound(Now, Len(delivered))

-----------------------------------------------------------------------------
(* The pieces of the operations.                                           *)

LEMMA ResetGood ==
  ASSUME NEW c, GoodCursor(c)
  PROVE  LET d == Reset(c) IN
         /\ GoodCursor(d) /\ d.at = 0 /\ d.num = 0 /\ d.buf = <<>> /\ ~d.open /\ ~d.dead
         /\ ~d.started_iterating /\ ~d.dont_advance /\ d.connected = c.connected
<1>1. <<>> \in Seq(Document \cup {Error})
  BY EmptySeq
<1> QED BY <1>1 DEF GoodCursor, CursorState, Reset, Fresh

LEMMA FailedGood ==
  ASSUME NEW c, GoodCursor(c)
  PROVE  LET d == Failed(c) IN
         /\ GoodCursor(d) /\ d.dead /\ d.at = c.at /\ d.num = c.num /\ d.buf = c.buf
         /\ d.started_iterating = c.started_iterating /\ d.dont_advance = c.dont_advance
         /\ d.current = c.current
BY DEF GoodCursor, CursorState, Failed

\* A reply as the driver may receive it.
IsReply(r) ==
  /\ r.docs \in Seq(Document \cup {Error}) /\ Len(r.docs) \in Nat
  /\ r.start \in Nat /\ r.open \in BOOLEAN /\ r.flag \in BOOLEAN

LEMMA ReceiveGood ==
  ASSUME NEW c, GoodCursor(c), c.connected, NEW r, IsReply(r)
  PROVE  LET d == Receive(c, r) IN
         /\ GoodCursor(d) /\ d.at = c.at /\ d.num = c.num + Len(r.docs) /\ d.buf = r.docs
         /\ d.started_iterating = c.started_iterating /\ d.dont_advance = c.dont_advance
         /\ d.connected /\ ~d.dead
<1> DEFINE n == c.num + Len(r.docs)
<1>1. c \in CursorState /\ n \in Nat
  BY DEF GoodCursor, CursorState, IsReply
<1> DEFINE u == r.docs
<1> DEFINE d == [c EXCEPT !.num = n, !.start = r.start, !.open = r.open, !.flag = r.flag, !.buf = u]
<1>2. Receive(c, r) = d
  BY DEF Receive
<1>3. u \in Seq(Document \cup {Error})
  BY DEF IsReply
<1> HIDE DEF n, u
<1>4. d \in CursorState
  BY <1>1, <1>3 DEF CursorState, IsReply
<1>5. /\ d.at = c.at /\ d.num = n /\ d.buf = u /\ d.open = r.open
      /\ d.started_iterating = c.started_iterating /\ d.dont_advance = c.dont_advance
      /\ d.connected = c.connected /\ d.dead = c.dead
  BY <1>1 DEF CursorState
<1> QED BY <1>2, <1>4, <1>5 DEF GoodCursor, n, u

\* Nothing of the reply is kept but its count.
LEMMA HeaderOnlyGood ==
  ASSUME NEW c, GoodCursor(c), c.connected, NEW r, IsReply(r)
  PROVE  LET d == Failed(HeaderOnly(c, r)) IN
         /\ GoodCursor(d) /\ d.dead /\ d.at = c.at /\ d.num = c.num + Len(r.docs)
         /\ d.buf = <<>>
         /\ d.started_iterating = c.started_iterating /\ d.dont_advance = c.dont_advance
<1> DEFINE e == Receive(c, r)
<1>1. /\ GoodCursor(e) /\ e.at = c.at /\ e.num = c.num + Len(r.docs)
      /\ e.started_iterating = c.started_iterating /\ e.dont_advance = c.dont_advance
  BY ReceiveGood
<1> HIDE DEF e
<1> DEFINE d == [e EXCEPT !.buf = <<>>]
<1>2. <<>> \in Seq(Document \cup {Error})
  BY EmptySeq
<1>3. /\ GoodCursor(d) /\ d.at = e.at /\ d.num = e.num /\ d.buf = <<>>
      /\ d.started_iterating = e.started_iterating /\ d.dont_advance = e.dont_advance
  BY <1>1, <1>2 DEF GoodCursor, CursorState
<1>4. HeaderOnly(c, r) = d
  BY DEF HeaderOnly, e
<1> HIDE DEF d
<1> QED BY <1>1, <1>3, <1>4, FailedGood

LEMMA AdvanceGood ==
  ASSUME NEW c, GoodCursor(c)
  PROVE  LET d == Advance(c) IN
         /\ GoodCursor(d) /\ d.at = Upcoming(c) /\ d.num = c.num /\ d.buf = c.buf
         /\ d.started_iterating = c.started_iterating /\ ~d.dont_advance
         /\ d.dead = c.dead /\ d.open = c.open /\ d.connected = c.connected
<1>1. c \in CursorState /\ c.at \in Nat /\ c.at + 1 \in Nat
  BY DEF GoodCursor, CursorState
<1>2. CASE c.dont_advance
  BY <1>1, <1>2 DEF GoodCursor, CursorState, Advance, Upcoming
<1>3. CASE ~c.dont_advance
  <2> DEFINE n == c.at + 1
  <2>1. Advance(c) = [c EXCEPT !.current = None, !.at = n] /\ Upcoming(c) = n
    BY <1>3 DEF Advance, Upcoming
  <2> HIDE DEF n
  <2> QED BY <1>1, <1>3, <2>1 DEF GoodCursor, CursorState, n
<1> QED BY <1>1, <1>2, <1>3 DEF GoodCursor, CursorState

\* The document, if one is left, is taken from the buffer.
LEMMA LoadGood ==
  ASSUME NEW c, GoodCursor(c)
  PROVE  LET d == Load(c) IN
         /\ GoodCursor(d) /\ d.at = c.at /\ d.num = c.num
         /\ d.started_iterating = c.started_iterating /\ d.dont_advance = c.dont_advance
         /\ d.dead = c.dead
         /\ c.at >= c.num => d.current = None /\ d.buf = c.buf
         /\ c.at < c.num => d.current \in Document \cup {Error}
         /\ c.at < c.num /\ c.buf = <<>> => d.current = Error /\ d.buf = <<>>
         /\ c.at < c.num /\ c.buf # <<>> => Len(d.buf) = Len(c.buf) - 1
         /\ Len(c.buf) \in Nat /\ (c.buf = <<>> <=> Len(c.buf) = 0)
<1>1. c \in CursorState /\ c.buf \in Seq(Document \cup {Error}) /\ c.at \in Nat /\ c.num \in Nat
  BY DEF GoodCursor, CursorState
<1>2. Len(c.buf) \in Nat /\ (c.buf = <<>> <=> Len(c.buf) = 0)
  BY <1>1, EmptySeq, LenProperties
<1>3. CASE c.at >= c.num
  BY <1>1, <1>2, <1>3 DEF Load, GoodCursor, CursorState
<1>4. CASE c.at < c.num /\ c.buf = <<>>
  <2>1. Load(c) = [c EXCEPT !.current = Error]
    BY <1>1, <1>4 DEF Load
  <2> QED BY <1>1, <1>2, <1>4, <2>1 DEF GoodCursor, CursorState
<1>5. CASE c.at < c.num /\ c.buf # <<>>
  <2>1. Load(c) = [c EXCEPT !.current = Head(c.buf), !.buf = Tail(c.buf)]
    BY <1>1, <1>5 DEF Load
  <2>2. /\ Head(c.buf) \in Document \cup {Error} /\ Tail(c.buf) \in Seq(Document \cup {Error})
        /\ Len(Tail(c.buf)) = Len(c.buf) - 1
    BY <1>1, <1>5, HeadTailProperties
  <2> DEFINE x == Head(c.buf)
  <2> DEFINE b == Tail(c.buf)
  <2> DEFINE d == [c EXCEPT !.current = x, !.buf = b]
  <2>3. d.current = x /\ d.buf = b /\ Load(c) = d
    BY <1>1, <2>1 DEF CursorState
  <2> HIDE DEF x, b
  <2>4. /\ GoodCursor(d) /\ d.at = c.at /\ d.num = c.num
        /\ d.started_iterating = c.started_iterating /\ d.dont_advance = c.dont_advance
        /\ d.dead = c.dead
    BY <1>1, <2>2 DEF GoodCursor, CursorState, x, b
  <2> HIDE DEF d
  <2>5. d.current \in Document \cup {Error} /\ Len(d.buf) = Len(c.buf) - 1
    BY <2>2, <2>3 DEF x, b
  <2>6. ~(c.at >= c.num)
    BY <1>1, <1>5
  <2> QED BY <1>2, <1>5, <2>3, <2>4, <2>5, <2>6
<1> QED BY <1>1, <1>3, <1>4, <1>5

-----------------------------------------------------------------------------
(* What the server may answer.                                             *)

LEMMA RequestIsNumber ==
  ASSUME TypeOK, NEW c, GoodCursor(c)
  PROVE  NextRequestLimit(c) \in Int
BY DEF TypeOK, GoodCursor, CursorState, NextRequestLimit

\* The next k documents of the result, at most n if the request named a number.
LEMMA RepliesGood ==
  ASSUME TypeOK, NEW from \in 0..total, NEW n \in Int, NEW closes, NEW r \in Replies(from, n, closes)
  PROVE  /\ IsReply(r) /\ from + Len(r.docs) \in 0..total
         /\ n > 0 => Len(r.docs) <= n
<1> DEFINE most == Least(total - from, IF n = 0 THEN DefaultBatch ELSE Magnitude(n))
<1>1. /\ total \in Nat /\ total <= MaxDocuments /\ MaxDocuments \in Nat /\ from \in Nat
      /\ DefaultBatch \in Nat
  BY ParameterAssumption DEF TypeOK
<1>2. most \in Int /\ most <= total - from /\ (n > 0 => most <= n)
  BY <1>1 DEF Least, Magnitude
<1>3. /\ r \in [docs : {[i \in 1..k |-> from + i] : k \in 0..most}, start : {from},
                open : BOOLEAN, flag : {FALSE}]
  BY DEF Replies
<1> HIDE DEF most
<1>4. PICK k \in 0..most : r.docs = [i \in 1..k |-> from + i]
  BY <1>3
<1>5. k \in Nat /\ from + k <= total
  BY <1>1, <1>2
<1>6. \A i \in 1..k : from + i \in Document \cup {Error}
  BY <1>1, <1>5 DEF Document
<1>7. r.docs \in Seq(Document \cup {Error}) /\ Len(r.docs) = k
  <2> DEFINE D == Document \cup {Error}
  <2>1. \A i \in 1..k : from + i \in D
    BY <1>6
  <2> HIDE DEF D
  <2>2. [i \in 1..k |-> from + i] \in Seq(D) /\ Len([i \in 1..k |-> from + i]) = k
    BY <1>1, <1>5, <2>1
  <2> QED BY <1>4, <2>2 DEF D
<1>8. r.start \in Nat /\ r.open \in BOOLEAN /\ r.flag \in BOOLEAN
  BY <1>1, <1>3
<1>9. from + k \in 0..total /\ (n > 0 => k <= n)
  BY <1>1, <1>2, <1>5
<1> QED BY <1>5, <1>7, <1>8, <1>9 DEF IsReply

LEMMA OtherReplies == IsReply(QueryFailure) /\ IsReply(CursorNotFound)
<1>1. <<Error>> \in Seq(Document \cup {Error}) /\ Len(<<Error>>) = 1
  OBVIOUS
<1>2. <<>> \in Seq(Document \cup {Error}) /\ Len(<<>>) = 0
  BY EmptySeq
<1> QED BY <1>1, <1>2 DEF IsReply, QueryFailure, CursorNotFound

\* The first request asks for no more than limit(), one in step for no more
\* than is left of it.
LEMMA FirstRequestLimited ==
  ASSUME TypeOK, NEW c, GoodCursor(c), c.at = 0, limit > 0, batch_size >= 0
  PROVE  NextRequestLimit(c) > 0 /\ NextRequestLimit(c) <= limit
BY DEF TypeOK, NextRequestLimit

LEMMA RequestInStepLimited ==
  ASSUME TypeOK, NEW c, GoodCursor(c), limit > 0, c.at < limit, InStep(c)
  PROVE  NextRequestLimit(c) > 0 /\ NextRequestLimit(c) <= limit - c.num
<1>1. c.at \in Nat /\ c.at = c.num /\ batch_size \in Int /\ limit \in Int
      /\ batch_size >= 0 /\ batch_size < limit
  BY DEF TypeOK, GoodCursor, CursorState, InStep
<1> QED BY <1>1 DEF NextRequestLimit

-----------------------------------------------------------------------------
(* Exchanges.                                                              *)

Exchanged(c, s, r, h, i) ==
  [cursor |-> c, sent |-> s, result |-> r, hard |-> h, in_step |-> i]

LEMMA OutcomeGood ==
  ASSUME NEW c, GoodCursor(c), NEW s \in 0..total, NEW r \in Results, NEW h \in BOOLEAN,
         NEW i \in BOOLEAN
  PROVE  LET o == Exchanged(c, s, r, h, i) IN
         /\ GoodOutcome(o) /\ o.cursor = c /\ o.sent = s /\ o.result = r
         /\ o.hard = h /\ o.in_step = i
BY DEF GoodOutcome, OutcomeTypes, GoodCursor, Exchanged

LEMMA ExchangeFields ==
  ASSUME NEW c, NEW s, NEW r, NEW h, NEW i
  PROVE  [Outcome(c, s, r) EXCEPT !.hard = h, !.in_step = i] = Exchanged(c, s, r, h, i)
<1> DEFINE x == Outcome(c, s, r)
<1> DEFINE y == [x EXCEPT !.hard = h]
<1>1. x = [cursor |-> c, sent |-> s, result |-> r, hard |-> hard, in_step |-> in_step]
  BY DEF Outcome
<1> HIDE DEF x
<1>2. y = [cursor |-> c, sent |-> s, result |-> r, hard |-> h, in_step |-> in_step]
  BY <1>1
<1> HIDE DEF y
<1>3. [y EXCEPT !.in_step = i] = Exchanged(c, s, r, h, i)
  BY <1>2 DEF Exchanged
<1> QED BY <1>3 DEF y, x

LEMMA PlainOutcomeGood ==
  ASSUME TypeOK, NEW c, GoodCursor(c), NEW s \in 0..total, NEW r \in Results
  PROVE  LET o == Outcome(c, s, r) IN
         /\ GoodOutcome(o) /\ o.cursor = c /\ o.sent = s /\ o.result = r
         /\ o.hard = hard /\ o.in_step = in_step
BY DEF TypeOK, GoodOutcome, OutcomeTypes, GoodCursor, Outcome

\* After a query nothing was taken from the buffer, which holds what was counted
\* unless the exchange failed.
Queried(o) ==
  LET c == o.cursor IN
  /\ GoodOutcome(o) /\ o.result \in {"none", "exception"}
  /\ ~c.started_iterating /\ ~c.dont_advance /\ c.at = 0
  /\ Len(c.buf) \in Nat /\ Len(c.buf) <= c.num
  /\ c.dead \/ Len(c.buf) = c.num
  /\ ~Thrown(o) => ~c.dead
  /\ Limited(c, o.in_step)

LEMMA QueryGood ==
  ASSUME TypeOK, GoodCursor(cursor), NEW o, o \in RunQuery
  PROVE  Queried(o)
<1> DEFINE n == NextRequestLimit(Reset(cursor))
<1> DEFINE h == (n < 0 \/ n = 1)
<1> DEFINE step == batch_size >= 0
<1> DEFINE q == Reset(cursor)
<1> DEFINE c == [q EXCEPT !.connected = TRUE]
<1> DEFINE As(d, s, r) == o = Exchanged(d, s, r, h, step)
<1>1. /\ GoodCursor(q) /\ q.at = 0 /\ q.num = 0 /\ q.buf = <<>> /\ ~q.open /\ ~q.dead
      /\ ~q.started_iterating /\ ~q.dont_advance
  BY ResetGood
<1>2. n \in Int /\ h \in BOOLEAN /\ step \in BOOLEAN
  <2>1. n \in Int
    BY <1>1, RequestIsNumber
  <2> QED BY <2>1 DEF TypeOK
<1>3. \/ As([c EXCEPT !.connected = FALSE], 0, "exception")
      \/ As(c, 0, "exception")
      \/ As(Failed(c), 0, "exception")
      \/ As(Receive(c, QueryFailure), 0, "none")
      \/ \E r \in QueryReplies : As(Failed(HeaderOnly(c, r)), 0, "exception")
      \/ \E r \in QueryReplies : As(Receive(c, r), Len(r.docs), "none")
  <2> DEFINE simple == {Outcome([c EXCEPT !.connected = FALSE], 0, "exception"),
                        Outcome(c, 0, "exception"), Outcome(Failed(c), 0, "exception"),
                        Outcome(Receive(c, QueryFailure), 0, "none")}
  <2> DEFINE cut == {Outcome(Failed(HeaderOnly(c, r)), 0, "exception") : r \in QueryReplies}
  <2> DEFINE whole == {Outcome(Receive(c, r), Len(r.docs), "none") : r \in QueryReplies}
  <2>1. RunQuery = {[u EXCEPT !.hard = h, !.in_step = step] : u \in (simple \cup cut) \cup whole}
    BY DEF RunQuery
  <2> HIDE DEF h, step, q, c
  <2>2. PICK u \in simple \cup cut \cup whole : o = [u EXCEPT !.hard = h, !.in_step = step]
    BY <2>1
  <2>3. CASE u \in simple
    BY <2>2, <2>3, ExchangeFields
  <2>4. CASE u \in cut
    BY <2>2, <2>4, ExchangeFields
  <2>5. CASE u \in whole
    BY <2>2, <2>5, ExchangeFields
  <2> QED BY <2>2, <2>3, <2>4, <2>5
<1> HIDE DEF q
<1>4. /\ GoodCursor(c) /\ c.at = 0 /\ c.num = 0 /\ c.buf = <<>> /\ ~c.open /\ ~c.dead
      /\ ~c.started_iterating /\ ~c.dont_advance /\ c.connected
  BY <1>1 DEF GoodCursor, CursorState
<1> DEFINE b == [c EXCEPT !.connected = FALSE]
<1> HIDE DEF c
<1>5. /\ GoodCursor(b) /\ b.at = 0 /\ b.num = 0 /\ b.buf = <<>> /\ ~b.dead
      /\ ~b.started_iterating /\ ~b.dont_advance
  BY <1>4 DEF GoodCursor, CursorState
<1> HIDE DEF b
<1>6. /\ 0 \in 0..total /\ limit \in Int /\ batch_size \in Int /\ total \in Nat
      /\ Len(<<>>) = 0 /\ "none" \in Results /\ "exception" \in Results
  BY ParameterAssumption, EmptySeq DEF TypeOK, Results
<1>7. \A r \in QueryReplies :
        IsReply(r) /\ Len(r.docs) \in 0..total /\ (limit > 0 /\ step => Len(r.docs) <= limit)
  <2> SUFFICES ASSUME NEW r \in QueryReplies
               PROVE  /\ IsReply(r) /\ Len(r.docs) \in 0..total
                      /\ limit > 0 /\ step => Len(r.docs) <= limit
    OBVIOUS
  <2>1. r \in Replies(0, n, n < 0 \/ n = 1)
    BY DEF QueryReplies
  <2>2. limit > 0 /\ step => n > 0 /\ n <= limit
    BY <1>1, FirstRequestLimited DEF q
  <2> HIDE DEF n
  <2>3. IsReply(r) /\ 0 + Len(r.docs) \in 0..total /\ (n > 0 => Len(r.docs) <= n)
    BY <1>2, <1>6, <2>1, RepliesGood
  <2> QED BY <1>2, <1>6, <2>2, <2>3 DEF IsReply
<1>8. ASSUME NEW d, GoodCursor(d), ~d.started_iterating, ~d.dont_advance, d.at = 0,
             Len(d.buf) \in Nat, Len(d.buf) <= d.num, d.dead \/ Len(d.buf) = d.num,
             limit > 0 /\ step => d.num <= limit,
             NEW s \in 0..total, NEW r \in {"none", "exception"}, As(d, s, r), r = "none" => ~d.dead
      PROVE  Queried(o)
  <2> HIDE DEF h, step
  <2>1. /\ GoodOutcome(o) /\ o.cursor = d /\ o.result = r /\ o.in_step = step
    <3>1. r \in Results
      BY <1>6
    <3> QED BY <1>2, <1>8, <3>1, OutcomeGood
  <2> QED BY <1>8, <2>1 DEF Queried, Limited, Thrown
<1> HIDE DEF step, h, As
<1>9. CASE As(b, 0, "exception") \/ As(c, 0, "exception")
  BY <1>4, <1>5, <1>6, <1>8, <1>9
<1>10. CASE As(Failed(c), 0, "exception")
  BY <1>4, <1>6, <1>8, <1>10, FailedGood
<1>11. ASSUME NEW r, IsReply(r), NEW s \in 0..total, As(Receive(c, r), s, "none"),
              limit > 0 /\ step => Len(r.docs) <= limit
       PROVE  Queried(o)
  <2> DEFINE d == Receive(c, r)
  <2>1. /\ GoodCursor(d) /\ ~d.dead /\ d.at = 0 /\ d.num = 0 + Len(r.docs) /\ d.buf = r.docs
        /\ ~d.started_iterating /\ ~d.dont_advance /\ Len(r.docs) \in Nat
    BY <1>4, <1>11, ReceiveGood DEF IsReply
  <2> HIDE DEF d
  <2> QED BY <1>8, <1>11, <2>1 DEF d
<1>12. ASSUME NEW r \in QueryReplies, As(Failed(HeaderOnly(c, r)), 0, "exception")
       PROVE  Queried(o)
  <2> DEFINE d == Failed(HeaderOnly(c, r))
  <2>1. /\ GoodCursor(d) /\ d.dead /\ d.at = 0 /\ d.num = 0 + Len(r.docs) /\ d.buf = <<>>
        /\ ~d.started_iterating /\ ~d.dont_advance /\ Len(r.docs) \in Nat
    BY <1>4, <1>7, HeaderOnlyGood DEF IsReply
  <2> HIDE DEF d
  <2> QED BY <1>6, <1>7, <1>8, <1>12, <2>1 DEF d
<1>13. ASSUME NEW r \in QueryReplies, As(Receive(c, r), Len(r.docs), "none")
       PROVE  Queried(o)
  BY <1>7, <1>11, <1>13
<1>14. CASE As(Receive(c, QueryFailure), 0, "none")
  <2>1. IsReply(QueryFailure) /\ Len(QueryFailure.docs) = 1
    BY OtherReplies DEF QueryFailure
  <2>2. limit > 0 /\ step => Len(QueryFailure.docs) <= limit
    BY <1>6, <2>1
  <2> QED BY <1>6, <1>11, <1>14, <2>1, <2>2
<1> QED BY <1>3, <1>9, <1>10, <1>12, <1>13, <1>14 DEF b

\* What get_more leaves of the cursor it was called for.
Continued(c, g) ==
  LET d == g.cursor IN
  /\ GoodOutcome(g) /\ g.result \in {"none", "exception"}
  /\ d.started_iterating = c.started_iterating /\ d.dont_advance = c.dont_advance
  /\ d.at = c.at /\ d.num >= c.num
  /\ d.buf = c.buf \/ (Len(d.buf) \in Nat /\ Len(d.buf) <= d.num - c.num)
  /\ d.dead \/ Len(d.buf) = d.num - c.num
  /\ ~Thrown(g) => ~d.dead
  /\ Limited(d, g.in_step)

LEMMA GetMoreGood ==
  ASSUME TypeOK, NEW c, GoodCursor(c), c.connected, Limited(c, in_step), limit > 0 => c.at < limit,
         NEW g, g \in GetMore(c)
  PROVE  Continued(c, g)
<1> DEFINE n == NextRequestLimit(c)
<1> DEFINE h == (hard \/ n < 0)
<1> DEFINE step == (in_step /\ InStep(c))
<1> DEFINE As(d, s, r) == g = Exchanged(d, s, r, h, step)
<1>1. n \in Int /\ h \in BOOLEAN /\ step \in BOOLEAN
  <2>1. n \in Int
    BY RequestIsNumber
  <2> QED BY <2>1 DEF TypeOK, InStep
<1>2. \/ As(Failed(c), sent, "exception")
      \/ As(Receive(c, CursorNotFound), sent, "none")
      \/ \E r \in GetMoreReplies(c) : As(Failed(HeaderOnly(c, r)), sent, "exception")
      \/ \E r \in GetMoreReplies(c) : As(Receive(c, r), sent + Len(r.docs), "none")
  <2> DEFINE simple == {Outcome(Failed(c), sent, "exception"),
                        Outcome(Receive(c, CursorNotFound), sent, "none")}
  <2> DEFINE cut == {Outcome(Failed(HeaderOnly(c, r)), sent, "exception") : r \in GetMoreReplies(c)}
  <2> DEFINE whole ==
        {Outcome(Receive(c, r), sent + Len(r.docs), "none") : r \in GetMoreReplies(c)}
  <2>1. GetMore(c) = {[u EXCEPT !.hard = h, !.in_step = step] : u \in (simple \cup cut) \cup whole}
    BY DEF GetMore
  <2> HIDE DEF h, step
  <2>2. PICK u \in simple \cup cut \cup whole : g = [u EXCEPT !.hard = h, !.in_step = step]
    BY <2>1
  <2>3. CASE u \in simple
    BY <2>2, <2>3, ExchangeFields
  <2>4. CASE u \in cut
    BY <2>2, <2>4, ExchangeFields
  <2>5. CASE u \in whole
    BY <2>2, <2>5, ExchangeFields
  <2> QED BY <2>2, <2>3, <2>4, <2>5
<1>3. /\ sent \in 0..total /\ limit \in Int /\ total \in Nat
      /\ "none" \in Results /\ "exception" \in Results /\ c.num \in Nat
  BY ParameterAssumption DEF TypeOK, Results, GoodCursor, CursorState
<1>4. \A r \in GetMoreReplies(c) :
        /\ IsReply(r) /\ sent + Len(r.docs) \in 0..total
        /\ limit > 0 /\ step => c.num + Len(r.docs) <= limit
  <2> SUFFICES ASSUME NEW r \in GetMoreReplies(c)
               PROVE  /\ IsReply(r) /\ sent + Len(r.docs) \in 0..total
                      /\ limit > 0 /\ step => c.num + Len(r.docs) <= limit
    OBVIOUS
  <2>1. r \in Replies(sent, n, n < 0)
    BY DEF GetMoreReplies
  <2>2. limit > 0 /\ step => n > 0 /\ n <= limit - c.num
    BY RequestInStepLimited
  <2> HIDE DEF n
  <2>3. IsReply(r) /\ sent + Len(r.docs) \in 0..total /\ (n > 0 => Len(r.docs) <= n)
    BY <1>1, <1>3, <2>1, RepliesGood
  <2> QED BY <1>1, <1>3, <2>2, <2>3 DEF IsReply
<1>5. ASSUME NEW d, GoodCursor(d), d.started_iterating = c.started_iterating,
             d.dont_advance = c.dont_advance, d.at = c.at, d.num >= c.num,
             d.buf = c.buf \/ (Len(d.buf) \in Nat /\ Len(d.buf) <= d.num - c.num),
             d.dead \/ Len(d.buf) = d.num - c.num,
             limit > 0 /\ step => d.num <= limit,
             NEW s \in 0..total, NEW r \in {"none", "exception"}, As(d, s, r), r = "none" => ~d.dead
      PROVE  Continued(c, g)
  <2> HIDE DEF h, step
  <2>1. /\ GoodOutcome(g) /\ g.cursor = d /\ g.result = r /\ g.in_step = step
    <3>1. r \in Results
      BY <1>3
    <3> QED BY <1>1, <1>5, <3>1, OutcomeGood
  <2> QED BY <1>5, <2>1 DEF Continued, Limited, Thrown
<1>6. limit > 0 /\ step => c.num <= limit
  BY DEF Limited
<1> HIDE DEF step, h, As
<1>7. CASE As(Failed(c), sent, "exception")
  <2> DEFINE d == Failed(c)
  <2>1. /\ GoodCursor(d) /\ d.dead /\ d.at = c.at /\ d.num = c.num /\ d.buf = c.buf
        /\ d.started_iterating = c.started_iterating /\ d.dont_advance = c.dont_advance
    BY FailedGood
  <2> HIDE DEF d
  <2> QED BY <1>3, <1>5, <1>6, <1>7, <2>1 DEF d
<1>8. ASSUME NEW r, IsReply(r), NEW s \in 0..total, As(Receive(c, r), s, "none"),
             limit > 0 /\ step => c.num + Len(r.docs) <= limit
      PROVE  Continued(c, g)
  <2> DEFINE d == Receive(c, r)
  <2>1. /\ GoodCursor(d) /\ ~d.dead /\ d.at = c.at /\ d.num = c.num + Len(r.docs)
        /\ d.buf = r.docs /\ Len(r.docs) \in Nat
        /\ d.started_iterating = c.started_iterating /\ d.dont_advance = c.dont_advance
    BY <1>8, ReceiveGood DEF IsReply
  <2> HIDE DEF d
  <2>2. d.num >= c.num /\ Len(d.buf) = d.num - c.num /\ Len(d.buf) \in Nat
        /\ Len(d.buf) <= d.num - c.num
    BY <1>3, <2>1
  <2> QED BY <1>5, <1>8, <2>1, <2>2 DEF d
<1>9. CASE As(Receive(c, CursorNotFound), sent, "none")
  <2>1. IsReply(CursorNotFound) /\ Len(CursorNotFound.docs) = 0
    BY OtherReplies DEF CursorNotFound
  <2>2. limit > 0 /\ step => c.num + Len(CursorNotFound.docs) <= limit
    BY <1>3, <1>6, <2>1
  <2> QED BY <1>3, <1>8, <1>9, <2>1, <2>2
<1>10. ASSUME NEW r \in GetMoreReplies(c), As(Failed(HeaderOnly(c, r)), sent, "exception")
       PROVE  Continued(c, g)
  <2> DEFINE d == Failed(HeaderOnly(c, r))
  <2>1. /\ GoodCursor(d) /\ d.dead /\ d.at = c.at /\ d.num = c.num + Len(r.docs)
        /\ d.buf = <<>> /\ Len(r.docs) \in Nat
        /\ d.started_iterating = c.started_iterating /\ d.dont_advance = c.dont_advance
    BY <1>4, HeaderOnlyGood DEF IsReply
  <2> HIDE DEF d
  <2>2. d.num >= c.num /\ Len(d.buf) \in Nat /\ Len(d.buf) <= d.num - c.num
    <3>1. Len(<<>>) = 0
      BY EmptySeq
    <3> QED BY <1>3, <2>1, <3>1
  <2>3. limit > 0 /\ step => d.num <= limit
    BY <1>4, <2>1
  <2> QED BY <1>3, <1>5, <1>10, <2>1, <2>2, <2>3 DEF d
<1>11. ASSUME NEW r \in GetMoreReplies(c), As(Receive(c, r), sent + Len(r.docs), "none")
       PROVE  Continued(c, g)
  BY <1>4, <1>8, <1>11
<1> QED BY <1>2, <1>7, <1>9, <1>10, <1>11

-----------------------------------------------------------------------------
(* Loading, and what errors make of it.                                    *)

\* The documents an outcome hands out.
Gain(o) == IF o.result = "document" /\ o.cursor.current \in Document THEN 1 ELSE 0

\* The position is the one to load from, unless the call has failed already.
Ready(o, n) ==
  LET c == o.cursor IN
  /\ GoodOutcome(o) /\ o.result \in {"none", "exception"} /\ Counted(c, n)
  /\ ~c.dont_advance
  /\ c.dead \/ Holds(c, c.at)
  /\ ~c.started_iterating => n = 0 /\ Thrown(o)
  /\ c.started_iterating => Limited(c, o.in_step)

LEMMA LengthIsNumber == ASSUME NEW c, GoodCursor(c) PROVE Len(c.buf) \in Nat
BY LenProperties DEF GoodCursor, CursorState

LEMMA LoadedSound ==
  ASSUME TypeOK, NEW o, NEW n, Ready(o, n)
  PROVE  LET p == Loaded(o) IN
         /\ Sound(p, n + Gain(p)) /\ p.result \in {"document", "null", "exception"}
         /\ ~Thrown(o) /\ o.cursor.at < o.cursor.num => p.result = "document"
<1> DEFINE c == o.cursor
<1>1. /\ GoodCursor(c) /\ c.at \in Nat /\ c.num \in Nat /\ Len(c.buf) \in Nat /\ n \in Nat
      /\ n + Len(c.buf) <= c.num /\ o \in OutcomeTypes /\ ~c.dont_advance
  BY LengthIsNumber DEF Ready, GoodOutcome, GoodCursor, CursorState, Counted
<1>2. CASE Thrown(o)
  <2>1. Loaded(o) = o /\ Gain(o) = 0 /\ o.result = "exception"
    BY <1>2 DEF Loaded, Gain, Thrown
  <2>2. c.dead \/ Len(c.buf) >= c.num - Upcoming(c)
    BY <1>1 DEF Ready, Holds, Upcoming
  <2> QED BY <1>1, <1>2, <2>1, <2>2 DEF Ready, Sound, Counted, Holds
<1>3. CASE ~Thrown(o)
  <2> DEFINE d == Load(c)
  <2> DEFINE w == IF d.current = None THEN "null" ELSE "document"
  <2>1. /\ GoodCursor(d) /\ d.at = c.at /\ d.num = c.num
        /\ d.started_iterating = c.started_iterating /\ d.dont_advance = c.dont_advance
        /\ d.dead = c.dead
        /\ c.at >= c.num => d.current = None /\ d.buf = c.buf
        /\ c.at < c.num => d.current \in Document \cup {Error}
        /\ c.at < c.num /\ c.buf = <<>> => d.current = Error /\ d.buf = <<>>
        /\ c.at < c.num /\ c.buf # <<>> => Len(d.buf) = Len(c.buf) - 1
        /\ c.buf = <<>> <=> Len(c.buf) = 0
    BY <1>1, LoadGood
  <2>2. Loaded(o) = [[o EXCEPT !.cursor = d] EXCEPT !.result = w]
    BY <1>3 DEF Loaded
  <2> HIDE DEF d
  <2> DEFINE y == [o EXCEPT !.cursor = d]
  <2>3. /\ GoodOutcome(y) /\ y.cursor = d /\ y.in_step = o.in_step
    BY <1>1, <2>1 DEF GoodOutcome, OutcomeTypes, GoodCursor
  <2> HIDE DEF y
  <2> DEFINE p == [y EXCEPT !.result = w]
  <2>4. w \in {"null", "document"} /\ w \in Results
    BY DEF Results
  <2> HIDE DEF w
  <2>5. /\ GoodOutcome(p) /\ p.cursor = d /\ p.in_step = o.in_step /\ p.result = w
    BY <2>3, <2>4 DEF GoodOutcome, OutcomeTypes
  <2>6. Loaded(o) = p
    BY <2>2 DEF y
  <2> HIDE DEF p
  <2>7. None \notin Document \cup {Error}
    BY ParameterAssumption DEF Document, Error
  <2>8. c.started_iterating /\ Limited(d, p.in_step)
    BY <1>3, <2>1, <2>5 DEF Ready, Limited
  <2>9. ASSUME Counted(d, n + Gain(p)), d.dead \/ Holds(d, Upcoming(d))
        PROVE  Sound(p, n + Gain(p))
    BY <2>1, <2>4, <2>5, <2>8, <2>9 DEF Sound
  <2>10. CASE c.at >= c.num
    <3>1. Gain(p) = 0 /\ w = "null"
      BY <2>1, <2>5, <2>10 DEF Gain, w
    <3>2. /\ Len(d.buf) \in Nat /\ n + 0 + Len(d.buf) <= d.num /\ n + 0 \in Nat
          /\ Len(d.buf) >= d.num - Upcoming(d)
      BY <1>1, <2>1, <2>10 DEF Upcoming
    <3>3. ~(c.at < c.num)
      BY <1>1, <2>10
    <3>4. Counted(d, n + Gain(p)) /\ Holds(d, Upcoming(d))
      BY <3>1, <3>2 DEF Counted, Holds
    <3> QED BY <2>4, <2>5, <2>6, <2>9, <3>3, <3>4
  <2>11. CASE c.at < c.num
    <3>1. w = "document" /\ (Gain(p) = 0 \/ (Gain(p) = 1 /\ d.current \in Document))
      BY <2>1, <2>5, <2>7, <2>11 DEF Gain, w
    <3>2. CASE c.buf = <<>>
      <4>1. Gain(p) = 0 /\ Len(d.buf) = 0
        <5>1. d.current = Error /\ Error \notin Document
          BY <2>1, <2>11, <3>2 DEF Error, Document
        <5>2. d.buf = c.buf /\ Len(c.buf) = 0
          BY <2>1, <2>11, <3>2
        <5> QED BY <3>1, <5>1, <5>2
      <4>2. c.dead
        BY <1>1, <2>1, <2>11, <3>2 DEF Ready, Holds
      <4>3. n + 0 \in Nat /\ n + 0 + 0 <= d.num
        BY <1>1, <2>1, <3>2
      <4>4. Counted(d, n + Gain(p))
        BY <4>1, <4>3 DEF Counted
      <4> QED BY <2>1, <2>5, <2>6, <2>9, <3>1, <4>2, <4>4
    <3>3. CASE c.buf # <<>>
      <4> DEFINE k == Len(c.buf)
      <4> DEFINE l == Len(d.buf)
      <4>1. l = k - 1 /\ k \in Nat /\ c.at \in Nat /\ c.num \in Nat /\ n \in Nat /\ n + k <= c.num
        BY <1>1, <2>1, <2>11, <3>3
      <4>2. c.dead \/ k >= c.num - c.at
        BY DEF Ready, Holds
      <4>3. d.num = c.num /\ Upcoming(d) = c.at + 1
        BY <1>1, <2>1 DEF Upcoming
      <4> HIDE DEF k, l, c
      <4>4. n + Gain(p) \in Nat /\ n + Gain(p) + l <= d.num
        BY <3>1, <4>1, <4>3
      <4>5. c.dead \/ l >= d.num - Upcoming(d)
        BY <4>1, <4>2, <4>3
      <4>6. Counted(d, n + Gain(p)) /\ (d.dead \/ Holds(d, Upcoming(d)))
        BY <2>1, <4>4, <4>5 DEF Counted, Holds, l
      <4> QED BY <2>5, <2>6, <2>9, <3>1, <4>6
    <3> QED BY <3>2, <3>3
  <2> QED BY <1>1, <2>10, <2>11
<1> QED BY <1>2, <1>3

\* Whatever is thrown, the counters and the buffer stay.
LEMMA ThrownSound ==
  ASSUME NEW o, NEW n \in Nat, Sound(o, n + Gain(o)), NEW d, GoodCursor(d),
         d.at = o.cursor.at, d.num = o.cursor.num, d.buf = o.cursor.buf,
         d.started_iterating = o.cursor.started_iterating, d.dont_advance = o.cursor.dont_advance,
         o.cursor.dead => d.dead,
         NEW p, p = Exchanged(d, o.sent, "exception", o.hard, o.in_step)
  PROVE  Sound(p, n + Gain(p)) /\ Thrown(p)
<1> DEFINE c == o.cursor
<1>1. /\ GoodOutcome(p) /\ p.cursor = d /\ p.result = "exception" /\ p.in_step = o.in_step
  <2>1. /\ o.sent \in 0..total /\ o.hard \in BOOLEAN /\ o.in_step \in BOOLEAN
        /\ "exception" \in Results
    BY DEF Sound, GoodOutcome, OutcomeTypes, Results
  <2> QED BY <2>1, OutcomeGood
<1>2. Gain(p) = 0
  BY <1>1 DEF Gain
<1>3. n + 0 \in Nat /\ n + 0 + Len(d.buf) <= d.num
  <2>1. Gain(o) \in {0, 1} /\ Counted(c, n + Gain(o)) /\ GoodCursor(c)
    BY DEF Sound, Gain, GoodOutcome
  <2>2. Len(c.buf) \in Nat /\ c.num \in Nat
    BY <2>1, LengthIsNumber DEF GoodCursor, CursorState
  <2> QED BY <2>1, <2>2 DEF Counted
<1>4. Counted(d, n + Gain(p)) /\ n + Gain(p) = n
  BY <1>2, <1>3 DEF Counted
<1>5. ~d.started_iterating => n = 0
  BY DEF Sound, Gain
<1>6. d.started_iterating => d.dead \/ Holds(d, Upcoming(d))
  BY DEF Sound, Holds, Upcoming
<1>7. d.started_iterating => Limited(d, p.in_step)
  BY <1>1 DEF Sound, Limited
<1> QED BY <1>1, <1>4, <1>5, <1>6, <1>7 DEF Sound, Thrown

LEMMA HandleErrorSound ==
  ASSUME NEW o, NEW n \in Nat, Sound(o, n + Gain(o)), NEW p \in HandleError(o)
  PROVE  /\ Sound(p, n + Gain(p)) /\ p.result \in {o.result, "exception"}
         /\ ~Thrown(p) => p = o
<1> DEFINE c == o.cursor
<1>1. o \in OutcomeTypes /\ GoodCursor(c)
  BY DEF Sound, GoodOutcome
<1> DEFINE cleared == [c EXCEPT !.current = None]
<1>2. /\ GoodCursor(cleared) /\ cleared.at = c.at /\ cleared.num = c.num /\ cleared.buf = c.buf
      /\ cleared.started_iterating = c.started_iterating /\ cleared.dont_advance = c.dont_advance
      /\ cleared.dead = c.dead
  BY <1>1 DEF GoodCursor, CursorState
<1> DEFINE thrown == [o EXCEPT !.result = "exception", !.cursor.current = None]
<1>3. thrown = Exchanged(cleared, o.sent, "exception", o.hard, o.in_step)
  <2>1. thrown = [[o EXCEPT !.result = "exception"] EXCEPT !.cursor = cleared]
    BY <1>1 DEF OutcomeTypes
  <2> HIDE DEF cleared, thrown
  <2> DEFINE y == [o EXCEPT !.result = "exception"]
  <2>2. y = Exchanged(c, o.sent, "exception", o.hard, o.in_step)
    BY <1>1 DEF OutcomeTypes, Exchanged
  <2> HIDE DEF y
  <2>3. [y EXCEPT !.cursor = cleared] = Exchanged(cleared, o.sent, "exception", o.hard, o.in_step)
    BY <2>2 DEF Exchanged
  <2> QED BY <2>1, <2>3 DEF y
<1> HIDE DEF cleared, thrown
<1>4. CASE Thrown(o)
  BY <1>4 DEF HandleError, Thrown
<1>5. ~Thrown(o) /\ c.current = Error => p \in {thrown, [thrown EXCEPT !.cursor = Failed(@)]}
  BY DEF HandleError, thrown
<1>6. /\ ~Thrown(o) /\ c.current # Error /\ c.flag => p = [o EXCEPT !.result = "exception"]
      /\ ~Thrown(o) /\ c.current # Error /\ ~c.flag => p = o
  <2>1. CASE ~Thrown(o) /\ c.current # Error /\ c.flag
    BY <2>1 DEF HandleError
  <2>2. CASE ~Thrown(o) /\ c.current # Error /\ ~c.flag
    BY <2>2 DEF HandleError
  <2> QED BY <2>1, <2>2
<1>7. CASE c.current = Error /\ p = thrown
  BY <1>2, <1>3, <1>7, ThrownSound DEF Thrown
<1>8. CASE c.current = Error /\ p = [thrown EXCEPT !.cursor = Failed(@)]
  <2> DEFINE d == Failed(cleared)
  <2>1. /\ GoodCursor(d) /\ d.dead /\ d.at = c.at /\ d.num = c.num /\ d.buf = c.buf
        /\ d.started_iterating = c.started_iterating /\ d.dont_advance = c.dont_advance
    BY <1>2, FailedGood
  <2>2. p = Exchanged(d, o.sent, "exception", o.hard, o.in_step)
    BY <1>3, <1>8 DEF Exchanged
  <2> HIDE DEF d
  <2> QED BY <2>1, <2>2, ThrownSound DEF Thrown
<1>9. CASE ~Thrown(o) /\ c.current # Error /\ c.flag
  <2>1. p = Exchanged(c, o.sent, "exception", o.hard, o.in_step)
    BY <1>1, <1>6, <1>9 DEF OutcomeTypes, Exchanged
  <2> QED BY <1>1, <2>1, ThrownSound DEF Thrown
<1>10. CASE ~Thrown(o) /\ c.current # Error /\ ~c.flag
  BY <1>6, <1>10
<1> QED BY <1>4, <1>5, <1>7, <1>8, <1>9, <1>10

-----------------------------------------------------------------------------
(* The end of a call.                                                      *)

LEMMA ReturnKeeps ==
  ASSUME TypeOK, NEW o, NEW before \in Seq(Document), NEW stood \in {"new", "open", "ended", "broken"},
         Sound(o, Len(before) + Gain(o)), Return(o, before, stood), UNCHANGED settings,
         queries' \in 0..MaxQueries
  PROVE  Invariant'
<1>1. /\ cursor' = o.cursor /\ sent' = o.sent /\ result' = o.result
      /\ hard' = o.hard /\ in_step' = o.in_step
      /\ limit' = limit /\ batch_size' = batch_size /\ tailable' = tailable /\ total' = total
  BY DEF Return, settings
<1>2. GoodOutcome(o) /\ GoodCursor(o.cursor) /\ o \in OutcomeTypes
  BY DEF Sound, GoodOutcome
<1>3. delivered' \in Seq(Document) /\ Len(delivered') = Len(before) + Gain(o)
  <2>1. Len(before) \in Nat
    BY LenProperties
  <2>2. CASE o.result = "document" /\ o.cursor.current \in Document
    <3>1. delivered' = Append(before, o.cursor.current) /\ Gain(o) = 1
      BY <2>2 DEF Return, Gain
    <3> QED BY <2>2, <3>1, AppendProperties
  <2>3. CASE ~(o.result = "document" /\ o.cursor.current \in Document)
    <3>1. delivered' = before /\ Gain(o) = 0
      BY <2>3 DEF Return, Gain
    <3> QED BY <2>1, <3>1
  <2> QED BY <2>2, <2>3
<1>4. phase' \in {"new", "open", "ended", "broken"}
  BY DEF Return
<1>5. TypeOK'
  BY <1>1, <1>2, <1>3, <1>4 DEF TypeOK, GoodCursor, OutcomeTypes
<1>6. Now' = o
  BY <1>1, <1>2 DEF Now, Outcome, OutcomeTypes
<1>7. Sound(o, Len(delivered'))
  BY <1>3
<1>8. Sound(Now, Len(delivered))'
  BY <1>1, <1>6, <1>7 DEF Sound, GoodOutcome, OutcomeTypes, Limited
<1> QED BY <1>5, <1>8 DEF Invariant

-----------------------------------------------------------------------------
(* hasNext() and next() around a get_more.                                 *)

\* What is received is as much as is added to the count.
LEMMA ContinuedHolds ==
  ASSUME NEW c, NEW n, GoodCursor(c), Counted(c, n), NEW g, Continued(c, g), NEW at \in Nat, at >= c.num
  PROVE  Counted(g.cursor, n) /\ (g.cursor.dead \/ Holds(g.cursor, at))
<1> DEFINE d == g.cursor
<1>1. /\ c.num \in Nat /\ Len(c.buf) \in Nat /\ n \in Nat /\ n + Len(c.buf) <= c.num
      /\ d.num \in Nat /\ Len(d.buf) \in Nat /\ d.num >= c.num
  BY LengthIsNumber DEF Continued, GoodOutcome, GoodCursor, CursorState, Counted
<1>2. d.buf = c.buf \/ Len(d.buf) <= d.num - c.num
  BY DEF Continued
<1>3. d.dead \/ Len(d.buf) = d.num - c.num
  BY DEF Continued
<1> HIDE DEF d
<1>4. n + Len(d.buf) <= d.num
  <2>1. CASE d.buf = c.buf
    BY <1>1, <2>1
  <2>2. CASE Len(d.buf) <= d.num - c.num
    BY <1>1, <2>2
  <2> QED BY <1>2, <2>1, <2>2
<1>5. d.dead \/ Len(d.buf) >= d.num - at
  BY <1>1, <1>3
<1> QED BY <1>1, <1>4, <1>5 DEF Counted, Holds, d

LEMMA ContinuedSound ==
  ASSUME NEW c, NEW n, GoodCursor(c), Counted(c, n), NEW g, Continued(c, g),
         c.started_iterating, Upcoming(c) >= c.num
  PROVE  Sound(g, n) /\ Gain(g) = 0
<1>1. Upcoming(c) \in Nat /\ Upcoming(g.cursor) = Upcoming(c)
  BY DEF Upcoming, Continued, GoodCursor, CursorState
<1>2. Counted(g.cursor, n) /\ (g.cursor.dead \/ Holds(g.cursor, Upcoming(g.cursor)))
  BY <1>1, ContinuedHolds
<1> QED BY <1>2 DEF Continued, Sound, Gain

\* hasNext() answers.
LEMMA AnswerSound ==
  ASSUME NEW o, NEW n, Sound(o, n), o.result \in {"none", "true", "false"}, NEW w \in {"true", "false", "exception"},
         w = "true" => o.cursor.started_iterating /\ Upcoming(o.cursor) < o.cursor.num,
         NEW p, p = [o EXCEPT !.result = w]
  PROVE  Sound(p, n) /\ p.result = w
<1>1. o \in OutcomeTypes /\ w \in Results
  BY DEF Sound, GoodOutcome, Results
<1>2. /\ p \in OutcomeTypes /\ p.cursor = o.cursor /\ p.result = w /\ p.in_step = o.in_step
  BY <1>1 DEF OutcomeTypes
<1> QED BY <1>2 DEF Sound, GoodOutcome

\* hasNext() closes the cursor at the end.
LEMMA ClosedSound ==
  ASSUME NEW o, NEW n, Sound(o, n), o.result = "none"
  PROVE  LET q == [o EXCEPT !.cursor.open = FALSE] IN Sound(q, n) /\ q.result = "none"
<1> DEFINE d == [o.cursor EXCEPT !.open = FALSE]
<1>1. o \in OutcomeTypes /\ GoodCursor(o.cursor)
  BY DEF Sound, GoodOutcome
<1>2. /\ GoodCursor(d) /\ d.at = o.cursor.at /\ d.num = o.cursor.num /\ d.buf = o.cursor.buf
      /\ d.dead = o.cursor.dead
      /\ d.started_iterating = o.cursor.started_iterating /\ d.dont_advance = o.cursor.dont_advance
  BY <1>1 DEF GoodCursor, CursorState
<1> DEFINE q == [o EXCEPT !.cursor.open = FALSE]
<1>3. q = [o EXCEPT !.cursor = d]
  BY <1>1 DEF OutcomeTypes
<1> HIDE DEF d, q
<1>4. GoodOutcome(q) /\ q.cursor = d /\ q.result = o.result /\ q.in_step = o.in_step
  BY <1>1, <1>2, <1>3 DEF GoodOutcome, OutcomeTypes, GoodCursor
<1>5. Sound(q, n) /\ q.result = "none"
  BY <1>2, <1>4 DEF Sound, Counted, Holds, Limited, Upcoming
<1> QED BY <1>5 DEF q

LEMMA HasNextSound ==
  ASSUME TypeOK, NEW o, NEW n, Sound(o, n), o.result \in {"none", "exception"},
         ~Thrown(o) => o.cursor.started_iterating,
         ~Thrown(o) => o.in_step = in_step \/ (o.cursor.at = 0 /\ o.cursor.dont_advance),
         NEW p \in HasNextFrom(o)
  PROVE  Sound(p, n) /\ p.result \in {"true", "false", "exception"}
<1> DEFINE c == o.cursor
<1>1. /\ GoodOutcome(o) /\ GoodCursor(c) /\ c.at \in Nat /\ c.num \in Nat /\ n \in Nat
      /\ Counted(c, n) /\ limit \in Int
  BY DEF Sound, GoodOutcome, GoodCursor, CursorState, Counted, TypeOK
<1>2. CASE Thrown(o)
  BY <1>2 DEF HasNextFrom, Thrown
<1> DEFINE Answer(q, w) == p = [q EXCEPT !.result = w]
<1> DEFINE last == c.dont_advance /\ c.at = c.num - 1
<1> DEFINE end == (limit > 0 /\ c.at >= limit - 1) \/ c.num = 0
<1> DEFINE yes == IF c.at < c.num - 1 THEN "true" ELSE "false"
<1>3. ASSUME ~Thrown(o)
      PROVE  /\ ~c.connected => Answer(o, "exception")
             /\ c.connected /\ last => Answer(o, "true")
             /\ c.connected /\ ~last /\ end => Answer([o EXCEPT !.cursor.open = FALSE], "false")
             /\ c.connected /\ ~last /\ ~end /\ (c.at < c.num - 1 \/ ~c.open) => Answer(o, yes)
             /\ c.connected /\ ~last /\ ~end /\ ~(c.at < c.num - 1 \/ ~c.open) =>
                  \E g \in GetMore(c) : \E q \in HandleError(g) :
                    \/ p = q /\ Thrown(q)
                    \/ /\ ~Thrown(q)
                       /\ \/ Answer(q, "true") /\ q.cursor.at < q.cursor.num - 1
                          \/ Answer(q, "false")
  <2>1. CASE ~c.connected
    BY <1>3, <2>1 DEF HasNextFrom
  <2>2. CASE c.connected /\ last
    BY <1>3, <2>2 DEF HasNextFrom
  <2>3. CASE c.connected /\ ~last /\ end
    BY <1>3, <2>3 DEF HasNextFrom
  <2>4. CASE c.connected /\ ~last /\ ~end /\ (c.at < c.num - 1 \/ ~c.open)
    BY <1>3, <2>4 DEF HasNextFrom
  <2>5. CASE c.connected /\ ~last /\ ~end /\ ~(c.at < c.num - 1 \/ ~c.open)
    <3> DEFINE Asked(q) ==
          [q EXCEPT !.result = IF q.cursor.start # q.cursor.num /\ q.cursor.at < q.cursor.num - 1
                               THEN "true" ELSE "false"]
    <3>1. HasNextFrom(o) =
            {IF Thrown(q) THEN q ELSE Asked(q) : q \in UNION {HandleError(g) : g \in GetMore(c)}}
      BY <1>3, <2>5 DEF HasNextFrom
    <3> HIDE DEF c
    <3>2. PICK q \in UNION {HandleError(g) : g \in GetMore(c)} : p = IF Thrown(q) THEN q ELSE Asked(q)
      BY <3>1
    <3>3. PICK g \in GetMore(c) : q \in HandleError(g)
      OBVIOUS
    <3>4. CASE Thrown(q)
      BY <2>5, <3>2, <3>3, <3>4
    <3>5. CASE ~Thrown(q)
      BY <2>5, <3>2, <3>3, <3>5
    <3> QED BY <3>4, <3>5
  <2> QED BY <2>1, <2>2, <2>3, <2>4, <2>5
<1>4. ASSUME ~Thrown(o) PROVE o.result = "none" /\ c.started_iterating
  BY <1>4 DEF Thrown
<1>5. CASE ~Thrown(o) /\ ~c.connected
  BY <1>3, <1>4, <1>5, AnswerSound
<1>6. CASE ~Thrown(o) /\ c.connected /\ last
  <2>1. Upcoming(c) < c.num
    BY <1>1, <1>6 DEF Upcoming
  <2> QED BY <1>3, <1>4, <1>6, <2>1, AnswerSound
<1>7. CASE ~Thrown(o) /\ c.connected /\ ~last /\ end
  <2> DEFINE q == [o EXCEPT !.cursor.open = FALSE]
  <2>1. Sound(q, n) /\ q.result = "none" /\ Answer(q, "false")
    BY <1>3, <1>4, <1>7, ClosedSound
  <2> HIDE DEF q
  <2> QED BY <2>1, AnswerSound
<1>8. CASE ~Thrown(o) /\ c.connected /\ ~last /\ ~end /\ (c.at < c.num - 1 \/ ~c.open)
  <2>1. yes = "true" => Upcoming(c) < c.num
    BY <1>1 DEF Upcoming
  <2>2. yes \in {"true", "false"} /\ Answer(o, yes)
    BY <1>3, <1>8
  <2> HIDE DEF yes
  <2> QED BY <1>4, <1>8, <2>1, <2>2, AnswerSound
<1>9. CASE ~Thrown(o) /\ c.connected /\ ~last /\ ~end /\ ~(c.at < c.num - 1 \/ ~c.open)
  <2>1. PICK g \in GetMore(c) : \E q \in HandleError(g) :
          \/ p = q /\ Thrown(q)
          \/ /\ ~Thrown(q)
             /\ \/ Answer(q, "true") /\ q.cursor.at < q.cursor.num - 1
                \/ Answer(q, "false")
    BY <1>3, <1>9
  <2>2. PICK q \in HandleError(g) :
          \/ p = q /\ Thrown(q)
          \/ /\ ~Thrown(q)
             /\ \/ Answer(q, "true") /\ q.cursor.at < q.cursor.num - 1
                \/ Answer(q, "false")
    BY <2>1
  <2>3. c.started_iterating /\ Upcoming(c) >= c.num
    BY <1>1, <1>4, <1>9 DEF Upcoming
  <2>4. ~(c.at = 0 /\ c.dont_advance) /\ (limit > 0 => c.at < limit)
    BY <1>1, <1>9
  <2>5. Limited(c, in_step)
    BY <1>9, <2>3, <2>4 DEF Sound
  <2>6. Continued(c, g)
    BY <1>1, <1>9, <2>4, <2>5, GetMoreGood
  <2>7. Sound(g, n) /\ Gain(g) = 0 /\ g.result \in {"none", "exception"}
    BY <1>1, <2>3, <2>6, ContinuedSound DEF Continued
  <2>8. Sound(g, n + Gain(g))
    BY <1>1, <2>7
  <2>9. /\ Sound(q, n + Gain(q)) /\ q.result \in {g.result, "exception"}
        /\ ~Thrown(q) => q = g
    BY <1>1, <2>8, HandleErrorSound
  <2>10. Gain(q) = 0 /\ n + 0 = n
    BY <1>1, <2>7, <2>9 DEF Gain
  <2>11. Sound(q, n)
    BY <2>9, <2>10
  <2>12. CASE p = q /\ Thrown(q)
    BY <2>11, <2>12 DEF Thrown
  <2>13. CASE ~Thrown(q)
    <3>1. q.result = "none" /\ q.cursor.started_iterating
      BY <2>3, <2>6, <2>7, <2>9, <2>13 DEF Thrown, Continued
    <3>2. q.cursor.at < q.cursor.num - 1 => Upcoming(q.cursor) < q.cursor.num
      <4>1. q.cursor.at \in Nat /\ q.cursor.num \in Nat
        BY <2>11 DEF Sound, GoodOutcome, GoodCursor, CursorState
      <4> QED BY <4>1 DEF Upcoming
    <3>3. CASE Answer(q, "true") /\ q.cursor.at < q.cursor.num - 1
      BY <2>11, <3>1, <3>2, <3>3, AnswerSound
    <3>4. CASE Answer(q, "false")
      BY <2>11, <3>1, <3>4, AnswerSound
    <3> QED BY <2>2, <2>13, <3>3, <3>4
  <2> QED BY <2>2, <2>12, <2>13
<1> QED BY <1>2, <1>5, <1>6, <1>7, <1>8, <1>9

-----------------------------------------------------------------------------
(* The actions.                                                            *)

LEMMA StartedReady ==
  ASSUME NEW o, Queried(o)
  PROVE  Ready(Started(o), 0)
<1> DEFINE c == o.cursor
<1>1. /\ GoodOutcome(o) /\ GoodCursor(c) /\ o \in OutcomeTypes /\ c.at = 0 /\ c.num \in Nat
      /\ Len(c.buf) \in Nat /\ Len(c.buf) <= c.num /\ (c.dead \/ Len(c.buf) = c.num)
  BY DEF Queried, GoodOutcome, GoodCursor, CursorState
<1>2. Counted(c, 0) /\ (c.dead \/ Holds(c, 0))
  BY <1>1 DEF Counted, Holds
<1>3. CASE Thrown(o)
  <2>1. Started(o) = o
    BY <1>3 DEF Started
  <2> QED BY <1>1, <1>2, <1>3, <2>1 DEF Queried, Ready
<1>4. CASE ~Thrown(o)
  <2> DEFINE d == [c EXCEPT !.started_iterating = TRUE]
  <2>1. /\ GoodCursor(d) /\ d.at = c.at /\ d.num = c.num /\ d.buf = c.buf /\ d.dead = c.dead
        /\ d.started_iterating /\ d.dont_advance = c.dont_advance
    BY <1>1 DEF GoodCursor, CursorState
  <2>2. Started(o) = [o EXCEPT !.cursor = d]
    BY <1>1, <1>4 DEF Started, OutcomeTypes
  <2> HIDE DEF d
  <2>3. /\ GoodOutcome(Started(o)) /\ Started(o).cursor = d /\ Started(o).result = o.result
        /\ Started(o).in_step = o.in_step
    BY <1>1, <2>1, <2>2 DEF GoodOutcome, GoodCursor, OutcomeTypes
  <2>4. Counted(d, 0) /\ (d.dead \/ Holds(d, d.at)) /\ Limited(d, o.in_step)
    BY <1>1, <1>2, <2>1 DEF Counted, Holds, Limited, Queried
  <2> QED BY <2>1, <2>3, <2>4 DEF Ready, Queried
<1> QED BY <1>3, <1>4

LEMMA EmptyDelivered == <<>> \in Seq(Document) /\ Len(<<>>) = 0
BY EmptySeq

LEMMA QueryTypes == ASSUME TypeOK, QueryRuns PROVE queries' \in 0..MaxQueries
BY ParameterAssumption DEF TypeOK, QueryRuns

LEMMA NextRunsQueryKeeps == ASSUME Invariant, NextRunsQuery PROVE Invariant'
<1>1. TypeOK /\ GoodCursor(cursor) /\ UNCHANGED settings /\ queries' \in 0..MaxQueries
  BY QueryTypes DEF Invariant, NextRunsQuery, TypeOK, GoodCursor
<1>2. PICK o \in RunQuery : Return(Loaded(Started(o)), <<>>, "open")
  BY DEF NextRunsQuery
<1>3. Ready(Started(o), 0)
  BY <1>1, QueryGood, StartedReady
<1> DEFINE p == Loaded(Started(o))
<1>4. Sound(p, Len(<<>>) + Gain(p))
  BY <1>1, <1>3, LoadedSound, EmptyDelivered
<1> HIDE DEF p
<1> QED BY <1>1, <1>2, <1>4, ReturnKeeps, EmptyDelivered DEF p

LEMMA RewindKeeps == ASSUME Invariant, Rewind PROVE Invariant'
<1>1. TypeOK /\ GoodCursor(cursor) /\ UNCHANGED settings /\ queries' \in 0..MaxQueries
  BY QueryTypes DEF Invariant, Rewind, TypeOK, GoodCursor
<1>2. PICK o \in RunQuery :
        \E p \in HandleError(Loaded(Started(o))) : Return(p, <<>>, "open")
  BY DEF Rewind
<1>3. Ready(Started(o), 0)
  BY <1>1, QueryGood, StartedReady
<1> DEFINE l == Loaded(Started(o))
<1>4. Sound(l, 0 + Gain(l))
  BY <1>1, <1>3, LoadedSound
<1>5. PICK p \in HandleError(l) : Return(p, <<>>, "open")
  BY <1>2
<1> HIDE DEF l
<1>6. Sound(p, 0 + Gain(p))
  BY <1>4, HandleErrorSound
<1> QED BY <1>1, <1>5, <1>6, ReturnKeeps, EmptyDelivered

LEMMA DoQueryKeeps == ASSUME Invariant, DoQuery PROVE Invariant'
<1>1. TypeOK /\ GoodCursor(cursor) /\ UNCHANGED settings /\ queries' \in 0..MaxQueries
  BY QueryTypes DEF Invariant, DoQuery, TypeOK, GoodCursor
<1>2. PICK o \in RunQuery : Return(o, <<>>, "new")
  BY DEF DoQuery
<1>3. Queried(o)
  BY <1>1, QueryGood
<1>4. Gain(o) = 0 /\ o.result # "true"
  BY <1>3 DEF Queried, Gain
<1>5. o.cursor.num \in Nat
  BY <1>3 DEF Queried, GoodOutcome, GoodCursor, CursorState
<1>6. Sound(o, Len(<<>>) + Gain(o))
  <2>1. Len(<<>>) + Gain(o) = 0
    BY <1>4, EmptyDelivered
  <2>2. Counted(o.cursor, 0)
    BY <1>3, <1>5 DEF Queried, Counted
  <2> QED BY <1>3, <1>4, <2>1, <2>2 DEF Queried, Sound
<1> QED BY <1>1, <1>2, <1>4, <1>6, ReturnKeeps, EmptyDelivered

\* The outcome of a query that hasNext() runs.
Ran(o) == IF Thrown(o) THEN o ELSE [Started(o) EXCEPT !.cursor.dont_advance = TRUE]

LEMMA RanSound ==
  ASSUME NEW o, Queried(o)
  PROVE  LET u == Ran(o) IN
         /\ Sound(u, 0) /\ u.result \in {"none", "exception"}
         /\ ~Thrown(u) => u.cursor.started_iterating /\ u.cursor.at = 0 /\ u.cursor.dont_advance
<1> DEFINE u == Ran(o)
<1> SUFFICES /\ Sound(u, 0) /\ u.result \in {"none", "exception"}
             /\ ~Thrown(u) => /\ u.cursor.started_iterating /\ u.cursor.at = 0
                              /\ u.cursor.dont_advance
  OBVIOUS
<1> USE DEF Ran
<1>1. CASE Thrown(o)
  <2>1. u = o
    BY <1>1
  <2>2. o.cursor.num \in Nat
    BY DEF Queried, GoodOutcome, GoodCursor, CursorState
  <2> HIDE DEF u, Ran
  <2> QED BY <1>1, <2>1, <2>2 DEF Queried, Sound, Counted
<1>2. CASE ~Thrown(o)
  <2> DEFINE t == Started(o)
  <2>1. Ready(t, 0) /\ t.cursor.at = 0 /\ t.cursor.started_iterating /\ t.result # "true"
    <3>1. Started(o) = [o EXCEPT !.cursor.started_iterating = TRUE]
      BY <1>2 DEF Started
    <3>2. o \in OutcomeTypes /\ o.cursor \in CursorState
      BY DEF Queried, GoodOutcome, GoodCursor
    <3>3. t.cursor.at = o.cursor.at /\ t.cursor.started_iterating /\ t.result = o.result
      BY <3>1, <3>2 DEF OutcomeTypes, CursorState
    <3> QED BY <3>3, StartedReady DEF Queried
  <2>2. u = [t EXCEPT !.cursor.dont_advance = TRUE]
    BY <1>2
  <2> HIDE DEF u, t, Ran
  <2> DEFINE d == [t.cursor EXCEPT !.dont_advance = TRUE]
  <2>3. t \in OutcomeTypes /\ GoodCursor(t.cursor)
    BY <2>1 DEF Ready, GoodOutcome
  <2>4. u = [t EXCEPT !.cursor = d]
    BY <2>2, <2>3 DEF OutcomeTypes
  <2>5. /\ GoodCursor(d) /\ d.at = 0 /\ d.num = t.cursor.num /\ d.buf = t.cursor.buf
        /\ d.dead = t.cursor.dead /\ d.started_iterating /\ d.dont_advance
    BY <2>1, <2>3 DEF GoodCursor, CursorState
  <2> HIDE DEF d
  <2>6. /\ GoodOutcome(u) /\ u.cursor = d /\ u.result = t.result /\ u.in_step = t.in_step
    BY <2>3, <2>4, <2>5 DEF GoodOutcome, GoodCursor, OutcomeTypes
  <2>7. Counted(d, 0) /\ (d.dead \/ Holds(d, Upcoming(d))) /\ Limited(d, t.in_step)
    BY <2>1, <2>5 DEF Ready, Counted, Holds, Limited, Upcoming
  <2> QED BY <2>1, <2>5, <2>6, <2>7 DEF Sound, Ready
<1> QED BY <1>1, <1>2

LEMMA HasNextRunsQueryKeeps == ASSUME Invariant, HasNextRunsQuery PROVE Invariant'
<1>1. TypeOK /\ GoodCursor(cursor) /\ UNCHANGED settings /\ queries' \in 0..MaxQueries
  BY QueryTypes DEF Invariant, HasNextRunsQuery, TypeOK, GoodCursor
<1>2. PICK o \in RunQuery : \E p \in HasNextFrom(Ran(o)) : Return(p, <<>>, "open")
  BY DEF HasNextRunsQuery, Ran
<1>3. Queried(o)
  BY <1>1, QueryGood
<1> DEFINE u == Ran(o)
<1>4. /\ Sound(u, 0) /\ u.result \in {"none", "exception"}
      /\ ~Thrown(u) => u.cursor.started_iterating /\ u.cursor.at = 0 /\ u.cursor.dont_advance
  BY <1>3, RanSound
<1>5. PICK p \in HasNextFrom(u) : Return(p, <<>>, "open")
  BY <1>2
<1> HIDE DEF u
<1>6. Sound(p, 0) /\ p.result \in {"true", "false", "exception"}
  BY <1>1, <1>4, HasNextSound
<1>7. Sound(p, Len(<<>>) + Gain(p))
  <2>1. Len(<<>>) + Gain(p) = 0
    BY <1>6, EmptyDelivered DEF Gain
  <2> QED BY <1>6, <2>1
<1> QED BY <1>1, <1>5, <1>7, ReturnKeeps, EmptyDelivered

LEMMA NowFields ==
  ASSUME Invariant
  PROVE  /\ GoodCursor(cursor) /\ Len(delivered) \in Nat /\ Counted(cursor, Len(delivered))
         /\ cursor.at \in Nat /\ cursor.num \in Nat /\ sent \in 0..total
         /\ cursor.started_iterating =>
              Limited(cursor, in_step) /\ (cursor.dead \/ Holds(cursor, Upcoming(cursor)))
         /\ ~cursor.started_iterating => Len(delivered) = 0
         /\ result = "true" =>
              cursor.dead \/ (cursor.started_iterating /\ Upcoming(cursor) < cursor.num)
<1>1. TypeOK /\ GoodCursor(cursor) /\ cursor \in CursorState
  BY DEF Invariant, TypeOK, GoodCursor
<1>2. Now.cursor = cursor /\ Now.result = result /\ Now.in_step = in_step
  BY DEF Now, Outcome
<1>3. Len(delivered) \in Nat /\ sent \in 0..total
  BY <1>1, LenProperties DEF TypeOK
<1> QED BY <1>1, <1>2, <1>3 DEF Invariant, Sound, CursorState

\* The state as a call finds it.
LEMMA PlainSound ==
  ASSUME Invariant, NEW r \in Results, r # "true"
  PROVE  LET o == Outcome(cursor, sent, r) IN
         /\ Sound(o, Len(delivered)) /\ o.cursor = cursor /\ o.result = r /\ o.in_step = in_step
<1>1. TypeOK
  BY DEF Invariant
<1> DEFINE o == Outcome(cursor, sent, r)
<1>2. /\ GoodOutcome(o) /\ o.cursor = cursor /\ o.result = r /\ o.in_step = in_step
  BY <1>1, NowFields, PlainOutcomeGood
<1> HIDE DEF o
<1>3. Sound(o, Len(delivered))
  BY <1>2, NowFields DEF Sound
<1> QED BY <1>2, <1>3 DEF o

LEMMA HasNextLooksAheadKeeps == ASSUME Invariant, HasNextLooksAhead PROVE Invariant'
<1>1. /\ TypeOK /\ delivered \in Seq(Document) /\ phase \in {"new", "open", "ended", "broken"}
      /\ UNCHANGED settings /\ queries' \in 0..MaxQueries
  BY DEF Invariant, TypeOK, HasNextLooksAhead
<1> DEFINE o == Outcome(cursor, sent, "none")
<1>2. PICK p \in HasNextFrom(o) : Return(p, delivered, phase)
  BY DEF HasNextLooksAhead
<1>3. /\ Sound(o, Len(delivered)) /\ o.cursor = cursor /\ o.result = "none" /\ o.in_step = in_step
  BY PlainSound DEF Results
<1> HIDE DEF o
<1>4. Sound(p, Len(delivered)) /\ p.result \in {"true", "false", "exception"}
  BY <1>1, <1>3, HasNextSound DEF HasNextLooksAhead
<1>5. Sound(p, Len(delivered) + Gain(p))
  <2>1. Gain(p) = 0 /\ Len(delivered) \in Nat
    BY <1>4, NowFields DEF Gain
  <2>2. Len(delivered) + Gain(p) = Len(delivered)
    BY <2>1
  <2> QED BY <1>4, <2>2
<1> QED BY <1>1, <1>2, <1>5, ReturnKeeps

LEMMA NextOnDeadCursorKeeps == ASSUME Invariant, NextOnDeadCursor PROVE Invariant'
<1>1. /\ TypeOK /\ delivered \in Seq(Document) /\ phase \in {"new", "open", "ended", "broken"}
      /\ UNCHANGED settings /\ queries' \in 0..MaxQueries
  BY DEF Invariant, TypeOK, NextOnDeadCursor
<1> DEFINE o == Outcome(cursor, sent, "exception")
<1>2. Return(o, delivered, phase)
  BY DEF NextOnDeadCursor
<1>3. Sound(o, Len(delivered)) /\ o.result = "exception"
  BY PlainSound DEF Results
<1> HIDE DEF o
<1>4. Sound(o, Len(delivered) + Gain(o))
  <2>1. Gain(o) = 0 /\ Len(delivered) \in Nat
    BY <1>3, NowFields DEF Gain
  <2>2. Len(delivered) + Gain(o) = Len(delivered)
    BY <2>1
  <2> QED BY <1>3, <2>2
<1> QED BY <1>1, <1>2, <1>4, ReturnKeeps

LEMMA ResetCursorKeeps == ASSUME Invariant, ResetCursor PROVE Invariant'
<1>1. TypeOK /\ UNCHANGED settings /\ queries' \in 0..MaxQueries
  BY DEF Invariant, TypeOK, ResetCursor
<1> DEFINE d == Reset(cursor)
<1> DEFINE o == Outcome(d, sent, "none")
<1>2. Return(o, <<>>, "new")
  BY DEF ResetCursor
<1>3. /\ GoodCursor(d) /\ d.num = 0 /\ d.buf = <<>> /\ ~d.started_iterating
  BY NowFields, ResetGood
<1> HIDE DEF d
<1>4. /\ GoodOutcome(o) /\ o.cursor = d /\ o.result = "none"
  BY <1>1, <1>3, NowFields, PlainOutcomeGood DEF Results
<1> HIDE DEF o
<1>5. Counted(d, 0)
  BY <1>3, EmptyDelivered DEF Counted
<1>6. Len(<<>>) + Gain(o) = 0
  BY <1>4, EmptyDelivered DEF Gain
<1>7. Sound(o, 0)
  BY <1>3, <1>4, <1>5 DEF Sound
<1>8. Sound(o, Len(<<>>) + Gain(o))
  BY <1>6, <1>7
<1> QED BY <1>1, <1>2, <1>8, ReturnKeeps, EmptyDelivered

\* next() loads from the position it has moved to, or asks for more there.
NextOutcomes ==
  LET c == Advance(cursor)
      at_end == c.at = c.num /\ c.open
      limit_reached == limit # 0 /\ c.at >= limit
  IN  IF ~at_end THEN HandleError(Loaded(Outcome(c, sent, "none")))
      ELSE IF limit_reached THEN {Outcome([c EXCEPT !.open = FALSE], sent, "null")}
      ELSE UNION {HandleError(Loaded(o)) : o \in GetMore(c)}

LEMMA NextSound ==
  ASSUME Invariant, ~cursor.dead, cursor.started_iterating, NEW p \in NextOutcomes
  PROVE  /\ Sound(p, Len(delivered) + Gain(p))
         /\ Upcoming(cursor) < cursor.num => p.result \in {"document", "exception"}
<1> DEFINE c == Advance(cursor)
<1> DEFINE n == Len(delivered)
<1>1. /\ TypeOK /\ GoodCursor(cursor) /\ n \in Nat /\ Counted(cursor, n)
      /\ cursor.num \in Nat /\ sent \in 0..total /\ Limited(cursor, in_step)
      /\ Holds(cursor, Upcoming(cursor)) /\ limit \in Int
  BY NowFields DEF Invariant, TypeOK
<1>2. /\ GoodCursor(c) /\ c.at = Upcoming(cursor) /\ c.num = cursor.num /\ c.buf = cursor.buf
      /\ c.started_iterating /\ ~c.dont_advance /\ ~c.dead
  BY <1>1, AdvanceGood
<1>3. c.at \in Nat /\ c.num \in Nat
  BY <1>2 DEF GoodCursor, CursorState
<1> DEFINE at_end == c.at = c.num /\ c.open
<1> DEFINE limit_reached == limit # 0 /\ c.at >= limit
<1>4. /\ ~at_end => p \in HandleError(Loaded(Outcome(c, sent, "none")))
      /\ at_end /\ limit_reached => p = Outcome([c EXCEPT !.open = FALSE], sent, "null")
      /\ at_end /\ ~limit_reached => \E o \in GetMore(c) : p \in HandleError(Loaded(o))
  BY DEF NextOutcomes
<1> HIDE DEF c, n
<1>5. Counted(c, n) /\ Holds(c, c.at) /\ Limited(c, in_step)
  BY <1>1, <1>2 DEF Counted, Holds, Limited
<1>6. ASSUME NEW o, Ready(o, n), p \in HandleError(Loaded(o))
      PROVE  /\ Sound(p, n + Gain(p))
             /\ ~Thrown(o) /\ o.cursor.at < o.cursor.num => p.result \in {"document", "exception"}
  <2> DEFINE l == Loaded(o)
  <2>1. /\ Sound(l, n + Gain(l)) /\ l.result \in {"document", "null", "exception"}
        /\ ~Thrown(o) /\ o.cursor.at < o.cursor.num => l.result = "document"
    BY <1>1, <1>6, LoadedSound
  <2> HIDE DEF l
  <2>2. /\ Sound(p, n + Gain(p)) /\ p.result \in {l.result, "exception"}
    BY <1>1, <1>6, <2>1, HandleErrorSound DEF l
  <2> QED BY <2>1, <2>2
<1>7. CASE ~at_end
  <2> DEFINE o == Outcome(c, sent, "none")
  <2>1. /\ GoodOutcome(o) /\ o.cursor = c /\ o.result = "none" /\ o.in_step = in_step
    BY <1>1, <1>2, PlainOutcomeGood DEF Results
  <2> HIDE DEF o
  <2>2. Ready(o, n) /\ ~Thrown(o)
    BY <1>2, <1>5, <2>1 DEF Ready, Thrown
  <2> QED BY <1>2, <1>4, <1>6, <1>7, <2>1, <2>2 DEF o, n
<1>8. CASE at_end /\ limit_reached
  <2> DEFINE d == [c EXCEPT !.open = FALSE]
  <2>1. /\ GoodCursor(d) /\ d.at = c.at /\ d.num = c.num /\ d.buf = c.buf
        /\ d.started_iterating /\ ~d.dont_advance /\ ~d.dead
    BY <1>2 DEF GoodCursor, CursorState
  <2>2. p = Outcome(d, sent, "null")
    BY <1>4, <1>8
  <2> HIDE DEF d
  <2>3. /\ GoodOutcome(p) /\ p.cursor = d /\ p.result = "null" /\ p.in_step = in_step
    BY <1>1, <2>1, <2>2, PlainOutcomeGood DEF Results
  <2>4. Gain(p) = 0 /\ n + Gain(p) = n
    BY <1>1, <2>3 DEF Gain, n
  <2>5. Holds(d, Upcoming(d)) /\ Counted(d, n) /\ Limited(d, in_step)
    <3>1. Len(d.buf) \in Nat
      BY <2>1, LengthIsNumber
    <3> QED BY <1>3, <1>5, <2>1, <3>1 DEF Holds, Upcoming, Counted, Limited
  <2>6. Sound(p, n)
    BY <2>1, <2>3, <2>5 DEF Sound
  <2>7. ~(Upcoming(cursor) < cursor.num)
    BY <1>2, <1>3, <1>8
  <2> QED BY <2>4, <2>6, <2>7 DEF n
<1>9. CASE at_end /\ ~limit_reached
  <2>1. PICK o \in GetMore(c) : p \in HandleError(Loaded(o))
    BY <1>4, <1>9
  <2>2. c.connected /\ (limit > 0 => c.at < limit) /\ c.at >= c.num
    BY <1>1, <1>2, <1>3, <1>9 DEF GoodCursor
  <2>3. Continued(c, o)
    BY <1>1, <1>2, <1>5, <2>2, GetMoreGood
  <2>4. Counted(o.cursor, n) /\ (o.cursor.dead \/ Holds(o.cursor, c.at))
    BY <1>2, <1>3, <1>5, <2>2, <2>3, ContinuedHolds
  <2>5. Ready(o, n)
    BY <1>2, <2>3, <2>4 DEF Continued, Ready
  <2>6. ~(Upcoming(cursor) < cursor.num)
    BY <1>2, <1>3, <1>9
  <2> QED BY <1>6, <2>1, <2>5, <2>6 DEF n
<1> QED BY <1>7, <1>8, <1>9

LEMMA NextAdvancesKeeps == ASSUME Invariant, NextAdvances PROVE Invariant'
<1>1. /\ TypeOK /\ delivered \in Seq(Document) /\ phase \in {"new", "open", "ended", "broken"}
      /\ UNCHANGED settings /\ queries' \in 0..MaxQueries
  BY DEF Invariant, TypeOK, NextAdvances
<1>2. PICK p \in NextOutcomes : Return(p, delivered, phase)
  BY DEF NextAdvances, NextOutcomes
<1>3. Sound(p, Len(delivered) + Gain(p))
  BY NextSound DEF NextAdvances
<1> QED BY <1>1, <1>2, <1>3, ReturnKeeps

\* Settings and the environment leave the iteration where it is.
LEMMA SettingKeeps ==
  ASSUME Invariant, TypeOK', UNCHANGED <<cursor, result, in_step, delivered>>,
         limit' = limit \/ ~cursor.started_iterating
  PROVE  Invariant'
<1>1. /\ Now.cursor = cursor /\ Now'.cursor = cursor /\ Now'.result = result
      /\ Now'.in_step = in_step /\ Now.result = result /\ Now.in_step = in_step
  BY DEF Now, Outcome
<1>2. GoodCursor(cursor) /\ Len(delivered') = Len(delivered)
  BY NowFields
<1>3. GoodOutcome(Now)'
  <2>1. Now' = [cursor |-> cursor', sent |-> sent', result |-> result', hard |-> hard',
                in_step |-> in_step']
    BY DEF Now, Outcome
  <2>2. GoodCursor(cursor)'
    BY <1>2
  <2> QED BY <2>1, <2>2 DEF TypeOK, GoodOutcome, OutcomeTypes
<1>4. Sound(Now, Len(delivered))'
  BY <1>1, <1>2, <1>3, NowFields DEF Sound, Limited
<1> QED BY <1>4 DEF Invariant

LEMMA ConnectionDestroyedKeeps == ASSUME Invariant, ConnectionDestroyed PROVE Invariant'
<1> DEFINE d == Failed(cursor)
<1>1. /\ GoodCursor(d) /\ d.dead /\ d.at = cursor.at /\ d.num = cursor.num /\ d.buf = cursor.buf
      /\ d.started_iterating = cursor.started_iterating /\ d.dont_advance = cursor.dont_advance
  BY NowFields, FailedGood
<1>2. /\ cursor' = d
      /\ UNCHANGED <<settings, sent, result, hard, in_step, delivered, phase, queries>>
  BY DEF ConnectionDestroyed
<1> HIDE DEF d
<1>3. TypeOK'
  BY <1>1, <1>2 DEF Invariant, TypeOK, GoodCursor, settings
<1>4. Now' = [cursor |-> d, sent |-> sent, result |-> result, hard |-> hard, in_step |-> in_step]
  BY <1>2 DEF Now, Outcome
<1>5. GoodOutcome(Now)' /\ Now'.cursor = d /\ Now'.in_step = in_step
  BY <1>1, <1>2, <1>3, <1>4 DEF TypeOK, GoodOutcome, OutcomeTypes, GoodCursor
<1>6. Len(delivered') = Len(delivered) /\ limit' = limit
  BY <1>2 DEF settings
<1>7. Counted(d, Len(delivered)) /\ (d.started_iterating => Limited(d, in_step))
      /\ (~d.started_iterating => Len(delivered) = 0)
  BY <1>1, NowFields DEF Counted, Limited
<1>8. Sound(Now, Len(delivered))'
  BY <1>1, <1>5, <1>6, <1>7 DEF Sound, Limited
<1> QED BY <1>3, <1>8 DEF Invariant

LEMMA InitSound == Init => Invariant
<1> SUFFICES ASSUME Init PROVE Invariant
  OBVIOUS
<1>1. GoodCursor(Fresh) /\ Fresh.num = 0 /\ Fresh.buf = <<>> /\ ~Fresh.started_iterating
  BY EmptySeq DEF GoodCursor, CursorState, Fresh
<1>2. TypeOK
  <2>1. total \in Nat /\ sent \in 0..total /\ queries \in 0..MaxQueries /\ total \in 0..MaxDocuments
    BY ParameterAssumption DEF Init
  <2>2. cursor \in CursorState /\ (cursor.open => cursor.connected)
        /\ (cursor.dead => ~cursor.connected)
        /\ (cursor.dont_advance => cursor.started_iterating)
    <3>1. cursor = Fresh
      BY DEF Init
    <3> QED BY <1>1, <3>1 DEF GoodCursor
  <2>3. limit \in Int /\ batch_size \in Int /\ tailable \in BOOLEAN
    BY DEF Init
  <2>4. result \in Results /\ hard \in BOOLEAN /\ in_step \in BOOLEAN
    BY DEF Init, Results
  <2>5. delivered \in Seq(Document) /\ phase \in {"new", "open", "ended", "broken"}
    BY EmptyDelivered DEF Init
  <2> QED BY <2>1, <2>2, <2>3, <2>4, <2>5 DEF TypeOK
<1>3. GoodOutcome(Now) /\ Now.cursor = Fresh /\ Now.result = "none"
  <2>1. GoodCursor(cursor) /\ sent \in 0..total /\ result \in Results
    BY <1>1, <1>2 DEF Init, TypeOK
  <2> QED BY <1>2, <2>1, PlainOutcomeGood DEF Now, Init
<1>4. Counted(Fresh, 0) /\ Len(delivered) = 0
  BY <1>1, EmptyDelivered DEF Counted, Init
<1>5. Sound(Now, 0)
  BY <1>1, <1>3, <1>4 DEF Sound
<1> QED BY <1>2, <1>4, <1>5 DEF Invariant

LEMMA StepKeeps == Invariant /\ [Next]_vars => Invariant'
<1> SUFFICES ASSUME Invariant, [Next]_vars PROVE Invariant'
  OBVIOUS
<1> USE DEF Invariant
<1>1. CASE UNCHANGED vars
  <2>1. TypeOK'
    BY <1>1 DEF vars, TypeOK
  <2> QED BY <1>1, <2>1, SettingKeeps DEF vars
<1>2. CASE NextDocument
  BY <1>2, NextRunsQueryKeeps, NextAdvancesKeeps, NextOnDeadCursorKeeps DEF NextDocument
<1>3. CASE HasNext
  BY <1>3, HasNextRunsQueryKeeps, HasNextLooksAheadKeeps DEF HasNext
<1>4. CASE Rewind \/ DoQuery \/ ResetCursor
  BY <1>4, RewindKeeps, DoQueryKeeps, ResetCursorKeeps
<1>5. ASSUME NEW l \in Limits, SetLimit(l) PROVE Invariant'
  <2>1. TypeOK'
    BY <1>5, ParameterAssumption DEF SetLimit, TypeOK
  <2> QED BY <1>5, <2>1, SettingKeeps DEF SetLimit
<1>6. ASSUME NEW b \in BatchSizes, SetBatchSize(b) PROVE Invariant'
  <2>1. TypeOK'
    BY <1>6, ParameterAssumption DEF SetBatchSize, TypeOK
  <2> QED BY <1>6, <2>1, SettingKeeps DEF SetBatchSize
<1>7. CASE ConnectionDestroyed
  BY <1>7, ConnectionDestroyedKeeps
<1>8. CASE Insert
  <2>1. TypeOK'
    <3>1. total' \in 0..MaxDocuments /\ sent' \in 0..total'
      BY <1>8, ParameterAssumption DEF Insert, TypeOK
    <3> QED BY <1>8, <3>1 DEF Insert, TypeOK
  <2> QED BY <1>8, <2>1, SettingKeeps DEF Insert
<1> QED BY <1>1, <1>2, <1>3, <1>4, <1>5, <1>6, <1>7, <1>8 DEF Next

-----------------------------------------------------------------------------
(* The theorems.                                                           *)

\* The counters, the buffer and the limit stay together through queries,
\* replies, look-ahead, failures and changes of the settings.
THEOREM InvariantHolds == Spec => []Invariant
BY InitSound, StepKeeps, PTL DEF Spec

\* The fields of a cursor keep their types, whatever the order of calls.
THEOREM TypesCorrect == Spec => []TypeOK
<1>1. Invariant => TypeOK
  BY DEF Invariant
<1> QED BY <1>1, InvariantHolds, PTL

\* next() loads nothing from behind the end of the reply in the buffer.
THEOREM LoadsWithinTheReply == Spec => []WithinTheReply
<1>1. Invariant => WithinTheReply
  <2> SUFFICES ASSUME Invariant, cursor.started_iterating, ~cursor.dead,
                      Upcoming(cursor) < cursor.num
               PROVE  cursor.buf # <<>>
    BY DEF WithinTheReply, Upcoming
  <2>1. Holds(cursor, Upcoming(cursor)) /\ cursor.num \in Nat /\ cursor.at \in Nat
    BY NowFields
  <2>2. Upcoming(cursor) \in Nat
    BY <2>1 DEF Upcoming
  <2> QED BY <2>1, <2>2, EmptyDelivered DEF Holds
<1> QED BY <1>1, InvariantHolds, PTL

\* What limit() asked for is never exceeded while every get_more is in step.
THEOREM LimitIsRespected == Spec => []LimitRespectedInStep
<1>1. Invariant => LimitRespectedInStep
  <2> SUFFICES ASSUME Invariant, limit > 0, in_step PROVE Len(delivered) <= limit
    BY DEF LimitRespectedInStep
  <2>1. /\ Counted(cursor, Len(delivered)) /\ GoodCursor(cursor) /\ Len(delivered) \in Nat
        /\ cursor.num \in Nat /\ limit \in Int
    BY NowFields DEF Invariant, TypeOK
  <2>2. CASE cursor.started_iterating
    <3>1. cursor.num <= limit
      BY <2>2, NowFields DEF Limited
    <3>2. Len(cursor.buf) \in Nat
      BY <2>1, LengthIsNumber
    <3> QED BY <2>1, <3>1, <3>2 DEF Counted
  <2>3. CASE ~cursor.started_iterating
    BY <2>1, <2>3, NowFields
  <2> QED BY <2>2, <2>3
<1> QED BY <1>1, InvariantHolds, PTL

\* After hasNext() said yes, next() has a document or throws, also when the
\* batch size, the result or the connection changed in between.
THEOREM HasNextIsKept == Spec => HasNextKeepsItsPromise
<1>1. Invariant /\ result = "true" /\ NextDocument => result' \in {"document", "exception"}
  <2> SUFFICES ASSUME Invariant, result = "true", NextDocument
               PROVE  result' \in {"document", "exception"}
    OBVIOUS
  <2>1. cursor.dead \/ (cursor.started_iterating /\ Upcoming(cursor) < cursor.num)
    BY NowFields
  <2>2. ~NextRunsQuery
    BY <2>1 DEF NextRunsQuery
  <2>3. CASE NextAdvances
    <3>1. PICK p \in NextOutcomes : Return(p, delivered, phase)
      BY <2>3 DEF NextAdvances, NextOutcomes
    <3>2. p.result \in {"document", "exception"}
      BY <2>1, <2>3, NextSound DEF NextAdvances
    <3> QED BY <3>1, <3>2 DEF Return
  <2>4. CASE NextOnDeadCursor
    BY <2>4 DEF NextOnDeadCursor, Return, Outcome
  <2> QED BY <2>2, <2>3, <2>4 DEF NextDocument
<1>2. Invariant /\ [Next]_vars => [result = "true" /\ NextDocument => result' \in {"document", "exception"}]_vars
  BY <1>1
<1> QED BY <1>2, InvariantHolds, PTL DEF Spec, HasNextKeepsItsPromise

-----------------------------------------------------------------------------
(* What the user is handed: the refinement of ResultStream.                 *)

\* Documents f + 1 to f + n.
Numbered(f, n) == [i \in 1..n |-> f + i]

Last(docs) == IF docs = <<>> THEN 0 ELSE docs[Len(docs)]

\* What is left of a reply are the last documents that the server sent.
Unread(c, s) == Len(c.buf) <= s /\ c.buf = Numbered(s - Len(c.buf), Len(c.buf))

\* The server has no more, or limit() was reached: k documents are all there is.
Spent(s, h, k) == ~h => s = total \/ (limit > 0 /\ k >= limit)

\* k documents were handed out before position `at`, and the rest is in the buffer.
Exact(c, s, h, k, at) ==
  /\ c.num = s /\ k = Least(at, c.num) /\ Len(c.buf) = s - k
  /\ c.at >= c.num => ~c.open
  /\ ~c.open => Spent(s, h, k)

\* A cursor that next() can go on from.  Only a tailable one may skip documents.
ReadingAt(c, s, h, docs, at) ==
  /\ Unread(c, s) /\ Last(docs) + Len(c.buf) <= s
  /\ ~c.flag /\ (c.dont_advance => c.at = 0)
  /\ limit # 0 /\ limit <= 1 => h
  /\ ~tailable => docs = Numbered(0, Len(docs)) /\ Exact(c, s, h, Len(docs), at)

Reading(c, s, h, docs) == ReadingAt(c, s, h, docs, Upcoming(c)) /\ c.current # Error

\* hasNext() has run a query that failed: next() will throw.
Failing(c, docs) ==
  /\ docs = <<>> /\ c.dont_advance /\ c.at = 0 /\ c.num = 1 /\ c.buf = <<Error>>
  /\ ~c.open /\ c.flag /\ c.current # Error

\* Nothing will come of this cursor any more.
Barren(c) == c.buf = <<>> /\ ~c.open /\ c.num <= Upcoming(c) /\ ~c.dont_advance

PromisedBy(h) ==
  IF h \/ tailable THEN 0 ELSE IF limit > 0 THEN Least(limit, total) ELSE total

\* What an outcome is when docs have been handed out and the iteration stands so.
Tells(o, docs, ph) ==
  LET c == o.cursor IN
  /\ c.started_iterating => c.dead \/ c.connected
  /\ ph = "new" => ~c.started_iterating
  /\ ph = "broken" /\ c.started_iterating => c.dead \/ Barren(c)
  /\ ph \in {"open", "ended"} =>
       /\ c.started_iterating
       /\ \/ c.dead \/ Reading(c, o.sent, o.hard, docs)
          \/ ph = "open" /\ Failing(c, docs)
  /\ ph = "open" /\ ~tailable /\ ~c.dead => Upcoming(c) <= c.num
  /\ ph = "ended" /\ ~tailable => Len(docs) >= PromisedBy(o.hard)

Faithful == Tells(Now, delivered, phase)

-----------------------------------------------------------------------------
(* Runs of consecutive documents.                                          *)

LEMMA NumberedType ==
  ASSUME NEW f \in Nat, NEW n \in Nat, f + n <= MaxDocuments
  PROVE  Numbered(f, n) \in Seq(Document) /\ Len(Numbered(f, n)) = n
BY ParameterAssumption DEF Numbered, Document

LEMMA NumberedEmpty == ASSUME NEW f \in Nat PROVE Numbered(f, 0) = <<>>
BY DEF Numbered

\* (Opaque, so that the lemmas below apply to whatever is known to be a number.)
Count(n) == n \in Nat

LEMMA NumberedTail ==
  ASSUME NEW f, NEW n, Count(f), Count(n), n # 0
  PROVE  /\ Numbered(f, n) # <<>>
         /\ Head(Numbered(f, n)) = f + 1
         /\ Tail(Numbered(f, n)) = Numbered(f + 1, n - 1)
<1> DEFINE s == Numbered(f, n)
<1> USE DEF Count
<1>1. s \in Seq(Nat) /\ Len(s) = n /\ \A i \in 1..n : s[i] = f + i
  BY DEF Numbered
<1>2. s # <<>>
  BY <1>1
<1>3. Head(s) = f + 1
  BY <1>1, <1>2
<1>4. /\ Tail(s) \in Seq(Nat) /\ Len(Tail(s)) = n - 1
      /\ \A i \in 1 .. n - 1 : Tail(s)[i] = s[i + 1]
  BY <1>1, <1>2, HeadTailProperties
<1>5. \A i \in 1 .. n - 1 : s[i + 1] = f + 1 + i
  BY <1>1
<1> DEFINE t == Numbered(f + 1, n - 1)
<1>6. t \in Seq(Nat) /\ Len(t) = n - 1 /\ \A i \in 1 .. n - 1 : t[i] = f + 1 + i
  BY DEF Numbered
<1> HIDE DEF s, t
<1>7. Tail(s) = t
  BY <1>4, <1>5, <1>6, SeqEqual
<1> QED BY <1>2, <1>3, <1>7 DEF s, t

LEMMA NumberedAppend ==
  ASSUME NEW n, Count(n)
  PROVE  Append(Numbered(0, n), n + 1) = Numbered(0, n + 1)
<1> USE DEF Count
<1> DEFINE s == Numbered(0, n)
<1> DEFINE t == Append(s, n + 1)
<1>1. s \in Seq(Nat) /\ Len(s) = n /\ \A i \in 1..n : s[i] = 0 + i
  BY DEF Numbered
<1>2. t \in Seq(Nat) /\ Len(t) = n + 1 /\ \A i \in 1 .. n + 1 : t[i] = 0 + i
  BY <1>1
<1>3. t = [i \in 1 .. n + 1 |-> 0 + i]
  BY <1>2
<1> QED BY <1>3 DEF Numbered

\* The last of the documents is the last of those handed out in order.
LEMMA LastOf ==
  ASSUME NEW docs \in Seq(Document)
  PROVE  /\ Last(docs) \in Nat /\ Len(docs) \in Nat /\ Last(<<>>) = 0
         /\ docs = Numbered(0, Len(docs)) => Last(docs) = Len(docs)
         /\ \A d \in Document : /\ Append(docs, d) \in Seq(Document)
                                /\ Len(Append(docs, d)) = Len(docs) + 1
                                /\ Last(Append(docs, d)) = d
<1> DEFINE n == Len(docs)
<1>1. n \in Nat /\ (docs = <<>> <=> n = 0)
  BY EmptySeq
<1>2. Last(docs) \in Nat
  <2>1. CASE docs = <<>>
    BY <2>1 DEF Last
  <2>2. CASE docs # <<>>
    <3>1. n \in 1..n
      BY <1>1, <2>2
    <3>2. docs[n] \in Document
      BY <3>1
    <3> QED BY <2>2, <3>2 DEF Last, Document
  <2> QED BY <2>1, <2>2
<1>3. ASSUME docs = Numbered(0, n) PROVE Last(docs) = n
  <2>1. CASE docs = <<>>
    BY <1>1, <2>1 DEF Last
  <2>2. CASE docs # <<>>
    <3> HIDE DEF n
    <3>1. n \in 1..n
      BY <1>1, <2>2
    <3>2. docs[n] = 0 + n
      BY <1>3, <3>1 DEF Numbered
    <3>3. Last(docs) = docs[n]
      BY <2>2 DEF Last, n
    <3> QED BY <1>1, <3>2, <3>3
  <2> QED BY <2>1, <2>2
<1>4. ASSUME NEW d \in Document
      PROVE  /\ Append(docs, d) \in Seq(Document) /\ Len(Append(docs, d)) = n + 1
             /\ Last(Append(docs, d)) = d
  <2> DEFINE t == Append(docs, d)
  <2>1. t \in Seq(Document) /\ Len(t) = n + 1 /\ t[n + 1] = d
    BY <1>1, AppendProperties
  <2> HIDE DEF t
  <2>2. t # <<>>
    BY <1>1, <2>1, EmptySeq
  <2>3. Last(t) = d
    BY <2>1, <2>2 DEF Last
  <2> QED BY <2>1, <2>3 DEF t
<1>5. Last(<<>>) = 0
  BY DEF Last
<1> QED BY <1>1, <1>2, <1>3, <1>4, <1>5

-----------------------------------------------------------------------------
(* What the pieces of an operation do to the fields that tell the end.      *)

LEMMA AdvanceFields ==
  ASSUME NEW c, GoodCursor(c)
  PROVE  Advance(c).flag = c.flag /\ Advance(c).current = None
<1>1. c \in CursorState /\ c.at + 1 \in Nat
  BY DEF GoodCursor, CursorState
<1>2. CASE c.dont_advance
  BY <1>1, <1>2 DEF CursorState, Advance
<1>3. CASE ~c.dont_advance
  <2> DEFINE n == c.at + 1
  <2>1. Advance(c) = [c EXCEPT !.current = None, !.at = n]
    BY <1>3 DEF Advance
  <2> HIDE DEF n
  <2> QED BY <1>1, <2>1 DEF CursorState
<1> QED BY <1>2, <1>3

LEMMA LoadFields ==
  ASSUME NEW c, GoodCursor(c)
  PROVE  LET d == Load(c) IN
         /\ d.open = c.open /\ d.flag = c.flag /\ d.connected = c.connected
         /\ c.at < c.num /\ c.buf # <<>> => d.current = Head(c.buf) /\ d.buf = Tail(c.buf)
<1>1. c \in CursorState /\ c.at \in Nat /\ c.num \in Nat
  BY DEF GoodCursor, CursorState
<1>2. CASE c.at >= c.num
  <2>1. Load(c) = [c EXCEPT !.current = None] /\ ~(c.at < c.num)
    BY <1>1, <1>2 DEF Load
  <2> QED BY <1>1, <2>1 DEF CursorState
<1>3. CASE c.at < c.num /\ c.buf = <<>>
  <2>1. Load(c) = [c EXCEPT !.current = Error]
    BY <1>1, <1>3 DEF Load
  <2> QED BY <1>1, <1>3, <2>1 DEF CursorState
<1>4. CASE c.at < c.num /\ c.buf # <<>>
  <2> DEFINE x == Head(c.buf)
  <2> DEFINE b == Tail(c.buf)
  <2>1. Load(c) = [c EXCEPT !.current = x, !.buf = b]
    BY <1>1, <1>4 DEF Load
  <2> HIDE DEF x, b
  <2>2. /\ Load(c).open = c.open /\ Load(c).flag = c.flag /\ Load(c).connected = c.connected
        /\ Load(c).current = x /\ Load(c).buf = b
    BY <1>1, <2>1 DEF CursorState
  <2> QED BY <2>2 DEF x, b
<1> QED BY <1>1, <1>2, <1>3, <1>4

LEMMA ReceiveFields ==
  ASSUME NEW c, GoodCursor(c), NEW r
  PROVE  LET d == Receive(c, r) IN
         d.open = r.open /\ d.flag = r.flag /\ d.start = r.start /\ d.current = c.current
<1> DEFINE n == c.num + Len(r.docs)
<1> DEFINE u == r.docs
<1>1. Receive(c, r) =
        [c EXCEPT !.num = n, !.start = r.start, !.open = r.open, !.flag = r.flag, !.buf = u]
  BY DEF Receive
<1> HIDE DEF n, u
<1> QED BY <1>1 DEF GoodCursor, CursorState

IsPart(r, from) == r.docs = Numbered(from, Len(r.docs))

\* A reply of a server that has the cursor is the next part of the result.
LEMMA RepliesTell ==
  ASSUME TypeOK, NEW from \in 0..total, NEW n \in Int, NEW closes, NEW r \in Replies(from, n, closes)
  PROVE  LET k == Len(r.docs) IN
         /\ k \in Nat /\ from + k <= total /\ IsPart(r, from)
         /\ r.start = from /\ r.flag = FALSE /\ IsReply(r)
         /\ k = 0 => from = total /\ (r.open => tailable)
         /\ ~r.open => closes \/ from + k = total
<1>1. IsReply(r) /\ from + Len(r.docs) \in 0..total
  BY RepliesGood
<1> DEFINE most == Least(total - from, IF n = 0 THEN DefaultBatch ELSE Magnitude(n))
<1>2. /\ r \in [docs : {[i \in 1..k |-> from + i] : k \in 0..most}, start : {from},
                open : BOOLEAN, flag : {FALSE}]
      /\ r.docs = <<>> => from = total
      /\ ~closes /\ from + Len(r.docs) < total => r.open
      /\ r.docs = <<>> /\ r.open => tailable
  BY DEF Replies
<1> HIDE DEF most
<1>3. PICK j \in 0..most : r.docs = [i \in 1..j |-> from + i]
  BY <1>2
<1>4. Len(r.docs) \in Nat /\ total \in Nat /\ from \in Nat
  BY <1>1, ParameterAssumption DEF IsReply, TypeOK
<1>5. Len(r.docs) = j /\ r.docs = Numbered(from, j)
  <2>1. CASE j \in Nat
    BY <1>3, <2>1 DEF Numbered
  <2>2. j \in Nat
    BY <1>3
  <2> QED BY <2>1, <2>2
<1>6. Len(r.docs) = 0 => r.docs = <<>>
  BY <1>4, <1>5, NumberedEmpty
<1>7. ~(from + Len(r.docs) < total) => from + Len(r.docs) = total
  BY <1>1, <1>4
<1>8. from + Len(r.docs) <= total
  BY <1>1, <1>4
<1>9. IsPart(r, from)
  BY <1>5 DEF IsPart
<1> QED BY <1>1, <1>2, <1>4, <1>6, <1>7, <1>8, <1>9

-----------------------------------------------------------------------------
(* What queries and get_mores bring.                                        *)

\* A limit of one document, or a negative one, has the server close at once.
LEMMA FirstRequestCloses ==
  ASSUME TypeOK, NEW c, GoodCursor(c), c.at = 0, limit # 0, limit <= 1
  PROVE  NextRequestLimit(c) < 0 \/ NextRequestLimit(c) = 1
BY DEF TypeOK, NextRequestLimit

LEMMA FirstReply ==
  ASSUME TypeOK, NEW n \in Int, NEW closes, NEW r \in Replies(0, n, closes)
  PROVE  LET k == Len(r.docs) IN
         /\ k \in Nat /\ r.docs = Numbered(0, k) /\ r.flag = FALSE /\ IsReply(r)
         /\ k = 0 => (r.open => tailable)
         /\ ~r.open => closes \/ k = total
<1>1. 0 \in 0..total
  BY ParameterAssumption DEF TypeOK
<1>2. Len(r.docs) \in Nat
  BY <1>1, RepliesTell
<1>3. IsPart(r, 0)
  BY <1>1, RepliesTell
<1>4. r.docs = Numbered(0, Len(r.docs))
  BY <1>3 DEF IsPart
<1>5. r.flag = FALSE /\ IsReply(r)
  BY <1>1, RepliesTell
<1>6. Len(r.docs) = 0 => (r.open => tailable)
  BY <1>1, RepliesTell
<1>7. ~r.open => closes \/ 0 + Len(r.docs) = total
  BY <1>1, RepliesTell
<1>8. 0 + Len(r.docs) = Len(r.docs)
  BY <1>2
<1> QED BY <1>2, <1>4, <1>5, <1>6, <1>7, <1>8

QueryCloses == LET n == NextRequestLimit(Reset(cursor)) IN n < 0 \/ n = 1

QueryCase(o, d, s, r) == o = Exchanged(d, s, r, QueryCloses, batch_size >= 0)

LEMMA QueryCases ==
  ASSUME NEW o \in RunQuery
  PROVE  LET c == [Reset(cursor) EXCEPT !.connected = TRUE] IN
         \/ QueryCase(o, [c EXCEPT !.connected = FALSE], 0, "exception")
         \/ QueryCase(o, c, 0, "exception")
         \/ QueryCase(o, Failed(c), 0, "exception")
         \/ QueryCase(o, Receive(c, QueryFailure), 0, "none")
         \/ \E r \in QueryReplies : QueryCase(o, Failed(HeaderOnly(c, r)), 0, "exception")
         \/ \E r \in QueryReplies : QueryCase(o, Receive(c, r), Len(r.docs), "none")
<1> DEFINE n == NextRequestLimit(Reset(cursor))
<1> DEFINE h == (n < 0 \/ n = 1)
<1> DEFINE step == batch_size >= 0
<1> DEFINE c == [Reset(cursor) EXCEPT !.connected = TRUE]
<1> DEFINE As(d, s, r) == o = Exchanged(d, s, r, h, step)
<1> DEFINE simple == {Outcome([c EXCEPT !.connected = FALSE], 0, "exception"),
                      Outcome(c, 0, "exception"), Outcome(Failed(c), 0, "exception"),
                      Outcome(Receive(c, QueryFailure), 0, "none")}
<1> DEFINE cut == {Outcome(Failed(HeaderOnly(c, r)), 0, "exception") : r \in QueryReplies}
<1> DEFINE whole == {Outcome(Receive(c, r), Len(r.docs), "none") : r \in QueryReplies}
<1>1. RunQuery = {[u EXCEPT !.hard = h, !.in_step = step] : u \in (simple \cup cut) \cup whole}
  BY DEF RunQuery
<1>2. h = QueryCloses
  BY DEF QueryCloses
<1> HIDE DEF h, step, c
<1>3. PICK u \in simple \cup cut \cup whole : o = [u EXCEPT !.hard = h, !.in_step = step]
  BY <1>1
<1>4. \/ As([c EXCEPT !.connected = FALSE], 0, "exception")
      \/ As(c, 0, "exception")
      \/ As(Failed(c), 0, "exception")
      \/ As(Receive(c, QueryFailure), 0, "none")
      \/ \E r \in QueryReplies : As(Failed(HeaderOnly(c, r)), 0, "exception")
      \/ \E r \in QueryReplies : As(Receive(c, r), Len(r.docs), "none")
  <2>1. CASE u \in simple
    BY <1>3, <2>1, ExchangeFields
  <2>2. CASE u \in cut
    BY <1>3, <2>2, ExchangeFields
  <2>3. CASE u \in whole
    BY <1>3, <2>3, ExchangeFields
  <2> QED BY <1>3, <2>1, <2>2, <2>3
<1>5. \A d, s, r : As(d, s, r) => QueryCase(o, d, s, r)
  BY <1>2 DEF QueryCase, step
<1> HIDE DEF As
<1> QED BY <1>4, <1>5 DEF c

\* What a query brings: an error, or the first documents of the result.
Brought(o) ==
  LET c == o.cursor IN
  /\ c.connected /\ ~c.dead /\ c.current = None
  /\ limit # 0 /\ limit <= 1 => o.hard
  /\ \/ c.num = 1 /\ c.buf = <<Error>> /\ ~c.open /\ c.flag
     \/ /\ c.num = o.sent /\ c.buf = Numbered(0, o.sent) /\ ~c.flag
        /\ ~tailable /\ c.num = 0 => ~c.open
        /\ ~c.open /\ ~o.hard => o.sent = total

LEMMA QueryBrings ==
  ASSUME TypeOK, GoodCursor(cursor), NEW o \in RunQuery
  PROVE  Thrown(o) \/ Brought(o)
<1> DEFINE n == NextRequestLimit(Reset(cursor))
<1> DEFINE h == (n < 0 \/ n = 1)
<1> DEFINE step == batch_size >= 0
<1> DEFINE q == Reset(cursor)
<1> DEFINE c == [q EXCEPT !.connected = TRUE]
<1>1. /\ GoodCursor(q) /\ q.at = 0 /\ q.num = 0 /\ ~q.open /\ ~q.dead
      /\ ~q.started_iterating /\ ~q.dont_advance /\ q.current = None
  BY ResetGood DEF Reset, Fresh
<1>2. n \in Int
  BY <1>1, RequestIsNumber
<1>3. limit # 0 /\ limit <= 1 => h
  BY <1>1, FirstRequestCloses
<1>4. ASSUME NEW d, NEW s, NEW r, QueryCase(o, d, s, r)
      PROVE  o.cursor = d /\ o.sent = s /\ o.result = r /\ o.hard = h
  BY <1>4 DEF QueryCase, QueryCloses, Exchanged
<1>5. ASSUME NEW d, NEW s, QueryCase(o, d, s, "exception") PROVE Thrown(o)
  BY <1>4, <1>5 DEF Thrown
<1> HIDE DEF q, n
<1>6. GoodCursor(c) /\ c.num = 0 /\ c.connected /\ c.current = None
  BY <1>1 DEF GoodCursor, CursorState
<1> HIDE DEF c
<1>7. ASSUME NEW r, IsReply(r), NEW s, QueryCase(o, Receive(c, r), s, "none"),
             \/ r = QueryFailure
             \/ /\ s = Len(r.docs) /\ r.docs = Numbered(0, s) /\ r.flag = FALSE
                /\ s = 0 => (r.open => tailable)
                /\ ~r.open => h \/ s = total
      PROVE  Brought(o)
  <2> DEFINE d == Receive(c, r)
  <2>1. /\ d.num = 0 + Len(r.docs) /\ d.buf = r.docs /\ d.connected /\ ~d.dead /\ d.open = r.open
        /\ d.flag = r.flag /\ d.current = None /\ Len(r.docs) \in Nat
    BY <1>6, <1>7, ReceiveGood, ReceiveFields DEF IsReply
  <2>2. o.cursor = d /\ o.sent = s /\ o.hard = h
    BY <1>4, <1>7
  <2> HIDE DEF d, h
  <2>3. CASE r = QueryFailure
    <3>1. Len(r.docs) = 1 /\ r.docs = <<Error>> /\ ~r.open /\ r.flag
      BY <2>3 DEF QueryFailure
    <3>2. d.num = 1
      BY <2>1, <3>1
    <3> QED BY <1>3, <2>1, <2>2, <3>1, <3>2 DEF Brought
  <2>4. CASE /\ s = Len(r.docs) /\ r.docs = Numbered(0, s) /\ r.flag = FALSE
             /\ s = 0 => (r.open => tailable)
             /\ ~r.open => h \/ s = total
    <3>1. d.num = s
      BY <2>1, <2>4
    <3> QED BY <1>3, <2>1, <2>2, <2>4, <3>1 DEF Brought
  <2> QED BY <1>7, <2>3, <2>4
<1>8. CASE QueryCase(o, Receive(c, QueryFailure), 0, "none")
  BY <1>7, <1>8, OtherReplies
<1>9. ASSUME NEW r \in QueryReplies, QueryCase(o, Receive(c, r), Len(r.docs), "none")
      PROVE  Brought(o)
  <2> PICK y : y = h
    OBVIOUS
  <2>1. r \in Replies(0, n, y)
    BY DEF QueryReplies, n, q
  <2> DEFINE k == Len(r.docs)
  <2>2. /\ k \in Nat /\ r.docs = Numbered(0, k) /\ r.flag = FALSE /\ IsReply(r)
        /\ k = 0 => (r.open => tailable)
        /\ ~r.open => y \/ k = total
    BY <1>2, <2>1, FirstReply
  <2> HIDE DEF k, h
  <2> QED BY <1>7, <1>9, <2>2 DEF k
<1>10. \/ QueryCase(o, [c EXCEPT !.connected = FALSE], 0, "exception")
       \/ QueryCase(o, c, 0, "exception")
       \/ QueryCase(o, Failed(c), 0, "exception")
       \/ QueryCase(o, Receive(c, QueryFailure), 0, "none")
       \/ \E r \in QueryReplies : QueryCase(o, Failed(HeaderOnly(c, r)), 0, "exception")
       \/ \E r \in QueryReplies : QueryCase(o, Receive(c, r), Len(r.docs), "none")
  BY QueryCases DEF c, q
<1> QED BY <1>5, <1>8, <1>9, <1>10

GetMoreCase(c, o, d, s, r) ==
  o = Exchanged(d, s, r, hard \/ NextRequestLimit(c) < 0, in_step /\ InStep(c))

LEMMA GetMoreCases ==
  ASSUME NEW c, NEW g \in GetMore(c)
  PROVE  \/ GetMoreCase(c, g, Failed(c), sent, "exception")
         \/ GetMoreCase(c, g, Receive(c, CursorNotFound), sent, "none")
         \/ \E r \in GetMoreReplies(c) : GetMoreCase(c, g, Failed(HeaderOnly(c, r)), sent, "exception")
         \/ \E r \in GetMoreReplies(c) : GetMoreCase(c, g, Receive(c, r), sent + Len(r.docs), "none")
<1> DEFINE h == (hard \/ NextRequestLimit(c) < 0)
<1> DEFINE step == (in_step /\ InStep(c))
<1> DEFINE As(d, s, r) == g = Exchanged(d, s, r, h, step)
<1> DEFINE simple == {Outcome(Failed(c), sent, "exception"),
                      Outcome(Receive(c, CursorNotFound), sent, "none")}
<1> DEFINE cut == {Outcome(Failed(HeaderOnly(c, r)), sent, "exception") : r \in GetMoreReplies(c)}
<1> DEFINE whole ==
      {Outcome(Receive(c, r), sent + Len(r.docs), "none") : r \in GetMoreReplies(c)}
<1>1. GetMore(c) = {[u EXCEPT !.hard = h, !.in_step = step] : u \in (simple \cup cut) \cup whole}
  BY DEF GetMore
<1>2. \A d, s, r : As(d, s, r) => GetMoreCase(c, g, d, s, r)
  BY DEF GetMoreCase
<1> HIDE DEF h, step
<1>3. PICK u \in simple \cup cut \cup whole : g = [u EXCEPT !.hard = h, !.in_step = step]
  BY <1>1
<1>4. \/ As(Failed(c), sent, "exception")
      \/ As(Receive(c, CursorNotFound), sent, "none")
      \/ \E r \in GetMoreReplies(c) : As(Failed(HeaderOnly(c, r)), sent, "exception")
      \/ \E r \in GetMoreReplies(c) : As(Receive(c, r), sent + Len(r.docs), "none")
  <2>1. CASE u \in simple
    BY <1>3, <2>1, ExchangeFields
  <2>2. CASE u \in cut
    BY <1>3, <2>2, ExchangeFields
  <2>3. CASE u \in whole
    BY <1>3, <2>3, ExchangeFields
  <2> QED BY <1>3, <2>1, <2>2, <2>3
<1> HIDE DEF As
<1> QED BY <1>2, <1>4

LEMMA NextReply ==
  ASSUME TypeOK, NEW n \in Int, NEW closes \in BOOLEAN, NEW r \in Replies(sent, n, closes)
  PROVE  LET k == Len(r.docs) IN
         /\ k \in Nat /\ sent + k <= total /\ r.docs = Numbered(sent, k)
         /\ r.start = sent /\ r.flag = FALSE /\ IsReply(r)
         /\ k = 0 => (r.open => tailable)
         /\ ~r.open => closes \/ sent + k = total
<1>1. sent \in 0..total
  BY DEF TypeOK
<1>2. Len(r.docs) \in Nat /\ sent + Len(r.docs) <= total
  BY <1>1, RepliesTell
<1>3. IsPart(r, sent)
  BY <1>1, RepliesTell
<1>4. r.docs = Numbered(sent, Len(r.docs))
  BY <1>3 DEF IsPart
<1>5. r.start = sent /\ r.flag = FALSE /\ IsReply(r)
  BY <1>1, RepliesTell
<1>6. Len(r.docs) = 0 => (r.open => tailable)
  BY <1>1, RepliesTell
<1>7. ~r.open => closes \/ sent + Len(r.docs) = total
  BY <1>1, RepliesTell
<1> QED BY <1>2, <1>4, <1>5, <1>6, <1>7

\* k more documents, the next ones of the result.
More(c, g, k) ==
  LET d == g.cursor IN
  /\ k \in Nat /\ d.num = c.num + k /\ d.buf = Numbered(sent, k) /\ d.start = sent /\ ~d.flag
  /\ g.sent = sent + k /\ g.sent <= total
  /\ hard => g.hard
  /\ k = 0 /\ d.open => tailable
  /\ ~d.open /\ ~g.hard => g.sent = total

\* What a get_more brings: an exception, "not found", or more documents.
Obtained(c, g) ==
  LET d == g.cursor IN
  IF Thrown(g) THEN d.dead
  ELSE /\ g.result = "none" /\ d.connected /\ ~d.dead
       /\ d.at = c.at /\ d.started_iterating = c.started_iterating
       /\ d.dont_advance = c.dont_advance /\ d.current = c.current
       /\ \/ d.num = c.num /\ d.buf = <<>> /\ ~d.open /\ d.flag
          \/ \E k : More(c, g, k)

LEMMA GetMoreBrings ==
  ASSUME TypeOK, NEW c, GoodCursor(c), c.connected, NEW g \in GetMore(c)
  PROVE  Obtained(c, g)
<1> DEFINE n == NextRequestLimit(c)
<1> DEFINE h == (hard \/ n < 0)
<1>1. n \in Int /\ c.num \in Nat
  <2>1. n \in Int
    BY RequestIsNumber
  <2>2. c.num \in Nat
    BY DEF GoodCursor, CursorState
  <2> QED BY <2>1, <2>2
<1>2. ASSUME NEW d, NEW s, NEW r, GetMoreCase(c, g, d, s, r)
      PROVE  g.cursor = d /\ g.sent = s /\ g.result = r /\ g.hard = h
  BY <1>2 DEF GetMoreCase, Exchanged
<1>3. ASSUME NEW d, d.dead, NEW s, GetMoreCase(c, g, d, s, "exception") PROVE Obtained(c, g)
  BY <1>2, <1>3 DEF Thrown, Obtained
<1>4. CASE GetMoreCase(c, g, Failed(c), sent, "exception")
  BY <1>3, <1>4, FailedGood
<1>5. ASSUME NEW r, IsReply(r), NEW s, GetMoreCase(c, g, Receive(c, r), s, "none")
      PROVE  LET d == g.cursor IN
             /\ ~Thrown(g) /\ g.result = "none" /\ d.connected /\ ~d.dead
             /\ d.at = c.at /\ d.started_iterating = c.started_iterating
             /\ d.dont_advance = c.dont_advance /\ d.current = c.current
             /\ d.num = c.num + Len(r.docs) /\ d.buf = r.docs /\ d.open = r.open
             /\ d.flag = r.flag /\ d.start = r.start /\ g.sent = s /\ g.hard = h
  <2> DEFINE d == Receive(c, r)
  <2>1. /\ d.connected /\ ~d.dead
        /\ d.at = c.at /\ d.started_iterating = c.started_iterating
        /\ d.dont_advance = c.dont_advance /\ d.current = c.current
        /\ d.num = c.num + Len(r.docs) /\ d.buf = r.docs /\ d.open = r.open
        /\ d.flag = r.flag /\ d.start = r.start
    BY <1>5, ReceiveGood, ReceiveFields
  <2>2. g.cursor = d /\ g.sent = s /\ g.result = "none" /\ g.hard = h
    BY <1>2, <1>5
  <2> HIDE DEF d, h
  <2> QED BY <2>1, <2>2 DEF Thrown
<1>6. CASE GetMoreCase(c, g, Receive(c, CursorNotFound), sent, "none")
  <2> DEFINE r == CursorNotFound
  <2>1. IsReply(r) /\ r.docs = <<>> /\ Len(r.docs) = 0 /\ ~r.open /\ r.flag
    BY OtherReplies DEF CursorNotFound
  <2> HIDE DEF r, h
  <2> DEFINE d == g.cursor
  <2>2. /\ ~Thrown(g) /\ g.result = "none" /\ d.connected /\ ~d.dead
        /\ d.at = c.at /\ d.started_iterating = c.started_iterating
        /\ d.dont_advance = c.dont_advance /\ d.current = c.current
        /\ d.num = c.num + Len(r.docs) /\ d.buf = r.docs /\ d.open = r.open
        /\ d.flag = r.flag
    BY <1>5, <1>6, <2>1 DEF r
  <2>3. d.num = c.num
    BY <1>1, <2>1, <2>2
  <2> QED BY <2>1, <2>2, <2>3 DEF Obtained
<1>7. ASSUME NEW r \in GetMoreReplies(c)
      PROVE  LET k == Len(r.docs) IN
             /\ k \in Nat /\ sent + k <= total /\ r.docs = Numbered(sent, k)
             /\ r.start = sent /\ r.flag = FALSE /\ IsReply(r)
             /\ k = 0 => (r.open => tailable)
             /\ ~r.open => h \/ sent + k = total
  <2> DEFINE y == n < 0
  <2>1b. y \in BOOLEAN
    OBVIOUS
  <2>1. r \in Replies(sent, n, y)
    BY DEF GetMoreReplies
  <2> HIDE DEF n, y
  <2>2. PICK z \in BOOLEAN : z = y
    BY <2>1b, Zenon
  <2>3. r \in Replies(sent, n, z)
    BY <2>1, <2>2
  <2>4. LET k == Len(r.docs) IN
        /\ k \in Nat /\ sent + k <= total /\ r.docs = Numbered(sent, k)
        /\ r.start = sent /\ r.flag = FALSE /\ IsReply(r)
        /\ k = 0 => (r.open => tailable)
        /\ ~r.open => z \/ sent + k = total
    BY <1>1, <2>3, NextReply
  <2> QED BY <2>2, <2>4 DEF y
<1>8. ASSUME NEW r \in GetMoreReplies(c), GetMoreCase(c, g, Failed(HeaderOnly(c, r)), sent, "exception")
      PROVE  Obtained(c, g)
  <2>1. IsReply(r)
    BY <1>7
  <2> QED BY <1>3, <1>8, <2>1, HeaderOnlyGood
<1>9. ASSUME NEW r \in GetMoreReplies(c), GetMoreCase(c, g, Receive(c, r), sent + Len(r.docs), "none")
      PROVE  Obtained(c, g)
  <2> HIDE DEF h
  <2>1. PICK k : k = Len(r.docs)
    OBVIOUS
  <2>2. /\ k \in Nat /\ sent + k <= total /\ r.docs = Numbered(sent, k)
        /\ r.start = sent /\ r.flag = FALSE /\ IsReply(r)
        /\ k = 0 => (r.open => tailable)
        /\ ~r.open => h \/ sent + k = total
    BY <1>7, <2>1
  <2> DEFINE d == g.cursor
  <2>3. /\ ~Thrown(g) /\ g.result = "none" /\ d.connected /\ ~d.dead
        /\ d.at = c.at /\ d.started_iterating = c.started_iterating
        /\ d.dont_advance = c.dont_advance /\ d.current = c.current
        /\ d.num = c.num + k /\ d.buf = r.docs /\ d.open = r.open
        /\ d.flag = r.flag /\ d.start = r.start /\ g.sent = sent + k /\ g.hard = h
    BY <1>5, <1>9, <2>1, <2>2
  <2>4. hard => h
    BY DEF h
  <2>5. More(c, g, k)
    BY <2>2, <2>3, <2>4 DEF More
  <2> QED BY <2>3, <2>5 DEF Obtained
<1> QED BY <1>4, <1>6, <1>8, <1>9, GetMoreCases

-----------------------------------------------------------------------------
(* Loading from a reply.                                                   *)

\* A cursor that is spent has handed out all that was promised.
LEMMA SpentKeeps ==
  ASSUME TypeOK, ~tailable, NEW h \in BOOLEAN, NEW k \in Nat, Spent(k, h, k),
         limit # 0 /\ limit <= 1 => h
  PROVE  k >= PromisedBy(h)
<1>1. limit \in Int /\ total \in Nat
  BY ParameterAssumption DEF TypeOK
<1>2. CASE h
  BY <1>2 DEF PromisedBy
<1>3. CASE ~h /\ limit > 0
  BY <1>1, <1>3 DEF PromisedBy, Spent, Least
<1>4. CASE ~h /\ ~(limit > 0)
  BY <1>1, <1>4 DEF PromisedBy, Spent
<1> QED BY <1>2, <1>3, <1>4

\* What loading makes of an outcome o: p, with the next document or the end.
Yields(o, p, docs) ==
  LET c == o.cursor
      d == p.cursor
      n == o.sent - Len(c.buf) + 1
  IN
  /\ d.current # Error /\ ~d.flag /\ p.sent = o.sent /\ p.hard = o.hard
  /\ d.started_iterating /\ d.connected
  /\ IF c.at < c.num
     THEN /\ p.result = "document" /\ d.current = n /\ n \in Document
          /\ n > Last(docs) /\ n <= total /\ (~tailable => n = Last(docs) + 1)
          /\ Reading(d, o.sent, o.hard, Append(docs, n))
          /\ ~tailable => Upcoming(d) <= d.num
     ELSE /\ p.result = "null" /\ d.current = None
          /\ Reading(d, o.sent, o.hard, docs)
          /\ ~tailable => Len(docs) >= PromisedBy(o.hard)

LEMMA LoadFrom ==
  ASSUME TypeOK, NEW o \in OutcomeTypes, NEW docs \in Seq(Document), GoodCursor(o.cursor),
         ~Thrown(o), o.cursor.started_iterating, o.cursor.connected, ~o.cursor.dont_advance,
         ReadingAt(o.cursor, o.sent, o.hard, docs, o.cursor.at), Holds(o.cursor, o.cursor.at)
  PROVE  Yields(o, Loaded(o), docs)
<1> DEFINE c == o.cursor
<1> DEFINE s == o.sent
<1> DEFINE h == o.hard
<1> DEFINE d == Load(c)
<1> DEFINE l == Len(c.buf)
<1> DEFINE n == s - l + 1
<1> DEFINE w == IF d.current = None THEN "null" ELSE "document"
<1> DEFINE p == Loaded(o)
<1>1. /\ c \in CursorState /\ c.at \in Nat /\ c.num \in Nat /\ l \in Nat /\ s \in 0..total
      /\ s \in Nat /\ h \in BOOLEAN /\ total \in Nat /\ total <= MaxDocuments /\ MaxDocuments \in Nat
  BY LengthIsNumber, ParameterAssumption DEF GoodCursor, CursorState, OutcomeTypes, TypeOK
<1>2. p.cursor = d /\ p.result = w /\ p.sent = s /\ p.hard = h
  <2> HIDE DEF d
  <2>1. Loaded(o) = [o EXCEPT !.cursor = d, !.result = w]
    BY DEF Loaded, d
  <2> HIDE DEF w
  <2> QED BY <2>1 DEF OutcomeTypes
<1>3. /\ GoodCursor(d) /\ d.at = c.at /\ d.num = c.num /\ d.started_iterating /\ ~d.dont_advance
      /\ d.dead = c.dead
      /\ c.at >= c.num => d.current = None /\ d.buf = c.buf
      /\ c.buf = <<>> <=> l = 0
  BY LoadGood
<1>4. /\ d.open = c.open /\ d.flag = c.flag /\ d.connected = c.connected
      /\ c.at < c.num /\ c.buf # <<>> => d.current = Head(c.buf) /\ d.buf = Tail(c.buf)
  BY LoadFields
<1>5. /\ l <= s /\ c.buf = Numbered(s - l, l) /\ Last(docs) + l <= s /\ ~c.flag
      /\ limit # 0 /\ limit <= 1 => h
      /\ ~tailable => docs = Numbered(0, Len(docs)) /\ Exact(c, s, h, Len(docs), c.at)
  BY DEF ReadingAt, Unread
<1>6. /\ Last(docs) \in Nat /\ Len(docs) \in Nat
      /\ docs = Numbered(0, Len(docs)) => Last(docs) = Len(docs)
  BY LastOf
<1>7. None # Error /\ Upcoming(d) = c.at + 1
  BY <1>3, ParameterAssumption DEF Error, Upcoming
<1>8. CASE c.at < c.num
  <2>1. l >= c.num - c.at
    BY DEF Holds
  <2>2. l >= 1 /\ l # 0
    BY <1>1, <1>8, <2>1
  <2> DEFINE f == s - l
  <2>3. Count(f) /\ Count(l)
    BY <1>1, <1>5 DEF Count
  <2>4. Head(c.buf) = f + 1 /\ Tail(c.buf) = Numbered(f + 1, l - 1)
    <3> HIDE DEF f, l
    <3>1. Head(Numbered(f, l)) = f + 1 /\ Tail(Numbered(f, l)) = Numbered(f + 1, l - 1)
      BY <2>2, <2>3, NumberedTail
    <3> QED BY <1>5, <3>1 DEF f, l
  <2>5. d.current = n /\ d.buf = Numbered(n, l - 1)
    BY <1>3, <1>4, <1>8, <2>2, <2>4
  <2>6. /\ n \in Nat /\ n >= 1 /\ n <= s /\ n <= total /\ n \in Document /\ n > Last(docs)
        /\ l - 1 \in Nat /\ n + (l - 1) = s /\ n # None
    <3>1. /\ n \in Nat /\ n >= 1 /\ n <= s /\ n > Last(docs) /\ l - 1 \in Nat /\ n + (l - 1) = s
      <4> HIDE DEF l, s
      <4> QED BY <1>1, <1>5, <1>6, <2>2
    <3> HIDE DEF n
    <3>2. n <= total /\ n <= MaxDocuments
      BY <1>1, <3>1
    <3> QED BY <3>1, <3>2, ParameterAssumption DEF Document
  <2>7. w = "document"
    BY <2>5, <2>6
  <2>8. Len(d.buf) = l - 1
    <3> HIDE DEF n, l
    <3>1. n + (l - 1) <= MaxDocuments
      BY <1>1, <2>6
    <3> QED BY <2>5, <2>6, <3>1, NumberedType
  <2>9. /\ Append(docs, n) \in Seq(Document) /\ Len(Append(docs, n)) = Len(docs) + 1
        /\ Last(Append(docs, n)) = n
    <3> HIDE DEF n
    <3> QED BY <2>6, LastOf
  <2>10. Unread(d, s)
    <3>1. s - (l - 1) = n /\ l - 1 <= s
      BY <1>1, <1>5
    <3> HIDE DEF n, l, d
    <3> QED BY <2>5, <2>8, <3>1 DEF Unread
  <2>11. ASSUME ~tailable
         PROVE  /\ n = Last(docs) + 1
                /\ Append(docs, n) = Numbered(0, Len(docs) + 1)
                /\ Exact(d, s, h, Len(docs) + 1, c.at + 1)
    <3> DEFINE k == Len(docs)
    <3>1. /\ docs = Numbered(0, k) /\ c.num = s /\ k = c.at /\ l = s - k /\ k \in Nat
          /\ ~c.open => Spent(s, h, k)
      BY <1>1, <1>5, <1>6, <1>8, <2>11 DEF Exact, Least
    <3>2. n = k + 1 /\ Last(docs) = k
      BY <1>1, <1>6, <3>1
    <3> HIDE DEF k
    <3>3. Append(docs, k + 1) = Numbered(0, k + 1)
      BY <3>1, NumberedAppend DEF Count
    <3>4. ~c.open => Spent(s, h, k + 1)
      BY <3>1 DEF Spent, TypeOK
    <3>5. k + 1 = Least(c.at + 1, d.num) /\ l - 1 = s - (k + 1) /\ ~(d.at >= d.num)
      BY <1>1, <1>3, <1>8, <3>1 DEF Least
    <3>6. Exact(d, s, h, k + 1, c.at + 1)
      <4> HIDE DEF d, l
      <4> QED BY <1>3, <1>4, <2>8, <3>1, <3>4, <3>5 DEF Exact
    <3> QED BY <3>2, <3>3, <3>6 DEF k
  <2>12. Reading(d, s, h, Append(docs, n))
    <3>1. Last(Append(docs, n)) + Len(d.buf) <= s
      BY <2>6, <2>8, <2>9
    <3>2. n # Error
      BY <2>6 DEF Error
    <3> HIDE DEF n, d, s, h, c
    <3>3. ~tailable => /\ Append(docs, n) = Numbered(0, Len(Append(docs, n)))
                       /\ Exact(d, s, h, Len(Append(docs, n)), Upcoming(d))
      BY <1>7, <2>9, <2>11
    <3> QED BY <1>3, <1>4, <1>5, <2>5, <2>10, <3>1, <3>2, <3>3 DEF Reading, ReadingAt
  <2>13. Upcoming(d) <= d.num
    BY <1>1, <1>3, <1>7, <1>8
  <2> HIDE DEF d, n, w, l, p
  <2>14. d.current # Error
    BY <2>12 DEF Reading
  <2>15. /\ p.result = "document" /\ p.cursor.current = n /\ n \in Document
         /\ n > Last(docs) /\ n <= total /\ (~tailable => n = Last(docs) + 1)
         /\ Reading(p.cursor, o.sent, o.hard, Append(docs, n))
         /\ ~tailable => Upcoming(p.cursor) <= p.cursor.num
    BY <1>2, <2>5, <2>6, <2>7, <2>11, <2>12, <2>13
  <2>16. /\ p.cursor.current # Error /\ ~p.cursor.flag /\ p.sent = o.sent /\ p.hard = o.hard
         /\ p.cursor.started_iterating /\ p.cursor.connected
    BY <1>2, <1>3, <1>4, <1>5, <2>14
  <2> QED BY <1>8, <2>15, <2>16 DEF Yields, p, n, l
<1>9. CASE ~(c.at < c.num)
  <2>1. c.at >= c.num
    BY <1>1, <1>9
  <2>2. d.current = None /\ d.buf = c.buf /\ w = "null"
    BY <1>3, <2>1
  <2>3. ASSUME ~tailable
        PROVE  /\ Exact(d, s, h, Len(docs), c.at + 1)
               /\ Len(docs) >= PromisedBy(h)
    <3> DEFINE k == Len(docs)
    <3>1. /\ c.num = s /\ k = s /\ l = s - k /\ k \in Nat /\ ~c.open /\ Spent(s, h, k)
      BY <1>1, <1>5, <1>6, <1>9, <2>1, <2>3 DEF Exact, Least
    <3> HIDE DEF k, d
    <3>2. k >= PromisedBy(h)
      BY <1>1, <1>5, <2>3, <3>1, SpentKeeps
    <3>3. k = Least(c.at + 1, d.num)
      BY <1>1, <1>3, <2>1, <3>1 DEF Least
    <3>4. Exact(d, s, h, k, c.at + 1)
      BY <1>3, <1>4, <2>2, <3>1, <3>3 DEF Exact
    <3> QED BY <3>2, <3>4 DEF k
  <2> HIDE DEF d, w, p, h, s
  <2>4. Unread(d, s)
    BY <2>2 DEF ReadingAt, Unread, s
  <2>5. Reading(d, s, h, docs)
    BY <1>3, <1>4, <1>5, <1>7, <2>2, <2>3, <2>4 DEF Reading, ReadingAt
  <2>6. /\ p.cursor.current = None /\ p.result = "null"
        /\ Reading(p.cursor, o.sent, o.hard, docs)
        /\ ~tailable => Len(docs) >= PromisedBy(o.hard)
    BY <1>2, <2>2, <2>3, <2>5 DEF s, h
  <2>7. /\ p.cursor.current # Error /\ ~p.cursor.flag /\ p.sent = o.sent /\ p.hard = o.hard
        /\ p.cursor.started_iterating /\ p.cursor.connected
    BY <1>2, <1>3, <1>4, <1>5, <1>7, <2>2 DEF s, h
  <2> QED BY <1>9, <2>6, <2>7 DEF Yields, p
<1> QED BY <1>8, <1>9

\* Nobody throws when there is no error.
LEMMA NoError ==
  ASSUME NEW o, ~Thrown(o), o.cursor.current # Error, ~o.cursor.flag, NEW p \in HandleError(o)
  PROVE  p = o
BY DEF HandleError

-----------------------------------------------------------------------------
(* What the user sees of a call.                                           *)

Handed(p, before) ==
  IF p.result = "document" /\ p.cursor.current \in Document
  THEN Append(before, p.cursor.current) ELSE before

StoodAs(p, stood) ==
  IF Thrown(p) \/ p.cursor.current = Error \/ stood = "broken" THEN "broken"
  ELSE IF p.result = "document" THEN "open"
  ELSE IF p.result \in {"null", "false"} THEN "ended" ELSE stood

\* A call with outcome p tells what it should, and a document it hands out is
\* the one that the user waits for.
Follows(p, before, stood) ==
  /\ Tells(p, Handed(p, before), StoodAs(p, stood))
  /\ p.result = "document" /\ p.cursor.current # Error =>
       /\ stood \in {"open", "ended"} /\ p.cursor.current \in Document
       /\ p.cursor.current > Last(before) /\ p.cursor.current <= total
       /\ ~tailable => p.cursor.current = Last(before) + 1

\* Nothing comes after an exception, nor when an iteration has broken off.
LEMMA BrokenFollows ==
  ASSUME NEW p, NEW before, NEW stood, Thrown(p) \/ stood = "broken",
         p.result # "document" \/ p.cursor.current = Error,
         p.cursor.started_iterating =>
           p.cursor.dead \/ (p.cursor.connected /\ Barren(p.cursor))
  PROVE  Follows(p, before, stood)
<1>1. StoodAs(p, stood) = "broken"
  BY DEF StoodAs
<1>2. ~(p.result = "document" /\ p.cursor.current \in Document)
  BY DEF Error, Document
<1> QED BY <1>1, <1>2 DEF Follows, Tells

\* A call that loads hands out the document, or reports the end.
LEMMA YieldsFollows ==
  ASSUME NEW o, NEW p, NEW docs, Yields(o, p, docs), NEW stood \in {"open", "ended"}
  PROVE  Follows(p, docs, stood)
<1> DEFINE c == o.cursor
<1> DEFINE d == p.cursor
<1> DEFINE n == o.sent - Len(c.buf) + 1
<1>1. /\ d.current # Error /\ p.sent = o.sent /\ p.hard = o.hard
      /\ d.started_iterating /\ d.connected
  BY DEF Yields
<1>2. CASE c.at < c.num
  <2>1. /\ p.result = "document" /\ d.current = n /\ n \in Document
        /\ n > Last(docs) /\ n <= total /\ (~tailable => n = Last(docs) + 1)
        /\ Reading(d, p.sent, p.hard, Append(docs, n))
        /\ ~tailable => Upcoming(d) <= d.num
    BY <1>1, <1>2 DEF Yields
  <2> HIDE DEF n
  <2>2. Handed(p, docs) = Append(docs, n) /\ StoodAs(p, stood) = "open"
    BY <1>1, <2>1 DEF Handed, StoodAs, Thrown
  <2>3. Tells(p, Append(docs, n), "open")
    BY <1>1, <2>1 DEF Tells
  <2> QED BY <2>1, <2>2, <2>3 DEF Follows
<1>3. CASE ~(c.at < c.num)
  <2>1. /\ p.result = "null" /\ Reading(d, p.sent, p.hard, docs)
        /\ ~tailable => Len(docs) >= PromisedBy(p.hard)
    BY <1>1, <1>3 DEF Yields
  <2>2. Handed(p, docs) = docs /\ StoodAs(p, stood) = "ended"
    BY <1>1, <2>1 DEF Handed, StoodAs, Thrown
  <2>3. Tells(p, docs, "ended")
    BY <1>1, <2>1 DEF Tells
  <2> QED BY <2>1, <2>2, <2>3 DEF Follows
<1> QED BY <1>2, <1>3

\* The documents of a get_more are read from where it was sent.
LEMMA MoreToRead ==
  ASSUME TypeOK, NEW c, GoodCursor(c), NEW docs \in Seq(Document), NEW at \in Nat,
         ~tailable => at = c.num /\ c.at <= at,
         Last(docs) <= sent, limit # 0 /\ limit <= 1 => hard, ~c.dont_advance,
         ~tailable => docs = Numbered(0, Len(docs)) /\ c.num = sent /\ Len(docs) = sent,
         NEW g \in OutcomeTypes, NEW k, More(c, g, k),
         g.cursor.at = c.at, g.cursor.dont_advance = c.dont_advance
  PROVE  ReadingAt(g.cursor, g.sent, g.hard, docs, at)
<1> DEFINE d == g.cursor
<1>1. /\ k \in Nat /\ d.num = c.num + k /\ d.buf = Numbered(sent, k) /\ ~d.flag
      /\ g.sent = sent + k /\ g.sent <= total /\ (hard => g.hard)
      /\ k = 0 /\ d.open => tailable
      /\ ~d.open /\ ~g.hard => g.sent = total
  BY DEF More
<1>2. /\ sent \in Nat /\ total \in Nat /\ total <= MaxDocuments /\ MaxDocuments \in Nat
      /\ c.num \in Nat /\ c.at \in Nat /\ Len(c.buf) \in Nat
  BY LengthIsNumber, ParameterAssumption DEF TypeOK, GoodCursor, CursorState
<1>3. Last(docs) \in Nat /\ Len(docs) \in Nat
  BY LastOf
<1> HIDE DEF d
<1>4. Len(d.buf) = k
  <2>1. sent + k <= MaxDocuments
    BY <1>1, <1>2
  <2> QED BY <1>1, <1>2, <2>1, NumberedType
<1>5. Unread(d, g.sent)
  <2>1. g.sent - k = sent /\ k <= g.sent
    BY <1>1, <1>2
  <2> QED BY <1>1, <1>4, <2>1 DEF Unread
<1>6. Last(docs) + Len(d.buf) <= g.sent
  BY <1>1, <1>2, <1>3, <1>4
<1>7. ~tailable => docs = Numbered(0, Len(docs)) /\ Exact(d, g.sent, g.hard, Len(docs), at)
  <2> SUFFICES ASSUME ~tailable
               PROVE  docs = Numbered(0, Len(docs)) /\ Exact(d, g.sent, g.hard, Len(docs), at)
    OBVIOUS
  <2> DEFINE m == Len(docs)
  <2>1. docs = Numbered(0, m) /\ at = c.num
    OBVIOUS
  <2>2. c.num = sent /\ m = c.num
    OBVIOUS
  <2> HIDE DEF m
  <2>3. d.num = g.sent /\ m = Least(at, d.num) /\ Len(d.buf) = g.sent - m
    BY <1>1, <1>2, <1>4, <2>2 DEF Least
  <2>4. d.at >= d.num => ~d.open
    <3>1. d.at >= d.num => k = 0
      BY <1>1, <1>2 DEF d
    <3> QED BY <1>1, <3>1
  <2>5. ~d.open => Spent(g.sent, g.hard, m)
    BY <1>1 DEF Spent
  <2> QED BY <2>1, <2>3, <2>4, <2>5 DEF Exact, m
<1>8. limit # 0 /\ limit <= 1 => g.hard
  BY <1>1
<1>9. ~d.dont_advance
  BY DEF d
<1> QED BY <1>1, <1>5, <1>6, <1>7, <1>8, <1>9 DEF ReadingAt, d

-----------------------------------------------------------------------------
(* next().                                                                 *)

\* What Faithful says of a cursor that can be called.
LEMMA FaithfulFields ==
  ASSUME Invariant, Faithful
  PROVE  /\ cursor.started_iterating => cursor.dead \/ cursor.connected
         /\ phase = "new" => ~cursor.started_iterating
         /\ phase = "broken" /\ cursor.started_iterating => cursor.dead \/ Barren(cursor)
         /\ phase \in {"open", "ended"} =>
              \/ cursor.dead \/ Reading(cursor, sent, hard, delivered)
              \/ phase = "open" /\ Failing(cursor, delivered)
         /\ phase = "open" /\ ~tailable /\ ~cursor.dead => Upcoming(cursor) <= cursor.num
         /\ phase = "ended" /\ ~tailable => Len(delivered) >= PromisedBy(hard)
         /\ phase \in {"new", "open", "ended", "broken"}
         /\ TypeOK /\ delivered \in Seq(Document) /\ hard \in BOOLEAN
<1>1. /\ Now.cursor = cursor /\ Now.sent = sent /\ Now.hard = hard
  BY DEF Now, Outcome
<1> QED BY <1>1 DEF Faithful, Tells, Invariant, TypeOK

\* next() on a cursor whose iteration has broken off.
LEMMA NextOnBarren ==
  ASSUME Invariant, Barren(cursor), cursor.connected, cursor.started_iterating, NEW p \in NextOutcomes
  PROVE  /\ p.result # "document" /\ p.cursor.connected /\ Barren(p.cursor)
<1> DEFINE c == Advance(cursor)
<1> DEFINE o == Outcome(c, sent, "none")
<1> DEFINE d == Load(c)
<1>1. /\ GoodCursor(cursor) /\ cursor.buf = <<>> /\ ~cursor.open /\ cursor.num <= Upcoming(cursor)
  BY NowFields DEF Barren
<1>2. /\ GoodCursor(c) /\ c.at = Upcoming(cursor) /\ c.num = cursor.num /\ c.buf = cursor.buf
      /\ ~c.dont_advance /\ ~c.open /\ c.connected
  BY <1>1, AdvanceGood
<1>3. p \in HandleError(Loaded(o))
  BY <1>2 DEF NextOutcomes
<1> HIDE DEF c
<1>4. c.at \in Nat /\ c.num \in Nat /\ c.at >= c.num
  BY <1>1, <1>2 DEF GoodCursor, CursorState
<1>5. /\ d.at = c.at /\ d.num = c.num /\ ~d.dont_advance /\ d.current = None /\ d.buf = <<>>
  BY <1>1, <1>2, <1>4, LoadGood
<1>6. ~d.open /\ d.connected
  BY <1>2, LoadFields
<1>7. Barren(d)
  BY <1>4, <1>5, <1>6 DEF Barren, Upcoming
<1> HIDE DEF d
<1> DEFINE l == Exchanged(d, sent, "null", hard, in_step)
<1>8. Loaded(o) = l
  <2>1. o = Exchanged(c, sent, "none", hard, in_step)
    BY DEF Outcome, Exchanged
  <2> HIDE DEF o
  <2>2. o.cursor = c /\ ~Thrown(o)
    BY <2>1 DEF Exchanged, Thrown
  <2>3. Loaded(o) = [o EXCEPT !.cursor = d, !.result = "null"]
    BY <1>5, <2>2 DEF Loaded, d
  <2> QED BY <2>1, <2>3 DEF Exchanged
<1>9. None # Error
  BY ParameterAssumption DEF Error
<1>10. p \in HandleError(l)
  BY <1>3, <1>8
<1>11. /\ l.cursor = d /\ l.result = "null"
  BY DEF Exchanged
<1> HIDE DEF l
<1>12. p = l \/ p = [l EXCEPT !.result = "exception"]
  BY <1>5, <1>9, <1>10, <1>11 DEF HandleError, Thrown
<1>13. p.cursor = d /\ p.result \in {"null", "exception"}
  <2>1. CASE p = l
    BY <1>11, <2>1
  <2>2. CASE p = [l EXCEPT !.result = "exception"]
    <3>1. l = Exchanged(d, sent, "null", hard, in_step)
      BY DEF l
    <3>2. p = Exchanged(d, sent, "exception", hard, in_step)
      BY <2>2, <3>1 DEF Exchanged
    <3> QED BY <3>2 DEF Exchanged
  <2> QED BY <1>12, <2>1, <2>2
<1> QED BY <1>6, <1>7, <1>13

\* The error document of a query that failed is loaded, and found.
LEMMA ErrorLoaded ==
  ASSUME NEW o \in OutcomeTypes, GoodCursor(o.cursor), ~Thrown(o), o.cursor.at = 0, o.cursor.num = 1,
         o.cursor.buf = <<Error>>, ~o.cursor.dont_advance, ~o.cursor.open, o.cursor.connected
  PROVE  LET l == Loaded(o) IN
         /\ l.result = "document" /\ l.cursor.current = Error
         /\ l.cursor.connected /\ Barren(l.cursor)
         /\ \A p \in HandleError(l) :
              Thrown(p) /\ (p.cursor.dead \/ (p.cursor.connected /\ Barren(p.cursor)))
<1> DEFINE c == o.cursor
<1> DEFINE d == Load(c)
<1>1. <<Error>> # <<>> /\ Head(<<Error>>) = Error /\ Tail(<<Error>>) = <<>> /\ 0 < 1
  OBVIOUS
<1>2. GoodCursor(d) /\ d.at = 0 /\ d.num = 1 /\ ~d.dont_advance
  BY LoadGood
<1>3. ~d.open /\ d.connected /\ d.current = Error /\ d.buf = <<>>
  BY <1>1, LoadFields
<1>4. None # Error
  BY ParameterAssumption DEF Error
<1> HIDE DEF d
<1> DEFINE l == Exchanged(d, o.sent, "document", o.hard, o.in_step)
<1>5. Loaded(o) = l
  <2>1. o = Exchanged(c, o.sent, o.result, o.hard, o.in_step)
    BY DEF OutcomeTypes, Exchanged
  <2>2. Loaded(o) = [o EXCEPT !.cursor = d, !.result = "document"]
    BY <1>3, <1>4 DEF Loaded, d
  <2> QED BY <2>1, <2>2 DEF Exchanged
<1>6. l.cursor = d /\ l.result = "document" /\ ~Thrown(l)
  BY DEF Exchanged, Thrown
<1>7. Barren(d)
  BY <1>2, <1>3 DEF Barren, Upcoming
<1> DEFINE e == [d EXCEPT !.current = None]
<1>8. /\ GoodCursor(e) /\ e.at = 0 /\ e.num = 1 /\ ~e.dont_advance /\ ~e.open /\ e.connected
      /\ e.buf = <<>>
  BY <1>2, <1>3 DEF GoodCursor, CursorState
<1> DEFINE thrown == Exchanged(e, o.sent, "exception", o.hard, o.in_step)
<1>9. [l EXCEPT !.result = "exception", !.cursor.current = None] = thrown
  <2>1. l = Exchanged(d, o.sent, "document", o.hard, o.in_step)
    OBVIOUS
  <2> HIDE DEF l
  <2>2. l.cursor = d
    BY <1>6
  <2>3. [l EXCEPT !.result = "exception", !.cursor.current = None]
          = [[l EXCEPT !.result = "exception"] EXCEPT !.cursor = e]
    BY <2>1 DEF Exchanged
  <2> HIDE DEF e
  <2> DEFINE y == [l EXCEPT !.result = "exception"]
  <2>4. y = Exchanged(d, o.sent, "exception", o.hard, o.in_step)
    BY <2>1 DEF Exchanged
  <2> HIDE DEF y
  <2>5. [y EXCEPT !.cursor = e] = thrown
    BY <2>4 DEF Exchanged
  <2> QED BY <2>3, <2>5 DEF y
<1> HIDE DEF l, e, thrown
<1>10. ASSUME NEW p \in HandleError(l)
       PROVE  Thrown(p) /\ (p.cursor.dead \/ (p.cursor.connected /\ Barren(p.cursor)))
  <2>1. p = thrown \/ p = [thrown EXCEPT !.cursor = Failed(@)]
    BY <1>3, <1>6, <1>9 DEF HandleError
  <2>2. CASE p = thrown
    <3>1. Thrown(p) /\ p.cursor = e
      BY <2>2 DEF thrown, Exchanged, Thrown
    <3>2. Barren(e)
      BY <1>8 DEF Barren, Upcoming
    <3> QED BY <1>8, <3>1, <3>2
  <2>3. CASE p = [thrown EXCEPT !.cursor = Failed(@)]
    <3> DEFINE f == Failed(e)
    <3>1. GoodCursor(f) /\ f.dead
      BY <1>8, FailedGood
    <3>2. thrown = Exchanged(e, o.sent, "exception", o.hard, o.in_step)
      BY DEF thrown
    <3> HIDE DEF f
    <3>3. p = [thrown EXCEPT !.cursor = f]
      BY <2>3, <3>2 DEF Exchanged, f
    <3>4. p = Exchanged(f, o.sent, "exception", o.hard, o.in_step)
      BY <3>2, <3>3 DEF Exchanged
    <3>5. Thrown(p) /\ p.cursor = f
      BY <3>4 DEF Exchanged, Thrown
    <3> QED BY <3>1, <3>5
  <2> QED BY <2>1, <2>2, <2>3
<1> QED BY <1>3, <1>5, <1>6, <1>7, <1>10

\* next() after hasNext() has run a query that failed.
LEMMA NextOnFailing ==
  ASSUME Invariant, Failing(cursor, delivered), cursor.connected, cursor.started_iterating,
         NEW p \in NextOutcomes
  PROVE  /\ Thrown(p) /\ (p.cursor.dead \/ (p.cursor.connected /\ Barren(p.cursor)))
<1> DEFINE c == Advance(cursor)
<1> DEFINE o == Outcome(c, sent, "none")
<1>1. /\ GoodCursor(cursor) /\ cursor.buf = <<Error>> /\ ~cursor.open /\ cursor.dont_advance
      /\ cursor.at = 0 /\ cursor.num = 1 /\ TypeOK /\ sent \in 0..total
  BY NowFields DEF Failing, Invariant
<1>2. /\ GoodCursor(c) /\ c.at = 0 /\ c.num = 1 /\ c.buf = <<Error>>
      /\ ~c.dont_advance /\ ~c.open /\ c.connected
  BY <1>1, AdvanceGood DEF Upcoming
<1>3. p \in HandleError(Loaded(o))
  BY <1>2 DEF NextOutcomes
<1> HIDE DEF c
<1>4. GoodOutcome(o) /\ o.cursor = c /\ o.result = "none"
  BY <1>1, <1>2, PlainOutcomeGood DEF Results
<1> HIDE DEF o
<1>5. o \in OutcomeTypes /\ ~Thrown(o)
  BY <1>4 DEF GoodOutcome, Thrown
<1> QED BY <1>2, <1>3, <1>4, <1>5, ErrorLoaded

\* next() in the middle of an iteration: it loads, or closes at the limit, or
\* asks for more and then loads.
LEMMA NextOnReading ==
  ASSUME Invariant, Reading(cursor, sent, hard, delivered), cursor.connected, ~cursor.dead,
         cursor.started_iterating, NEW stood \in {"open", "ended"}, NEW p \in NextOutcomes
  PROVE  Follows(p, delivered, stood)
<1> DEFINE c == Advance(cursor)
<1> DEFINE docs == delivered
<1>1. /\ TypeOK /\ GoodCursor(cursor) /\ delivered \in Seq(Document) /\ Counted(cursor, Len(delivered))
      /\ cursor.num \in Nat /\ cursor.at \in Nat /\ sent \in 0..total /\ Limited(cursor, in_step)
      /\ Holds(cursor, Upcoming(cursor)) /\ limit \in Int /\ hard \in BOOLEAN
  BY NowFields DEF Invariant, TypeOK
<1>2. /\ GoodCursor(c) /\ c.at = Upcoming(cursor) /\ c.num = cursor.num /\ c.buf = cursor.buf
      /\ c.started_iterating /\ ~c.dont_advance /\ ~c.dead /\ c.open = cursor.open /\ c.connected
  BY <1>1, AdvanceGood
<1>3. c.flag = cursor.flag /\ c.current = None
  BY <1>1, AdvanceFields
<1>4. c.at \in Nat /\ c.num \in Nat
  BY <1>2 DEF GoodCursor, CursorState
<1>5. /\ Unread(cursor, sent) /\ Last(docs) + Len(cursor.buf) <= sent
      /\ ~cursor.flag /\ (limit # 0 /\ limit <= 1 => hard)
      /\ ~tailable => docs = Numbered(0, Len(docs)) /\ Exact(cursor, sent, hard, Len(docs), Upcoming(cursor))
  BY DEF Reading, ReadingAt
<1> DEFINE at_end == c.at = c.num /\ c.open
<1> DEFINE limit_reached == limit # 0 /\ c.at >= limit
<1>6. /\ ~at_end => p \in HandleError(Loaded(Outcome(c, sent, "none")))
      /\ at_end /\ limit_reached => p = Outcome([c EXCEPT !.open = FALSE], sent, "null")
      /\ at_end /\ ~limit_reached => \E o \in GetMore(c) : p \in HandleError(Loaded(o))
  BY DEF NextOutcomes
<1>7. ~tailable => (c.at > c.num => ~c.open)
  BY <1>1, <1>2, <1>5 DEF Exact, Upcoming
<1> HIDE DEF c
<1>8. Unread(c, sent) /\ Holds(c, c.at) /\ Counted(c, Len(docs)) /\ Limited(c, in_step)
  BY <1>1, <1>2, <1>5 DEF Unread, Holds, Counted, Limited
\* An outcome that loads without an error.
<1>9. ASSUME NEW o \in OutcomeTypes, GoodCursor(o.cursor), ~Thrown(o), o.cursor.started_iterating,
             o.cursor.connected, ~o.cursor.dont_advance,
             ReadingAt(o.cursor, o.sent, o.hard, docs, o.cursor.at), Holds(o.cursor, o.cursor.at),
             p \in HandleError(Loaded(o))
      PROVE  Follows(p, docs, stood)
  <2> DEFINE l == Loaded(o)
  <2>1. Yields(o, l, docs)
    BY <1>1, <1>9, LoadFrom
  <2> HIDE DEF l
  <2>2. l.cursor.current # Error /\ ~l.cursor.flag /\ l.result \in {"document", "null"}
    BY <2>1 DEF Yields
  <2>3. p = l
    <3>1. p \in HandleError(l) /\ ~Thrown(l)
      BY <1>9, <2>2 DEF l, Thrown
    <3> QED BY <2>2, <3>1, NoError
  <2> QED BY <2>1, <2>3, YieldsFollows
<1>10. CASE ~at_end
  <2> DEFINE o == Outcome(c, sent, "none")
  <2>1. /\ GoodOutcome(o) /\ o.cursor = c /\ o.result = "none" /\ o.sent = sent /\ o.hard = hard
    BY <1>1, <1>2, PlainOutcomeGood DEF Results
  <2>2. p \in HandleError(Loaded(o))
    BY <1>6, <1>10
  <2> HIDE DEF o
  <2>3. ~tailable => Exact(c, sent, hard, Len(docs), c.at)
    <3> SUFFICES ASSUME ~tailable PROVE Exact(c, sent, hard, Len(docs), c.at)
      OBVIOUS
    <3>1. c.at >= c.num => ~c.open
      BY <1>4, <1>7, <1>10
    <3> QED BY <1>2, <1>5, <3>1 DEF Exact
  <2>4. ReadingAt(c, sent, hard, docs, c.at)
    BY <1>2, <1>3, <1>5, <1>8, <2>3 DEF ReadingAt
  <2> QED BY <1>2, <1>8, <1>9, <2>1, <2>2, <2>4 DEF GoodOutcome, Thrown
<1>11. CASE at_end /\ limit_reached
  <2> DEFINE e == [c EXCEPT !.open = FALSE]
  <2>1. /\ GoodCursor(e) /\ e.at = c.at /\ e.num = c.num /\ e.buf = c.buf
        /\ e.started_iterating /\ ~e.dont_advance /\ ~e.dead /\ e.connected /\ ~e.open
        /\ e.flag = c.flag /\ e.current = c.current
    BY <1>2 DEF GoodCursor, CursorState
  <2>2. p = Outcome(e, sent, "null")
    BY <1>6, <1>11
  <2> HIDE DEF e
  <2>3. p.cursor = e /\ p.sent = sent /\ p.result = "null" /\ p.hard = hard
    BY <2>2 DEF Outcome
  <2>4. None # Error
    BY ParameterAssumption DEF Error
  <2>5. ASSUME ~tailable
        PROVE  Exact(e, sent, hard, Len(docs), c.at + 1) /\ Len(docs) >= PromisedBy(hard)
    <3> DEFINE k == Len(docs)
    <3>1. c.num = sent /\ k = Least(c.at, c.num) /\ Len(c.buf) = sent - k
      BY <1>2, <1>5, <2>5 DEF Exact
    <3>2. k = sent /\ k \in Nat /\ Least(c.at + 1, e.num) = k
      BY <1>4, <1>11, <2>1, <3>1 DEF Least
    <3> HIDE DEF k
    <3>3. Spent(k, hard, k)
      BY <1>1, <1>4, <1>5, <1>11, <3>1, <3>2 DEF Spent
    <3>4. k >= PromisedBy(hard)
      BY <1>1, <1>5, <2>5, <3>2, <3>3, SpentKeeps
    <3>5. Exact(e, sent, hard, k, c.at + 1)
      BY <2>1, <3>1, <3>2, <3>3 DEF Exact
    <3> QED BY <3>4, <3>5 DEF k
  <2>6. Upcoming(e) = c.at + 1 /\ Unread(e, sent) /\ Last(docs) + Len(e.buf) <= sent
    BY <1>2, <1>5, <1>8, <2>1 DEF Upcoming, Unread
  <2>7. Reading(e, sent, hard, docs)
    BY <1>3, <1>5, <2>1, <2>4, <2>5, <2>6 DEF Reading, ReadingAt
  <2>8. Tells(p, docs, "ended")
    BY <2>1, <2>3, <2>5, <2>7 DEF Tells
  <2>9. Handed(p, docs) = docs /\ StoodAs(p, stood) = "ended"
    BY <1>3, <2>1, <2>3, <2>4 DEF Handed, StoodAs, Thrown
  <2> QED BY <2>3, <2>8, <2>9 DEF Follows
<1>12. CASE at_end /\ ~limit_reached
  <2>1. PICK g \in GetMore(c) : p \in HandleError(Loaded(g))
    BY <1>6, <1>12
  <2>2. limit > 0 => c.at < limit
    BY <1>1, <1>4, <1>12
  <2>3. Continued(c, g)
    BY <1>1, <1>2, <1>8, <2>2, GetMoreGood
  <2>4. g \in OutcomeTypes /\ GoodCursor(g.cursor) /\ (g.cursor.dead \/ Holds(g.cursor, c.at))
    <3>1. g \in OutcomeTypes /\ GoodCursor(g.cursor)
      BY <2>3 DEF Continued, GoodOutcome
    <3>2. c.at >= c.num
      BY <1>4, <1>12
    <3> QED BY <1>2, <1>4, <1>8, <2>3, <3>1, <3>2, ContinuedHolds
  <2>5. Obtained(c, g)
    BY <1>1, <1>2, GetMoreBrings
  <2>6. CASE Thrown(g)
    <3>1. p = g
      BY <2>1, <2>6 DEF Loaded, HandleError
    <3>2. Thrown(p) /\ p.cursor.dead /\ p.result # "document"
      BY <2>5, <2>6, <3>1 DEF Obtained, Thrown
    <3> QED BY <3>2, BrokenFollows
  <2> DEFINE d == g.cursor
  <2>7. CASE ~Thrown(g) /\ d.num = c.num /\ d.buf = <<>> /\ ~d.open /\ d.flag
    <3>1. /\ g.result = "none" /\ d.connected /\ d.at = c.at /\ d.dont_advance = c.dont_advance
      BY <2>5, <2>7 DEF Obtained
    <3> DEFINE f == Load(d)
    <3>2. d.at >= d.num
      BY <1>4, <1>12, <2>7, <3>1
    <3>3. /\ f.at = d.at /\ f.num = d.num /\ f.dont_advance = d.dont_advance
          /\ f.current = None /\ f.buf = d.buf
      BY <2>4, <3>2, LoadGood
    <3>4. ~f.open /\ f.connected /\ f.flag
      BY <2>4, <2>7, <3>1, LoadFields
    <3>5. Barren(f)
      BY <1>2, <1>4, <1>12, <2>7, <3>1, <3>3, <3>4 DEF Barren, Upcoming
    <3> HIDE DEF f
    <3> DEFINE l == [g EXCEPT !.cursor = f, !.result = "null"]
    <3>6. Loaded(g) = l /\ l.cursor = f /\ l.result = "null"
      <4>1. Loaded(g) = l
        BY <2>7, <3>3 DEF Loaded, f
      <4> QED BY <2>4, <4>1 DEF OutcomeTypes
    <3>7. l \in [cursor : {f}, sent : 0..total, result : {"null"}, hard : BOOLEAN, in_step : BOOLEAN]
      BY <2>4 DEF OutcomeTypes
    <3> HIDE DEF l
    <3>8. None # Error
      BY ParameterAssumption DEF Error
    <3>9. p = [l EXCEPT !.result = "exception"]
      BY <2>1, <3>3, <3>4, <3>6, <3>8 DEF HandleError, Thrown
    <3>10. Thrown(p) /\ p.cursor = f /\ p.result # "document"
      BY <3>7, <3>9 DEF Thrown
    <3> QED BY <3>4, <3>5, <3>10, BrokenFollows
  <2>8. ASSUME NEW k, ~Thrown(g), More(c, g, k)
        PROVE  Follows(p, docs, stood)
    <3>1. /\ g.result = "none" /\ d.connected /\ ~d.dead /\ d.at = c.at
          /\ d.dont_advance = c.dont_advance /\ d.started_iterating = c.started_iterating
      BY <2>5, <2>8 DEF Obtained
    <3>2. Last(docs) <= sent
      <4>1. Last(docs) \in Nat
        BY <1>1, LastOf
      <4>2. Len(cursor.buf) \in Nat
        BY <1>1, LengthIsNumber
      <4> QED BY <1>1, <1>5, <4>1, <4>2
    <3>3. ~tailable => docs = Numbered(0, Len(docs)) /\ c.num = sent /\ Len(docs) = sent
      BY <1>2, <1>4, <1>5, <1>12 DEF Exact, Least
    <3>4. ReadingAt(d, g.sent, g.hard, docs, c.at)
      <4> HIDE DEF d
      <4>1. c.at = c.num /\ c.at <= c.at
        BY <1>4, <1>12
      <4> QED BY <1>1, <1>2, <1>4, <1>5, <2>4, <2>8, <3>1, <3>2, <3>3, <4>1, MoreToRead DEF d
    <3>5. Holds(d, d.at)
      BY <2>4, <3>1
    <3> QED BY <1>2, <1>9, <2>1, <2>4, <2>8, <3>1, <3>4, <3>5
  <2> QED BY <2>5, <2>6, <2>7, <2>8 DEF Obtained
<1> QED BY <1>10, <1>11, <1>12


LEMMA NextFollows ==
  ASSUME Invariant, Faithful, ~cursor.dead, cursor.started_iterating, NEW p \in NextOutcomes
  PROVE  Follows(p, delivered, phase)
<1>1. cursor.connected /\ phase \in {"open", "ended", "broken"}
  BY FaithfulFields
<1>2. CASE phase = "broken"
  <2>1. Barren(cursor)
    BY <1>2, FaithfulFields
  <2> QED BY <1>1, <1>2, <2>1, NextOnBarren, BrokenFollows
<1>3. CASE phase \in {"open", "ended"} /\ Reading(cursor, sent, hard, delivered)
  BY <1>1, <1>3, NextOnReading
<1>4. CASE Failing(cursor, delivered)
  BY <1>1, <1>4, NextOnFailing, BrokenFollows DEF Thrown
<1> QED BY <1>1, <1>2, <1>3, <1>4, FaithfulFields

-----------------------------------------------------------------------------
(* hasNext().                                                              *)

Answered(p, q, w) == p = [q EXCEPT !.result = w]

LEMMA AnsweredFields ==
  ASSUME NEW q \in OutcomeTypes, NEW w, NEW p, Answered(p, q, w)
  PROVE  p.cursor = q.cursor /\ p.sent = q.sent /\ p.hard = q.hard /\ p.result = w
BY DEF Answered, OutcomeTypes

LEMMA AnswerFollows ==
  ASSUME NEW p, NEW docs, NEW ph \in {"open", "ended"}, NEW w \in {"true", "false"}, p.result = w,
         p.cursor.current # Error, Tells(p, docs, IF w = "true" THEN ph ELSE "ended")
  PROVE  Follows(p, docs, ph)
<1>1. Handed(p, docs) = docs /\ p.result # "document"
  BY DEF Handed
<1>2. StoodAs(p, ph) = IF w = "true" THEN ph ELSE "ended"
  BY DEF StoodAs, Thrown
<1> QED BY <1>1, <1>2 DEF Follows

AsksAgain(c) ==
  /\ c.connected /\ ~(c.dont_advance /\ c.at = c.num - 1)
  /\ ~((limit > 0 /\ c.at >= limit - 1) \/ c.num = 0)
  /\ ~(c.at < c.num - 1 \/ ~c.open)

LEMMA HasNextCases ==
  ASSUME NEW o, ~Thrown(o), NEW p \in HasNextFrom(o)
  PROVE  LET c == o.cursor
             last == c.dont_advance /\ c.at = c.num - 1
             end == (limit > 0 /\ c.at >= limit - 1) \/ c.num = 0
         IN
         /\ ~c.connected => Answered(p, o, "exception")
         /\ c.connected /\ last => Answered(p, o, "true")
         /\ c.connected /\ ~last /\ end => Answered(p, [o EXCEPT !.cursor.open = FALSE], "false")
         /\ c.connected /\ ~last /\ ~end /\ c.at < c.num - 1 => Answered(p, o, "true")
         /\ c.connected /\ ~last /\ ~end /\ ~(c.at < c.num - 1) /\ ~c.open => Answered(p, o, "false")
         /\ AsksAgain(c) =>
              \E g \in GetMore(c) : \E q \in HandleError(g) :
                IF Thrown(q) THEN p = q
                ELSE IF q.cursor.start # q.cursor.num /\ q.cursor.at < q.cursor.num - 1
                THEN Answered(p, q, "true") ELSE Answered(p, q, "false")
<1> DEFINE c == o.cursor
<1> DEFINE last == c.dont_advance /\ c.at = c.num - 1
<1> DEFINE end == (limit > 0 /\ c.at >= limit - 1) \/ c.num = 0
<1>1. CASE ~c.connected
  BY <1>1 DEF HasNextFrom, Answered, AsksAgain
<1>2. CASE c.connected /\ last
  BY <1>2 DEF HasNextFrom, Answered, AsksAgain
<1>3. CASE c.connected /\ ~last /\ end
  BY <1>3 DEF HasNextFrom, Answered, AsksAgain
<1>4. CASE c.connected /\ ~last /\ ~end /\ (c.at < c.num - 1 \/ ~c.open)
  BY <1>4 DEF HasNextFrom, Answered, AsksAgain
<1>5. CASE c.connected /\ ~last /\ ~end /\ ~(c.at < c.num - 1 \/ ~c.open)
  <2> DEFINE Asked(q) ==
        [q EXCEPT !.result = IF q.cursor.start # q.cursor.num /\ q.cursor.at < q.cursor.num - 1
                             THEN "true" ELSE "false"]
  <2>1. HasNextFrom(o) =
          {IF Thrown(q) THEN q ELSE Asked(q) : q \in UNION {HandleError(g) : g \in GetMore(c)}}
    BY <1>5 DEF HasNextFrom
  <2> HIDE DEF c
  <2>2. PICK q \in UNION {HandleError(g) : g \in GetMore(c)} : p = IF Thrown(q) THEN q ELSE Asked(q)
    BY <2>1
  <2>3. PICK g \in GetMore(c) : q \in HandleError(g)
    OBVIOUS
  <2>4. IF Thrown(q) THEN p = q
        ELSE IF q.cursor.start # q.cursor.num /\ q.cursor.at < q.cursor.num - 1
        THEN Answered(p, q, "true") ELSE Answered(p, q, "false")
    BY <2>2 DEF Answered
  <2>5. \E x \in GetMore(c) : \E y \in HandleError(x) :
          IF Thrown(y) THEN p = y
          ELSE IF y.cursor.start # y.cursor.num /\ y.cursor.at < y.cursor.num - 1
          THEN Answered(p, y, "true") ELSE Answered(p, y, "false")
    BY <2>3, <2>4
  <2> QED BY <1>5, <2>5 DEF c
<1> QED BY <1>1, <1>2, <1>3, <1>4, <1>5

\* The cursor of which hasNext() knows the answer tells it.
KnownAnswer(o, docs, ph) ==
  /\ Sound(o, Len(docs)) /\ Tells(o, docs, ph) /\ o.result = "none"
  /\ o.cursor.started_iterating

\* What hasNext() finds when the iteration has not broken off.
LEMMA HasNextFinds ==
  ASSUME TypeOK, NEW o, NEW docs \in Seq(Document), NEW ph \in {"open", "ended"},
         KnownAnswer(o, docs, ph), o.cursor.connected
  PROVE  LET c == o.cursor IN
         /\ o \in OutcomeTypes /\ GoodCursor(c) /\ ~c.dead /\ c.at \in Nat /\ c.num \in Nat
         /\ o.sent \in 0..total /\ o.sent \in Nat /\ o.hard \in BOOLEAN /\ Len(docs) \in Nat
         /\ c.current # Error /\ limit \in Int
         /\ \/ Reading(c, o.sent, o.hard, docs)
            \/ Failing(c, docs)
<1>1. /\ o \in OutcomeTypes /\ GoodCursor(o.cursor)
  BY DEF KnownAnswer, Sound, GoodOutcome
<1>2. /\ o.cursor.at \in Nat /\ o.cursor.num \in Nat /\ o.sent \in 0..total /\ o.hard \in BOOLEAN
      /\ o.sent \in Nat /\ Len(docs) \in Nat /\ limit \in Int /\ ~o.cursor.dead
  BY <1>1, ParameterAssumption DEF OutcomeTypes, GoodCursor, CursorState, TypeOK
<1>3. Reading(o.cursor, o.sent, o.hard, docs) \/ Failing(o.cursor, docs)
  BY <1>2 DEF KnownAnswer, Tells
<1>4. o.cursor.current # Error
  BY <1>3 DEF Reading, Failing
<1> QED BY <1>1, <1>2, <1>3, <1>4

\* hasNext() closes the cursor at the limit, or when there is nothing.
LEMMA HasNextCloses ==
  ASSUME TypeOK, NEW o, NEW docs \in Seq(Document), NEW ph \in {"open", "ended"},
         KnownAnswer(o, docs, ph), o.cursor.connected,
         ~(o.cursor.dont_advance /\ o.cursor.at = o.cursor.num - 1),
         (limit > 0 /\ o.cursor.at >= limit - 1) \/ o.cursor.num = 0,
         NEW p, Answered(p, [o EXCEPT !.cursor.open = FALSE], "false")
  PROVE  Follows(p, docs, ph)
<1> DEFINE c == o.cursor
<1> DEFINE s == o.sent
<1> DEFINE h == o.hard
<1> DEFINE e == [c EXCEPT !.open = FALSE]
<1>1. /\ o \in OutcomeTypes /\ GoodCursor(c) /\ ~c.dead /\ c.at \in Nat /\ c.num \in Nat
      /\ s \in 0..total /\ s \in Nat /\ h \in BOOLEAN /\ Len(docs) \in Nat
      /\ c.current # Error /\ limit \in Int
      /\ \/ Reading(c, s, h, docs)
         \/ Failing(c, docs)
  BY HasNextFinds
<1>2. Reading(c, s, h, docs)
  BY <1>1 DEF Failing
<1>3. /\ e.at = c.at /\ e.num = c.num /\ e.buf = c.buf /\ e.started_iterating /\ e.connected
      /\ ~e.open /\ e.flag = c.flag /\ e.current = c.current /\ e.dont_advance = c.dont_advance
  BY <1>1 DEF GoodCursor, CursorState, KnownAnswer
<1>4. p.cursor = e /\ p.sent = s /\ p.hard = h /\ p.result = "false"
  <2>1. p = [[o EXCEPT !.cursor.open = FALSE] EXCEPT !.result = "false"]
    BY DEF Answered
  <2>2. [o EXCEPT !.cursor.open = FALSE] = [o EXCEPT !.cursor = e]
    BY <1>1 DEF OutcomeTypes
  <2> HIDE DEF e
  <2> DEFINE y == [o EXCEPT !.cursor = e]
  <2>3. y = Exchanged(e, o.sent, o.result, o.hard, o.in_step)
    BY <1>1 DEF OutcomeTypes, Exchanged
  <2>4. p = [y EXCEPT !.result = "false"]
    BY <2>1, <2>2
  <2> HIDE DEF y
  <2> QED BY <2>3, <2>4 DEF Exchanged
<1> HIDE DEF e
<1>5. ASSUME ~tailable
      PROVE  Exact(e, s, h, Len(docs), Upcoming(e)) /\ Len(docs) >= PromisedBy(h)
  <2> DEFINE k == Len(docs)
  <2>1. /\ c.num = s /\ k = Least(Upcoming(c), c.num) /\ Len(c.buf) = s - k
        /\ c.at >= c.num => ~c.open
        /\ ~c.open => Spent(s, h, k)
        /\ c.dont_advance => c.at = 0
        /\ limit # 0 /\ limit <= 1 => h
    BY <1>2, <1>5 DEF Reading, ReadingAt, Exact
  <2>2. Upcoming(e) = Upcoming(c)
    BY <1>3 DEF Upcoming
  <2> HIDE DEF k
  <2>3. Spent(s, h, k) /\ k >= PromisedBy(h)
    <3>1. CASE c.at >= c.num
      <4>1. k = s /\ k \in Nat
        BY <1>1, <2>1, <3>1 DEF Least, Upcoming
      <4>2. Spent(k, h, k)
        BY <2>1, <3>1, <4>1
      <4> QED BY <1>1, <1>5, <2>1, <4>1, <4>2, SpentKeeps
    <3>2. CASE c.at < c.num /\ c.dont_advance
      <4>1. h
        BY <1>1, <2>1, <3>2
      <4>2. PromisedBy(h) = 0
        BY <4>1 DEF PromisedBy
      <4>3. k \in Nat
        BY <1>1 DEF k
      <4>4. k >= PromisedBy(h)
        BY <4>2, <4>3
      <4> QED BY <4>1, <4>4 DEF Spent
    <3>3. CASE c.at < c.num /\ ~c.dont_advance
      <4>1. k = c.at + 1 /\ limit > 0 /\ k >= limit
        BY <1>1, <2>1, <3>3 DEF Least, Upcoming
      <4>2. total \in Nat
        BY ParameterAssumption DEF TypeOK
      <4>3. PromisedBy(h) <= limit
        BY <1>1, <4>1, <4>2 DEF PromisedBy, Least
      <4>4. PromisedBy(h) \in Int
        BY <1>1, <4>2 DEF PromisedBy, Least
      <4> QED BY <1>1, <4>1, <4>3, <4>4 DEF Spent
    <3> QED BY <1>1, <3>1, <3>2, <3>3
  <2> QED BY <1>3, <2>1, <2>2, <2>3 DEF Exact, k
<1>6. Upcoming(e) = Upcoming(c) /\ Unread(e, s)
  BY <1>2, <1>3 DEF Upcoming, Reading, ReadingAt, Unread
<1>7. Reading(e, s, h, docs)
  BY <1>2, <1>3, <1>5, <1>6 DEF Reading, ReadingAt
<1>8. Tells(p, docs, "ended")
  BY <1>3, <1>4, <1>5, <1>7 DEF Tells
<1> QED BY <1>1, <1>3, <1>4, <1>8, AnswerFollows

\* hasNext() answers from the counters.
LEMMA HasNextKnows ==
  ASSUME TypeOK, NEW o, NEW docs \in Seq(Document), NEW ph \in {"open", "ended"},
         KnownAnswer(o, docs, ph), o.cursor.connected,
         NEW w \in {"true", "false"},
         w = "false" => /\ ~(o.cursor.dont_advance /\ o.cursor.at = o.cursor.num - 1)
                        /\ ~(o.cursor.at < o.cursor.num - 1) /\ ~o.cursor.open
                        /\ o.cursor.num # 0,
         NEW p, Answered(p, o, w)
  PROVE  Follows(p, docs, ph)
<1> DEFINE c == o.cursor
<1> DEFINE s == o.sent
<1> DEFINE h == o.hard
<1>1. /\ o \in OutcomeTypes /\ GoodCursor(c) /\ ~c.dead /\ c.at \in Nat /\ c.num \in Nat
      /\ s \in 0..total /\ s \in Nat /\ h \in BOOLEAN /\ Len(docs) \in Nat
      /\ c.current # Error /\ limit \in Int
      /\ \/ Reading(c, s, h, docs)
         \/ Failing(c, docs)
  BY HasNextFinds
<1>2. p.cursor = c /\ p.sent = s /\ p.hard = h /\ p.result = w
  BY <1>1, AnsweredFields
<1>3. CASE w = "true"
  <2>1. Tells(p, docs, ph)
    BY <1>2 DEF KnownAnswer, Tells
  <2> QED BY <1>1, <1>2, <1>3, <2>1, AnswerFollows
<1>4. CASE w = "false"
  <2>1. Reading(c, s, h, docs)
    BY <1>1, <1>4 DEF Failing
  <2>2. ASSUME ~tailable PROVE Len(docs) >= PromisedBy(h)
    <3> DEFINE k == Len(docs)
    <3>1. /\ c.num = s /\ k = Least(Upcoming(c), c.num) /\ ~c.open
          /\ ~c.open => Spent(s, h, k)
          /\ c.dont_advance => c.at = 0
          /\ limit # 0 /\ limit <= 1 => h
      BY <1>4, <2>1, <2>2 DEF Reading, ReadingAt, Exact
    <3> HIDE DEF k
    <3>2. k = s /\ k \in Nat
      BY <1>1, <1>4, <3>1 DEF Least, Upcoming
    <3>3. Spent(k, h, k)
      BY <3>1, <3>2
    <3> QED BY <1>1, <2>2, <3>1, <3>2, <3>3, SpentKeeps DEF k
  <2>3. Tells(p, docs, "ended")
    BY <1>1, <1>2, <2>1, <2>2 DEF Tells, KnownAnswer
  <2> QED BY <1>1, <1>2, <1>4, <2>3, AnswerFollows
<1> QED BY <1>3, <1>4

\* hasNext() asks for more documents.
LEMMA HasNextAsks ==
  ASSUME TypeOK, NEW o, NEW docs \in Seq(Document), NEW ph \in {"open", "ended"},
         KnownAnswer(o, docs, ph), AsksAgain(o.cursor),
         o.cursor.dont_advance \/ (o.sent = sent /\ o.hard = hard /\ o.in_step = in_step),
         NEW g \in GetMore(o.cursor), NEW q \in HandleError(g), NEW p,
         IF Thrown(q) THEN p = q
         ELSE IF q.cursor.start # q.cursor.num /\ q.cursor.at < q.cursor.num - 1
         THEN Answered(p, q, "true") ELSE Answered(p, q, "false")
  PROVE  Follows(p, docs, ph)
<1> DEFINE c == o.cursor
<1> DEFINE d == g.cursor
<1>1. /\ c.connected /\ ~(c.dont_advance /\ c.at = c.num - 1)
      /\ ~(limit > 0 /\ c.at >= limit - 1) /\ c.num # 0
      /\ ~(c.at < c.num - 1) /\ c.open
  BY DEF AsksAgain
<1>2. /\ o \in OutcomeTypes /\ GoodCursor(c) /\ ~c.dead /\ c.at \in Nat /\ c.num \in Nat
      /\ o.sent \in 0..total /\ o.sent \in Nat /\ o.hard \in BOOLEAN /\ Len(docs) \in Nat
      /\ c.current # Error /\ limit \in Int
      /\ \/ Reading(c, o.sent, o.hard, docs)
         \/ Failing(c, docs)
  BY <1>1, HasNextFinds
<1>3. Reading(c, o.sent, o.hard, docs)
  BY <1>1, <1>2 DEF Failing
<1>4. ~c.dont_advance
  BY <1>1, <1>2, <1>3 DEF Reading, ReadingAt
<1>5. /\ o.sent = sent /\ o.hard = hard /\ o.in_step = in_step /\ c.started_iterating
      /\ Limited(c, in_step)
  BY <1>4 DEF KnownAnswer, Sound
<1>6. limit > 0 => c.at < limit
  BY <1>1, <1>2
<1>7. Continued(c, g)
  BY <1>1, <1>2, <1>5, <1>6, GetMoreGood
<1>8. g \in OutcomeTypes /\ GoodCursor(d)
  BY <1>7 DEF Continued, GoodOutcome
<1>9. Obtained(c, g)
  BY <1>1, <1>2, GetMoreBrings
<1>10. CASE Thrown(g)
  <2>1. p = g
    BY <1>10 DEF HandleError
  <2>2. Thrown(p) /\ p.cursor.dead /\ p.result # "document"
    BY <1>9, <1>10, <2>1 DEF Obtained, Thrown
  <2> QED BY <2>2, BrokenFollows
<1>11. ASSUME ~Thrown(g)
       PROVE  /\ g.result = "none" /\ d.connected /\ d.at = c.at /\ d.dont_advance = c.dont_advance
              /\ d.started_iterating /\ d.current = c.current
  BY <1>5, <1>9, <1>11 DEF Obtained
<1>12. CASE ~Thrown(g) /\ d.num = c.num /\ d.buf = <<>> /\ ~d.open /\ d.flag
  <2>1. q = [g EXCEPT !.result = "exception"]
    BY <1>2, <1>11, <1>12 DEF HandleError
  <2>2. Thrown(q) /\ q.cursor = d
    BY <1>8, <2>1 DEF Thrown, OutcomeTypes
  <2>3. Barren(d)
    BY <1>1, <1>2, <1>4, <1>11, <1>12 DEF Barren, Upcoming
  <2>4. p = q
    BY <2>2
  <2> QED BY <1>11, <1>12, <2>2, <2>3, <2>4, BrokenFollows DEF Thrown
<1>13. ASSUME NEW k, ~Thrown(g), More(c, g, k)
       PROVE  Follows(p, docs, ph)
  <2>1. q = g
    BY <1>2, <1>11, <1>13, NoError DEF More
  <2> DEFINE more == d.start # d.num /\ d.at < d.num - 1
  <2>2. /\ more => Answered(p, g, "true")
        /\ ~more => Answered(p, g, "false")
    BY <1>13, <2>1
  <2> DEFINE w == IF more THEN "true" ELSE "false"
  <2>3. Answered(p, g, w)
    BY <2>2
  <2>4. p.cursor = d /\ p.sent = g.sent /\ p.hard = g.hard /\ p.result = w
    <3> HIDE DEF w
    <3> QED BY <1>8, <2>3, AnsweredFields
  <2>5. /\ k \in Nat /\ d.num = c.num + k /\ d.start = sent /\ g.sent = sent + k /\ sent \in Nat
        /\ (hard => g.hard) /\ g.hard \in BOOLEAN
    BY <1>2, <1>5, <1>8, <1>13 DEF More, OutcomeTypes
  <2>6. /\ Last(docs) + Len(c.buf) <= sent /\ (limit # 0 /\ limit <= 1 => hard)
        /\ ~tailable => docs = Numbered(0, Len(docs)) /\ Exact(c, sent, hard, Len(docs), Upcoming(c))
    BY <1>3, <1>5 DEF Reading, ReadingAt
  <2>7. Upcoming(c) = c.at + 1 /\ Upcoming(d) = c.at + 1
    BY <1>4, <1>11, <1>13 DEF Upcoming
  <2>8. Last(docs) <= sent
    <3>1. Last(docs) \in Nat /\ Len(c.buf) \in Nat
      BY <1>2, LastOf, LengthIsNumber
    <3> QED BY <2>5, <2>6, <3>1
  <2>9. ~tailable => c.num = sent /\ Len(docs) = sent /\ c.at + 1 = c.num
    BY <1>1, <1>2, <2>6, <2>7 DEF Exact, Least
  <2>10. ReadingAt(d, g.sent, g.hard, docs, c.at + 1)
    <3> DEFINE at == c.at + 1
    <3>1. at \in Nat /\ c.at <= at /\ (~tailable => at = c.num)
      BY <1>2, <2>9
    <3> HIDE DEF at, d
    <3> QED BY <1>2, <1>4, <1>8, <1>11, <1>13, <2>6, <2>8, <2>9, <3>1, MoreToRead DEF at, d
  <2>11. Reading(d, g.sent, g.hard, docs)
    BY <1>2, <1>11, <1>13, <2>7, <2>10 DEF Reading
  <2>12. CASE more
    <3>1. Upcoming(d) <= d.num
      BY <1>2, <1>11, <1>13, <2>5, <2>7, <2>12
    <3>2. ph = "ended" /\ ~tailable => Len(docs) >= PromisedBy(g.hard)
      <4>1. ph = "ended" /\ ~tailable => Len(docs) >= PromisedBy(hard)
        BY <1>5 DEF KnownAnswer, Tells
      <4> QED BY <1>2, <2>5, <4>1 DEF PromisedBy
    <3>3. Tells(p, docs, ph)
      BY <1>11, <1>13, <2>4, <2>11, <3>1, <3>2 DEF Tells
    <3> QED BY <1>2, <1>11, <1>13, <2>4, <2>12, <3>3, AnswerFollows
  <2>13. CASE ~more
    <3>1. ASSUME ~tailable PROVE Len(docs) >= PromisedBy(g.hard)
      <4> DEFINE m == Len(docs)
      <4>1. k = 0
        BY <1>2, <1>11, <1>13, <2>5, <2>9, <2>13, <3>1
      <4>2. /\ g.sent = sent /\ m = sent /\ m \in Nat /\ d.at = c.at /\ d.num = c.num
        BY <1>2, <1>11, <1>13, <2>5, <2>9, <3>1, <4>1
      <4>3. ~d.open
        BY <1>13, <3>1, <4>1 DEF More
      <4>4. Spent(m, g.hard, m)
        BY <2>10, <3>1, <4>2, <4>3 DEF ReadingAt, Exact
      <4>5. limit # 0 /\ limit <= 1 => g.hard
        BY <2>5, <2>6
      <4> HIDE DEF m
      <4> QED BY <2>5, <3>1, <4>2, <4>4, <4>5, SpentKeeps DEF m
    <3>2. Tells(p, docs, "ended")
      BY <1>11, <1>13, <2>4, <2>11, <3>1 DEF Tells
    <3> QED BY <1>2, <1>11, <1>13, <2>4, <2>13, <3>2, AnswerFollows
  <2> QED BY <2>12, <2>13
<1> QED BY <1>9, <1>10, <1>12, <1>13 DEF Obtained

\* hasNext(), whatever it finds.
LEMMA HasNextFollows ==
  ASSUME TypeOK, NEW o, NEW docs \in Seq(Document), NEW ph \in {"open", "ended", "broken"},
         KnownAnswer(o, docs, ph),
         o.cursor.dont_advance \/ (o.sent = sent /\ o.hard = hard /\ o.in_step = in_step),
         NEW p \in HasNextFrom(o)
  PROVE  Follows(p, docs, ph)
<1> DEFINE c == o.cursor
<1>1. /\ o \in OutcomeTypes /\ GoodCursor(c) /\ ~Thrown(o) /\ c.started_iterating
      /\ c.dead \/ c.connected
  BY DEF KnownAnswer, Sound, GoodOutcome, Thrown, Tells
<1> DEFINE last == c.dont_advance /\ c.at = c.num - 1
<1> DEFINE end == (limit > 0 /\ c.at >= limit - 1) \/ c.num = 0
<1>2. /\ ~c.connected => Answered(p, o, "exception")
      /\ c.connected /\ last => Answered(p, o, "true")
      /\ c.connected /\ ~last /\ end => Answered(p, [o EXCEPT !.cursor.open = FALSE], "false")
      /\ c.connected /\ ~last /\ ~end /\ c.at < c.num - 1 => Answered(p, o, "true")
      /\ c.connected /\ ~last /\ ~end /\ ~(c.at < c.num - 1) /\ ~c.open => Answered(p, o, "false")
      /\ AsksAgain(c) =>
           \E g \in GetMore(c) : \E q \in HandleError(g) :
             IF Thrown(q) THEN p = q
             ELSE IF q.cursor.start # q.cursor.num /\ q.cursor.at < q.cursor.num - 1
             THEN Answered(p, q, "true") ELSE Answered(p, q, "false")
  BY <1>1, HasNextCases
<1>3. CASE ~c.connected
  <2>1. p.cursor = c /\ p.result = "exception"
    BY <1>1, <1>2, <1>3, AnsweredFields
  <2> QED BY <1>1, <1>3, <2>1, BrokenFollows DEF Thrown
<1>4. CASE c.connected /\ ph \in {"open", "ended"}
  <2>1. CASE last
    BY <1>2, <1>4, <2>1, HasNextKnows
  <2>2. CASE ~last /\ end
    BY <1>2, <1>4, <2>2, HasNextCloses
  <2>3. CASE ~last /\ ~end /\ c.at < c.num - 1
    BY <1>2, <1>4, <2>3, HasNextKnows
  <2>4. CASE ~last /\ ~end /\ ~(c.at < c.num - 1) /\ ~c.open
    BY <1>2, <1>4, <2>4, HasNextKnows
  <2>5. CASE ~last /\ ~end /\ ~(c.at < c.num - 1) /\ c.open
    <3>1. AsksAgain(c)
      BY <1>4, <2>5 DEF AsksAgain
    <3>2. PICK g \in GetMore(c) : \E q \in HandleError(g) :
            IF Thrown(q) THEN p = q
            ELSE IF q.cursor.start # q.cursor.num /\ q.cursor.at < q.cursor.num - 1
            THEN Answered(p, q, "true") ELSE Answered(p, q, "false")
      BY <1>2, <3>1
    <3>3. PICK q \in HandleError(g) :
            IF Thrown(q) THEN p = q
            ELSE IF q.cursor.start # q.cursor.num /\ q.cursor.at < q.cursor.num - 1
            THEN Answered(p, q, "true") ELSE Answered(p, q, "false")
      BY <3>2
    <3> QED BY <1>4, <3>1, <3>3, HasNextAsks
  <2> QED BY <2>1, <2>2, <2>3, <2>4, <2>5
<1>5. CASE c.connected /\ ph = "broken"
  <2>1. Barren(c)
    BY <1>1, <1>5 DEF KnownAnswer, Tells, GoodCursor
  <2>2. ASSUME NEW w \in {"true", "false"}, Answered(p, o, w) PROVE Follows(p, docs, ph)
    <3>1. p.cursor = c /\ p.result = w
      BY <1>1, <2>2, AnsweredFields
    <3> QED BY <1>5, <2>1, <3>1, BrokenFollows
  <2>3. CASE ~last /\ end
    <3> DEFINE e == [c EXCEPT !.open = FALSE]
    <3>1. /\ e.at = c.at /\ e.num = c.num /\ e.buf = c.buf /\ e.connected
          /\ ~e.open /\ e.dont_advance = c.dont_advance
      BY <1>1, <1>5 DEF GoodCursor, CursorState
    <3>2. Barren(e)
      BY <2>1, <3>1 DEF Barren, Upcoming
    <3> DEFINE q == [o EXCEPT !.cursor.open = FALSE]
    <3>3. Answered(p, q, "false")
      BY <1>2, <1>5, <2>3
    <3>4. q = [o EXCEPT !.cursor = e]
      BY <1>1 DEF OutcomeTypes
    <3> HIDE DEF e
    <3>5. q = Exchanged(e, o.sent, o.result, o.hard, o.in_step)
      BY <1>1, <3>4 DEF OutcomeTypes, Exchanged
    <3> HIDE DEF q
    <3>6. p.cursor = e /\ p.result = "false"
      BY <3>3, <3>5 DEF Answered, Exchanged
    <3> QED BY <1>5, <3>1, <3>2, <3>6, BrokenFollows
  <2>4. ~c.open
    BY <2>1 DEF Barren
  <2>5. CASE last \/ ~end
    BY <1>2, <1>5, <2>2, <2>4, <2>5
  <2> QED BY <2>3, <2>5
<1> QED BY <1>3, <1>4, <1>5

-----------------------------------------------------------------------------
(* Calls that run a query.                                                 *)

LEMMA StartedFields ==
  ASSUME NEW o \in OutcomeTypes, GoodCursor(o.cursor), ~Thrown(o)
  PROVE  LET t == Started(o)
             c == o.cursor
             d == t.cursor
         IN
         /\ t \in OutcomeTypes /\ GoodCursor(d)
         /\ t.sent = o.sent /\ t.result = o.result /\ t.hard = o.hard
         /\ d.at = c.at /\ d.num = c.num /\ d.buf = c.buf /\ d.open = c.open /\ d.flag = c.flag
         /\ d.connected = c.connected /\ d.current = c.current /\ d.dont_advance = c.dont_advance
         /\ d.started_iterating
<1> DEFINE d == [o.cursor EXCEPT !.started_iterating = TRUE]
<1> DEFINE c == o.cursor
<1>1. /\ GoodCursor(d) /\ d.at = c.at /\ d.num = c.num /\ d.buf = c.buf /\ d.open = c.open
      /\ d.flag = c.flag /\ d.connected = c.connected /\ d.current = c.current
      /\ d.dont_advance = c.dont_advance /\ d.started_iterating
  BY DEF GoodCursor, CursorState
<1>2. Started(o) = [o EXCEPT !.cursor = d]
  BY DEF Started, OutcomeTypes
<1> HIDE DEF d
<1>3. /\ Started(o) \in OutcomeTypes /\ Started(o).cursor = d /\ Started(o).sent = o.sent
      /\ Started(o).result = o.result /\ Started(o).hard = o.hard
  BY <1>1, <1>2 DEF OutcomeTypes, GoodCursor
<1> QED BY <1>1, <1>3

LEMMA RanFields ==
  ASSUME NEW o \in OutcomeTypes, GoodCursor(o.cursor), ~Thrown(o)
  PROVE  LET u == Ran(o)
             c == o.cursor
             d == u.cursor
         IN
         /\ u.sent = o.sent /\ u.result = o.result /\ u.hard = o.hard
         /\ d.at = c.at /\ d.num = c.num /\ d.buf = c.buf /\ d.open = c.open /\ d.flag = c.flag
         /\ d.connected = c.connected /\ d.current = c.current
         /\ d.dont_advance /\ d.started_iterating
<1> DEFINE t == Started(o)
<1> DEFINE c == o.cursor
<1>1. /\ t \in OutcomeTypes /\ GoodCursor(t.cursor)
      /\ t.sent = o.sent /\ t.result = o.result /\ t.hard = o.hard
      /\ t.cursor.at = c.at /\ t.cursor.num = c.num /\ t.cursor.buf = c.buf
      /\ t.cursor.open = c.open /\ t.cursor.flag = c.flag
      /\ t.cursor.connected = c.connected /\ t.cursor.current = c.current
      /\ t.cursor.started_iterating
  BY StartedFields
<1>2. Ran(o) = [t EXCEPT !.cursor.dont_advance = TRUE]
  BY DEF Ran
<1> HIDE DEF t
<1> DEFINE d == [t.cursor EXCEPT !.dont_advance = TRUE]
<1>3. /\ d.at = t.cursor.at /\ d.num = t.cursor.num /\ d.buf = t.cursor.buf
      /\ d.open = t.cursor.open /\ d.flag = t.cursor.flag
      /\ d.connected = t.cursor.connected /\ d.current = t.cursor.current
      /\ d.dont_advance /\ d.started_iterating = t.cursor.started_iterating
  BY <1>1 DEF GoodCursor, CursorState
<1>4. Ran(o) = [t EXCEPT !.cursor = d]
  BY <1>1, <1>2 DEF OutcomeTypes
<1> HIDE DEF d
<1>5. /\ Ran(o).cursor = d /\ Ran(o).sent = t.sent /\ Ran(o).result = t.result
      /\ Ran(o).hard = t.hard
  BY <1>1, <1>4 DEF OutcomeTypes
<1> QED BY <1>1, <1>3, <1>5

\* What a query that was answered brought.
LEMMA QueryAnswered ==
  ASSUME TypeOK, GoodCursor(cursor), NEW o \in RunQuery, ~Thrown(o)
  PROVE  LET c == o.cursor IN
         /\ o \in OutcomeTypes /\ GoodCursor(c) /\ o.result = "none"
         /\ ~c.started_iterating /\ ~c.dont_advance /\ c.at = 0
         /\ c.connected /\ ~c.dead /\ c.current = None
         /\ \/ c.num = 1 /\ c.buf = <<Error>> /\ ~c.open /\ c.flag
            \/ /\ ReadingAt(c, o.sent, o.hard, <<>>, 0)
               /\ Len(c.buf) = o.sent /\ c.num = o.sent
<1> DEFINE c == o.cursor
<1>1. /\ o \in OutcomeTypes /\ GoodCursor(c) /\ o.result = "none"
      /\ ~c.started_iterating /\ ~c.dont_advance /\ c.at = 0
  BY QueryGood DEF Queried, GoodOutcome, Thrown
<1>2. Brought(o)
  BY QueryBrings
<1>3. /\ o.sent \in Nat /\ o.sent <= total /\ total <= MaxDocuments /\ MaxDocuments \in Nat
      /\ o.hard \in BOOLEAN /\ total \in Nat
  BY <1>1, ParameterAssumption DEF OutcomeTypes, TypeOK
<1>4. ASSUME c.num = o.sent, c.buf = Numbered(0, o.sent), ~c.flag,
             ~tailable /\ c.num = 0 => ~c.open,
             ~c.open /\ ~o.hard => o.sent = total
      PROVE  ReadingAt(c, o.sent, o.hard, <<>>, 0) /\ Len(c.buf) = o.sent
  <2> DEFINE s == o.sent
  <2> HIDE DEF c
  <2>1. Len(c.buf) = s
    <3>1. 0 + s <= MaxDocuments /\ 0 \in Nat
      BY <1>3
    <3> QED BY <1>3, <1>4, <3>1, NumberedType
  <2>2. s - s = 0 /\ s <= s /\ s - 0 = s
    BY <1>3
  <2>3. Unread(c, s)
    BY <1>4, <2>1, <2>2 DEF Unread
  <2>4. Last(<<>>) = 0 /\ 0 + s <= s /\ Len(<<>>) = 0
    BY <1>3, EmptyDelivered DEF Last
  <2>5. <<>> = Numbered(0, 0)
    BY NumberedEmpty
  <2>6. ~tailable => Exact(c, s, o.hard, 0, 0)
    <3> SUFFICES ASSUME ~tailable PROVE Exact(c, s, o.hard, 0, 0)
      OBVIOUS
    <3>1. Least(0, c.num) = 0
      BY <1>3, <1>4 DEF Least
    <3>2. c.at >= c.num => ~c.open
      BY <1>1, <1>3, <1>4 DEF c
    <3>3. ~c.open => Spent(s, o.hard, 0)
      BY <1>4 DEF Spent
    <3> QED BY <1>4, <2>1, <2>2, <3>1, <3>2, <3>3 DEF Exact
  <2>7. limit # 0 /\ limit <= 1 => o.hard
    BY <1>2 DEF Brought
  <2> QED BY <1>1, <1>4, <2>1, <2>3, <2>4, <2>5, <2>6, <2>7 DEF ReadingAt, c
<1> QED BY <1>1, <1>2, <1>4 DEF Brought

\* A document that a query hands out is the first.
Begins(p, stood) ==
  /\ Follows(p, <<>>, stood)
  /\ p.result = "document" /\ p.cursor.current \in Document => p.cursor.current = 1

\* A query that was thrown off leaves the cursor as if not started.
LEMMA ThrownBegins ==
  ASSUME NEW p, Thrown(p), NEW stood,
         p.cursor.started_iterating =>
           p.cursor.dead \/ (p.cursor.connected /\ Barren(p.cursor))
  PROVE  Begins(p, stood)
<1>1. Follows(p, <<>>, stood)
  BY BrokenFollows DEF Thrown
<1> QED BY <1>1 DEF Begins, Thrown

\* The first document is loaded, or there is none, or the query failed.
LEMMA FirstLoad ==
  ASSUME TypeOK, GoodCursor(cursor), NEW o \in RunQuery
  PROVE  LET l == Loaded(Started(o)) IN
         /\ Begins(l, "open")
         /\ \A p \in HandleError(l) : Begins(p, "open")
<1> DEFINE t == Started(o)
<1> DEFINE l == Loaded(t)
<1> DEFINE c == o.cursor
<1>1. CASE Thrown(o)
  <2>1. l = o
    BY <1>1 DEF Started, Loaded
  <2>2. ~c.started_iterating
    BY QueryGood DEF Queried
  <2>3. Begins(l, "open")
    BY <1>1, <2>1, <2>2, ThrownBegins
  <2>4. \A p \in HandleError(l) : p = l
    BY <1>1, <2>1 DEF HandleError
  <2> QED BY <2>3, <2>4
<1>2. CASE ~Thrown(o)
  <2>1. /\ o \in OutcomeTypes /\ GoodCursor(c) /\ o.result = "none"
        /\ ~c.dont_advance /\ c.at = 0 /\ c.connected /\ ~c.dead
        /\ \/ c.num = 1 /\ c.buf = <<Error>> /\ ~c.open /\ c.flag
           \/ /\ ReadingAt(c, o.sent, o.hard, <<>>, 0)
              /\ Len(c.buf) = o.sent /\ c.num = o.sent
    BY <1>2, QueryAnswered
  <2> DEFINE d == t.cursor
  <2>2. /\ t \in OutcomeTypes /\ GoodCursor(d)
        /\ t.sent = o.sent /\ t.result = o.result /\ t.hard = o.hard
        /\ d.at = c.at /\ d.num = c.num /\ d.buf = c.buf /\ d.open = c.open /\ d.flag = c.flag
        /\ d.connected = c.connected /\ d.dont_advance = c.dont_advance
        /\ d.started_iterating
    BY <1>2, <2>1, StartedFields
  <2>3. ~Thrown(t)
    BY <2>1, <2>2 DEF Thrown
  <2> HIDE DEF t
  <2>4. CASE c.num = 1 /\ c.buf = <<Error>> /\ ~c.open /\ c.flag
    <3>1. /\ l.result = "document" /\ l.cursor.current = Error
          /\ l.cursor.connected /\ Barren(l.cursor)
          /\ \A p \in HandleError(l) :
               Thrown(p) /\ (p.cursor.dead \/ (p.cursor.connected /\ Barren(p.cursor)))
      BY <2>1, <2>2, <2>3, <2>4, ErrorLoaded
    <3> HIDE DEF l
    <3>2. \A p \in HandleError(l) : Begins(p, "open")
      BY <3>1, ThrownBegins
    <3>3. StoodAs(l, "open") = "broken"
      BY <3>1 DEF StoodAs
    <3>4. ~(l.result = "document" /\ l.cursor.current \in Document)
      BY <3>1 DEF Error, Document
    <3>5. Begins(l, "open")
      BY <3>1, <3>3, <3>4 DEF Begins, Follows, Tells
    <3> QED BY <3>2, <3>5 DEF l, t
  <2>5. CASE ReadingAt(c, o.sent, o.hard, <<>>, 0) /\ Len(c.buf) = o.sent /\ c.num = o.sent
    <3>1. ReadingAt(d, t.sent, t.hard, <<>>, d.at)
      BY <2>1, <2>2, <2>5 DEF ReadingAt, Unread, Exact
    <3>2. o.sent \in Nat /\ o.sent - o.sent + 1 = 1
      BY <2>1, ParameterAssumption DEF OutcomeTypes, TypeOK
    <3>3. Holds(d, d.at)
      BY <2>1, <2>2, <2>5, <3>2 DEF Holds
    <3>4. Yields(t, l, <<>>)
      BY <2>1, <2>2, <2>3, <3>1, <3>3, EmptyDelivered, LoadFrom
    <3> HIDE DEF l
    <3>5. Follows(l, <<>>, "open")
      BY <3>4, YieldsFollows
    <3>6. l.result = "document" => l.cursor.current = 1
      BY <2>2, <2>5, <3>2, <3>4 DEF Yields
    <3>7. l.result \in {"document", "null"} /\ l.cursor.current # Error /\ ~l.cursor.flag
      BY <3>4 DEF Yields
    <3>8. \A p \in HandleError(l) : p = l
      BY <3>7, NoError DEF Thrown
    <3>9. Begins(l, "open")
      BY <3>5, <3>6 DEF Begins
    <3> QED BY <3>8, <3>9 DEF l, t
  <2> QED BY <2>1, <2>4, <2>5 DEF t
<1> QED BY <1>1, <1>2

\* hasNext() as the first call.
LEMMA FirstHasNext ==
  ASSUME TypeOK, GoodCursor(cursor), NEW o \in RunQuery, NEW p \in HasNextFrom(Ran(o))
  PROVE  Begins(p, "open")
<1> DEFINE u == Ran(o)
<1> DEFINE c == o.cursor
<1>1. CASE Thrown(o)
  <2>1. p = o
    BY <1>1 DEF Ran, HasNextFrom
  <2>2. ~c.started_iterating
    BY QueryGood DEF Queried
  <2> QED BY <1>1, <2>1, <2>2, ThrownBegins
<1>2. CASE ~Thrown(o)
  <2>1. /\ o \in OutcomeTypes /\ GoodCursor(c) /\ o.result = "none"
        /\ ~c.dont_advance /\ c.at = 0 /\ c.connected /\ c.current = None
        /\ \/ c.num = 1 /\ c.buf = <<Error>> /\ ~c.open /\ c.flag
           \/ /\ ReadingAt(c, o.sent, o.hard, <<>>, 0)
              /\ Len(c.buf) = o.sent /\ c.num = o.sent
    BY <1>2, QueryAnswered
  <2>2. Queried(o)
    BY QueryGood
  <2> DEFINE d == u.cursor
  <2>3. /\ u.sent = o.sent /\ u.result = o.result /\ u.hard = o.hard
        /\ d.at = c.at /\ d.num = c.num /\ d.buf = c.buf /\ d.open = c.open /\ d.flag = c.flag
        /\ d.connected = c.connected /\ d.current = c.current
        /\ d.dont_advance /\ d.started_iterating
    BY <1>2, <2>1, RanFields
  <2>4. Sound(u, 0)
    BY <2>2, RanSound
  <2> HIDE DEF u
  <2>5. None # Error
    BY ParameterAssumption DEF Error
  <2>6. Upcoming(d) = 0
    BY <2>1, <2>3 DEF Upcoming
  <2>7. Reading(d, u.sent, u.hard, <<>>) \/ Failing(d, <<>>)
    <3>1. CASE c.num = 1 /\ c.buf = <<Error>> /\ ~c.open /\ c.flag
      BY <2>1, <2>3, <2>5, <3>1 DEF Failing
    <3>2. CASE ReadingAt(c, o.sent, o.hard, <<>>, 0)
      BY <2>1, <2>3, <2>5, <2>6, <3>2 DEF Reading, ReadingAt, Unread, Exact
    <3> QED BY <2>1, <3>1, <3>2
  <2>8. Upcoming(d) <= d.num
    BY <2>1, <2>3, <2>6 DEF GoodCursor, CursorState
  <2>9. Tells(u, <<>>, "open")
    BY <2>1, <2>3, <2>7, <2>8 DEF Tells
  <2>10. KnownAnswer(u, <<>>, "open")
    BY <2>1, <2>3, <2>4, <2>9, EmptyDelivered DEF KnownAnswer
  <2>11. p \in HasNextFrom(u)
    BY DEF u
  <2>12. Follows(p, <<>>, "open")
    BY <2>3, <2>10, <2>11, EmptyDelivered, HasNextFollows
  <2>13. p.result \in {"true", "false", "exception"}
    BY <2>1, <2>3, <2>4, <2>11, HasNextSound DEF Thrown
  <2> QED BY <2>12, <2>13 DEF Begins
<1> QED BY <1>1, <1>2

-----------------------------------------------------------------------------
(* The end of a call, and the steps of the stream.                         *)

LEMMA ReturnTells ==
  ASSUME NEW p, NEW before, NEW stood, Return(p, before, stood), UNCHANGED settings,
         Tells(p, Handed(p, before), StoodAs(p, stood))
  PROVE  /\ Faithful' /\ hard' = p.hard
         /\ delivered' = Handed(p, before) /\ phase' = StoodAs(p, stood)
         /\ total' = total /\ tailable' = tailable /\ limit' = limit
<1>1. /\ cursor' = p.cursor /\ sent' = p.sent /\ hard' = p.hard
      /\ limit' = limit /\ tailable' = tailable /\ total' = total
  BY DEF Return, settings
<1>2. delivered' = Handed(p, before) /\ phase' = StoodAs(p, stood)
  BY DEF Return, Handed, StoodAs
<1>3. /\ Now.cursor = cursor /\ Now.sent = sent /\ Now.hard = hard
      /\ Now'.cursor = cursor' /\ Now'.sent = sent' /\ Now'.hard = hard'
  BY DEF Now, Outcome
<1> DEFINE c == p.cursor
<1> DEFINE docs == Handed(p, before)
<1> DEFINE ph == StoodAs(p, stood)
<1>4. /\ c.started_iterating => c.dead \/ c.connected
      /\ ph = "new" => ~c.started_iterating
      /\ ph = "broken" /\ c.started_iterating => c.dead \/ Barren(c)
      /\ ph \in {"open", "ended"} =>
           /\ c.started_iterating
           /\ \/ c.dead \/ Reading(c, p.sent, p.hard, docs)
              \/ ph = "open" /\ Failing(c, docs)
      /\ ph = "open" /\ ~tailable /\ ~c.dead => Upcoming(c) <= c.num
      /\ ph = "ended" /\ ~tailable => Len(docs) >= PromisedBy(p.hard)
  BY DEF Tells
<1> HIDE DEF c, docs, ph
<1>5. /\ cursor' = c /\ delivered' = docs /\ phase' = ph
  BY <1>1, <1>2 DEF c, docs, ph
<1>6. Reading(c, p.sent, p.hard, docs) => Reading(cursor, sent, hard, delivered)'
  BY <1>1, <1>5 DEF Reading, ReadingAt, Unread, Exact, Spent
<1>7. Failing(c, docs) => Failing(cursor, delivered)'
  BY <1>5 DEF Failing
<1>8. PromisedBy(p.hard) = PromisedBy(hard)'
  BY <1>1 DEF PromisedBy
<1>9. Faithful'
  BY <1>1, <1>3, <1>4, <1>5, <1>6, <1>7, <1>8 DEF Faithful, Tells
<1> QED BY <1>1, <1>2, <1>9

LEMMA PromiseType ==
  ASSUME TypeOK
  PROVE  /\ Promised = PromisedBy(hard) /\ \A h : PromisedBy(h) \in Nat
         /\ Stream!Latest = Last(delivered)
<1>1. limit \in Int /\ total \in Nat
  BY ParameterAssumption DEF TypeOK
<1>2. \A h : PromisedBy(h) \in Nat
  BY <1>1 DEF PromisedBy, Least
<1>3. Promised = PromisedBy(hard)
  BY DEF Promised, PromisedBy
<1> QED BY <1>2, <1>3 DEF Stream!Latest, Last

Streams == Faithful' /\ [Stream!Next]_(Stream!vars)

\* A call that goes on with the iteration.
LEMMA Continues ==
  ASSUME TypeOK, TypeOK', NEW p, Return(p, delivered, phase), UNCHANGED settings,
         Follows(p, delivered, phase), Thrown(p) \/ phase # "new"
  PROVE  Streams
<1>1. /\ Faithful' /\ hard' = p.hard
      /\ delivered' = Handed(p, delivered) /\ phase' = StoodAs(p, phase)
      /\ total' = total /\ tailable' = tailable /\ limit' = limit
  BY ReturnTells DEF Follows
<1>2. phase \in {"new", "open", "ended", "broken"} /\ total \in Nat
  BY ParameterAssumption DEF TypeOK
<1>3. /\ Promised' = PromisedBy(hard') /\ Stream!Latest = Last(delivered)
  <2>1. Promised' = PromisedBy(p.hard)
    BY <1>1 DEF Promised, PromisedBy
  <2>2. PromisedBy(hard') = PromisedBy(p.hard)
    BY <1>1
  <2> QED BY <2>1, <2>2, PromiseType
<1>4. phase' = "ended" /\ ~tailable => Len(delivered') >= Promised'
  BY <1>1, <1>3 DEF Follows, Tells
<1>5. CASE p.result = "document" /\ p.cursor.current # Error
  <2>1. /\ phase \in {"open", "ended"} /\ p.cursor.current \in Document
        /\ p.cursor.current > Last(delivered) /\ p.cursor.current <= total
        /\ ~tailable => p.cursor.current = Last(delivered) + 1
    BY <1>5 DEF Follows
  <2>2. delivered' = Append(delivered, p.cursor.current) /\ phase' = "open"
    BY <1>1, <1>5, <2>1 DEF Handed, StoodAs, Thrown
  <2>3. Last(delivered) \in Nat
    BY LastOf DEF TypeOK
  <2>4. p.cursor.current \in Last(delivered) + 1 .. total
    BY <1>2, <2>1, <2>3 DEF Document
  <2>5. Stream!Deliver
    BY <1>1, <1>3, <2>1, <2>2, <2>4 DEF Stream!Deliver
  <2> QED BY <1>1, <2>5 DEF Streams, Stream!Next
<1>6. CASE ~(p.result = "document" /\ p.cursor.current # Error)
  <2>1. delivered' = delivered
    BY <1>1, <1>6 DEF Handed, Error, Document
  <2>2. CASE phase' = "broken"
    BY <1>1, <2>1, <2>2 DEF Streams, Stream!Next, Stream!Break
  <2>3. CASE phase' # "broken" /\ (phase' = "ended" \/ phase = "ended")
    <3>1. phase' = "ended" /\ phase \in {"open", "ended"}
      BY <1>1, <1>2, <1>6, <2>3 DEF StoodAs
    <3>2. Stream!End
      BY <1>1, <1>4, <2>1, <3>1 DEF Stream!End
    <3> QED BY <1>1, <3>2 DEF Streams, Stream!Next
  <2>4. CASE phase' # "broken" /\ phase' # "ended" /\ phase # "ended"
    <3>1. phase' = phase
      BY <1>1, <1>6, <2>4 DEF StoodAs
    <3>2. Stream!Stay
      BY <1>1, <2>1, <2>4, <3>1 DEF Stream!Stay
    <3> QED BY <1>1, <3>2 DEF Streams, Stream!Next
  <2> QED BY <2>2, <2>3, <2>4
<1> QED BY <1>5, <1>6

\* A call that starts anew.
LEMMA Restarts ==
  ASSUME TypeOK, TypeOK', NEW p, NEW stood \in {"new", "open"}, Return(p, <<>>, stood),
         UNCHANGED settings, Begins(p, stood)
  PROVE  Streams
<1>1. /\ Faithful' /\ hard' = p.hard
      /\ delivered' = Handed(p, <<>>) /\ phase' = StoodAs(p, stood)
      /\ total' = total /\ tailable' = tailable /\ limit' = limit
  BY ReturnTells DEF Follows, Begins
<1>2. Promised' = PromisedBy(p.hard) /\ PromisedBy(p.hard) \in Nat /\ total \in Nat
  <2>1. Promised' = PromisedBy(p.hard)
    BY <1>1 DEF Promised, PromisedBy
  <2> QED BY <2>1, PromiseType, ParameterAssumption DEF TypeOK
<1>3. phase' \in {"new", "open", "ended", "broken"}
  BY DEF TypeOK
<1>4. CASE p.result = "document" /\ p.cursor.current # Error
  <2>1. p.cursor.current \in Document /\ p.cursor.current = 1 /\ 1 <= total
    BY <1>4 DEF Begins, Follows
  <2>2. delivered' = <<1>> /\ phase' = "open"
    BY <1>1, <1>4, <2>1 DEF Handed, StoodAs, Thrown
  <2>3. Stream!Start
    BY <1>1, <1>2, <2>1, <2>2 DEF Stream!Start
  <2> QED BY <1>1, <2>3 DEF Streams, Stream!Next
<1>5. CASE ~(p.result = "document" /\ p.cursor.current # Error)
  <2>1. delivered' = <<>>
    BY <1>1, <1>5 DEF Handed, Error, Document
  <2>2. phase' = "ended" /\ ~tailable => Promised' = 0
    <3>1. phase' = "ended" /\ ~tailable => Len(<<>>) >= PromisedBy(p.hard)
      BY <1>1, <2>1 DEF Begins, Follows, Tells
    <3> QED BY <1>2, <3>1, EmptyDelivered
  <2>3. Stream!Start
    BY <1>1, <1>3, <2>1, <2>2 DEF Stream!Start
  <2> QED BY <1>1, <2>3 DEF Streams, Stream!Next
<1> QED BY <1>4, <1>5

LEMMA QueryRestarts ==
  ASSUME Invariant, Invariant', NextRunsQuery \/ HasNextRunsQuery \/ Rewind \/ DoQuery
  PROVE  Streams
<1>1. TypeOK /\ TypeOK' /\ GoodCursor(cursor) /\ UNCHANGED settings
  BY NowFields DEF Invariant, NextRunsQuery, HasNextRunsQuery, Rewind, DoQuery
<1>2. CASE NextRunsQuery
  <2>1. PICK o \in RunQuery : Return(Loaded(Started(o)), <<>>, "open")
    BY <1>2 DEF NextRunsQuery
  <2> QED BY <1>1, <2>1, FirstLoad, Restarts
<1>3. CASE HasNextRunsQuery
  <2>1. PICK o \in RunQuery : \E p \in HasNextFrom(Ran(o)) : Return(p, <<>>, "open")
    BY <1>3 DEF HasNextRunsQuery, Ran
  <2>2. PICK p \in HasNextFrom(Ran(o)) : Return(p, <<>>, "open")
    BY <2>1
  <2> QED BY <1>1, <2>2, FirstHasNext, Restarts
<1>4. CASE Rewind
  <2>1. PICK o \in RunQuery :
          \E p \in HandleError(Loaded(Started(o))) : Return(p, <<>>, "open")
    BY <1>4 DEF Rewind
  <2>2. PICK p \in HandleError(Loaded(Started(o))) : Return(p, <<>>, "open")
    BY <2>1
  <2> QED BY <1>1, <2>2, FirstLoad, Restarts
<1>5. CASE DoQuery
  <2>1. PICK o \in RunQuery : Return(o, <<>>, "new")
    BY <1>5 DEF DoQuery
  <2>2. ~o.cursor.started_iterating
    BY <1>1, QueryGood DEF Queried
  <2>3. CASE Thrown(o)
    BY <1>1, <2>1, <2>2, <2>3, ThrownBegins, Restarts
  <2>4. CASE ~Thrown(o)
    <3>1. o.result = "none" /\ o.cursor.current = None
      BY <1>1, <2>4, QueryAnswered
    <3>2. None # Error
      BY ParameterAssumption DEF Error
    <3>3. StoodAs(o, "new") = "new"
      BY <2>4, <3>1, <3>2 DEF StoodAs
    <3>4. Begins(o, "new")
      BY <2>2, <3>1, <3>3 DEF Begins, Follows, Tells
    <3> QED BY <1>1, <2>1, <3>4, Restarts
  <2> QED BY <2>3, <2>4
<1> QED BY <1>2, <1>3, <1>4, <1>5

LEMMA ResetRestarts == ASSUME Invariant, Invariant', ResetCursor PROVE Streams
<1> DEFINE d == Reset(cursor)
<1> DEFINE o == Outcome(d, sent, "none")
<1>1. TypeOK /\ TypeOK' /\ UNCHANGED settings /\ Return(o, <<>>, "new")
  BY DEF Invariant, ResetCursor
<1>2. ~d.started_iterating /\ d.current = None
  BY NowFields, ResetGood DEF Reset, Fresh
<1> HIDE DEF d
<1>3. o.cursor = d /\ o.result = "none"
  BY DEF Outcome
<1> HIDE DEF o
<1>4. None # Error
  BY ParameterAssumption DEF Error
<1>5. StoodAs(o, "new") = "new"
  BY <1>2, <1>3, <1>4 DEF StoodAs, Thrown
<1>6. Begins(o, "new")
  BY <1>2, <1>3, <1>5 DEF Begins, Follows, Tells
<1> QED BY <1>1, <1>6, Restarts

LEMMA CallContinues ==
  ASSUME Invariant, Invariant', Faithful, NextAdvances \/ NextOnDeadCursor \/ HasNextLooksAhead
  PROVE  Streams
<1>1. TypeOK /\ TypeOK' /\ UNCHANGED settings
  BY DEF Invariant, NextAdvances, NextOnDeadCursor, HasNextLooksAhead
<1>2. CASE NextAdvances
  <2>1. PICK p \in NextOutcomes : Return(p, delivered, phase)
    BY <1>2 DEF NextAdvances, NextOutcomes
  <2>2. Follows(p, delivered, phase) /\ phase # "new"
    BY <1>2, NextFollows, FaithfulFields DEF NextAdvances
  <2> QED BY <1>1, <2>1, <2>2, Continues
<1>3. CASE NextOnDeadCursor
  <2> DEFINE o == Outcome(cursor, sent, "exception")
  <2>1. Return(o, delivered, phase) /\ cursor.dead
    BY <1>3 DEF NextOnDeadCursor
  <2>2. o.cursor = cursor /\ o.result = "exception"
    BY DEF Outcome
  <2> HIDE DEF o
  <2>3. Follows(o, delivered, phase) /\ Thrown(o)
    BY <2>1, <2>2, BrokenFollows DEF Thrown
  <2> QED BY <1>1, <2>1, <2>3, Continues
<1>4. CASE HasNextLooksAhead
  <2> DEFINE o == Outcome(cursor, sent, "none")
  <2>1. PICK p \in HasNextFrom(o) : Return(p, delivered, phase)
    BY <1>4 DEF HasNextLooksAhead
  <2>2. cursor.started_iterating /\ phase \in {"open", "ended", "broken"}
        /\ delivered \in Seq(Document)
    BY <1>4, FaithfulFields DEF HasNextLooksAhead
  <2>3. Sound(o, Len(delivered))
    BY PlainSound DEF Results
  <2>4. /\ o.cursor = cursor /\ o.sent = sent /\ o.hard = hard /\ o.in_step = in_step
        /\ o.result = "none"
    BY DEF Outcome
  <2> HIDE DEF o
  <2>5. Tells(o, delivered, phase)
    BY <2>2, <2>4, FaithfulFields DEF Tells
  <2>6. KnownAnswer(o, delivered, phase)
    BY <2>2, <2>3, <2>4, <2>5 DEF KnownAnswer
  <2>7. Follows(p, delivered, phase)
    BY <1>1, <2>1, <2>2, <2>4, <2>6, HasNextFollows
  <2> QED BY <1>1, <2>1, <2>2, <2>7, Continues
<1> QED BY <1>2, <1>3, <1>4

\* The settings that may change during the iteration play no part in it, and a
\* cursor that fails, or whose result grows, is still in order.
LEMMA OthersKeep ==
  ASSUME Invariant, Faithful,
         \/ UNCHANGED vars
         \/ \E l \in Limits : SetLimit(l)
         \/ \E b \in BatchSizes : SetBatchSize(b)
         \/ ConnectionDestroyed
         \/ Insert
  PROVE  Streams
<1>1. /\ Now.cursor = cursor /\ Now.sent = sent /\ Now.hard = hard
      /\ Now'.cursor = cursor' /\ Now'.sent = sent' /\ Now'.hard = hard'
  BY DEF Now, Outcome
<1>2. /\ cursor.started_iterating => cursor.dead \/ cursor.connected
      /\ phase = "new" => ~cursor.started_iterating
      /\ phase = "broken" /\ cursor.started_iterating => cursor.dead \/ Barren(cursor)
      /\ phase \in {"open", "ended"} =>
           /\ cursor.started_iterating
           /\ \/ cursor.dead \/ Reading(cursor, sent, hard, delivered)
              \/ phase = "open" /\ Failing(cursor, delivered)
      /\ phase = "open" /\ ~tailable /\ ~cursor.dead => Upcoming(cursor) <= cursor.num
      /\ phase = "ended" /\ ~tailable => Len(delivered) >= PromisedBy(hard)
  BY <1>1 DEF Faithful, Tells
<1>3. UNCHANGED <<sent, hard, delivered, phase, tailable>>
  BY DEF vars, SetLimit, SetBatchSize, ConnectionDestroyed, Insert, settings
<1>4. CASE UNCHANGED <<cursor, limit, total>> \/ (UNCHANGED <<cursor, limit>> /\ Insert)
  <2>1. /\ cursor' = cursor /\ limit' = limit /\ (~tailable => total' = total)
    BY <1>4 DEF Insert
  <2>2. Reading(cursor, sent, hard, delivered) => Reading(cursor, sent, hard, delivered)'
    BY <1>3, <2>1 DEF Reading, ReadingAt, Unread, Exact, Spent
  <2>3. Failing(cursor, delivered) => Failing(cursor, delivered)'
    BY <1>3, <2>1 DEF Failing
  <2>4. ~tailable => PromisedBy(hard)' = PromisedBy(hard)
    BY <1>3, <2>1 DEF PromisedBy
  <2>5. Faithful'
    BY <1>1, <1>2, <1>3, <2>1, <2>2, <2>3, <2>4 DEF Faithful, Tells
  <2>6. CASE Insert
    <3>1. total' > total /\ tailable
      BY <2>6, ParameterAssumption DEF Insert, Invariant, TypeOK
    <3> QED BY <1>3, <2>5, <3>1 DEF Streams, Stream!Next, Stream!Grow
  <2>7. CASE total' = total
    <3>1. Promised' = Promised
      BY <1>3, <2>1, <2>7 DEF Promised
    <3> QED BY <1>3, <2>5, <2>7, <3>1 DEF Streams, Stream!vars
  <2> QED BY <1>4, <2>6, <2>7
<1>5. CASE ~cursor.started_iterating /\ UNCHANGED <<cursor, total>>
  <2>1. phase \notin {"open", "ended"}
    BY <1>2, <1>5
  <2>2. Faithful'
    BY <1>1, <1>2, <1>3, <1>5, <2>1 DEF Faithful, Tells
  <2>3. Stream!Stay
    BY <1>3, <1>5, <2>1 DEF Stream!Stay
  <2> QED BY <2>2, <2>3 DEF Streams, Stream!Next
<1>6. CASE ConnectionDestroyed
  <2>1. cursor' = Failed(cursor) /\ limit' = limit /\ total' = total
    BY <1>6 DEF ConnectionDestroyed, settings
  <2>2. cursor'.dead /\ cursor'.started_iterating = cursor.started_iterating
    BY <2>1, NowFields, FailedGood
  <2>3. PromisedBy(hard)' = PromisedBy(hard) /\ Promised' = Promised
    BY <1>3, <2>1 DEF PromisedBy, Promised
  <2>4. Faithful'
    BY <1>1, <1>2, <1>3, <2>2, <2>3 DEF Faithful, Tells
  <2> QED BY <1>3, <2>1, <2>3, <2>4 DEF Streams, Stream!vars
<1>7. CASE UNCHANGED vars \/ \E b \in BatchSizes : SetBatchSize(b)
  <2>1. UNCHANGED <<cursor, limit, total>>
    BY <1>7 DEF vars, SetBatchSize
  <2> QED BY <1>4, <2>1
<1>8. ASSUME NEW l \in Limits, SetLimit(l) PROVE Streams
  BY <1>5, <1>8 DEF SetLimit
<1>9. ASSUME Insert PROVE Streams
  BY <1>4, <1>9 DEF Insert
<1> QED BY <1>6, <1>7, <1>8, <1>9

LEMMA InitFaithful == Init => Faithful /\ Stream!Init
<1> SUFFICES ASSUME Init PROVE Faithful /\ Stream!Init
  OBVIOUS
<1>1. Now.cursor = Fresh /\ phase = "new" /\ ~Fresh.started_iterating
  BY DEF Now, Outcome, Init, Fresh
<1>2. Faithful
  BY <1>1 DEF Faithful, Tells
<1>3. total \in Nat /\ Promised \in Nat
  <2>1. TypeOK
    BY InitSound DEF Invariant
  <2> QED BY <2>1, PromiseType, ParameterAssumption DEF TypeOK
<1> QED BY <1>2, <1>3 DEF Init, Stream!Init

LEMMA StepStreams == Invariant /\ Invariant' /\ Faithful /\ [Next]_vars => Streams
<1> SUFFICES ASSUME Invariant, Invariant', Faithful, [Next]_vars PROVE Streams
  OBVIOUS
<1>1. CASE NextDocument
  BY <1>1, QueryRestarts, CallContinues DEF NextDocument
<1>2. CASE HasNext
  BY <1>2, QueryRestarts, CallContinues DEF HasNext
<1>3. CASE Rewind \/ DoQuery
  BY <1>3, QueryRestarts
<1>4. CASE ResetCursor
  BY <1>4, ResetRestarts
<1> QED BY <1>1, <1>2, <1>3, <1>4, OthersKeep DEF Next

\* The cursor hands over the documents of the result in the order of the server,
\* each of them once and, unless it is tailable, without a gap, through batches,
\* look-ahead, failures and restarts; and it does not report the end before what
\* was promised was handed over.
THEOREM CursorIsAStream == Spec => DeliversTheStream
<1>1. Init => Faithful /\ Stream!Init
  BY InitFaithful
<1>2. Invariant /\ Invariant' /\ Faithful /\ [Next]_vars => Faithful' /\ [Stream!Next]_(Stream!vars)
  BY StepStreams DEF Streams
<1> QED BY <1>1, <1>2, InvariantHolds, PTL DEF Spec, DeliversTheStream, Stream!Spec

=============================================================================
