-------------------------- MODULE WriteBatch_proofs -------------------------
(***************************************************************************)
(* Proofs about WriteBatch: its types, that no batch exceeds a limit of     *)
(* the server, the order of the operations (what add() accepted is queued   *)
(* and sent once, as accepted, and an ordered execution stops at its first  *)
(* error), and the account an execution gives of them; for all limits and   *)
(* sizes and any number of operations.                                      *)
(***************************************************************************)
EXTENDS WriteBatch, FiniteSetTheorems, TLAPS

\* What keeps a batch within the limits: the counter is never behind the
\* operations, and never beyond what the server accepts.
BatchLimits(b) ==
  /\ Len(b.items) <= b.item_count /\ b.item_count <= MaxItems
  /\ ~b.broken => b.size <= MaxWire

LimitsIn(c) == \A i \in DOMAIN c : BatchLimits(c[i])

\* The places a reply mentions are places of the batch it answers.
ReplyFits ==
  pc = "callback" =>
    /\ exec.at \in DOMAIN chain /\ exec.at <= batch
    /\ exec.reply.applied \cup exec.reply.denied \cup exec.reply.failed
         \cup exec.reply.upserted \subseteq DOMAIN chain[exec.at].items

Invariant == TypeOK /\ LimitsIn(chain) /\ ReplyFits

\* A list add() may leave behind: the batch being executed is still in it.
Keeps(l) ==
  pc = "callback" =>
    /\ exec.at \in DOMAIN l.chain /\ exec.at <= l.batch
    /\ DOMAIN chain[exec.at].items \subseteq DOMAIN l.chain[exec.at].items

List == [chain : Seq(Batch), batch : Nat]

GoodList(l) ==
  /\ l \in List /\ l.batch \in DOMAIN l.chain
  /\ LimitsIn(l.chain) /\ Keeps(l)

-----------------------------------------------------------------------------
\* An empty batch is within the limits.
LEMMA NewBatchGood == NewBatch \in Batch /\ BatchLimits(NewBatch)
BY ParameterAssumption DEF NewBatch, Batch, BatchLimits

\* A new batch is linked behind the current one, which may be none.
LEMMA MakeBatchGood ==
  ASSUME NEW l \in List, l.batch \in 0 .. Len(l.chain), LimitsIn(l.chain),
         pc = "callback" => l.batch >= 1, Keeps(l)
  PROVE  /\ GoodList(MakeBatch(l))
         /\ MakeBatch(l).chain[MakeBatch(l).batch] = NewBatch
<1> DEFINE m == MakeBatch(l)
<1> DEFINE front == SubSeq(l.chain, 1, l.batch)
<1>1. l.chain \in Seq(Batch) /\ l.batch \in Nat
  BY DEF List
<1>2. front \in Seq(Batch) /\ Len(front) = l.batch
      /\ \A i \in 1 .. l.batch : front[i] = l.chain[i]
  BY <1>1
<1>3. m = [chain |-> Append(front, NewBatch), batch |-> l.batch + 1]
  BY DEF MakeBatch
<1> HIDE DEF front, m
<1>4. /\ m.chain \in Seq(Batch) /\ Len(m.chain) = l.batch + 1
      /\ m.chain[l.batch + 1] = NewBatch
      /\ \A i \in 1 .. l.batch : m.chain[i] = l.chain[i]
  BY <1>1, <1>2, <1>3, NewBatchGood
<1>5. m \in List /\ m.batch = l.batch + 1 /\ m.batch \in DOMAIN m.chain
  BY <1>1, <1>3, <1>4 DEF List
<1>6. LimitsIn(m.chain)
  <2> SUFFICES ASSUME NEW i \in DOMAIN m.chain PROVE BatchLimits(m.chain[i])
    BY DEF LimitsIn
  <2>1. CASE i = l.batch + 1
    BY <2>1, <1>4, NewBatchGood
  <2>2. CASE i # l.batch + 1
    <3>1. i \in 1 .. l.batch /\ i \in DOMAIN l.chain
      BY <2>2, <1>1, <1>4
    <3> QED BY <3>1, <1>4 DEF LimitsIn
  <2> QED BY <2>1, <2>2
<1>7. Keeps(m)
  <2> SUFFICES ASSUME pc = "callback"
               PROVE  /\ exec.at \in DOMAIN m.chain /\ exec.at <= m.batch
                      /\ DOMAIN chain[exec.at].items \subseteq DOMAIN m.chain[exec.at].items
    BY DEF Keeps
  <2>1. exec.at \in 1 .. l.batch
    BY <1>1 DEF Keeps
  <2> QED BY <2>1, <1>1, <1>4, <1>5 DEF Keeps
<1> QED BY <1>4, <1>5, <1>6, <1>7 DEF GoodList, m

\* The current batch of a list is replaced by one that holds more.
LEMMA ReplaceGood ==
  ASSUME NEW l, GoodList(l), NEW b \in Batch, BatchLimits(b),
         DOMAIN l.chain[l.batch].items \subseteq DOMAIN b.items
  PROVE  GoodList(Replace(l, b))
<1> DEFINE m == Replace(l, b)
<1>1. l \in List /\ l.chain \in Seq(Batch) /\ l.batch \in DOMAIN l.chain
  BY DEF GoodList, List
<1>2. m = [l EXCEPT !.chain = [l.chain EXCEPT ![l.batch] = b]]
  BY <1>1 DEF Replace, List
<1> HIDE DEF m
<1>3. m.batch = l.batch /\ m.chain = [l.chain EXCEPT ![l.batch] = b]
  BY <1>1, <1>2 DEF List
<1>4. m.chain \in Seq(Batch) /\ DOMAIN m.chain = DOMAIN l.chain
  BY <1>1, <1>3
<1>5. m \in List
  BY <1>1, <1>2, <1>3, <1>4 DEF List
<1>6. LimitsIn(m.chain)
  BY <1>1, <1>3, <1>4 DEF LimitsIn, GoodList
<1>7. Keeps(m)
  BY <1>1, <1>3, <1>4 DEF Keeps, GoodList
<1> QED BY <1>1, <1>3, <1>4, <1>5, <1>6, <1>7 DEF GoodList, m

\* add() writes to a batch that has room for one more.
LEMMA OpenedGood ==
  ASSUME Invariant, AddRuns
  PROVE  GoodList(Opened) /\ Opened.chain[Opened.batch].item_count < MaxItems
<1> DEFINE l == [chain |-> chain, batch |-> batch]
<1>1. batch \in Nat /\ batch \in 0 .. Len(chain) /\ chain \in Seq(Batch)
      /\ (batch = 0 => total_items = 0) /\ total_items \in Nat
      /\ (pc = "callback" => batch \in DOMAIN chain)
  BY DEF options, Invariant, TypeOK, AddRuns, Dangling, Null, Freed
<1>2. l \in List /\ LimitsIn(l.chain) /\ Keeps(l)
  BY <1>1 DEF List, Invariant, ReplyFits, Keeps
<1>3. CASE NeedsBatch
  <2>1. Opened = MakeBatch(l)
    BY <1>3 DEF Opened
  <2>2. pc = "callback" => l.batch >= 1
    BY <1>1
  <2>3. GoodList(MakeBatch(l)) /\ MakeBatch(l).chain[MakeBatch(l).batch] = NewBatch
    BY <1>1, <1>2, <2>2, MakeBatchGood
  <2> QED BY <2>1, <2>3, ParameterAssumption DEF NewBatch
<1>4. CASE ~NeedsBatch
  <2>1. Opened = l
    BY <1>4 DEF Opened
  <2>2. batch \in DOMAIN chain /\ ~(chain[batch].item_count >= MaxItems)
    BY <1>1, <1>4 DEF NeedsBatch
  <2>3. chain[batch] \in Batch
    BY <1>1, <2>2
  <2>4. chain[batch].item_count \in Nat
    BY <2>3 DEF Batch
  <2> QED BY <1>1, <1>2, <2>1, <2>2, <2>4, ParameterAssumption DEF GoodList
<1> QED BY <1>3, <1>4

\* Whatever add() decides, it leaves a good list.
LEMMA AddKeepsInvariant ==
  ASSUME Invariant, AddRuns, NEW l, GoodList(l),
         \/ Accept(l, adds + 1)
         \/ Refuse(l, "exception")
         \/ Refuse(l, "false")
  PROVE  Invariant'
<1> USE DEF options, Invariant, AddRuns
<1>1. l.chain \in Seq(Batch) /\ l.batch \in Nat /\ l.batch \in DOMAIN l.chain
      /\ LimitsIn(l.chain) /\ Keeps(l)
  BY DEF GoodList, List
<1>2. chain' = l.chain /\ batch' = l.batch
  BY DEF Accept, Refuse
<1>3. adds' \in 0 .. MaxAdds /\ adds + 1 \in Operation
  BY ParameterAssumption DEF TypeOK, Operation
<1>4. /\ total_items' \in Nat /\ pending' \subseteq Operation
      /\ result' \in {"none", "true", "false", "exception", "failed_write", "array"}
  BY <1>3 DEF TypeOK, Accept, Refuse
<1>5. nested' \in BOOLEAN
  BY Zenon DEF TypeOK
<1>6. TypeOK'
  BY <1>1, <1>2, <1>3, <1>4, <1>5 DEF TypeOK
<1>7. LimitsIn(chain')
  BY <1>1, <1>2
<1>8. ReplyFits'
  BY <1>1, <1>2 DEF ReplyFits, Keeps
<1> QED BY <1>6, <1>7, <1>8 DEF LimitsIn, BatchLimits

-----------------------------------------------------------------------------
\* An operation refused for a missing key leaves the batch that was opened for it.
LEMMA AddIncompleteInv == ASSUME Invariant, AddIncomplete PROVE Invariant'
BY OpenedGood, AddKeepsInvariant DEF AddIncomplete

\* An operation is left half written in a batch with room for it.
LEMMA WriteBrokenGood ==
  ASSUME NEW b \in Batch, BatchLimits(b), b.item_count < MaxItems, NEW size \in Nat
  PROVE  /\ WriteBroken(b, size) \in Batch /\ BatchLimits(WriteBroken(b, size))
         /\ DOMAIN b.items \subseteq DOMAIN WriteBroken(b, size).items
<1> DEFINE w == WriteBroken(b, size)
<1>1. /\ b.items \in Seq(Operation) /\ b.item_count \in Nat
      /\ b.size \in Nat /\ b.broken \in BOOLEAN
  BY DEF Batch
<1>2. w \in Batch
  BY <1>1 DEF WriteBroken, Batch
<1>3. w.items = b.items /\ w.item_count = b.item_count + 1 /\ w.broken
  BY DEF WriteBroken, Batch
<1>4. BatchLimits(w)
  BY <1>1, <1>3, ParameterAssumption DEF BatchLimits
<1> QED BY <1>2, <1>3, <1>4

\* An operation refused half way leaves its bytes, and is counted.
LEMMA AddUnserialisableInv ==
  ASSUME Invariant, NEW size \in Sizes, AddUnserialisable(size)
  PROVE  Invariant'
<1> DEFINE b == Opened.chain[Opened.batch]
<1>1. AddRuns /\ Refuse(Replace(Opened, WriteBroken(b, size)), "exception")
  BY DEF AddUnserialisable
<1>2. GoodList(Opened) /\ b.item_count < MaxItems
  BY <1>1, OpenedGood
<1>3. b \in Batch /\ BatchLimits(b) /\ size \in Nat
  BY <1>2, ParameterAssumption DEF GoodList, List, LimitsIn
<1>4. WriteBroken(b, size) \in Batch /\ BatchLimits(WriteBroken(b, size))
      /\ DOMAIN b.items \subseteq DOMAIN WriteBroken(b, size).items
  BY <1>2, <1>3, WriteBrokenGood
<1> HIDE DEF b
<1>5. GoodList(Replace(Opened, WriteBroken(b, size)))
  BY <1>2, <1>4, ReplaceGood DEF b
<1> QED BY <1>1, <1>5, AddKeepsInvariant

\* An operation is written to a batch with room for it.
LEMMA WriteGood ==
  ASSUME NEW b \in Batch, BatchLimits(b), b.item_count < MaxItems, NEW size \in Sizes,
         NEW id \in Operation, Fits(b, size)
  PROVE  /\ Write(b, id, size) \in Batch /\ BatchLimits(Write(b, id, size))
         /\ DOMAIN b.items \subseteq DOMAIN Write(b, id, size).items
<1>1. size \in Nat
  BY ParameterAssumption
<1> DEFINE w == Write(b, id, size)
<1>2. /\ b.items \in Seq(Operation) /\ b.item_count \in Nat
      /\ b.size \in Nat /\ b.broken \in BOOLEAN
  BY DEF Batch
<1>3. Append(b.items, id) \in Seq(Operation) /\ Len(Append(b.items, id)) = Len(b.items) + 1
      /\ Len(b.items) \in Nat
  BY <1>2
<1>4. w \in Batch
  BY <1>1, <1>2, <1>3 DEF Write, Batch
<1>5. w.items = Append(b.items, id) /\ w.item_count = b.item_count + 1
      /\ w.size = b.size + size /\ w.broken = b.broken
  BY DEF Write, Batch
<1> HIDE DEF w
<1>6. BatchLimits(w)
  BY <1>1, <1>2, <1>3, <1>5, ParameterAssumption DEF BatchLimits, Fits
<1>7. DOMAIN b.items \subseteq DOMAIN w.items
  BY <1>2, <1>3, <1>5
<1> QED BY <1>4, <1>6, <1>7 DEF w

\* An operation that fits goes to the current batch.
LEMMA AddFittingInv ==
  ASSUME Invariant, NEW size \in Sizes, AddFitting(size)
  PROVE  Invariant'
<1> DEFINE b == Opened.chain[Opened.batch]
<1> DEFINE w == Write(b, adds + 1, size)
<1>1. AddRuns /\ Fits(b, size) /\ Accept(Replace(Opened, w), adds + 1)
  BY DEF AddFitting
<1>2. GoodList(Opened) /\ b.item_count < MaxItems
  BY <1>1, OpenedGood
<1>3. b \in Batch /\ BatchLimits(b) /\ adds + 1 \in Operation
  BY <1>1, <1>2, ParameterAssumption
  DEF options, GoodList, List, LimitsIn, Invariant, TypeOK, AddRuns, Operation
<1>4. w \in Batch /\ BatchLimits(w) /\ DOMAIN b.items \subseteq DOMAIN w.items
  BY <1>1, <1>2, <1>3, WriteGood
<1> QED BY <1>1, <1>2, <1>4, ReplaceGood, AddKeepsInvariant

\* The batch an overflow opens.
LEMMA SecondGood ==
  ASSUME Invariant, AddRuns
  PROVE  /\ GoodList(MakeBatch(Opened))
         /\ MakeBatch(Opened).chain[MakeBatch(Opened).batch] = NewBatch
<1>1. GoodList(Opened)
  BY OpenedGood
<1>2. Opened \in List /\ Opened.batch \in 0 .. Len(Opened.chain) /\ Opened.batch >= 1
      /\ LimitsIn(Opened.chain) /\ Keeps(Opened)
  BY <1>1 DEF GoodList, List
<1> QED BY <1>2, MakeBatchGood

\* One that overflows goes to a batch of its own.
LEMMA AddOverflowingInv ==
  ASSUME Invariant, NEW size \in Sizes, AddOverflowing(size)
  PROVE  Invariant'
<1> DEFINE l == MakeBatch(Opened)
<1> DEFINE w == Write(NewBatch, adds + 1, size)
<1>1. AddRuns /\ Fits(NewBatch, size) /\ Accept(Replace(l, w), adds + 1)
  BY DEF AddOverflowing
<1>2. GoodList(l) /\ l.chain[l.batch] = NewBatch
  BY <1>1, SecondGood
<1>3. NewBatch.item_count < MaxItems /\ adds + 1 \in Operation
  BY <1>1, ParameterAssumption DEF options, NewBatch, Invariant, TypeOK, AddRuns, Operation
<1>4. w \in Batch /\ BatchLimits(w) /\ DOMAIN NewBatch.items \subseteq DOMAIN w.items
  BY <1>1, <1>3, NewBatchGood, WriteGood
<1> HIDE DEF l, w
<1>5. GoodList(Replace(l, w))
  BY <1>2, <1>4, ReplaceGood
<1> QED BY <1>1, <1>5, AddKeepsInvariant

\* One that fits nowhere leaves a batch that counts it.
LEMMA AddTooLargeInv ==
  ASSUME Invariant, NEW size \in Sizes, AddTooLarge(size)
  PROVE  Invariant'
<1> DEFINE l == MakeBatch(Opened)
<1> DEFINE b == Miscounted
<1>1. AddRuns /\ Refuse(Replace(l, b), "false")
  BY DEF AddTooLarge
<1>2. GoodList(l) /\ l.chain[l.batch] = NewBatch
  BY <1>1, SecondGood
<1>4. b \in Batch /\ BatchLimits(b) /\ b.items = NewBatch.items
  BY ParameterAssumption DEF NewBatch, Miscounted, Batch, BatchLimits
<1> HIDE DEF l, b
<1>5. GoodList(Replace(l, b))
  BY <1>2, <1>4, ReplaceGood
<1> QED BY <1>1, <1>5, AddKeepsInvariant

\* The whole of add().
LEMMA AddInv == ASSUME Invariant, Add PROVE Invariant'
BY AddIncompleteInv, AddUnserialisableInv, AddFittingInv, AddOverflowingInv, AddTooLargeInv
DEF Add

-----------------------------------------------------------------------------
\* execute() begins at the head of a list that is not empty.
LEMMA ExecuteInv ==
  ASSUME Invariant, NEW o \in BOOLEAN, NEW a \in BOOLEAN, Execute(o, a) PROVE Invariant'
<1>1. 1 \in DOMAIN chain
  BY DEF options, Execute, Dangling, Invariant, TypeOK, Null, Freed
<1>2. Entering \in Exec
  BY DEF Entering, Exec, NoReply, Reply
<1>3. TypeOK'
  BY <1>1, <1>2 DEF options, Execute, Invariant, TypeOK
<1>4. LimitsIn(chain)' /\ ReplyFits'
  BY DEF options, Execute, Invariant, ReplyFits, LimitsIn, BatchLimits
<1> QED BY <1>3, <1>4 DEF Invariant

\* What comes of performing k operations concerns the places 1..k.
LEMMA PerformedPlaces ==
  ASSUME NEW k \in Nat, NEW p \in Performed(k)
  PROVE  p.applied \subseteq 1 .. k /\ p.denied \subseteq 1 .. k
<1>1. PICK d \in SUBSET (1 .. k) :
        p = [denied |-> d,
             applied |-> IF ordered THEN {i \in 1 .. k : \A j \in d : i < j}
                         ELSE (1 .. k) \ d]
  BY DEF Performed
<1>2. p.denied = d
      /\ p.applied = IF ordered THEN {i \in 1 .. k : \A j \in d : i < j} ELSE (1 .. k) \ d
  BY <1>1
<1> HIDE <1>1
<1> QED BY <1>2

\* "n" is a natural number.
LEMMA CountsNatural ==
  ASSUME NEW k \in Nat, NEW applied \in SUBSET (1 .. k), NEW u \in SUBSET applied
  PROVE  Counts(applied, u) \subseteq Nat
<1>1. IsFiniteSet(applied) /\ IsFiniteSet(u)
  <2>1. IsFiniteSet(1 .. k)
    BY FS_Interval
  <2> QED BY <2>1, FS_Subset
<1>2. Cardinality(applied) \in Nat /\ Cardinality(u) \in Nat
  BY <1>1, FS_CardinalityType
<1> DEFINE most == Cardinality(u) + MaxMatches * (Cardinality(applied) - Cardinality(u))
<1>3. Counts(applied, u) = IF batch_type = "insert" THEN {Cardinality(applied)}
                           ELSE Cardinality(u) .. most
  BY DEF Counts
<1> HIDE DEF most
<1> QED BY <1>2, <1>3

\* What comes of sending a batch: a failure, or an answer of either kind.
LEMMA ExchangeKinds ==
  ASSUME NEW b, NEW r \in Exchanges(b)
  PROVE  \/ \E status \in {1, 2}, raised \in BOOLEAN : r = Failure(status, raised, Nothing)
         \/ \E p \in Performed(Len(b.items)) : r = Failure(2, TRUE, p)
         \/ ~acknowledged /\ \E p \in Performed(Len(b.items)) : r = BareAnswer(p)
         \/ acknowledged /\ \E p \in Performed(Len(b.items)) : \E u \in Upserted(p) :
              \E n \in Counts(p.applied, u), w \in BOOLEAN : r = Answer(p, u, n, w)
<1>1. CASE r \in {Failure(2, FALSE, Nothing), Failure(2, TRUE, Nothing), Failure(1, TRUE, Nothing)}
  BY <1>1
<1>2. CASE \E p \in Performed(Len(b.items)) : r = Failure(2, TRUE, p)
  BY <1>2
<1>3. ASSUME acknowledged, r \in Answers(b)
      PROVE  \E p \in Performed(Len(b.items)) : \E u \in Upserted(p) :
               \E n \in Counts(p.applied, u), w \in BOOLEAN : r = Answer(p, u, n, w)
  <2>1. Answers(b) =
          UNION {UNION {{Answer(p, u, n, w) : n \in Counts(p.applied, u), w \in BOOLEAN} :
                          u \in Upserted(p)} : p \in Performed(Len(b.items))}
    BY <1>3 DEF Answers
  <2>2. PICK p \in Performed(Len(b.items)) :
          r \in UNION {{Answer(p, u, n, w) : n \in Counts(p.applied, u), w \in BOOLEAN} :
                        u \in Upserted(p)}
    BY <1>3, <2>1
  <2>3. PICK u \in Upserted(p) :
          r \in {Answer(p, u, n, w) : n \in Counts(p.applied, u), w \in BOOLEAN}
    BY <2>2
  <2>4. \E n \in Counts(p.applied, u), w \in BOOLEAN : r = Answer(p, u, n, w)
    BY <2>3
  <2> QED BY <2>4
<1>4. ASSUME ~acknowledged, r \in Answers(b)
      PROVE  \E p \in Performed(Len(b.items)) : r = BareAnswer(p)
  <2>1. Answers(b) = {BareAnswer(p) : p \in Performed(Len(b.items))}
    BY <1>4 DEF Answers
  <2> QED BY <1>4, <2>1
<1>5. \/ r \in {Failure(2, FALSE, Nothing), Failure(2, TRUE, Nothing), Failure(1, TRUE, Nothing)}
      \/ \E p \in Performed(Len(b.items)) : r = Failure(2, TRUE, p)
      \/ r \in Answers(b)
  BY DEF Exchanges
<1> QED BY <1>1, <1>2, <1>3, <1>4, <1>5, Zenon

\* Whatever comes of sending a batch is a reply about places of that batch.
LEMMA ExchangesGood ==
  ASSUME NEW b \in Batch, NEW r \in Exchanges(b)
  PROVE  /\ r \in Reply
         /\ r.applied \cup r.denied \cup r.failed \cup r.upserted \subseteq DOMAIN b.items
<1> DEFINE k == Len(b.items)
<1>1. k \in Nat /\ DOMAIN b.items = 1 .. k
  BY DEF Batch
<1> HIDE DEF k
<1>2. ASSUME NEW status \in {1, 2}, NEW raised \in BOOLEAN, NEW p,
             p = Nothing \/ p \in Performed(k), r = Failure(status, raised, p)
      PROVE  r \in Reply /\ r.applied \cup r.denied \cup r.failed \cup r.upserted \subseteq 1 .. k
  <2>1. p.applied \subseteq 1 .. k /\ p.denied \subseteq 1 .. k
    <3>1. CASE p = Nothing
      BY <3>1 DEF Nothing
    <3> QED BY <1>1, <1>2, <3>1, PerformedPlaces
  <2>2. r.applied = p.applied /\ r.denied = p.denied /\ r.failed = {} /\ r.upserted = {}
    BY <1>2 DEF Failure
  <2>3. r \in Reply
    BY <1>1, <1>2, <2>1 DEF Failure, Reply
  <2> QED BY <2>1, <2>2, <2>3
<1>3. ASSUME NEW p \in Performed(k), r = BareAnswer(p)
      PROVE  r \in Reply /\ r.applied \cup r.denied \cup r.failed \cup r.upserted \subseteq 1 .. k
  <2>1. p.applied \subseteq 1 .. k /\ p.denied \subseteq 1 .. k
    BY <1>1, PerformedPlaces
  <2>2. r.applied = p.applied /\ r.denied = p.denied /\ r.failed = {} /\ r.upserted = {}
    BY <1>3 DEF BareAnswer
  <2>3. r \in Reply
    BY <1>1, <1>3, <2>1 DEF BareAnswer, Reply
  <2> QED BY <2>1, <2>2, <2>3
<1>4. ASSUME NEW p \in Performed(k), NEW u \in Upserted(p), NEW n \in Counts(p.applied, u),
             NEW w \in BOOLEAN, r = Answer(p, u, n, w)
      PROVE  r \in Reply /\ r.applied \cup r.denied \cup r.failed \cup r.upserted \subseteq 1 .. k
  <2>1. p.applied \subseteq 1 .. k /\ p.denied \subseteq 1 .. k
    BY <1>1, PerformedPlaces
  <2>2. u \subseteq p.applied
    BY DEF Upserted
  <2>3. n \in Nat
    BY <1>1, <2>1, <2>2, CountsNatural
  <2>4. r \in Reply
    BY <1>1, <1>4, <2>1, <2>2, <2>3 DEF Answer, Reply
  <2>5. /\ r.applied = p.applied /\ r.denied = p.denied /\ r.failed = p.denied
        /\ r.upserted = u
    BY <1>4 DEF Answer
  <2> QED BY <2>1, <2>2, <2>4, <2>5
<1>5. CASE \E status \in {1, 2}, raised \in BOOLEAN : r = Failure(status, raised, Nothing)
  BY <1>1, <1>2, <1>5
<1>6. CASE \E p \in Performed(k) : r = Failure(2, TRUE, p)
  BY <1>1, <1>2, <1>6
<1>7. CASE \E p \in Performed(k) : r = BareAnswer(p)
  BY <1>1, <1>3, <1>7
<1>8. CASE \E p \in Performed(k) : \E u \in Upserted(p) :
              \E n \in Counts(p.applied, u), w \in BOOLEAN : r = Answer(p, u, n, w)
  BY <1>1, <1>4, <1>8
<1> QED BY <1>5, <1>6, <1>7, <1>8, ExchangeKinds DEF k

\* The reply to the current batch is about places of it.
LEMMA SendBatchInv == ASSUME Invariant, SendBatch PROVE Invariant'
<1> DEFINE b == chain[batch]
<1>1. batch \in DOMAIN chain /\ batch \in Nat /\ b \in Batch
  BY DEF options, SendBatch, Invariant, TypeOK
<1>2. PICK r \in Exchanges(b) :
        /\ exec' = [at |-> batch, reply |-> r, n |-> exec.n, status |-> r.status,
                    raised |-> r.raised, concern |-> exec.concern]
        /\ written' = written \cup {b.items[i] : i \in r.applied}
        /\ denied' = denied \cup {b.items[i] : i \in r.denied}
  BY DEF options, SendBatch
<1>3. r \in Reply
      /\ r.applied \cup r.denied \cup r.failed \cup r.upserted \subseteq DOMAIN b.items
  BY <1>1, ExchangesGood
<1>4. /\ exec.n \in Nat /\ exec.concern \in BOOLEAN
      /\ written \subseteq Operation /\ denied \subseteq Operation
  BY DEF Invariant, TypeOK, Exec
<1>5. r.status \in {0, 1, 2} /\ r.raised \in BOOLEAN
  BY <1>3 DEF Reply
<1>6. exec' \in Exec
  BY <1>1, <1>2, <1>3, <1>4, <1>5 DEF Exec
<1>7. b.items \in Seq(Operation)
  BY <1>1 DEF Batch
<1>8. written' \subseteq Operation /\ denied' \subseteq Operation
  BY <1>2, <1>3, <1>4, <1>7
<1>9. exec'.at = batch /\ exec'.reply = r
  BY <1>2
<1>10. TypeOK'
  BY <1>1, <1>6, <1>8 DEF options, SendBatch, Invariant, TypeOK
<1>11. ReplyFits'
  BY <1>1, <1>3, <1>9 DEF options, SendBatch, ReplyFits
<1>12. LimitsIn(chain)'
  BY DEF options, SendBatch, Invariant, LimitsIn, BatchLimits
<1> QED BY <1>10, <1>11, <1>12 DEF Invariant

\* However execute() ends, nothing is left in the list.
LEMMA FinishInv ==
  ASSUME Invariant, NEW left, Finish(left), exec' \in Exec,
         errors' \subseteq Report, upserts' \subseteq Report,
         UNCHANGED <<options, total_items, adds, pending, inflight, written, denied, nested>>
  PROVE  Invariant'
<1>1. chain' \in Seq(Batch) /\ batch' \in {Null, Freed} /\ pc' = "idle"
  BY DEF Finish
<1>2. result' \in {"none", "true", "false", "exception", "failed_write", "array"}
  BY DEF Finish
<1>3. TypeOK'
  BY <1>1, <1>2 DEF options, Invariant, TypeOK
<1>4. LimitsIn(chain)' /\ ReplyFits'
  BY <1>1 DEF Finish, LimitsIn, ReplyFits
<1> QED BY <1>3, <1>4 DEF Invariant

\* The list is freed after a failure.
LEMMA BreakOffInv == ASSUME Invariant, BreakOff PROVE Invariant'
BY FinishInv DEF options, BreakOff, Invariant, TypeOK

\* What is reported of a batch names operations of it.
LEMMA ReportsGood ==
  ASSUME Invariant, pc = "callback",
         NEW places \in SUBSET DOMAIN chain[exec.at].items
  PROVE  Reports(places) \subseteq Report
<1>0. exec \in Exec /\ chain[exec.at] \in Batch
  BY DEF Invariant, ReplyFits, TypeOK
<1>1. chain[exec.at].items \in Seq(Operation) /\ exec.n \in Nat
  BY <1>0 DEF Batch, Exec
<1> QED BY <1>1 DEF Reports, Report

\* A reply is merged, and the next batch is taken from the list.
LEMMA MergeReplyInv == ASSUME Invariant, MergeReply PROVE Invariant'
<1> DEFINE r == exec.reply
<1>1. r \in Reply /\ exec \in Exec
  BY DEF Invariant, TypeOK, Exec
<1>2. r.n \in Nat /\ exec.n \in Nat /\ r.concern \in BOOLEAN /\ exec.concern \in BOOLEAN
  BY <1>1 DEF Reply, Exec
<1>3. StatusAfter(r) \in {0, 1, 2}
  BY <1>1 DEF StatusAfter, Reply
<1>4. exec' = Merged(r)
  BY DEF options, MergeReply
<1>5. exec' \in Exec
  <2>1. exec.at \in Nat /\ exec.reply \in Reply /\ exec.raised \in BOOLEAN
    BY <1>1 DEF Exec
  <2>2. (exec.concern \/ r.concern) \in BOOLEAN
    OBVIOUS
  <2>3. exec.n + r.n \in Nat
    BY <1>2
  <2> QED BY <1>3, <1>4, <2>1, <2>2, <2>3 DEF Merged, Exec
<1>6. Reports(r.failed) \subseteq Report /\ Reports(r.upserted) \subseteq Report
  BY ReportsGood DEF options, MergeReply, Invariant, ReplyFits
<1>7. errors' \subseteq Report /\ upserts' \subseteq Report
  BY <1>6 DEF options, MergeReply, Invariant, TypeOK
<1>8. CASE NextBatch # Null /\ StatusAfter(r) = 0
  <2>1. pc' = "send" /\ batch' = NextBatch /\ UNCHANGED <<chain, result>>
    BY <1>8 DEF options, MergeReply
  <2>2. NextBatch \in DOMAIN chain
    BY <1>8 DEF options, NextBatch, Null, MergeReply, Invariant, TypeOK
  <2>3. TypeOK'
    BY <1>5, <1>7, <2>1, <2>2 DEF options, MergeReply, Invariant, TypeOK
  <2>4. LimitsIn(chain)' /\ ReplyFits'
    BY <2>1 DEF Invariant, ReplyFits, LimitsIn, BatchLimits
  <2> QED BY <2>3, <2>4 DEF Invariant
<1>9. CASE ~(NextBatch # Null /\ StatusAfter(r) = 0)
  BY <1>5, <1>7, <1>9, FinishInv DEF options, MergeReply
<1> QED BY <1>8, <1>9

\* The steps that change neither the list nor the reply.
LEMMA OtherInv ==
  ASSUME Invariant, ExecuteEmpty \/ NoServer \/ ExchangeEndsProcess \/ UseDangling
  PROVE  Invariant'
<1>1. CASE ExecuteEmpty \/ NoServer
  BY <1>1 DEF options, ExecuteEmpty, NoServer, Invariant, TypeOK, LimitsIn, BatchLimits, ReplyFits
<1>2. CASE ExchangeEndsProcess \/ UseDangling
  BY <1>2 DEF options, ExchangeEndsProcess, UseDangling, Invariant, TypeOK, LimitsIn, BatchLimits,
              ReplyFits
<1> QED BY <1>1, <1>2

-----------------------------------------------------------------------------
\* The invariant holds of a new MongoWriteBatch.
LEMMA InitInv == Init => Invariant
<1> SUFFICES ASSUME Init PROVE Invariant
  OBVIOUS
<1>1. Entering \in Exec
  BY DEF Entering, Exec, NoReply, Reply
<1>2. TypeOK
  <2>1. chain \in Seq(Batch) /\ batch \in {Null, Freed} \cup DOMAIN chain
    BY DEF Init
  <2>2. adds \in 0 .. MaxAdds /\ total_items \in Nat /\ exec \in Exec
    BY <1>1, ParameterAssumption DEF Init
  <2>3. pc \in {"idle", "send", "callback", "undefined"}
        /\ (pc \in {"send", "callback"} => batch \in DOMAIN chain)
    BY DEF Init
  <2> QED BY <2>1, <2>2, <2>3 DEF Init, TypeOK
<1>3. LimitsIn(chain) /\ ReplyFits
  BY DEF Init, LimitsIn, ReplyFits
<1> QED BY <1>2, <1>3 DEF Invariant

\* The invariant is inductive.
LEMMA NextInv == Invariant /\ [Next]_vars => Invariant'
<1> SUFFICES ASSUME Invariant, [Next]_vars PROVE Invariant'
  OBVIOUS
<1>1. CASE UNCHANGED vars
  BY <1>1 DEF options, vars, Invariant, TypeOK, LimitsIn, BatchLimits, ReplyFits
<1>2. CASE Next
  BY <1>2, AddInv, ExecuteInv, SendBatchInv, BreakOffInv, MergeReplyInv, OtherInv DEF Next
<1> QED BY <1>1, <1>2

\* The invariant holds for all limits, sizes and numbers of operations.
THEOREM BatchInvariant == Spec => []Invariant
BY InitInv, NextInv, PTL DEF Spec

\* Every variable keeps its type: intern->batch points into the list, or is
\* NULL or freed, and execute() never walks beyond the last batch.
THEOREM BatchTypesCorrect == Spec => []TypeOK
<1>1. Invariant => TypeOK
  BY DEF Invariant
<1> QED BY <1>1, BatchInvariant, PTL

\* No batch ever exceeds the number of operations or the bytes a server accepts.
THEOREM BatchesWithinLimits == Spec => []WithinServerLimits
<1>1. Invariant => WithinServerLimits
  <2> SUFFICES ASSUME Invariant, NEW i \in DOMAIN chain
               PROVE  /\ Len(chain[i].items) <= MaxItems
                      /\ ~chain[i].broken => chain[i].size <= MaxWire
    BY DEF WithinServerLimits
  <2>1. chain[i] \in Batch /\ BatchLimits(chain[i])
    BY DEF Invariant, TypeOK, LimitsIn
  <2> QED BY <2>1, ParameterAssumption DEF BatchLimits, Batch
<1> QED BY <1>1, BatchInvariant, PTL

-----------------------------------------------------------------------------
(* The order of operations.  Its invariant is kept beside the first one.    *)

\* Operation p of batch i is in list c.
At(c, i, p) == i \in DOMAIN c /\ p \in DOMAIN c[i].items

Sorted(c) ==
  \A i, j, p, q : At(c, i, p) /\ At(c, j, q) /\ Before(i, p, j, q)
                    => c[i].items[p] < c[j].items[q]

\* All operations of c were accepted among the first n calls.
UpTo(c, n) == \A i, p : At(c, i, p) => c[i].items[p] <= n

\* Is batch j one that execute() has still to send, or the next one will?
Unsent(j) ==
  pc = "idle" \/ (pc = "send" /\ j >= batch) \/ (pc = "callback" /\ j > exec.at)

SentBefore ==
  \A j, p : At(chain, j, p) /\ Unsent(j) =>
    \A w \in written \cup denied : w < chain[j].items[p]

\* While operations are counted nothing is linked behind the current batch.
CurrentIsLast ==
  /\ total_items > 0 /\ batch \in DOMAIN chain => batch = Len(chain)
  /\ pc = "send" => total_items = 0

Held(c) == {c[x[1]].items[x[2]] : x \in {y \in Nat \X Nat : At(c, y[1], y[2])}}

\* The list holds what was accepted, or is empty and about to be freed; what
\* callbacks add during an execution is counted, and lost with the list.
Queue ==
  /\ pc = "idle" /\ (~nested \/ ~Dangling) =>
       /\ total_items = Cardinality(pending) /\ Held(chain) = pending
       /\ batch = Len(chain) \/ (batch = Freed /\ chain = <<>>)
  /\ pc \in {"send", "callback"} /\ (~nested \/ total_items = 0) =>
       pending = {} /\ total_items = 0

\* An ordered execution that has seen an error sends nothing more.
Stops ==
  ordered =>
    /\ pc \in {"send", "callback"} => errors = {}
    /\ pc = "callback" =>
         \A f \in exec.reply.failed : \A w \in written : w < chain[exec.at].items[f]

\* An acknowledged one in which an operation has failed has seen an error.
Seen ==
  ordered /\ acknowledged =>
    /\ pc = "send" => denied \cap inflight = {}
    /\ pc = "callback" /\ exec.status = 0 /\ exec.reply.failed = {} =>
         denied \cap inflight = {}

Order ==
  /\ Sorted(chain) /\ UpTo(chain, adds)
  /\ written \subseteq 1 .. adds /\ denied \subseteq 1 .. adds
  /\ pending \subseteq 1 .. adds
  /\ SentBefore /\ CurrentIsLast /\ Queue /\ Stops /\ Seen
  /\ ReusableUnlessFailed /\ OrderedStopsAtError

-----------------------------------------------------------------------------
(* What add() makes of the list.                                            *)

\* Nothing was added to the list, and nothing taken from it up to the current batch.
Follows(l) ==
  /\ batch <= l.batch
  /\ \A i, p : At(l.chain, i, p) =>
       At(chain, i, p) /\ l.chain[i].items[p] = chain[i].items[p]
  /\ \A i, p : At(chain, i, p) /\ i <= batch => At(l.chain, i, p)

LEMMA MakeBatchFollows ==
  ASSUME Invariant, batch \in Nat, NEW l \in List, l.batch \in 0 .. Len(l.chain), Follows(l)
  PROVE  /\ Follows(MakeBatch(l))
         /\ MakeBatch(l).batch = Len(MakeBatch(l).chain)
<1> DEFINE m == MakeBatch(l)
<1> DEFINE front == SubSeq(l.chain, 1, l.batch)
<1>1. l.chain \in Seq(Batch) /\ l.batch \in Nat
  BY DEF List
<1>2. front \in Seq(Batch) /\ Len(front) = l.batch
      /\ \A i \in 1 .. l.batch : front[i] = l.chain[i]
  BY <1>1
<1>3. m = [chain |-> Append(front, NewBatch), batch |-> l.batch + 1]
  BY DEF MakeBatch
<1> HIDE DEF front, m
<1>4. /\ m.chain \in Seq(Batch) /\ Len(m.chain) = l.batch + 1
      /\ m.chain[l.batch + 1] = NewBatch
      /\ \A i \in 1 .. l.batch : m.chain[i] = l.chain[i]
  BY <1>1, <1>2, <1>3, NewBatchGood
<1>5. m.batch = l.batch + 1 /\ DOMAIN m.chain = 1 .. (l.batch + 1)
      /\ DOMAIN NewBatch.items = {} /\ DOMAIN l.chain = 1 .. Len(l.chain)
      /\ Len(l.chain) \in Nat
  BY <1>1, <1>3, <1>4 DEF NewBatch
<1>6. ASSUME NEW i, NEW p
      PROVE  At(m.chain, i, p) <=> (At(l.chain, i, p) /\ i <= l.batch)
  <2>1. CASE i \in 1 .. l.batch
    BY <2>1, <1>1, <1>4, <1>5 DEF At
  <2>2. CASE i = l.batch + 1
    BY <2>2, <1>1, <1>4, <1>5 DEF At
  <2>3. CASE i \notin 1 .. (l.batch + 1)
    <3>1. ~At(m.chain, i, p)
      BY <2>3, <1>5 DEF At
    <3>2. ~(At(l.chain, i, p) /\ i <= l.batch)
      BY <2>3, <1>1, <1>5 DEF At
    <3> QED BY <3>1, <3>2
  <2>4. i \in 1 .. (l.batch + 1) => i \in 1 .. l.batch \/ i = l.batch + 1
    BY <1>1
  <2> QED BY <2>1, <2>2, <2>3, <2>4
<1>7. ASSUME NEW i, NEW p, At(l.chain, i, p), i <= l.batch
      PROVE  m.chain[i].items[p] = l.chain[i].items[p]
  BY <1>1, <1>4, <1>5, <1>7 DEF At
<1>8. batch <= m.batch
  BY <1>1, <1>5 DEF Follows
<1>9. ASSUME NEW i, NEW p, At(chain, i, p), i <= batch PROVE At(m.chain, i, p)
  <2>1. At(l.chain, i, p)
    BY <1>9 DEF Follows
  <2>2. i \in Nat
    BY <2>1, <1>5 DEF At
  <2>3. i <= l.batch
    BY <2>2, <1>1, <1>9 DEF Follows
  <2> QED BY <2>1, <2>3, <1>6
<1>10. Follows(m)
  BY <1>6, <1>7, <1>8, <1>9 DEF Follows
<1> QED BY <1>4, <1>5, <1>10 DEF m

\* The list add() writes to ends with the current batch.
LEMMA OpenedFollows ==
  ASSUME Invariant, Order, AddRuns
  PROVE  /\ Follows(Opened) /\ Opened.batch = Len(Opened.chain) /\ batch \in Nat
         /\ total_items = 0 => batch < Opened.batch
<1> DEFINE l == [chain |-> chain, batch |-> batch]
<1>1. batch \in Nat /\ batch \in 0 .. Len(chain) /\ chain \in Seq(Batch)
      /\ (batch = 0 => total_items = 0) /\ total_items \in Nat
  BY DEF options, Invariant, TypeOK, AddRuns, Dangling, Null, Freed
<1>2. l \in List /\ l.batch \in 0 .. Len(l.chain) /\ Follows(l)
  BY <1>1 DEF List, Follows
<1>3. CASE NeedsBatch
  <2>1. Opened = MakeBatch(l) /\ MakeBatch(l).batch = batch + 1
    BY <1>3 DEF Opened, MakeBatch
  <2> HIDE DEF l
  <2> QED BY <1>1, <1>2, <2>1, MakeBatchFollows
<1>4. CASE ~NeedsBatch
  <2>1. Opened = l /\ total_items > 0
    BY <1>1, <1>4 DEF Opened, NeedsBatch
  <2>2. batch \in DOMAIN chain
    BY <1>1, <2>1
  <2>3. batch = Len(chain)
    BY <2>1, <2>2 DEF Order, CurrentIsLast
  <2> QED BY <1>1, <1>2, <2>1, <2>3
<1> QED BY <1>3, <1>4

\* A batch is replaced by one with the same operations.
LEMMA ReplaceFollows ==
  ASSUME Invariant, NEW l, GoodList(l), Follows(l), l.batch = Len(l.chain), NEW b,
         b.items = l.chain[l.batch].items
  PROVE  LET m == Replace(l, b) IN Follows(m) /\ m.batch = Len(m.chain)
<1> DEFINE m == Replace(l, b)
<1>1. l \in List /\ l.chain \in Seq(Batch) /\ l.batch \in DOMAIN l.chain
  BY DEF GoodList, List
<1>2. m = [l EXCEPT !.chain = [l.chain EXCEPT ![l.batch] = b]]
  BY <1>1 DEF Replace, List
<1> HIDE DEF m
<1>3. m.batch = l.batch /\ m.chain = [l.chain EXCEPT ![l.batch] = b]
  BY <1>1, <1>2 DEF List
<1>4. DOMAIN m.chain = DOMAIN l.chain /\ Len(m.chain) = Len(l.chain)
  BY <1>1, <1>3
<1>5. \A i \in DOMAIN l.chain : m.chain[i].items = l.chain[i].items
  BY <1>1, <1>3
<1>6. \A i, p : At(m.chain, i, p) <=> At(l.chain, i, p)
  BY <1>4, <1>5 DEF At
<1>7. \A i, p : At(l.chain, i, p) => m.chain[i].items[p] = l.chain[i].items[p]
  BY <1>5 DEF At
<1> QED BY <1>3, <1>4, <1>6, <1>7 DEF Follows, m

\* Operations are numbers.
LEMMA NumbersAt ==
  ASSUME Invariant
  PROVE  \A i, p : At(chain, i, p) => chain[i].items[p] \in Nat
<1> SUFFICES ASSUME NEW i, NEW p, At(chain, i, p) PROVE chain[i].items[p] \in Nat
  OBVIOUS
<1>1. chain[i] \in Batch
  BY DEF At, Invariant, TypeOK
<1>2. chain[i].items \in Seq(Operation) /\ p \in DOMAIN chain[i].items
  BY <1>1 DEF Batch, At
<1>3. chain[i].items[p] \in Operation
  BY <1>2
<1> QED BY <1>3, ParameterAssumption DEF Operation

\* What a call of add() that accepts nothing does to the order.
LEMMA RefuseKeepsOrder ==
  ASSUME Invariant, Order, AddRuns, NEW l, GoodList(l), Follows(l), l.batch = Len(l.chain),
         NEW r, Refuse(l, r)
  PROVE  Order'
<1>1. /\ l.chain \in Seq(Batch) /\ l.batch \in Nat /\ l.batch \in DOMAIN l.chain
      /\ chain' = l.chain /\ batch' = l.batch
  BY DEF GoodList, List, Refuse
<1>2. /\ pc' = pc /\ pc \in {"idle", "callback"} /\ adds' = adds + 1 /\ adds \in Nat
      /\ nested' = (nested \/ pc = "callback")
      /\ UNCHANGED <<exec, errors, written, denied, inflight, ordered, acknowledged,
                     total_items, pending>>
  BY DEF options, AddRuns, UserRuns, Refuse, Invariant, TypeOK
<1>3. \A i, p : At(chain', i, p) => At(chain, i, p) /\ chain'[i].items[p] = chain[i].items[p]
  BY <1>1 DEF Follows
<1>4. Sorted(chain')
  BY <1>3 DEF Order, Sorted
<1>5. UpTo(chain', adds')
  <2> SUFFICES ASSUME NEW i, NEW p, At(chain', i, p) PROVE chain'[i].items[p] <= adds + 1
    BY <1>2 DEF UpTo
  <2>1. At(chain, i, p) /\ chain'[i].items[p] = chain[i].items[p]
    BY <1>3
  <2>2. chain[i].items[p] \in Nat
    BY <2>1, NumbersAt
  <2> QED BY <1>2, <2>1, <2>2 DEF Order, UpTo
<1>6. written' \subseteq 1 .. adds' /\ denied' \subseteq 1 .. adds' /\ pending' \subseteq 1 .. adds'
  BY <1>2 DEF Order
<1>7. SentBefore'
  BY <1>2, <1>3 DEF Order, SentBefore, Unsent
<1>8. CurrentIsLast'
  BY <1>1, <1>2 DEF CurrentIsLast
<1>9. Queue'
  <2> SUFFICES ASSUME pc = "idle"
               PROVE  /\ total_items' = Cardinality(pending') /\ Held(chain') = pending'
                      /\ batch' = Len(chain')
    BY <1>2 DEF Order, Queue
  <2>1. total_items = Cardinality(pending) /\ Held(chain) = pending /\ batch = Len(chain)
    <3>1. ~Dangling
      BY DEF options, AddRuns
    <3>2. batch # Freed
      BY <3>1 DEF Dangling
    <3> QED BY <3>1, <3>2 DEF Order, Queue
  <2>2. \A i, p : At(chain, i, p) => i <= batch
    BY <2>1 DEF At, Invariant, TypeOK
  <2>3. \A i, p : At(chain, i, p) <=> At(chain', i, p)
    BY <1>1, <1>3, <2>2 DEF Follows
  <2>4. Held(chain') = Held(chain)
    BY <1>3, <2>3 DEF Held
  <2> QED BY <1>1, <1>2, <2>1, <2>4
<1>10. Stops'
  <2> SUFFICES ASSUME ordered, pc = "callback", NEW f \in exec.reply.failed, NEW w \in written
               PROVE  w < chain'[exec.at].items[f]
    BY <1>2 DEF Order, Stops
  <2>1. At(chain, exec.at, f) /\ exec.at <= batch
    BY DEF Invariant, ReplyFits, At
  <2>2. chain'[exec.at].items[f] = chain[exec.at].items[f]
    BY <1>1, <1>3, <2>1 DEF Follows
  <2> QED BY <2>2 DEF Order, Stops
<1>11. ReusableUnlessFailed'
  BY <1>1 DEF ReusableUnlessFailed, Freed
<1>12. Seen' /\ OrderedStopsAtError'
  BY <1>2 DEF Order, Seen, OrderedStopsAtError
<1> QED BY <1>4, <1>5, <1>6, <1>7, <1>8, <1>9, <1>10, <1>11, <1>12 DEF Order, UpTo, Sorted, At, Before

\* List m is l with operation id as number k of its last batch.
WithLast(m, l, k, id) ==
  /\ k \in Nat /\ m.batch = l.batch /\ Len(m.chain) = Len(l.chain)
  /\ \A i, p : At(m.chain, i, p) <=> At(l.chain, i, p) \/ (i = l.batch /\ p = k)
  /\ \A i, p : At(l.chain, i, p) =>
       /\ m.chain[i].items[p] = l.chain[i].items[p] /\ Before(i, p, l.batch, k)
       /\ ~Before(l.batch, k, i, p)
  /\ m.chain[l.batch].items[k] = id
  /\ ~Before(l.batch, k, l.batch, k)

\* An accepted operation stands behind all others.
LEMMA WrittenLast ==
  ASSUME NEW l, GoodList(l), l.batch = Len(l.chain), NEW id \in Operation, NEW size
  PROVE  WithLast(Replace(l, Write(l.chain[l.batch], id, size)), l,
                  Len(l.chain[l.batch].items) + 1, id)
<1> DEFINE b == l.chain[l.batch]
<1> DEFINE w == Write(b, id, size)
<1> DEFINE m == Replace(l, w)
<1> DEFINE k == Len(b.items) + 1
<1>1. l \in List /\ l.chain \in Seq(Batch) /\ l.batch \in DOMAIN l.chain /\ l.batch \in Nat
  BY DEF GoodList, List
<1>2. m = [l EXCEPT !.chain = [l.chain EXCEPT ![l.batch] = w]]
  BY <1>1 DEF Replace, List
<1> HIDE DEF m
<1>3. m.batch = l.batch /\ m.chain = [l.chain EXCEPT ![l.batch] = w]
  BY <1>1, <1>2 DEF List
<1>4. DOMAIN m.chain = DOMAIN l.chain /\ Len(m.chain) = Len(l.chain)
  BY <1>1, <1>3
<1>5. b.items \in Seq(Operation) /\ w.items = Append(b.items, id)
  <2>1. b \in Batch
    BY <1>1
  <2> HIDE DEF b
  <2> QED BY <2>1 DEF Batch, Write
<1>6. /\ k \in Nat /\ DOMAIN b.items = 1 .. (k - 1) /\ DOMAIN w.items = 1 .. k
      /\ \A p \in 1 .. (k - 1) : w.items[p] = b.items[p]
      /\ w.items[k] = id
  <2>1. Len(b.items) \in Nat /\ DOMAIN b.items = 1 .. Len(b.items)
    BY <1>5
  <2> DEFINE s == b.items
  <2> HIDE DEF w, b, s
  <2>2. s \in Seq(Operation) /\ w.items = Append(s, id)
    BY <1>5 DEF s
  <2>3. /\ Append(s, id) \in Seq(Operation) /\ Len(Append(s, id)) = Len(s) + 1
        /\ \A p \in 1 .. Len(s) : Append(s, id)[p] = s[p]
        /\ Append(s, id)[Len(s) + 1] = id
    BY <2>2
  <2>4. DOMAIN w.items = 1 .. (Len(s) + 1)
    BY <2>2, <2>3
  <2>5. k = Len(s) + 1 /\ Len(s) = k - 1
    BY <2>1 DEF s
  <2> HIDE DEF k
  <2> QED BY <2>1, <2>2, <2>3, <2>4, <2>5 DEF s
<1> HIDE DEF w, k
<1>7. m.chain[l.batch] = w
  BY <1>1, <1>3
<1>8. \A i \in DOMAIN l.chain : i # l.batch => m.chain[i] = l.chain[i]
  BY <1>1, <1>3
<1>9. ASSUME NEW i, NEW p
      PROVE  At(m.chain, i, p) <=> At(l.chain, i, p) \/ (i = l.batch /\ p = k)
  <2>1. CASE i # l.batch
    BY <2>1, <1>4, <1>8 DEF At
  <2>2. CASE i = l.batch
    <3>1. p \in 1 .. k <=> p \in 1 .. (k - 1) \/ p = k
      <4>1. k >= 1
        BY <1>5 DEF k
      <4> QED BY <4>1, <1>6
    <3> QED BY <2>2, <3>1, <1>1, <1>4, <1>6, <1>7 DEF At
  <2> QED BY <2>1, <2>2
<1>10. ASSUME NEW i, NEW p, At(l.chain, i, p)
       PROVE  /\ m.chain[i].items[p] = l.chain[i].items[p] /\ Before(i, p, l.batch, k)
              /\ ~Before(l.batch, k, i, p)
  <2>1. i \in Nat /\ i <= l.batch
    BY <1>1, <1>10 DEF At
  <2>2. CASE i # l.batch
    BY <2>1, <2>2, <1>1, <1>8, <1>10 DEF At, Before
  <2>3. CASE i = l.batch
    <3>1. p \in 1 .. (k - 1)
      BY <2>3, <1>6, <1>10 DEF At
    <3> QED BY <2>3, <3>1, <1>1, <1>6, <1>7 DEF Before
  <2> QED BY <2>2, <2>3
<1>11. ~Before(l.batch, k, l.batch, k)
  BY <1>1, <1>6 DEF Before
<1> QED BY <1>1, <1>3, <1>4, <1>6, <1>7, <1>9, <1>10, <1>11 DEF WithLast, m, w, k

\* What a call of add() that accepts an operation does to the order.
LEMMA AcceptKeepsOrder ==
  ASSUME Invariant, Order, AddRuns, NEW l, GoodList(l), Follows(l), l.batch = Len(l.chain),
         NEW size, Accept(Replace(l, Write(l.chain[l.batch], adds + 1, size)), adds + 1)
  PROVE  Order'
<1> DEFINE k == Len(l.chain[l.batch].items) + 1
<1>1. /\ l.chain \in Seq(Batch) /\ l.batch \in Nat /\ batch' = l.batch
      /\ Len(chain') = Len(l.chain) /\ k \in Nat
      /\ \A i, p : At(chain', i, p) <=> At(l.chain, i, p) \/ (i = l.batch /\ p = k)
      /\ \A i, p : At(l.chain, i, p) =>
           /\ chain'[i].items[p] = l.chain[i].items[p] /\ Before(i, p, l.batch, k)
           /\ ~Before(l.batch, k, i, p)
      /\ chain'[l.batch].items[k] = adds + 1
      /\ ~Before(l.batch, k, l.batch, k)
  <2>1. adds + 1 \in Operation
    BY ParameterAssumption DEF options, Invariant, TypeOK, AddRuns, Operation
  <2>2. l.chain \in Seq(Batch) /\ l.batch \in Nat
    BY DEF GoodList, List
  <2> DEFINE m == Replace(l, Write(l.chain[l.batch], adds + 1, size))
  <2>3. chain' = m.chain /\ batch' = m.batch
    BY DEF Accept
  <2>4. WithLast(m, l, k, adds + 1)
    BY <2>1, WrittenLast
  <2> HIDE DEF m, k
  <2> QED BY <2>2, <2>3, <2>4 DEF WithLast
<1> HIDE DEF k
<1>2. /\ pc' = pc /\ pc \in {"idle", "callback"} /\ adds' = adds + 1 /\ adds \in Nat
      /\ nested' = (nested \/ pc = "callback")
      /\ total_items' = total_items + 1 /\ pending' = pending \cup {adds + 1}
      /\ UNCHANGED <<exec, errors, written, denied, inflight, ordered, acknowledged>>
  BY DEF options, AddRuns, UserRuns, Accept, Invariant, TypeOK
<1>3. \A i, p : At(l.chain, i, p) =>
        At(chain, i, p) /\ chain'[i].items[p] = chain[i].items[p]
  BY <1>1 DEF Follows
<1>4. \A i, p : At(chain, i, p) => chain[i].items[p] \in Nat /\ chain[i].items[p] <= adds
  BY NumbersAt DEF Order, UpTo
<1>5. Sorted(chain')
  <2> SUFFICES ASSUME NEW i, NEW j, NEW p, NEW q, At(chain', i, p), At(chain', j, q),
                      Before(i, p, j, q)
               PROVE  chain'[i].items[p] < chain'[j].items[q]
    BY DEF Sorted
  <2>1. CASE At(l.chain, i, p) /\ At(l.chain, j, q)
    BY <2>1, <1>3 DEF Order, Sorted
  <2>2. CASE At(l.chain, i, p) /\ j = l.batch /\ q = k
    <3>1. chain'[i].items[p] \in Nat /\ chain'[i].items[p] <= adds
      BY <2>2, <1>3, <1>4
    <3> QED BY <2>2, <3>1, <1>1, <1>2
  <2>3. CASE i = l.batch /\ p = k
    BY <2>3, <1>1
  <2> QED BY <2>1, <2>2, <2>3, <1>1
<1>6. UpTo(chain', adds')
  <2> SUFFICES ASSUME NEW i, NEW p, At(chain', i, p) PROVE chain'[i].items[p] <= adds + 1
    BY <1>2 DEF UpTo
  <2>1. CASE At(l.chain, i, p)
    BY <2>1, <1>2, <1>3, <1>4
  <2>2. CASE i = l.batch /\ p = k
    BY <2>2, <1>1, <1>2
  <2> QED BY <2>1, <2>2, <1>1
<1>7. written' \subseteq 1 .. adds' /\ denied' \subseteq 1 .. adds' /\ pending' \subseteq 1 .. adds'
  BY <1>2 DEF Order
<1>8. SentBefore'
  <2> SUFFICES ASSUME NEW j, NEW p, At(chain', j, p), Unsent(j)', NEW w \in written \cup denied
               PROVE  w < chain'[j].items[p]
    BY <1>2 DEF SentBefore
  <2>1. CASE At(l.chain, j, p)
    <3>1. Unsent(j)
      BY <1>2 DEF Unsent
    <3> QED BY <2>1, <3>1, <1>3 DEF Order, SentBefore
  <2>2. CASE j = l.batch /\ p = k
    <3>1. w \in 1 .. adds
      BY DEF Order
    <3> QED BY <2>2, <3>1, <1>1, <1>2
  <2> QED BY <2>1, <2>2, <1>1
<1>9. CurrentIsLast'
  BY <1>1, <1>2 DEF CurrentIsLast
<1>10. Queue'
  <2>0. total_items' # 0 /\ (nested' \/ pc = "idle")
    <3>1. total_items \in Nat
      BY DEF Invariant, TypeOK
    <3>2. pc = "callback" => nested'
      BY <1>2, Zenon
    <3> QED BY <1>2, <3>1, <3>2
  <2> SUFFICES ASSUME pc = "idle"
               PROVE  /\ total_items' = Cardinality(pending') /\ Held(chain') = pending'
                      /\ batch' = Len(chain')
    BY <1>2, <2>0 DEF Queue
  <2>1. total_items = Cardinality(pending) /\ Held(chain) = pending /\ batch = Len(chain)
    <3>1. ~Dangling
      BY DEF options, AddRuns
    <3>2. batch # Freed
      BY <3>1 DEF Dangling
    <3> QED BY <3>1, <3>2 DEF Order, Queue
  <2>2. \A i, p : At(chain, i, p) => i <= batch
    BY <2>1 DEF At, Invariant, TypeOK
  <2>3. \A i, p : At(chain, i, p) <=> At(l.chain, i, p)
    BY <2>2 DEF Follows
  <2>4. l.batch \in Nat /\ k \in Nat
    BY <1>1
  <2>5. \A i, p : At(chain', i, p) <=> At(chain, i, p) \/ (i = l.batch /\ p = k)
    BY <1>1, <2>3
  <2>6. Held(chain') = Held(chain) \cup {adds + 1}
    <3>1. ASSUME NEW v \in Held(chain') PROVE v \in Held(chain) \cup {adds + 1}
      <4>1. PICK x \in Nat \X Nat : At(chain', x[1], x[2]) /\ v = chain'[x[1]].items[x[2]]
        BY DEF Held
      <4>2. CASE At(chain, x[1], x[2])
        BY <4>1, <4>2, <1>3, <2>3 DEF Held
      <4>3. CASE x[1] = l.batch /\ x[2] = k
        BY <4>1, <4>3, <1>1
      <4> QED BY <4>1, <4>2, <4>3, <2>5
    <3>2. ASSUME NEW v \in Held(chain) PROVE v \in Held(chain')
      <4>1. PICK x \in Nat \X Nat : At(chain, x[1], x[2]) /\ v = chain[x[1]].items[x[2]]
        BY DEF Held
      <4>2. At(chain', x[1], x[2]) /\ v = chain'[x[1]].items[x[2]]
        BY <4>1, <1>3, <2>3, <2>5
      <4> QED BY <4>2 DEF Held
    <3>3. adds + 1 \in Held(chain')
      <4> DEFINE x == <<l.batch, k>>
      <4>1. x \in Nat \X Nat /\ At(chain', x[1], x[2]) /\ chain'[x[1]].items[x[2]] = adds + 1
        BY <1>1, <2>4, <2>5
      <4> HIDE DEF x
      <4> QED BY <4>1 DEF Held
    <3> QED BY <3>1, <3>2, <3>3
  <2>7. IsFiniteSet(pending) /\ adds + 1 \notin pending
    <3>1. IsFiniteSet(1 .. adds)
      BY <1>2, FS_Interval
    <3>2. pending \subseteq 1 .. adds
      BY DEF Order
    <3>3. IsFiniteSet(pending)
      BY <3>1, <3>2, FS_Subset
    <3>4. adds + 1 \notin 1 .. adds
      BY <1>2
    <3> QED BY <3>2, <3>3, <3>4
  <2>8. Cardinality(pending \cup {adds + 1}) = Cardinality(pending) + 1
    BY <2>7, FS_AddElement
  <2> QED BY <1>1, <1>2, <2>1, <2>6, <2>8
<1>11. Stops'
  <2> SUFFICES ASSUME ordered, pc = "callback", NEW f \in exec.reply.failed, NEW w \in written
               PROVE  w < chain'[exec.at].items[f]
    BY <1>2 DEF Order, Stops
  <2>1. At(chain, exec.at, f) /\ exec.at <= batch
    BY DEF Invariant, ReplyFits, At
  <2>2. chain'[exec.at].items[f] = chain[exec.at].items[f]
    BY <1>3, <2>1 DEF Follows
  <2> QED BY <2>2 DEF Order, Stops
<1>12. ReusableUnlessFailed'
  BY <1>1 DEF ReusableUnlessFailed, Freed
<1>13. Seen' /\ OrderedStopsAtError'
  BY <1>2 DEF Order, Seen, OrderedStopsAtError
<1> QED BY <1>5, <1>6, <1>7, <1>8, <1>9, <1>10, <1>11, <1>12, <1>13
        DEF Order, UpTo, Sorted, At, Before

-----------------------------------------------------------------------------
\* The whole of add() keeps the order.
\* What add() does comes down to a good list, with an operation more or as it is.
Shape(l) ==
  /\ GoodList(l) /\ Follows(l) /\ l.batch = Len(l.chain)
  /\ total_items = 0 => batch < l.batch
  /\ \/ Refuse(l, "exception")
     \/ Refuse(l, "false")
     \/ \E size \in Sizes :
          Accept(Replace(l, Write(l.chain[l.batch], adds + 1, size)), adds + 1)

LEMMA ReplaceBatch ==
  ASSUME NEW l, GoodList(l), NEW b
  PROVE  Replace(l, b).batch = l.batch
BY DEF Replace, GoodList, List

LEMMA AddShapes ==
  ASSUME Invariant, Order, Add
  PROVE  AddRuns /\ \E l : Shape(l)
<1>1. ASSUME AddRuns
      PROVE  /\ GoodList(Opened) /\ Follows(Opened) /\ Opened.batch = Len(Opened.chain)
             /\ (total_items = 0 => batch < Opened.batch)
             /\ Opened.chain[Opened.batch] \in Batch
             /\ BatchLimits(Opened.chain[Opened.batch])
             /\ Opened.chain[Opened.batch].item_count < MaxItems
  BY <1>1, OpenedGood, OpenedFollows DEF GoodList, List, LimitsIn
<1>2. ASSUME AddRuns
      PROVE  LET l == MakeBatch(Opened) IN
             /\ GoodList(l) /\ Follows(l) /\ l.batch = Len(l.chain)
             /\ l.chain[l.batch] = NewBatch /\ (total_items = 0 => batch < l.batch)
  <2>1. Opened \in List /\ Opened.batch \in 0 .. Len(Opened.chain) /\ batch \in Nat
    BY <1>2, <1>1, OpenedFollows DEF GoodList, List
  <2>2. MakeBatch(Opened).batch = Opened.batch + 1
    BY DEF MakeBatch
  <2>3. GoodList(Opened) /\ Follows(Opened) /\ (total_items = 0 => batch < Opened.batch)
    BY <1>1, <1>2
  <2>4. Opened.batch \in Nat
    BY <2>1 DEF List
  <2> QED BY <1>2, <2>1, <2>2, <2>3, <2>4, SecondGood, MakeBatchFollows
<1>3. CASE AddIncomplete
  BY <1>1, <1>3 DEF AddIncomplete, Shape
<1>4. ASSUME NEW size \in Sizes, AddUnserialisable(size) PROVE AddRuns /\ \E l : Shape(l)
  <2> DEFINE b == Opened.chain[Opened.batch]
  <2> DEFINE w == WriteBroken(b, size)
  <2>1. AddRuns /\ Refuse(Replace(Opened, w), "exception")
    BY <1>4 DEF AddUnserialisable
  <2>2. w \in Batch /\ BatchLimits(w) /\ DOMAIN b.items \subseteq DOMAIN w.items
    BY <1>1, <2>1, WriteBrokenGood, ParameterAssumption
  <2>3. w.items = b.items
    BY DEF WriteBroken
  <2> HIDE DEF w
  <2>4. GoodList(Replace(Opened, w))
    BY <1>1, <2>1, <2>2, ReplaceGood
  <2>5. LET m == Replace(Opened, w) IN Follows(m) /\ m.batch = Len(m.chain)
    BY <1>1, <2>1, <2>3, ReplaceFollows
  <2>6. Replace(Opened, w).batch = Opened.batch
    BY <1>1, <2>1, ReplaceBatch
  <2> QED BY <1>1, <2>1, <2>4, <2>5, <2>6 DEF Shape
<1>5. ASSUME NEW size \in Sizes, AddFitting(size) PROVE AddRuns /\ \E l : Shape(l)
  BY <1>1, <1>5 DEF AddFitting, Shape
<1>6. ASSUME NEW size \in Sizes, AddOverflowing(size) PROVE AddRuns /\ \E l : Shape(l)
  <2> DEFINE l == MakeBatch(Opened)
  <2>1. AddRuns /\ Accept(Replace(l, Write(NewBatch, adds + 1, size)), adds + 1)
    BY <1>6 DEF AddOverflowing
  <2>2. GoodList(l) /\ Follows(l) /\ l.batch = Len(l.chain) /\ l.chain[l.batch] = NewBatch
    BY <1>2, <2>1
  <2>3. total_items = 0 => batch < l.batch
    BY <1>2, <2>1
  <2> HIDE DEF l
  <2>4. Accept(Replace(l, Write(l.chain[l.batch], adds + 1, size)), adds + 1)
    BY <2>1, <2>2
  <2> QED BY <2>1, <2>2, <2>3, <2>4 DEF Shape
<1>7. ASSUME NEW size \in Sizes, AddTooLarge(size) PROVE AddRuns /\ \E l : Shape(l)
  <2> DEFINE l == MakeBatch(Opened)
  <2>1. AddRuns /\ Refuse(Replace(l, Miscounted), "false")
    BY <1>7 DEF AddTooLarge
  <2>2. GoodList(l) /\ Follows(l) /\ l.batch = Len(l.chain) /\ l.chain[l.batch] = NewBatch
    BY <1>2, <2>1
  <2>3. Miscounted \in Batch /\ BatchLimits(Miscounted) /\ Miscounted.items = NewBatch.items
    BY ParameterAssumption DEF NewBatch, Miscounted, Batch, BatchLimits
  <2>7. total_items = 0 => batch < l.batch
    BY <1>2, <2>1
  <2> HIDE DEF l
  <2>4. GoodList(Replace(l, Miscounted))
    BY <2>2, <2>3, ReplaceGood
  <2>5. LET m == Replace(l, Miscounted) IN Follows(m) /\ m.batch = Len(m.chain)
    BY <2>2, <2>3, ReplaceFollows
  <2>6. Replace(l, Miscounted).batch = l.batch
    BY <2>2, ReplaceBatch
  <2> QED BY <2>1, <2>4, <2>5, <2>6, <2>7 DEF Shape
<1> QED BY <1>3, <1>4, <1>5, <1>6, <1>7 DEF Add

\* Whatever add() does keeps the order.
LEMMA AddKeepsOrder ==
  ASSUME Invariant, Order, Add
  PROVE  Order'
<1>1. AddRuns
  BY AddShapes
<1>2. PICK l : Shape(l)
  BY AddShapes
<1>3. GoodList(l) /\ Follows(l) /\ l.batch = Len(l.chain)
  BY <1>2 DEF Shape
<1>4. CASE Refuse(l, "exception") \/ Refuse(l, "false")
  BY <1>1, <1>3, <1>4, RefuseKeepsOrder
<1>5. ASSUME NEW size \in Sizes,
             Accept(Replace(l, Write(l.chain[l.batch], adds + 1, size)), adds + 1)
      PROVE  Order'
  BY <1>1, <1>3, <1>5, AcceptKeepsOrder
<1> QED BY <1>2, <1>4, <1>5 DEF Shape

-----------------------------------------------------------------------------
(* The steps of execute().                                                  *)

\* An empty list holds nothing.
LEMMA EmptyListHolds ==
  /\ \A i, p : ~At(<<>>, i, p)
  /\ Held(<<>>) = {} /\ Cardinality({}) = 0 /\ Len(<<>>) = 0
BY FS_EmptySet DEF At, Held

\* What the server has seen is not in the list of the next execution.
LEMMA HeldIsUnseen ==
  ASSUME Invariant, Order, pc = "idle"
  PROVE  Held(chain) \cap (written \cup denied) = {}
<1> SUFFICES ASSUME NEW v \in Held(chain), v \in written \cup denied PROVE FALSE
  OBVIOUS
<1>1. PICK x \in Nat \X Nat : At(chain, x[1], x[2]) /\ v = chain[x[1]].items[x[2]]
  BY DEF Held
<1>2. v < v
  BY <1>1 DEF Order, SentBefore, Unsent
<1>3. v \in Nat
  BY <1>1, NumbersAt
<1> QED BY <1>2, <1>3

\* execute() starts with everything unsent.
LEMMA ExecuteKeepsOrder ==
  ASSUME Invariant, Order, NEW o \in BOOLEAN, NEW a \in BOOLEAN, Execute(o, a)
  PROVE  Order'
<1>1. /\ pc = "idle" /\ pc' = "send" /\ batch' = 1 /\ total_items' = 0 /\ errors' = {}
      /\ ~Dangling /\ pending' = {} /\ inflight' = pending
      /\ UNCHANGED <<chain, adds, written, denied, nested>>
  BY DEF Execute
<1>2. SentBefore' /\ CurrentIsLast' /\ Queue' /\ Stops'
  BY <1>1 DEF Order, SentBefore, Unsent, CurrentIsLast, Queue, Stops
<1>3. denied' \cap inflight' = {}
  BY <1>1, HeldIsUnseen DEF Order, Queue
<1>4. Seen' /\ ReusableUnlessFailed' /\ OrderedStopsAtError'
  BY <1>1, <1>3 DEF Seen, ReusableUnlessFailed, OrderedStopsAtError, Freed
<1> QED BY <1>1, <1>2, <1>4 DEF Order, Sorted, UpTo, At, Before

\* The server performs nothing behind an ordered operation that failed, and says
\* which have failed when the write concern is acknowledged.
LEMMA OrderedReply ==
  ASSUME NEW b \in Batch, NEW r \in Exchanges(b)
  PROVE  /\ r.failed \subseteq r.denied
         /\ acknowledged /\ r.status = 0 => r.failed = r.denied
         /\ ordered => \A f \in r.denied, i \in r.applied : i < f
<1>1. ASSUME NEW status \in {1, 2}, NEW raised \in BOOLEAN, r = Failure(status, raised, Nothing)
      PROVE  r.failed = {} /\ r.denied = {} /\ r.status # 0
  BY <1>1 DEF Failure, Nothing
<1>2. ASSUME NEW p \in Performed(Len(b.items)), ordered, NEW f \in p.denied, NEW i \in p.applied
      PROVE  i < f
  <2>1. PICK d \in SUBSET (1 .. Len(b.items)) :
          p = [denied |-> d, applied |-> {k \in 1 .. Len(b.items) : \A j \in d : k < j}]
    BY <1>2 DEF Performed
  <2>2. p.denied = d /\ p.applied = {k \in 1 .. Len(b.items) : \A j \in d : k < j}
    BY <2>1
  <2> QED BY <1>2, <2>2
<1>3. ASSUME NEW p \in Performed(Len(b.items)), r = Failure(2, TRUE, p)
      PROVE  r.failed = {} /\ r.status # 0 /\ r.denied = p.denied /\ r.applied = p.applied
  BY <1>3 DEF Failure
<1>4. ASSUME NEW p \in Performed(Len(b.items)), r = BareAnswer(p)
      PROVE  r.failed = {} /\ r.denied = p.denied /\ r.applied = p.applied
  BY <1>4 DEF BareAnswer
<1>5. ASSUME NEW p \in Performed(Len(b.items)), NEW u, NEW n, NEW w, r = Answer(p, u, n, w)
      PROVE  r.failed = p.denied /\ r.denied = p.denied /\ r.applied = p.applied
  BY <1>5 DEF Answer
<1>6. CASE \E status \in {1, 2}, raised \in BOOLEAN : r = Failure(status, raised, Nothing)
  BY <1>1, <1>6
<1>7. CASE \E p \in Performed(Len(b.items)) : r = Failure(2, TRUE, p)
  BY <1>2, <1>3, <1>7
<1>8. CASE ~acknowledged /\ \E p \in Performed(Len(b.items)) : r = BareAnswer(p)
  BY <1>2, <1>4, <1>8
<1>9. CASE \E p \in Performed(Len(b.items)) : \E u \in Upserted(p) :
             \E n \in Counts(p.applied, u), w \in BOOLEAN : r = Answer(p, u, n, w)
  BY <1>2, <1>5, <1>9
<1> QED BY <1>6, <1>7, <1>8, <1>9, ExchangeKinds

\* What is sent comes behind everything that was performed before.
LEMMA SendBatchKeepsOrder ==
  ASSUME Invariant, Order, SendBatch
  PROVE  Order'
<1> DEFINE b == chain[batch]
<1>1. batch \in DOMAIN chain /\ batch \in Nat /\ b \in Batch /\ pc = "send" /\ adds \in Nat
  BY DEF options, SendBatch, Invariant, TypeOK
<1>2. PICK r \in Exchanges(b) :
        /\ exec' = [at |-> batch, reply |-> r, n |-> exec.n, status |-> r.status,
                    raised |-> r.raised, concern |-> exec.concern]
        /\ written' = written \cup {b.items[i] : i \in r.applied}
        /\ denied' = denied \cup {b.items[i] : i \in r.denied}
  BY DEF options, SendBatch
<1>3. r.applied \cup r.denied \cup r.failed \subseteq DOMAIN b.items
  BY <1>1, ExchangesGood
<1>4. exec'.at = batch /\ exec'.reply = r
  BY <1>2
<1>5. /\ pc' = "callback" /\ UNCHANGED <<ordered, acknowledged, chain, batch, total_items,
                                         errors, adds, pending, inflight, nested>>
  BY DEF options, SendBatch
<1>6. \A i \in DOMAIN b.items : At(chain, batch, i) /\ b.items[i] \in 1 .. adds
  <2> SUFFICES ASSUME NEW i \in DOMAIN b.items
               PROVE  At(chain, batch, i) /\ b.items[i] \in 1 .. adds
    OBVIOUS
  <2>1. At(chain, batch, i)
    BY <1>1 DEF At
  <2>2. b.items[i] <= adds
    BY <2>1 DEF Order, UpTo
  <2>3. b.items \in Seq(Operation)
    BY <1>1 DEF Batch
  <2>4. b.items[i] \in Operation
    BY <2>3
  <2>5. b.items[i] \in Nat /\ b.items[i] >= 1
    BY <2>4, ParameterAssumption DEF Operation
  <2> QED BY <1>1, <2>1, <2>2, <2>5
<1>7. written' \subseteq 1 .. adds /\ denied' \subseteq 1 .. adds
  BY <1>2, <1>3, <1>6 DEF Order
<1>8. \A i, p : At(chain, i, p) => i \in Nat
  BY DEF At, Invariant, TypeOK
<1>9. SentBefore'
  <2> SUFFICES ASSUME NEW j, NEW p, At(chain, j, p), j > batch,
                      NEW w \in written' \cup denied'
               PROVE  w < chain[j].items[p]
    BY <1>4, <1>5 DEF SentBefore, Unsent
  <2>1. CASE w \in written \cup denied
    <3>1. j \in Nat /\ j >= batch
      BY <1>1, <1>8
    <3>2. Unsent(j)
      BY <1>1, <3>1 DEF Unsent
    <3> QED BY <2>1, <3>2 DEF Order, SentBefore
  <2>2. ASSUME NEW i \in r.applied \cup r.denied, w = b.items[i] PROVE w < chain[j].items[p]
    <3>1. Before(batch, i, j, p)
      BY <1>1, <1>8 DEF Before
    <3> QED BY <1>3, <1>6, <2>2, <3>1 DEF Order, Sorted
  <2> QED BY <1>2, <2>1, <2>2
<1>10. ordered => errors = {}
  BY <1>1 DEF Order, Stops
<1>11. ASSUME ordered, NEW f \in r.denied, NEW w \in written' PROVE w < b.items[f]
  <2>1. CASE w \in written
    <3>1. At(chain, batch, f) /\ Unsent(batch)
      BY <1>1, <1>3, <1>6 DEF Unsent
    <3> QED BY <2>1, <3>1 DEF Order, SentBefore
  <2>2. ASSUME NEW i \in r.applied, w = b.items[i] PROVE w < b.items[f]
    <3>1. i < f
      BY <1>1, <1>11, OrderedReply
    <3>2. Before(batch, i, batch, f) /\ At(chain, batch, i) /\ At(chain, batch, f)
      BY <1>3, <1>6, <3>1 DEF Before
    <3> QED BY <2>2, <3>2 DEF Order, Sorted
  <2> QED BY <1>2, <2>1, <2>2
<1>12. r.failed \subseteq r.denied /\ (acknowledged /\ r.status = 0 => r.failed = r.denied)
  BY <1>1, OrderedReply
<1>13. Stops'
  BY <1>4, <1>5, <1>10, <1>11, <1>12 DEF Stops
<1>14. ordered /\ acknowledged => denied \cap inflight = {}
  BY <1>1 DEF Order, Seen
<1>15. exec'.status = r.status
  BY <1>2
<1>16. Seen'
  BY <1>2, <1>4, <1>5, <1>12, <1>14, <1>15 DEF Seen
<1>17. OrderedStopsAtError'
  <2> SUFFICES ASSUME ordered, acknowledged, NEW d \in denied' \cap inflight, NEW w \in written'
               PROVE  w < d
    BY <1>5 DEF OrderedStopsAtError
  <2>1. PICK f \in r.denied : d = b.items[f]
    BY <1>2, <1>14
  <2> QED BY <1>11, <2>1
<1>18. CurrentIsLast' /\ Queue' /\ ReusableUnlessFailed'
  BY <1>1, <1>5 DEF Order, CurrentIsLast, Queue, ReusableUnlessFailed, Freed
<1> QED BY <1>5, <1>7, <1>9, <1>13, <1>16, <1>17, <1>18 DEF Order, Sorted, UpTo, At, Before

\* execute() ends: the list is empty.
LEMMA FinishKeepsOrder ==
  ASSUME Invariant, Order, pc = "callback", NEW left, Finish(left),
         left # Null => exec'.status # 0, OrderedStopsAtError',
         UNCHANGED <<options, total_items, adds, pending, written, denied, nested>>
  PROVE  Order'
<1>1. pc' = "idle" /\ chain' = <<>> /\ batch' = (IF left = Null THEN Null ELSE Freed)
  BY DEF Finish
<1>2. Sorted(chain') /\ UpTo(chain', adds') /\ SentBefore'
  BY <1>1, EmptyListHolds DEF Sorted, UpTo, SentBefore
<1>3. CurrentIsLast' /\ Stops' /\ Seen'
  BY <1>1 DEF CurrentIsLast, Stops, Seen
<1>4. Queue'
  <2>1. ~nested \/ ~Dangling' => pending = {} /\ total_items = 0
    <3>1. CASE ~nested
      BY <3>1 DEF Order, Queue
    <3>2. CASE ~Dangling'
      <4>1. batch' = Null /\ ~(total_items > 0)
        BY <1>1, <3>2 DEF Dangling
      <4>2. total_items = 0
        BY <4>1 DEF Invariant, TypeOK
      <4> QED BY <4>2 DEF Order, Queue
    <3> QED BY <3>1, <3>2
  <2>2. batch' = Len(chain') \/ (batch' = Freed /\ chain' = <<>>)
    BY <1>1, EmptyListHolds DEF Null
  <2> QED BY <1>1, <2>1, <2>2, EmptyListHolds DEF Queue
<1>5. ReusableUnlessFailed'
  BY <1>1 DEF ReusableUnlessFailed, Null, Freed
<1> QED BY <1>2, <1>3, <1>4, <1>5 DEF Order, Sorted, UpTo, At, Before

\* A failure ends execute().
LEMMA BreakOffKeepsOrder == ASSUME Invariant, Order, BreakOff PROVE Order'
<1>1. pc = "callback" /\ exec'.status # 0 /\ Finish(batch) /\ OrderedStopsAtError'
      /\ UNCHANGED <<options, total_items, adds, pending, written, denied, nested>>
  BY DEF options, BreakOff, Order, OrderedStopsAtError
<1> QED BY <1>1, FinishKeepsOrder

\* A reply is merged: it ends an ordered execution, or has no error in it.
LEMMA MergeReplyKeepsOrder == ASSUME Invariant, Order, MergeReply PROVE Order'
<1> DEFINE r == exec.reply
<1>1. /\ pc = "callback" /\ batch \in DOMAIN chain /\ batch \in Nat
      /\ exec.at \in Nat /\ exec.at <= batch /\ total_items \in Nat
      /\ chain \in Seq(Batch)
  BY DEF options, MergeReply, Invariant, TypeOK, ReplyFits
<1>2. /\ exec' = Merged(r) /\ errors' = errors \cup Reports(r.failed)
      /\ UNCHANGED <<options, ordered, acknowledged, total_items, adds, pending, inflight,
                     written, denied, nested>>
  BY DEF options, MergeReply
<1>3. exec'.status = StatusAfter(r)
  BY <1>2 DEF Merged
<1>4. ordered => errors = {}
  BY <1>1 DEF Order, Stops
<1>5. CASE NextBatch # Null /\ StatusAfter(r) = 0
  <2>1. pc' = "send" /\ batch' = NextBatch /\ chain' = chain
    BY <1>5 DEF options, MergeReply
  <2>2. batch < Len(chain) /\ batch' = batch + 1
    BY <1>5, <2>1 DEF NextBatch, Null
  <2>3. total_items = 0
    <3>1. ~(total_items > 0)
      BY <1>1, <2>2 DEF Order, CurrentIsLast
    <3> QED BY <1>1, <3>1
  <2>4. ordered => r.failed = {}
    BY <1>5 DEF StatusAfter
  <2>5. ordered => errors' = {}
    BY <1>2, <1>4, <2>4 DEF Reports
  <2>6. SentBefore'
    <3> SUFFICES ASSUME NEW j, NEW p, At(chain, j, p), j >= batch + 1,
                        NEW w \in written \cup denied
                 PROVE  w < chain[j].items[p]
      BY <1>2, <2>1, <2>2 DEF SentBefore, Unsent
    <3>1. j \in Nat
      BY <1>1 DEF At
    <3>2. Unsent(j)
      BY <1>1, <3>1 DEF Unsent
    <3> QED BY <3>2 DEF Order, SentBefore
  <2>7. CurrentIsLast' /\ Queue' /\ Stops'
    BY <1>1, <1>2, <2>1, <2>3, <2>5 DEF Order, CurrentIsLast, Queue, Stops
  <2>8. Seen'
    <3>1. exec.status = 0
      BY DEF MergeReply
    <3>2. ordered /\ acknowledged => denied \cap inflight = {}
      BY <1>1, <2>4, <3>1 DEF Order, Seen
    <3> QED BY <1>2, <2>1, <3>2 DEF Seen
  <2>9. ReusableUnlessFailed' /\ OrderedStopsAtError'
    BY <1>1, <1>2, <2>2 DEF Order, ReusableUnlessFailed, OrderedStopsAtError, Freed
  <2> QED BY <1>2, <2>1, <2>6, <2>7, <2>8, <2>9 DEF Order, Sorted, UpTo, At, Before
<1>6. CASE ~(NextBatch # Null /\ StatusAfter(r) = 0)
  <2>1. Finish(NextBatch)
    BY <1>6 DEF options, MergeReply
  <2>2. NextBatch # Null => exec'.status # 0
    BY <1>3, <1>6
  <2>3. OrderedStopsAtError'
    BY <1>2 DEF Order, OrderedStopsAtError
  <2> QED BY <1>1, <1>2, <2>1, <2>2, <2>3, FinishKeepsOrder
<1> QED BY <1>5, <1>6

\* The steps that change neither the list nor what is known of it.
LEMMA OtherKeepsOrder ==
  ASSUME Invariant, Order, ExecuteEmpty \/ NoServer \/ ExchangeEndsProcess \/ UseDangling
  PROVE  Order'
<1>1. UNCHANGED <<ordered, acknowledged, chain, batch, total_items, exec, errors, adds, pending,
                  inflight, written, denied, nested>>
  BY DEF options, ExecuteEmpty, NoServer, ExchangeEndsProcess, UseDangling
<1>2. pc' = pc \/ pc' = "undefined"
  BY DEF options, ExecuteEmpty, NoServer, ExchangeEndsProcess, UseDangling
<1>3. SentBefore' /\ CurrentIsLast' /\ Queue' /\ Stops' /\ Seen'
  BY <1>1, <1>2 DEF Order, SentBefore, Unsent, CurrentIsLast, Queue, Dangling, Stops,
                       Seen
<1>4. ReusableUnlessFailed' /\ OrderedStopsAtError'
  BY <1>1 DEF Order, ReusableUnlessFailed, OrderedStopsAtError
<1> QED BY <1>1, <1>3, <1>4 DEF Order, Sorted, UpTo, At, Before

-----------------------------------------------------------------------------
\* The order holds of a new MongoWriteBatch.
LEMMA InitOrder == Init => Order
<1> SUFFICES ASSUME Init PROVE Order
  OBVIOUS
<1>1. /\ chain = <<>> /\ batch = Null /\ total_items = 0 /\ pc = "idle" /\ errors = {}
      /\ pending = {} /\ written = {} /\ denied = {}
  BY DEF Init
<1>2. Sorted(chain) /\ UpTo(chain, adds) /\ SentBefore /\ CurrentIsLast
  BY <1>1, EmptyListHolds DEF Sorted, UpTo, SentBefore, CurrentIsLast
<1>3. Queue /\ Stops /\ Seen
  BY <1>1, EmptyListHolds DEF Queue, Stops, Seen, Null
<1>4. ReusableUnlessFailed /\ OrderedStopsAtError
  BY <1>1 DEF ReusableUnlessFailed, OrderedStopsAtError, Null, Freed
<1> QED BY <1>1, <1>2, <1>3, <1>4 DEF Order

\* The order is kept by every step.
LEMMA NextOrder == Invariant /\ Order /\ [Next]_vars => Order'
<1> SUFFICES ASSUME Invariant, Order, [Next]_vars PROVE Order'
  OBVIOUS
<1>1. CASE UNCHANGED vars
  BY <1>1 DEF options, vars, Order, Sorted, UpTo, At, Before, SentBefore, Unsent, CurrentIsLast, Queue,
              Stops, Seen, Held, Dangling, ReusableUnlessFailed, OrderedStopsAtError
<1>2. CASE Next
  BY <1>2, AddKeepsOrder, ExecuteKeepsOrder, SendBatchKeepsOrder, BreakOffKeepsOrder,
     MergeReplyKeepsOrder, OtherKeepsOrder DEF Next
<1> QED BY <1>1, <1>2

\* The order of the operations is kept for any number of calls.
THEOREM OrderInvariant == Spec => []Order
BY InitOrder, NextOrder, BatchInvariant, PTL DEF Spec

\* The list holds what add() accepted, in the order in which it did, whatever
\* overflowed, was rolled back or refused half way.
THEOREM QueueIsSound == Spec => []QueueSound
<1>1. Invariant /\ Order => QueueSound
  <2> SUFFICES ASSUME Invariant, Order, pc = "idle", ~nested
               PROVE  /\ total_items = Cardinality(pending)
                      /\ UNION {Ids(chain[i]) : i \in DOMAIN chain} = pending
                      /\ \A i, j \in DOMAIN chain :
                           \A p \in DOMAIN chain[i].items, q \in DOMAIN chain[j].items :
                             Before(i, p, j, q) => chain[i].items[p] < chain[j].items[q]
    BY DEF QueueSound
  <2>1. total_items = Cardinality(pending) /\ Held(chain) = pending
    BY DEF Order, Queue
  <2>2. ASSUME NEW i, NEW p, At(chain, i, p) PROVE i \in Nat /\ p \in Nat
    <3>1. chain[i] \in Batch /\ i \in Nat
      BY <2>2 DEF At, Invariant, TypeOK
    <3>2. chain[i].items \in Seq(Operation)
      BY <3>1 DEF Batch
    <3> QED BY <2>2, <3>1, <3>2 DEF At
  <2>3. ASSUME NEW v \in UNION {Ids(chain[i]) : i \in DOMAIN chain} PROVE v \in Held(chain)
    <3>1. PICK i \in DOMAIN chain : v \in Ids(chain[i])
      OBVIOUS
    <3>2. PICK p \in DOMAIN chain[i].items : v = chain[i].items[p]
      BY <3>1 DEF Ids
    <3> DEFINE x == <<i, p>>
    <3>3. At(chain, i, p)
      BY DEF At
    <3>4. x \in Nat \X Nat /\ At(chain, x[1], x[2]) /\ v = chain[x[1]].items[x[2]]
      BY <2>2, <3>2, <3>3
    <3> HIDE DEF x
    <3> QED BY <3>4 DEF Held
  <2>4. ASSUME NEW v \in Held(chain) PROVE v \in UNION {Ids(chain[i]) : i \in DOMAIN chain}
    <3>1. PICK x \in Nat \X Nat : At(chain, x[1], x[2]) /\ v = chain[x[1]].items[x[2]]
      BY DEF Held
    <3>2. x[1] \in DOMAIN chain /\ v \in Ids(chain[x[1]])
      BY <3>1 DEF At, Ids
    <3> QED BY <3>2
  <2> QED BY <2>1, <2>3, <2>4 DEF Order, Sorted, At
<1> QED BY <1>1, BatchInvariant, OrderInvariant, PTL

\* A batch that was executed without a failure can be used again.
THEOREM BatchIsReusable == Spec => []ReusableUnlessFailed
<1>1. Order => ReusableUnlessFailed
  BY DEF Order
<1> QED BY <1>1, OrderInvariant, PTL

\* Nothing is sent twice, or before what was accepted earlier.
THEOREM BatchesSentOnceInOrder == Spec => SentOnceInOrder
<1>1. Invariant /\ Order /\ SendBatch => \A id \in Ids(chain[batch]) : \A w \in written : w < id
  <2> SUFFICES ASSUME Invariant, Order, SendBatch, NEW p \in DOMAIN chain[batch].items,
                      NEW w \in written
               PROVE  w < chain[batch].items[p]
    BY DEF Ids
  <2>1. At(chain, batch, p) /\ Unsent(batch)
    BY DEF options, At, Unsent, SendBatch, Invariant, TypeOK
  <2> QED BY <2>1 DEF Order, SentBefore
<1> QED BY <1>1, BatchInvariant, OrderInvariant, PTL DEF Spec, SentOnceInOrder

\* An acknowledged ordered execution performs nothing behind an operation that failed.
THEOREM OrderedExecutionStops == Spec => []OrderedStopsAtError
<1>1. Order => OrderedStopsAtError
  BY DEF Order
<1> QED BY <1>1, OrderInvariant, PTL
-----------------------------------------------------------------------------
(* What an execution accounts for.  Every operation in flight has been       *)
(* performed, or is reported, or is in a batch to come, or the execution has  *)
(* stopped before it.  Callbacks may add operations in the meantime, which    *)
(* are linked behind the batch that was sent and cut off those that followed. *)

\* Batches whose outcome is not merged yet: the one sent, and those execute()
\* goes on to.  An operation added by a callback cuts the latter off.
Open(j) ==
  \/ pc = "send" /\ j >= batch
  \/ pc = "callback" /\ (j = exec.at \/ (batch = exec.at /\ j > exec.at))

\* What is open is in flight, and behind all that was reported.
OpenInFlight ==
  \A j, p : At(chain, j, p) /\ Open(j) =>
    /\ chain[j].items[p] \in inflight
    /\ \A e \in errors : e.id < chain[j].items[p]

ReportedUnwritten == \A e \in errors : e.id \in inflight /\ e.id \notin written

Reported(v) == \E e \in errors : e.id = v

\* Operation v is in a batch behind j.
Behind(j, v) == \E i, p : At(chain, i, p) /\ i > j /\ chain[i].items[p] = v

\* With an acknowledged write concern: before a batch is sent every operation is performed, reported or to come ...
Accounted ==
  pc = "send" /\ acknowledged =>
    \A v \in inflight : v \in written \/ Reported(v) \/ Behind(batch - 1, v)

\* ... and when its reply is there, or failed, or given up for one that failed.
Answered ==
  LET b == chain[exec.at].items
      r == exec.reply
  IN  pc = "callback" /\ exec.status = 0 /\ acknowledged =>
        \A v \in inflight :
          \/ v \in written \/ Reported(v)
          \/ \E f \in r.failed : v = b[f] \/ (ordered /\ b[f] < v)
          \/ /\ \A p \in DOMAIN b : b[p] < v
             /\ batch = exec.at => Behind(exec.at, v)

\* An operation added by a callback is linked behind the batch that was sent.
CutOff ==
  /\ pc = "callback" =>
       \/ batch = exec.at /\ total_items = 0
       \/ exec.at < batch /\ batch = Len(chain) /\ nested

\* What the last reply says.
Replied ==
  LET b == chain[exec.at].items
      r == exec.reply
  IN  pc = "callback" =>
        /\ exec.status = r.status /\ exec.raised = r.raised
        /\ \A f \in r.failed : b[f] \notin written
        /\ exec.status # 0 => r.n = 0
        /\ exec.status = 0 => ~r.raised
        /\ r.failed # {} => acknowledged
        /\ batch_type = "insert" /\ acknowledged /\ ~r.raised =>
             /\ exec.n + r.n = Cardinality(written \cap inflight)
             /\ \A f \in r.failed : ordered => r.n = f - 1

Inserted ==
  batch_type = "insert" /\ acknowledged =>
    /\ pc = "send" => exec.n = Cardinality(written \cap inflight)
    /\ pc = "idle" /\ ~exec.raised => exec.n = Cardinality(written \cap inflight)
    /\ ordered => \A e \in errors : e.index = Place(e.id)

Account ==
  /\ OpenInFlight /\ ReportedUnwritten /\ Accounted /\ Answered
  /\ CutOff /\ Replied /\ Inserted /\ AccountedFor

-----------------------------------------------------------------------------
\* The histories are finite sets of numbers.
LEMMA FiniteHistory ==
  ASSUME Invariant, Order
  PROVE  /\ written \subseteq Nat /\ inflight \subseteq Nat
         /\ IsFiniteSet(written \cap inflight) /\ Cardinality(written \cap inflight) \in Nat
<1>1. adds \in Nat /\ written \subseteq 1 .. adds
  BY DEF Invariant, TypeOK, Order
<1>2. IsFiniteSet(1 .. adds)
  BY <1>1, FS_Interval
<1>3. written \cap inflight \in SUBSET (1 .. adds)
  BY <1>1
<1>4. IsFiniteSet(written \cap inflight)
  BY <1>2, <1>3, FS_Subset
<1>5. inflight \subseteq Nat
  BY ParameterAssumption DEF Invariant, TypeOK, Operation
<1> QED BY <1>1, <1>4, <1>5, FS_CardinalityType

\* An operation of the list is held by it.
LEMMA AtIsHeld ==
  ASSUME Invariant, NEW i, NEW p, At(chain, i, p)
  PROVE  /\ i \in Nat /\ i >= 1 /\ p \in Nat /\ p >= 1
         /\ chain[i].items[p] \in Held(chain) /\ chain[i].items[p] \in Nat
<1>1. i \in Nat /\ i >= 1 /\ chain[i] \in Batch
  BY DEF At, Invariant, TypeOK
<1>2. p \in Nat /\ p >= 1
  <2>1. chain[i].items \in Seq(Operation)
    BY <1>1 DEF Batch
  <2> QED BY <2>1 DEF At
<1> DEFINE x == <<i, p>>
<1>3. x \in Nat \X Nat /\ At(chain, x[1], x[2]) /\ chain[i].items[p] = chain[x[1]].items[x[2]]
  BY <1>1, <1>2
<1> HIDE DEF x
<1>4. chain[i].items[p] \in Held(chain)
  BY <1>3 DEF Held
<1> QED BY <1>1, <1>2, <1>4, NumbersAt

LEMMA SameItems ==
  ASSUME NEW s \in Seq(Operation), NEW t \in Seq(Operation), DOMAIN s = DOMAIN t,
         \A p \in DOMAIN s : s[p] = t[p]
  PROVE  s = t
OBVIOUS

\* add() leaves the batch that was sent as it is, and what it opens is behind it.
LEMMA AddLeavesBatch ==
  ASSUME Invariant, CutOff, AddRuns, NEW l, Shape(l), pc = "callback"
  PROVE  /\ exec.at \in DOMAIN chain /\ chain'[exec.at].items = chain[exec.at].items
         /\ \A p : At(chain', exec.at, p) <=> At(chain, exec.at, p)
         /\ exec.at < batch' /\ batch' = Len(chain')
<1>1. /\ l \in List /\ l.chain \in Seq(Batch) /\ l.batch \in Nat /\ l.batch \in DOMAIN l.chain
      /\ l.batch = Len(l.chain) /\ batch <= l.batch
  BY DEF Shape, GoodList, List, Follows
<1>2. /\ exec.at \in DOMAIN chain /\ exec.at \in Nat /\ exec.at >= 1 /\ exec.at <= batch
      /\ batch \in Nat /\ chain[exec.at] \in Batch
  BY DEF Invariant, TypeOK, ReplyFits
<1>3. exec.at < l.batch
  <2>1. CASE batch = exec.at /\ total_items = 0
    BY <2>1 DEF Shape
  <2>2. CASE exec.at < batch
    BY <1>1, <1>2, <2>2
  <2> QED BY <2>1, <2>2 DEF CutOff
<1>4. exec.at \in DOMAIN l.chain /\ l.chain[exec.at] \in Batch
  BY <1>1, <1>2, <1>3
<1>5. l.chain[exec.at].items = chain[exec.at].items
  <2> DEFINE s == chain[exec.at].items
  <2> DEFINE t == l.chain[exec.at].items
  <2>1. s \in Seq(Operation) /\ t \in Seq(Operation)
    BY <1>2, <1>4 DEF Batch
  <2>2. \A p : p \in DOMAIN t => p \in DOMAIN s /\ t[p] = s[p]
    BY <1>4 DEF Shape, Follows, At
  <2>3. \A p : p \in DOMAIN s => p \in DOMAIN t
    BY <1>2 DEF Shape, Follows, At
  <2>4. DOMAIN s = DOMAIN t /\ \A p \in DOMAIN s : s[p] = t[p]
    BY <2>2, <2>3
  <2> HIDE DEF s, t
  <2>5. s = t
    BY <2>1, <2>4, SameItems
  <2> QED BY <2>5 DEF s, t
<1>6. /\ chain'[exec.at] = l.chain[exec.at] /\ batch' = l.batch
      /\ DOMAIN chain' = DOMAIN l.chain /\ Len(chain') = Len(l.chain)
  <2>1. CASE Refuse(l, "exception") \/ Refuse(l, "false")
    BY <2>1 DEF Refuse
  <2>2. ASSUME NEW size \in Sizes,
               Accept(Replace(l, Write(l.chain[l.batch], adds + 1, size)), adds + 1)
        PROVE  /\ chain'[exec.at] = l.chain[exec.at] /\ batch' = l.batch
               /\ DOMAIN chain' = DOMAIN l.chain /\ Len(chain') = Len(l.chain)
    <3> DEFINE w == Write(l.chain[l.batch], adds + 1, size)
    <3> DEFINE m == Replace(l, w)
    <3>1. chain' = m.chain /\ batch' = m.batch
      BY <2>2 DEF Accept
    <3> HIDE DEF w
    <3>2. m = [l EXCEPT !.chain = [l.chain EXCEPT ![l.batch] = w]]
      BY <1>1 DEF Replace, List
    <3> HIDE DEF m
    <3>3. m.batch = l.batch /\ m.chain = [l.chain EXCEPT ![l.batch] = w]
      BY <1>1, <3>2 DEF List
    <3>4. DOMAIN m.chain = DOMAIN l.chain /\ Len(m.chain) = Len(l.chain)
      BY <1>1, <3>3
    <3>5. m.chain[exec.at] = l.chain[exec.at]
      BY <1>2, <1>3, <1>4, <3>3
    <3> QED BY <3>1, <3>3, <3>4, <3>5
  <2> QED BY <2>1, <2>2 DEF Shape
<1>7. chain'[exec.at].items = chain[exec.at].items /\ exec.at \in DOMAIN chain'
  BY <1>4, <1>5, <1>6
<1> QED BY <1>1, <1>2, <1>3, <1>6, <1>7 DEF At

\* Whatever add() does, also during an execution.
LEMMA AddKeepsAccount ==
  ASSUME Invariant, Order, Account, Add
  PROVE  Account'
<1>1. AddRuns
  BY AddShapes
<1>2. PICK l : Shape(l)
  BY AddShapes
<1>3. /\ pc' = pc /\ pc \in {"idle", "callback"}
      /\ UNCHANGED <<batch_type, ordered, acknowledged, exec, errors, inflight, written>>
  BY <1>1 DEF options, AddRuns, UserRuns
<1>4. pc = "callback" => nested'
  BY <1>1, Zenon DEF options, AddRuns
<1>5. ~nested' => ~nested
  BY <1>1, Zenon DEF options, AddRuns
<1>6. pc = "callback" =>
        /\ exec.at \in DOMAIN chain /\ chain'[exec.at].items = chain[exec.at].items
        /\ \A p : At(chain', exec.at, p) <=> At(chain, exec.at, p)
        /\ exec.at < batch' /\ batch' = Len(chain')
  BY <1>1, <1>2, AddLeavesBatch DEF Account
<1>7. OpenInFlight'
  <2> SUFFICES ASSUME NEW j, NEW p, At(chain', j, p), Open(j)'
               PROVE  /\ chain'[j].items[p] \in inflight
                      /\ \A e \in errors : e.id < chain'[j].items[p]
    BY <1>3 DEF OpenInFlight
  <2>1. pc = "callback" /\ exec.at \in Nat
    BY <1>3 DEF Open, Invariant, TypeOK, Exec
  <2>2. batch' # exec.at
    BY <1>6, <2>1
  <2>3. j = exec.at
    BY <1>3, <2>1, <2>2 DEF Open
  <2>4. At(chain, j, p) /\ Open(j) /\ chain'[j].items[p] = chain[j].items[p]
    BY <1>6, <2>1, <2>3 DEF Open
  <2> QED BY <2>4 DEF Account, OpenInFlight
<1>8. ReportedUnwritten' /\ Accounted'
  BY <1>3 DEF Account, ReportedUnwritten, Accounted
<1>9. Answered'
  <2> SUFFICES ASSUME pc = "callback", exec.status = 0, acknowledged, NEW v \in inflight
               PROVE  \/ v \in written \/ Reported(v)'
                      \/ \E f \in exec.reply.failed :
                           v = chain[exec.at].items[f] \/ (ordered /\ chain[exec.at].items[f] < v)
                      \/ /\ \A p \in DOMAIN chain[exec.at].items : chain[exec.at].items[p] < v
                         /\ batch' = exec.at => Behind(exec.at, v)'
    BY <1>3, <1>6 DEF Answered
  <2>1. Reported(v)' <=> Reported(v)
    BY <1>3 DEF Reported
  <2>2. exec.at \in Nat
    BY DEF Invariant, TypeOK, Exec
  <2>3. batch' # exec.at
    BY <1>6, <2>2
  <2> QED BY <2>1, <2>3 DEF Account, Answered
<1>10. CutOff'
  BY <1>3, <1>4, <1>6 DEF CutOff
<1>11. Replied'
  BY <1>3, <1>6 DEF Account, Replied
<1>12. Inserted'
  BY <1>3 DEF Account, Inserted, Place
<1>13. AccountedFor'
  BY <1>3, <1>5 DEF Account, AccountedFor
<1> QED BY <1>7, <1>8, <1>9, <1>10, <1>11, <1>12, <1>13 DEF Account

\* execute() starts with all that was accepted in flight and in the list.
LEMMA ExecuteKeepsAccount ==
  ASSUME Invariant, Order, Account, NEW o \in BOOLEAN, NEW a \in BOOLEAN, Execute(o, a)
  PROVE  Account'
<1>1. /\ pc = "idle" /\ ~Dangling /\ pc' = "send" /\ batch' = 1 /\ exec' = Entering
      /\ errors' = {} /\ inflight' = pending /\ UNCHANGED <<batch_type, chain, written>>
  BY DEF options, Execute
<1>2. Held(chain) = pending
  BY <1>1 DEF Order, Queue
<1>3. OpenInFlight'
  BY <1>1, <1>2, AtIsHeld DEF OpenInFlight, At
<1>4. Accounted'
  <2> SUFFICES ASSUME NEW v \in Held(chain) PROVE Behind(batch - 1, v)'
    BY <1>1, <1>2 DEF Accounted
  <2>1. PICK x \in Nat \X Nat : At(chain, x[1], x[2]) /\ v = chain[x[1]].items[x[2]]
    BY DEF Held
  <2>2. x[1] > 1 - 1
    BY <2>1, AtIsHeld
  <2> QED BY <1>1, <2>1, <2>2 DEF Behind, At
<1>5. written \cap pending = {}
  BY <1>1, <1>2, HeldIsUnseen
<1>6. Inserted'
  <2>1. exec'.n = 0 /\ Cardinality(written' \cap inflight') = 0
    BY <1>1, <1>5, FS_EmptySet DEF Entering
  <2> QED BY <1>1, <2>1 DEF Inserted
<1> QED BY <1>1, <1>3, <1>4, <1>6
        DEF Account, ReportedUnwritten, Answered, CutOff, Replied, AccountedFor

\* T are the operations at places A of s, and no two of them are the same.
Lists(s, A, T) ==
  /\ \A i, j \in A : s[i] = s[j] => i = j
  /\ \A i \in A : s[i] \in T
  /\ \A v \in T : \E i \in A : v = s[i]

\* Distinct places of a sequence hold as many distinct operations.
LEMMA AsManyItems ==
  ASSUME NEW k \in Nat, NEW s, NEW A \in SUBSET (1 .. k), NEW T,
         Lists(s, A, T)
  PROVE  IsFiniteSet(A) /\ IsFiniteSet(T) /\ Cardinality(T) = Cardinality(A)
<1> DEFINE f == [i \in A |-> s[i]]
<1>1. IsFiniteSet(A)
  <2>1. IsFiniteSet(1 .. k)
    BY FS_Interval
  <2> QED BY <2>1, FS_Subset
<1>2. f \in [A -> T] /\ \A i \in A : f[i] = s[i]
  BY DEF Lists
<1> HIDE DEF f
<1>3. \A i, j \in A : f[i] = f[j] => i = j
  BY <1>2 DEF Lists
<1>4. f \in Injection(A, T)
  BY <1>2, <1>3 DEF Injection, IsInjective
<1>5. f \in Surjection(A, T)
  BY <1>2 DEF Surjection, Lists
<1>6. ExistsBijection(A, T)
  BY <1>4, <1>5 DEF ExistsBijection, Bijection
<1> QED BY <1>1, <1>6, FS_Bijection

\* Of at most one failed operation there are no two.
LEMMA OnlyOne ==
  ASSUME NEW S, IsFiniteSet(S), Cardinality(S) <= 1, NEW x \in S, NEW y \in S
  PROVE  x = y
<1>1. Cardinality(S) \in Nat /\ Cardinality(S) # 0
  BY FS_CardinalityType, FS_EmptySet
<1>2. Cardinality(S) = 1
  BY <1>1
<1>3. PICK z : S = {z}
  BY <1>2, FS_Singleton
<1> QED BY <1>3

\* What the server does with a batch.
LEMMA AnswerCovers ==
  ASSUME NEW b \in Batch, NEW r \in Exchanges(b)
  PROVE  /\ \A f \in r.failed : f \notin r.applied
         /\ r.status = 0 /\ acknowledged => \A q \in DOMAIN b.items :
              q \in r.applied \/ q \in r.failed \/ (ordered /\ \E f \in r.failed : f < q)
         /\ r.status # 0 => r.n = 0
         /\ r.status = 0 => ~r.raised
         /\ r.failed # {} => acknowledged
         /\ ~r.raised /\ batch_type = "insert" /\ acknowledged => r.n = Cardinality(r.applied)
         /\ ordered => \A f \in r.failed : Cardinality(r.applied) = f - 1
<1> DEFINE k == Len(b.items)
<1>1. k \in Nat /\ DOMAIN b.items = 1 .. k
  BY DEF Batch
<1>2. CASE \E status \in {1, 2}, raised \in BOOLEAN : r = Failure(status, raised, Nothing)
  <2>1. r.n = 0 /\ r.failed = {} /\ r.status # 0 /\ r.applied = {}
    BY <1>2 DEF Failure, Nothing
  <2> QED BY <2>1, FS_EmptySet
<1>3. CASE \E p \in Performed(k) : r = Failure(2, TRUE, p)
  <2>1. r.n = 0 /\ r.failed = {} /\ r.status = 2 /\ r.raised
    BY <1>3 DEF Failure
  <2> QED BY <2>1
<1>4. CASE ~acknowledged /\ \E p \in Performed(k) : r = BareAnswer(p)
  <2>1. r.n = 0 /\ r.failed = {} /\ r.status = 0 /\ ~r.raised
    BY <1>4 DEF BareAnswer
  <2> QED BY <1>4, <2>1
<1>5. ASSUME acknowledged, NEW p \in Performed(k), NEW u \in Upserted(p),
             NEW n \in Counts(p.applied, u), NEW w \in BOOLEAN, r = Answer(p, u, n, w)
      PROVE  /\ \A f \in r.failed : f \notin r.applied
             /\ r.status = 0 /\ ~r.raised
             /\ \A q \in DOMAIN b.items :
                  q \in r.applied \/ q \in r.failed \/ (ordered /\ \E f \in r.failed : f < q)
             /\ batch_type = "insert" => r.n = Cardinality(r.applied)
             /\ ordered => \A f \in r.failed : Cardinality(r.applied) = f - 1
  <2>3. r.status = 0 /\ r.n = n /\ ~r.raised /\ r.applied = p.applied /\ r.failed = p.denied
    BY <1>5 DEF Answer
  <2>4. PICK g \in SUBSET (1 .. k) :
          /\ ordered => Cardinality(g) <= 1
          /\ p = [denied |-> g,
                  applied |-> IF ordered THEN {i \in 1 .. k : \A j \in g : i < j}
                              ELSE (1 .. k) \ g]
    BY DEF Performed
  <2> HIDE DEF k
  <2>5. /\ r.failed = g
        /\ r.applied = IF ordered THEN {i \in 1 .. k : \A j \in g : i < j} ELSE (1 .. k) \ g
    BY <2>3, <2>4
  <2>6. ASSUME NEW f \in g PROVE f \in Int /\ f >= 1 /\ f <= k
    <3>1. f \in 1 .. k
      BY ZenonT(20)
    <3> QED BY <1>1, <3>1
  <2>7. \A f \in r.failed : f \notin r.applied
    BY <2>5, <2>6
  <2>8. ASSUME NEW q \in 1 .. k
        PROVE  q \in r.applied \/ q \in r.failed \/ (ordered /\ \E f \in r.failed : f < q)
    BY <2>5, <2>6
  <2>9. batch_type = "insert" => r.n = Cardinality(r.applied)
    BY <2>3 DEF Counts
  <2>10. ASSUME ordered, NEW f \in g PROVE Cardinality(r.applied) = f - 1
    <3>1. IsFiniteSet(g)
      <4>1. IsFiniteSet(1 .. k)
        BY <1>1, FS_Interval
      <4> QED BY <4>1, FS_Subset
    <3>2. \A j \in g : j = f
      BY <2>4, <2>10, <3>1, OnlyOne
    <3>3. r.applied = 1 .. (f - 1)
      BY <1>1, <2>5, <2>6, <2>10, <3>2
    <3>4. Cardinality(1 .. (f - 1)) = f - 1
      <4>1. f - 1 \in Int /\ f - 1 >= 0
        BY <2>6
      <4> QED BY <4>1, FS_Interval
    <3> QED BY <3>3, <3>4
  <2> QED BY <1>1, <2>3, <2>5, <2>7, <2>8, <2>9, <2>10
<1>6. CASE acknowledged /\ \E p \in Performed(k) : \E u \in Upserted(p) :
             \E n \in Counts(p.applied, u), w \in BOOLEAN : r = Answer(p, u, n, w)
  BY <1>5, <1>6
<1> QED BY <1>2, <1>3, <1>4, <1>6, ExchangeKinds

\* A batch is sent: what its reply leaves out has failed or comes later.
LEMMA SendBatchKeepsAccount ==
  ASSUME Invariant, Order, Account, SendBatch
  PROVE  Account'
<1> DEFINE b == chain[batch]
<1>1. /\ batch \in DOMAIN chain /\ batch \in Nat /\ b \in Batch /\ pc = "send"
      /\ exec.n \in Nat
  BY DEF options, SendBatch, Invariant, TypeOK, Exec
<1>2. PICK r \in Exchanges(b) :
        /\ exec' = [at |-> batch, reply |-> r, n |-> exec.n, status |-> r.status,
                    raised |-> r.raised, concern |-> exec.concern]
        /\ written' = written \cup {b.items[i] : i \in r.applied}
        /\ denied' = denied \cup {b.items[i] : i \in r.denied}
  BY DEF options, SendBatch
<1>3. /\ exec'.at = batch /\ exec'.reply = r /\ exec'.n = exec.n /\ exec'.status = r.status
      /\ exec'.raised = r.raised
  BY <1>2
<1>4. r.applied \cup r.failed \subseteq DOMAIN b.items
  BY <1>1, ExchangesGood
<1>5. /\ pc' = "callback" /\ total_items = 0
      /\ UNCHANGED <<batch_type, ordered, acknowledged, chain, batch, total_items, errors, inflight,
                     nested>>
  BY <1>1 DEF options, SendBatch, Order, CurrentIsLast
<1>6. ASSUME NEW i \in DOMAIN b.items
      PROVE  /\ At(chain, batch, i) /\ b.items[i] \in inflight /\ b.items[i] \notin written
             /\ b.items[i] \in Nat /\ \A e \in errors : e.id < b.items[i]
  <2>1. At(chain, batch, i)
    BY <1>1 DEF At
  <2>2. Open(batch) /\ Unsent(batch)
    BY <1>1 DEF Open, Unsent
  <2>3. b.items[i] \in inflight /\ \A e \in errors : e.id < b.items[i]
    BY <2>1, <2>2 DEF Account, OpenInFlight
  <2>4. b.items[i] \in Nat
    BY <2>1, AtIsHeld
  <2>5. \A w \in written : w < b.items[i]
    BY <2>1, <2>2 DEF Order, SentBefore
  <2> QED BY <2>1, <2>3, <2>4, <2>5
<1>7. \A i, j \in DOMAIN b.items : i < j => b.items[i] < b.items[j]
  BY <1>1, <1>6 DEF Order, Sorted, Before
<1>8. DOMAIN b.items \subseteq Nat /\ Len(b.items) \in Nat /\ DOMAIN b.items = 1 .. Len(b.items)
  BY <1>1 DEF Batch
<1>9. /\ \A f \in r.failed : f \notin r.applied
      /\ r.status = 0 /\ acknowledged => \A q \in DOMAIN b.items :
           q \in r.applied \/ q \in r.failed \/ (ordered /\ \E f \in r.failed : f < q)
      /\ r.status # 0 => r.n = 0
      /\ r.status = 0 => ~r.raised
      /\ r.failed # {} => acknowledged
      /\ ~r.raised /\ batch_type = "insert" /\ acknowledged => r.n = Cardinality(r.applied)
      /\ ordered => \A f \in r.failed : Cardinality(r.applied) = f - 1
  BY <1>1, AnswerCovers
<1>10. \A i, j \in DOMAIN b.items : b.items[i] = b.items[j] => i = j
  <2> SUFFICES ASSUME NEW i \in DOMAIN b.items, NEW j \in DOMAIN b.items,
                      b.items[i] = b.items[j], i # j
               PROVE  FALSE
    OBVIOUS
  <2>1. i < j \/ j < i
    BY <1>8
  <2>2. b.items[i] \in Nat /\ b.items[j] \in Nat
    BY <1>6
  <2> QED BY <1>7, <2>1, <2>2
<1> HIDE DEF b
<1>11. OpenInFlight'
  <2> SUFFICES ASSUME NEW j, NEW p, At(chain, j, p), Open(j)'
               PROVE  /\ chain[j].items[p] \in inflight
                      /\ \A e \in errors : e.id < chain[j].items[p]
    BY <1>5 DEF OpenInFlight, At
  <2>1. j \in Nat
    BY AtIsHeld
  <2>2. Open(j)
    BY <1>1, <1>3, <1>5, <2>1 DEF Open
  <2> QED BY <2>2 DEF Account, OpenInFlight
<1>12. ReportedUnwritten'
  <2> SUFFICES ASSUME NEW e \in errors, NEW i \in r.applied, e.id = b.items[i] PROVE FALSE
    BY <1>2, <1>5 DEF Account, ReportedUnwritten
  <2>1. b.items[i] < b.items[i] /\ b.items[i] \in Nat
    BY <1>4, <1>6
  <2> QED BY <2>1
<1>13. Answered'
  <2> SUFFICES ASSUME r.status = 0, acknowledged, NEW v \in inflight
               PROVE  \/ v \in written' \/ Reported(v)
                      \/ \E f \in r.failed : v = b.items[f] \/ (ordered /\ b.items[f] < v)
                      \/ (\A p \in DOMAIN b.items : b.items[p] < v) /\ Behind(batch, v)
    BY <1>3, <1>5 DEF Answered, Reported, Behind, At, b
  <2>1. CASE v \in written
    BY <1>2, <2>1
  <2>2. ASSUME NEW j, NEW q, At(chain, j, q), j > batch - 1, chain[j].items[q] = v
        PROVE  \/ v \in written'
               \/ \E f \in r.failed : v = b.items[f] \/ (ordered /\ b.items[f] < v)
               \/ (\A p \in DOMAIN b.items : b.items[p] < v) /\ Behind(batch, v)
    <3>1. j \in Nat
      BY <2>2, AtIsHeld
    <3>2. CASE j > batch
      <4>1. Behind(batch, v)
        BY <2>2, <3>2 DEF Behind
      <4>2. ASSUME NEW p \in DOMAIN b.items PROVE b.items[p] < v
        <5>1. At(chain, batch, p) /\ Before(batch, p, j, q)
          BY <1>1, <1>6, <3>1, <3>2 DEF Before
        <5> QED BY <2>2, <5>1 DEF Order, Sorted, b
      <4> QED BY <4>1, <4>2
    <3>3. CASE j = batch
      <4>1. q \in DOMAIN b.items /\ v = b.items[q]
        BY <2>2, <3>3 DEF At, b
      <4>2. CASE q \in r.applied
        BY <1>2, <4>1, <4>2
      <4>3. CASE q \in r.failed
        BY <4>1, <4>3
      <4>4. ASSUME ordered, NEW f \in r.failed, f < q PROVE b.items[f] < v
        BY <1>4, <1>7, <4>1, <4>4
      <4> QED BY <1>9, <4>1, <4>2, <4>3, <4>4
    <3> QED BY <1>1, <2>2, <3>1, <3>2, <3>3
  <2>3. v \in written \/ Reported(v) \/ Behind(batch - 1, v)
    BY <1>1 DEF Account, Accounted
  <2> QED BY <2>1, <2>2, <2>3 DEF Behind
<1>14. CutOff'
  BY <1>3, <1>5 DEF CutOff
<1>15. ASSUME batch_type = "insert", acknowledged, ~r.raised
       PROVE  exec.n + r.n = Cardinality(written' \cap inflight)
  <2> DEFINE T == {b.items[i] : i \in r.applied}
  <2> DEFINE W == written \cap inflight
  <2>1. r.applied \in SUBSET (1 .. Len(b.items))
    BY <1>4, <1>8
  <2>2. IsFiniteSet(r.applied) /\ IsFiniteSet(T) /\ Cardinality(T) = Cardinality(r.applied)
    <3>1. \A i, j \in r.applied : b.items[i] = b.items[j] => i = j
      BY <1>4, <1>10
    <3>2. PICK k \in Nat : k = Len(b.items)
      BY <1>8
    <3>3. PICK s : s = b.items
      OBVIOUS
    <3>4. PICK A : A = r.applied
      OBVIOUS
    <3>5. PICK U : U = T
      OBVIOUS
    <3>6. A \in SUBSET (1 .. k) /\ Lists(s, A, U)
      BY <2>1, <3>1, <3>2, <3>3, <3>4, <3>5 DEF Lists
    <3>7. IsFiniteSet(A) /\ IsFiniteSet(U) /\ Cardinality(U) = Cardinality(A)
      BY <3>2, <3>6, AsManyItems
    <3> QED BY <3>4, <3>5, <3>7
  <2>3. T \subseteq inflight /\ T \cap written = {}
    BY <1>4, <1>6
  <2>4. written' \cap inflight = W \cup T /\ W \cap T = {}
    BY <1>2, <2>3
  <2>5. IsFiniteSet(W) /\ Cardinality(W) \in Nat
    BY FiniteHistory
  <2> HIDE DEF W, T
  <2>6. Cardinality(W \cup T) = Cardinality(W) + Cardinality(T) - Cardinality(W \cap T)
    BY <2>2, <2>5, FS_Union
  <2>7. Cardinality(W \cap T) = 0
    BY <2>4, FS_EmptySet
  <2>8. Cardinality(T) \in Nat
    BY <2>2, FS_CardinalityType
  <2>9. exec.n = Cardinality(W) /\ r.n = Cardinality(T)
    BY <1>1, <1>9, <1>15, <2>2 DEF Account, Inserted, W
  <2>10. Cardinality(written' \cap inflight) = Cardinality(W \cup T)
    BY <2>4
  <2> QED BY <2>5, <2>6, <2>7, <2>8, <2>9, <2>10
<1>16. Replied'
  <2>1. ASSUME NEW f \in r.failed PROVE b.items[f] \notin written'
    <3>1. f \in DOMAIN b.items /\ f \notin r.applied
      BY <1>4, <1>9
    <3>2. b.items[f] \notin {b.items[i] : i \in r.applied}
      BY <1>4, <1>10, <3>1
    <3> QED BY <1>2, <1>6, <3>1, <3>2
  <2>2. batch_type = "insert" /\ acknowledged /\ ~r.raised /\ ordered => \A f \in r.failed : r.n = f - 1
    BY <1>9
  <2> QED BY <1>3, <1>5, <1>9, <1>15, <2>1, <2>2 DEF Replied, b
<1>17. Accounted' /\ AccountedFor'
  BY <1>5 DEF Accounted, AccountedFor
<1>18. Inserted'
  BY <1>5 DEF Account, Inserted, Place
<1> QED BY <1>11, <1>12, <1>13, <1>14, <1>16, <1>17, <1>18 DEF Account


\* A failure ends execute(): what was counted before is what was inserted.
LEMMA BreakOffKeepsAccount ==
  ASSUME Invariant, Order, Account, BreakOff
  PROVE  Account'
<1>1. /\ pc = "callback" /\ exec.status # 0 /\ pc' = "idle" /\ exec.n \in Nat
      /\ UNCHANGED <<batch_type, ordered, acknowledged, exec, errors, inflight, written>>
  BY DEF options, BreakOff, Finish, Invariant, TypeOK, Exec
<1>2. OpenInFlight' /\ ReportedUnwritten' /\ Accounted' /\ Answered' /\ CutOff' /\ Replied'
  BY <1>1 DEF Account, OpenInFlight, Open, ReportedUnwritten, Accounted, Answered, CutOff, Replied
<1>3. batch_type = "insert" /\ acknowledged /\ ~exec.raised => exec.n = Cardinality(written \cap inflight)
  BY <1>1 DEF Account, Replied
<1>4. Inserted'
  BY <1>1, <1>3 DEF Account, Inserted, Place
<1>5. AccountedFor'
  BY <1>1 DEF AccountedFor
<1> QED BY <1>2, <1>4, <1>5 DEF Account

\* The operations a reply reports, in the call they belong to.
LEMMA NewErrors ==
  ASSUME Invariant, Order, Account, pc = "callback", exec.status = 0,
         NEW f \in exec.reply.failed
  PROVE  LET v == chain[exec.at].items[f] IN
         /\ At(chain, exec.at, f)
         /\ v \in inflight /\ v \notin written /\ v \in Nat /\ f \in Nat
         /\ \A e \in errors : e.id < v
         /\ batch_type = "insert" /\ ordered => f - 1 + exec.n = Place(v)
<1> DEFINE b == chain[exec.at].items
<1>1. At(chain, exec.at, f)
  BY DEF Invariant, ReplyFits, At
<1>2. Open(exec.at)
  BY DEF Open
<1>3. b[f] \in inflight /\ \A e \in errors : e.id < b[f]
  BY <1>1, <1>2 DEF Account, OpenInFlight
<1>4. b[f] \in Nat /\ f \in Nat
  BY <1>1, AtIsHeld
<1>5. b[f] \notin written
  BY DEF Account, Replied
<1>6. ASSUME batch_type = "insert", ordered PROVE f - 1 + exec.n = Place(b[f])
  <2>1. ~exec.reply.raised /\ acknowledged
    BY DEF Account, Replied
  <2>2. /\ exec.n + exec.reply.n = Cardinality(written \cap inflight)
        /\ \A g \in exec.reply.failed : exec.reply.n = g - 1
    BY <1>6, <2>1 DEF Account, Replied
  <2>3. \A g \in exec.reply.failed : g = f
    <3> SUFFICES ASSUME NEW g \in exec.reply.failed PROVE g = f
      OBVIOUS
    <3>1. At(chain, exec.at, g)
      BY DEF Invariant, ReplyFits, At
    <3>2. g \in Nat
      BY <3>1, AtIsHeld
    <3>3. g - 1 = f - 1
      BY <2>2
    <3> QED BY <1>4, <3>2, <3>3
  <2>4. errors = {}
    BY <1>6 DEF Order, Stops
  <2>5. \A w \in written : w < b[f]
    BY <1>6 DEF Order, Stops
  <2> DEFINE P == {p \in inflight : p < b[f]}
  <2>6. ASSUME NEW p \in P PROVE p \in written
    <3>1. p \in inflight /\ p < b[f] /\ p \in Nat
      BY FiniteHistory
    <3>2. ~(p = b[f]) /\ ~(b[f] < p)
      BY <1>4, <3>1
    <3>3. f \in DOMAIN b
      BY <1>1 DEF At
    <3>4. \/ p \in written \/ Reported(p)
          \/ \E g \in exec.reply.failed : p = b[g] \/ (ordered /\ b[g] < p)
          \/ \A q \in DOMAIN b : b[q] < p
      BY <2>1, <3>1 DEF Account, Answered
    <3> HIDE DEF b
    <3>5. ~ \E g \in exec.reply.failed : p = b[g] \/ (ordered /\ b[g] < p)
      BY <2>3, <3>2
    <3>6. ~Reported(p)
      BY <2>4 DEF Reported
    <3> QED BY <3>2, <3>3, <3>4, <3>5, <3>6
  <2>7. P = written \cap inflight
    BY <2>5, <2>6
  <2>8. Place(b[f]) = Cardinality(P)
    BY DEF Place
  <2>9. exec.reply.n = f - 1 /\ exec.n \in Nat
    BY <2>2 DEF Invariant, TypeOK, Exec
  <2> HIDE DEF P, b
  <2> QED BY <1>4, <2>2, <2>7, <2>8, <2>9
<1> QED BY <1>1, <1>3, <1>4, <1>5, <1>6

\* A reply is merged: what it reports is reported, or ends the execution.
LEMMA MergeReplyKeepsAccount ==
  ASSUME Invariant, Order, Account, MergeReply
  PROVE  Account'
<1> DEFINE r == exec.reply
<1> DEFINE b == chain[exec.at].items
<1>1. /\ pc = "callback" /\ exec.status = 0 /\ batch \in DOMAIN chain /\ batch \in Nat
      /\ exec.at \in Nat /\ exec.at <= batch /\ chain \in Seq(Batch)
      /\ exec.n \in Nat /\ r.n \in Nat
  BY DEF options, MergeReply, Invariant, TypeOK, ReplyFits, Exec, Reply
<1>2. /\ exec' = Merged(r) /\ errors' = errors \cup Reports(r.failed)
      /\ UNCHANGED <<batch_type, ordered, acknowledged, inflight, written, nested>>
  BY DEF options, MergeReply
<1>3. exec'.status = StatusAfter(r) /\ exec'.n = exec.n + r.n /\ exec'.raised = exec.raised
  BY <1>2 DEF Merged
<1>4. ~r.raised /\ ~exec.raised
  BY <1>1 DEF Account, Replied
<1>5. batch_type = "insert" /\ acknowledged => exec'.n = Cardinality(written \cap inflight)
  BY <1>1, <1>3, <1>4 DEF Account, Replied
<1>6. ASSUME NEW e \in Reports(r.failed)
      PROVE  \E f \in r.failed : e.id = b[f] /\ e.index = f - 1 + exec.n
  BY DEF Reports
<1>7. \A f \in r.failed : \E e \in errors' : e.id = b[f]
  <2> SUFFICES ASSUME NEW f \in r.failed PROVE \E e \in errors' : e.id = b[f]
    OBVIOUS
  <2> DEFINE e == [id |-> b[f], index |-> f - 1 + exec.n]
  <2>1. e \in errors' /\ e.id = b[f]
    BY <1>2 DEF Reports
  <2> QED BY <2>1
<1>8. ReportedUnwritten'
  <2> SUFFICES ASSUME NEW e \in errors' PROVE e.id \in inflight /\ e.id \notin written
    BY <1>2 DEF ReportedUnwritten
  <2>1. CASE e \in errors
    BY <2>1 DEF Account, ReportedUnwritten
  <2>2. CASE e \in Reports(r.failed)
    BY <1>1, <1>6, <2>2, NewErrors
  <2> QED BY <1>2, <2>1, <2>2
<1>9. Inserted'
  <2>1. ASSUME batch_type = "insert", acknowledged, ordered, NEW e \in errors' PROVE e.index = Place(e.id)
    <3>1. CASE e \in errors
      BY <2>1, <3>1 DEF Account, Inserted
    <3>2. CASE e \in Reports(r.failed)
      <4>1. PICK f \in r.failed : e.id = b[f] /\ e.index = f - 1 + exec.n
        BY <1>6, <3>2
      <4>2. f - 1 + exec.n = Place(b[f])
        BY <1>1, <2>1, NewErrors
      <4> QED BY <4>1, <4>2
    <3> QED BY <1>2, <2>1, <3>1, <3>2
  <2> QED BY <1>2, <1>5, <2>1 DEF Inserted, Place
<1>10. ASSUME StatusAfter(r) = 0, acknowledged, NEW v \in inflight
       PROVE  v \in written \/ Reported(v)' \/ (batch = exec.at => Behind(exec.at, v))
  <2>1. ordered => r.failed = {}
    BY <1>10 DEF StatusAfter
  <2>2. Reported(v) => Reported(v)'
    BY <1>2 DEF Reported
  <2>3. \/ v \in written \/ Reported(v)
        \/ \E f \in r.failed : v = b[f] \/ (ordered /\ b[f] < v)
        \/ (batch = exec.at => Behind(exec.at, v))
    BY <1>1, <1>10 DEF Account, Answered
  <2>4. (\E f \in r.failed : v = b[f]) => Reported(v)'
    BY <1>7 DEF Reported
  <2> QED BY <2>1, <2>2, <2>3, <2>4
<1>11. CASE NextBatch # Null /\ StatusAfter(r) = 0
  <2>1. pc' = "send" /\ batch' = NextBatch /\ chain' = chain
    BY <1>11 DEF options, MergeReply
  <2>2. batch < Len(chain) /\ batch' = batch + 1
    BY <1>11, <2>1 DEF NextBatch, Null
  <2>3. batch = exec.at
    BY <1>1, <2>2 DEF Account, CutOff
  <2>4. OpenInFlight'
    <3> SUFFICES ASSUME NEW j, NEW p, At(chain, j, p), j >= batch + 1
                 PROVE  /\ chain[j].items[p] \in inflight
                        /\ \A e \in errors' : e.id < chain[j].items[p]
      BY <1>2, <2>1, <2>2 DEF OpenInFlight, Open
    <3>1. j \in Nat /\ j > exec.at
      BY <1>1, <2>3, AtIsHeld
    <3>2. Open(j)
      BY <1>1, <2>3, <3>1 DEF Open
    <3>3. chain[j].items[p] \in inflight /\ \A e \in errors : e.id < chain[j].items[p]
      BY <3>2 DEF Account, OpenInFlight
    <3>4. ASSUME NEW e \in Reports(r.failed) PROVE e.id < chain[j].items[p]
      <4>1. PICK f \in r.failed : e.id = b[f]
        BY <1>6
      <4>2. At(chain, exec.at, f)
        BY <1>1, NewErrors
      <4>3. Before(exec.at, f, j, p)
        BY <1>1, <3>1 DEF Before
      <4> QED BY <4>1, <4>2, <4>3 DEF Order, Sorted
    <3> QED BY <1>2, <3>3, <3>4
  <2>5. Accounted'
    <3> SUFFICES ASSUME acknowledged, NEW v \in inflight
                 PROVE  v \in written \/ Reported(v)' \/ Behind(batch, v)
      BY <1>1, <1>2, <2>1, <2>2 DEF Accounted, Behind, At
    <3> QED BY <1>10, <1>11, <2>3
  <2>6. Answered' /\ CutOff' /\ Replied' /\ AccountedFor'
    BY <2>1 DEF Answered, CutOff, Replied, AccountedFor
  <2> QED BY <1>8, <1>9, <2>4, <2>5, <2>6 DEF Account
<1>12. CASE ~(NextBatch # Null /\ StatusAfter(r) = 0)
  <2>1. pc' = "idle"
    BY <1>12 DEF options, MergeReply, Finish
  <2>2. OpenInFlight' /\ Accounted' /\ Answered' /\ CutOff' /\ Replied'
    BY <2>1 DEF OpenInFlight, Open, Accounted, Answered, CutOff, Replied
  <2>3. AccountedFor'
    <3> SUFFICES ASSUME StatusAfter(r) = 0, acknowledged, ~nested
                 PROVE  /\ inflight = (written \cap inflight) \cup {e.id : e \in errors'}
                        /\ written \cap {e.id : e \in errors'} = {}
      BY <1>2, <1>3 DEF AccountedFor
    <3>1. NextBatch = Null
      BY <1>12
    <3>2. batch = Len(chain)
      BY <1>1, <3>1 DEF NextBatch, Null
    <3>3. batch = exec.at
      BY <1>1 DEF Account, CutOff
    <3>4. ASSUME NEW v PROVE ~Behind(exec.at, v)
      <4> SUFFICES ASSUME NEW i, NEW p, At(chain, i, p), i > exec.at PROVE FALSE
        BY DEF Behind
      <4>1. i \in 1 .. Len(chain)
        BY <1>1 DEF At
      <4> QED BY <1>1, <3>2, <3>3, <4>1
    <3>5. \A v \in inflight : v \in written \/ Reported(v)'
      BY <1>10, <3>3, <3>4
    <3>6. \A e \in errors' : e.id \in inflight /\ e.id \notin written
      BY <1>2, <1>8 DEF ReportedUnwritten
    <3> QED BY <3>5, <3>6 DEF Reported
  <2> QED BY <1>8, <1>9, <2>2, <2>3 DEF Account
<1> QED BY <1>11, <1>12

\* The steps that send nothing, and merge nothing.
LEMMA OtherKeepsAccount ==
  ASSUME Account, ExecuteEmpty \/ NoServer \/ ExchangeEndsProcess \/ UseDangling
  PROVE  Account'
<1>1. UNCHANGED <<batch_type, ordered, acknowledged, chain, batch, total_items, exec, errors, inflight,
                  written, nested>>
  BY DEF options, ExecuteEmpty, NoServer, ExchangeEndsProcess, UseDangling
<1>2. pc' = pc \/ pc' = "undefined"
  BY DEF options, ExecuteEmpty, NoServer, ExchangeEndsProcess, UseDangling
<1>3. OpenInFlight' /\ ReportedUnwritten'
  BY <1>1, <1>2 DEF Account, OpenInFlight, Open, At, ReportedUnwritten
<1>4. Accounted' /\ Answered'
  BY <1>1, <1>2 DEF Account, Accounted, Answered, Reported, Behind, At
<1>5. CutOff' /\ Replied'
  BY <1>1, <1>2 DEF Account, CutOff, Replied
<1>6. Inserted' /\ AccountedFor'
  BY <1>1, <1>2 DEF Account, Inserted, Place, AccountedFor
<1> QED BY <1>3, <1>4, <1>5, <1>6 DEF Account

\* A new MongoWriteBatch has nothing to account for.
LEMMA InitAccount == Init => Account
<1> SUFFICES ASSUME Init PROVE Account
  OBVIOUS
<1>1. pc = "idle" /\ exec.n = 0 /\ errors = {} /\ inflight = {} /\ written = {}
  BY DEF Init, Entering
<1>2. Cardinality(written \cap inflight) = 0
  BY <1>1, FS_EmptySet
<1> QED BY <1>1, <1>2
        DEF Account, OpenInFlight, Open, ReportedUnwritten, Accounted, Answered, CutOff, Replied,
            Inserted, AccountedFor

\* The account is kept by every step.
LEMMA NextAccount == Invariant /\ Order /\ Account /\ [Next]_vars => Account'
<1> SUFFICES ASSUME Invariant, Order, Account, [Next]_vars PROVE Account'
  OBVIOUS
<1>1. CASE UNCHANGED vars
  BY <1>1 DEF options, vars, Account, OpenInFlight, Open, At, ReportedUnwritten, Accounted, Answered,
              Reported, Behind, CutOff, Replied, Inserted, Place, AccountedFor
<1>2. CASE Next
  BY <1>2, AddKeepsAccount, ExecuteKeepsAccount, SendBatchKeepsAccount, BreakOffKeepsAccount,
     MergeReplyKeepsAccount, OtherKeepsAccount DEF Next
<1> QED BY <1>1, <1>2

\* Whatever the server answers, for any number of batches and calls: an operation
\* in flight is performed, reported, still to come, or given up for an error.
THEOREM AccountInvariant == Spec => []Account
BY InitAccount, NextAccount, BatchInvariant, OrderInvariant, PTL DEF Spec

\* When an acknowledged execute() was broken off by nothing, each operation it was to
\* send has been performed or is among the errors it reports, and not both.
THEOREM OperationsAreAccountedFor == Spec => []AccountedFor
<1>1. Account => AccountedFor
  BY DEF Account
<1> QED BY <1>1, AccountInvariant, PTL

\* When acknowledged, nInserted counts the documents inserted in all batches, and an error's
\* index the place of its document among all of the call.
THEOREM InsertsAreReportedExactly == Spec => []InsertsReportedExactly
<1>1. Account => InsertsReportedExactly
  BY DEF Account, Inserted, InsertsReportedExactly
<1> QED BY <1>1, AccountInvariant, PTL

=============================================================================
