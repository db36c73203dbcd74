----------------------- MODULE CollectionWrites_proofs ----------------------
(***************************************************************************)
(* Proofs about CollectionWrites: its types, that no call can be handed the  *)
(* answer to another one, that a call returns an answer without an error     *)
(* only if the server confirmed its write, and that the options of a call    *)
(* reach the server, for any options and defaults, any number of calls and   *)
(* request ids of any width.                                                *)
(***************************************************************************)
EXTENDS CollectionWrites, SequenceTheorems, TLAPS

(* Sequences of anything.                                                   *)

Sequence(s) == \E S : s \in Seq(S)

LEMMA Appended ==
  ASSUME NEW s, Sequence(s), NEW e
  PROVE  /\ Sequence(Append(s, e)) /\ Append(s, e) # <<>>
         /\ Len(s) \in Nat /\ Len(Append(s, e)) = Len(s) + 1
         /\ DOMAIN Append(s, e) = 1..(Len(s) + 1) /\ DOMAIN s = 1..Len(s)
         /\ \A i \in 1..Len(s) : Append(s, e)[i] = s[i]
         /\ Append(s, e)[Len(s) + 1] = e
<1>1. PICK S : s \in Seq(S)
  BY DEF Sequence
<1> DEFINE T == S \cup {e}
<1>2. s \in Seq(T) /\ e \in T
  BY <1>1, SeqMonotonic
<1> HIDE DEF T
<1>3. /\ Append(s, e) \in Seq(T) /\ Append(s, e) # <<>>
      /\ Len(Append(s, e)) = Len(s) + 1
      /\ \A i \in 1..Len(s) : Append(s, e)[i] = s[i]
      /\ Append(s, e)[Len(s) + 1] = e
  BY <1>2, AppendProperties
<1>4. /\ Len(s) \in Nat /\ DOMAIN s = 1..Len(s)
      /\ DOMAIN Append(s, e) = 1..Len(Append(s, e))
  BY <1>2, <1>3, LenProperties
<1> QED BY <1>3, <1>4 DEF Sequence

LEMMA Taken ==
  ASSUME NEW s, Sequence(s), s # <<>>
  PROVE  /\ Sequence(Tail(s)) /\ Len(s) \in Nat \ {0} /\ Len(Tail(s)) = Len(s) - 1
         /\ DOMAIN s = 1..Len(s) /\ DOMAIN Tail(s) = 1..(Len(s) - 1)
         /\ Head(s) = s[1] /\ \A i \in 1..(Len(s) - 1) : Tail(s)[i] = s[i + 1]
<1>1. PICK S : s \in Seq(S)
  BY DEF Sequence
<1>2. /\ Tail(s) \in Seq(S) /\ Len(Tail(s)) = Len(s) - 1
      /\ \A i \in 1..Len(Tail(s)) : Tail(s)[i] = s[i + 1]
  BY <1>1, HeadTailProperties
<1>3. /\ Len(s) \in Nat \ {0} /\ DOMAIN s = 1..Len(s)
      /\ DOMAIN Tail(s) = 1..Len(Tail(s)) /\ Head(s) = s[1]
  BY <1>1, <1>2, LenProperties, EmptySeq
<1> QED BY <1>2, <1>3 DEF Sequence

-----------------------------------------------------------------------------
(* The invariant.                                                           *)

Shape ==
  /\ con = [registered |-> con.registered, torn |-> con.torn, wire |-> con.wire,
            replies |-> con.replies]
  /\ Sequence(con.wire) /\ Sequence(con.replies)

\* Nothing on its way to the server will be answered.
Unanswered == \A i \in DOMAIN con.wire : con.wire[i].protocol = "opcode"

\* While a call waits, its own message is the last on the wire, or cut off, or
\* answered, and there is no other answer.
OnlyItsOwn ==
  \/ /\ con.replies = <<>>
     /\ \A i \in DOMAIN con.wire : con.wire[i].protocol = "opcode" \/ i = Len(con.wire)
  \/ Len(con.replies) = 1 /\ Unanswered

Invariant ==
  /\ Shape
  /\ pc \in {"idle", "send", "receive"}
  /\ pc = "idle" /\ con.registered => con.replies = <<>> /\ Unanswered
  /\ pc = "send" => /\ con.registered /\ con.replies = <<>> /\ Unanswered
                    /\ call.protocol \in {"command", "gle", "opcode"}
  /\ pc = "receive" => con.registered /\ OnlyItsOwn

LEMMA EmptyIsSequence == Sequence(<<>>)
BY EmptySeq DEF Sequence

LEMMA BeginKeeps ==
  ASSUME Invariant, NEW op, NEW o, Begin(op, o)
  PROVE  Invariant'
<1>1. con'.registered /\ con'.replies = <<>> /\ Unanswered' /\ Shape'
  <2>1. CASE con.registered
    BY <2>1 DEF Begin, Invariant, Shape, Unanswered
  <2>2. CASE ~con.registered
    <3>1. con' = NewConnection
      BY <2>2 DEF Begin
    <3> QED BY <3>1, EmptyIsSequence DEF NewConnection, Shape, Unanswered
  <2> QED BY <2>1, <2>2
<1>2. Protocol(op, o) \in {"command", "none", "gle", "opcode"}
  BY DEF Protocol
<1>3. call'.protocol = Protocol(op, o)
  BY DEF Begin
<1>4. (pc' = "send" /\ Protocol(op, o) # "none") \/ pc' = "idle"
  BY DEF Begin, Finish
<1> QED BY <1>1, <1>2, <1>3, <1>4 DEF Invariant

\* What a call that is about to send leaves on its connection.
LEMMA SentKeeps ==
  ASSUME Invariant, pc = "send", NEW out, con' = Sent(out)
  PROVE  /\ Shape' /\ con'.registered /\ OnlyItsOwn' /\ con'.replies = <<>>
         /\ call.protocol = "opcode" \/ out # "all" => Unanswered'
<1>1. Shape /\ con.registered /\ con.replies = <<>> /\ Unanswered
  BY DEF Invariant
<1>2. CASE con' = con
  BY <1>1, <1>2 DEF Shape, OnlyItsOwn, Unanswered
<1>3. CASE con' = [con EXCEPT !.torn = TRUE]
  BY <1>1, <1>3 DEF Shape, OnlyItsOwn, Unanswered
<1>4. CASE out = "all" /\ con' = [con EXCEPT !.wire = Append(@, Message)]
  <2>1. /\ con'.wire = Append(con.wire, Message) /\ con'.replies = <<>> /\ con'.registered
        /\ con' = [registered |-> con'.registered, torn |-> con'.torn, wire |-> con'.wire,
                   replies |-> con'.replies]
    BY <1>1, <1>4 DEF Shape
  <2>2. Message.protocol = call.protocol
    BY DEF Message
  <2> DEFINE m == Message
  <2> HIDE DEF m
  <2>3. /\ Sequence(con'.wire) /\ Len(con.wire) \in Nat /\ Len(con'.wire) = Len(con.wire) + 1
        /\ DOMAIN con'.wire = 1..(Len(con.wire) + 1) /\ DOMAIN con.wire = 1..Len(con.wire)
        /\ \A i \in 1..Len(con.wire) : con'.wire[i] = con.wire[i]
        /\ con'.wire[Len(con.wire) + 1] = Message
    BY <1>1, <2>1, Appended DEF Shape
  <2>4. \A i \in DOMAIN con'.wire : con'.wire[i].protocol = "opcode" \/ i = Len(con'.wire)
    BY <1>1, <2>3 DEF Unanswered
  <2>5. call.protocol = "opcode" => Unanswered'
    BY <1>1, <2>2, <2>3 DEF Unanswered
  <2> QED BY <1>4, <2>1, <2>3, <2>4, <2>5, EmptyIsSequence DEF Shape, OnlyItsOwn
<1> QED BY <1>2, <1>3, <1>4 DEF Sent

LEMMA SendOpcodeKeeps ==
  ASSUME Invariant, NEW out, SendOpcode(out)
  PROVE  Invariant'
<1>1. CASE out # "error"
  <2>1. /\ con' = Sent(out)
        /\ pc' = "receive" \/ (pc' = "idle" /\ call.protocol = "opcode")
    BY <1>1 DEF SendOpcode, Finish
  <2>2. /\ Shape' /\ con'.registered /\ OnlyItsOwn' /\ con'.replies = <<>>
        /\ call.protocol = "opcode" => Unanswered'
    BY <2>1, SentKeeps DEF SendOpcode
  <2> QED BY <2>1, <2>2 DEF Invariant
<1>2. CASE out = "error"
  <2>1. (con' = Deregister \/ con' = con) /\ pc' = "idle"
    BY <1>2 DEF SendOpcode, Finish
  <2>2. CASE con' = Deregister
    BY <2>1, <2>2, EmptyIsSequence DEF Deregister, Invariant, Shape
  <2>3. CASE con' = con
    BY <2>1, <2>3 DEF SendOpcode, Invariant, Shape, Unanswered
  <2> QED BY <2>1, <2>2, <2>3
<1> QED BY <1>1, <1>2

LEMMA SendCommandKeeps ==
  ASSUME Invariant, NEW out, SendCommand(out)
  PROVE  Invariant'
<1>1. /\ Shape' /\ con'.registered /\ OnlyItsOwn' /\ con'.replies = <<>>
      /\ out # "all" => Unanswered'
  BY SentKeeps DEF SendCommand
<1>2. pc' = "receive" \/ (pc' = "idle" /\ out # "all")
  <2>1. CASE out \in {"all", "torn"} /\ pc' = "receive"
    BY <2>1
  <2>2. CASE out \in {"nothing", "error"} /\ pc' = "idle"
    BY <2>2
  <2> QED BY <2>1, <2>2 DEF SendCommand, Finish
<1> QED BY <1>1, <1>2 DEF Invariant

LEMMA AnswerKeeps ==
  ASSUME Invariant, Answer
  PROVE  Invariant'
<1>1. Shape /\ con.registered /\ OnlyItsOwn /\ con.replies # <<>>
  BY DEF Answer, Invariant
<1>2. Len(con.replies) = 1 /\ Unanswered
  BY <1>1 DEF OnlyItsOwn
<1>3. /\ con'.replies = Tail(con.replies) /\ con'.wire = con.wire /\ pc' = "idle"
      /\ con' = [registered |-> con'.registered, torn |-> con'.torn, wire |-> con'.wire,
                 replies |-> con'.replies]
  BY <1>1 DEF Answer, Finish, Shape
<1>4. Sequence(con'.replies) /\ Len(con'.replies) = 0
  BY <1>1, <1>2, <1>3, Taken DEF Shape
<1>5. con'.replies = <<>>
  BY <1>4, EmptySeq DEF Sequence
<1>6. Shape'
  BY <1>1, <1>3, <1>4 DEF Shape
<1> QED BY <1>2, <1>3, <1>5, <1>6 DEF Invariant, Unanswered

\* The server takes a message; it is answered only if a call waits for that.
LEMMA ServeKeeps ==
  ASSUME Invariant, NEW applied, NEW confirmed, Serve(applied, confirmed)
  PROVE  Invariant'
<1> DEFINE m == Head(con.wire)
<1>1. PICK v : con' = [con EXCEPT !.wire = Tail(@),
                         !.replies = IF m.protocol = "opcode" THEN @
                                     ELSE Append(@, [to |-> m.id, verdict |-> v])]
  BY DEF Serve
<1> DEFINE r == [to |-> m.id, verdict |-> v]
<1>2. con.wire # <<>> /\ Shape /\ UNCHANGED <<pc, call>>
  BY DEF Serve, Invariant
<1>3. /\ con'.registered = con.registered /\ con'.wire = Tail(con.wire)
      /\ con'.replies = IF m.protocol = "opcode" THEN con.replies ELSE Append(con.replies, r)
      /\ con' = [registered |-> con'.registered, torn |-> con'.torn, wire |-> con'.wire,
                 replies |-> con'.replies]
  BY <1>1, <1>2 DEF Shape
<1> HIDE DEF r
<1>4. /\ Sequence(con'.wire) /\ Len(con.wire) \in Nat \ {0}
      /\ Len(con'.wire) = Len(con.wire) - 1
      /\ DOMAIN con.wire = 1..Len(con.wire) /\ DOMAIN con'.wire = 1..(Len(con.wire) - 1)
      /\ m = con.wire[1] /\ \A i \in 1..(Len(con.wire) - 1) : con'.wire[i] = con.wire[i + 1]
  BY <1>2, <1>3, Taken DEF Shape
<1> HIDE DEF m
<1>5. /\ Sequence(Append(con.replies, r))
      /\ con.replies = <<>> => Len(Append(con.replies, r)) = 1
  BY <1>2, Appended, EmptySeq DEF Shape
<1>6. Shape'
  BY <1>2, <1>3, <1>4, <1>5 DEF Shape
<1>7. Unanswered => Unanswered' /\ con'.replies = con.replies
  BY <1>3, <1>4 DEF Unanswered
<1>8. OnlyItsOwn => OnlyItsOwn'
  <2>1. CASE Unanswered
    BY <1>7, <2>1 DEF OnlyItsOwn, Unanswered
  <2>2. ASSUME con.replies = <<>>, m.protocol = "opcode",
               \A i \in DOMAIN con.wire : con.wire[i].protocol = "opcode" \/ i = Len(con.wire)
        PROVE  OnlyItsOwn'
    <3>1. con'.replies = <<>>
      BY <1>3, <2>2
    <3>2. \A i \in DOMAIN con'.wire : con'.wire[i].protocol = "opcode" \/ i = Len(con'.wire)
      <4> SUFFICES ASSUME NEW i \in 1..(Len(con.wire) - 1)
                   PROVE  con'.wire[i].protocol = "opcode" \/ i = Len(con'.wire)
        BY <1>4
      <4>1. i + 1 \in DOMAIN con.wire /\ con'.wire[i] = con.wire[i + 1]
        BY <1>4
      <4>2. CASE con.wire[i + 1].protocol = "opcode"
        BY <4>1, <4>2
      <4>3. CASE i + 1 = Len(con.wire)
        BY <1>4, <4>3
      <4> QED BY <2>2, <4>1, <4>2, <4>3
    <3> QED BY <3>1, <3>2 DEF OnlyItsOwn
  <2>3. ASSUME con.replies = <<>>, m.protocol # "opcode",
               \A i \in DOMAIN con.wire : con.wire[i].protocol = "opcode" \/ i = Len(con.wire)
        PROVE  OnlyItsOwn'
    <3>1. Len(con.wire) = 1
      <4>1. 1 \in DOMAIN con.wire /\ con.wire[1].protocol # "opcode"
        BY <1>4, <2>3
      <4> QED BY <2>3, <4>1
    <3>2. DOMAIN con'.wire = {}
      BY <1>4, <3>1
    <3>3. Len(con'.replies) = 1
      BY <1>3, <1>5, <2>3
    <3> QED BY <3>2, <3>3 DEF OnlyItsOwn, Unanswered
  <2> QED BY <2>1, <2>2, <2>3 DEF OnlyItsOwn
<1> QED BY <1>2, <1>3, <1>6, <1>7, <1>8 DEF Invariant

LEMMA StepKeeps ==
  ASSUME Invariant, [Next]_vars
  PROVE  Invariant'
<1>1. CASE UNCHANGED vars
  BY <1>1 DEF vars, Invariant, Shape, Unanswered, OnlyItsOwn
<1>2. ASSUME NEW v \in Settable, SetWriteConcern(v) PROVE Invariant'
  BY <1>2 DEF SetWriteConcern, Invariant, Shape, Unanswered, OnlyItsOwn
<1>3. ASSUME NEW o \in Options,
             Insert(o) \/ Update(o) \/ RemoveDocuments(o) \/ BatchInsert(o) \/ Save(o)
      PROVE  Invariant'
  BY <1>3, BeginKeeps DEF Insert, Update, RemoveDocuments, BatchInsert, Save
<1>4. CASE BuildFails \/ ZeroId
  BY <1>4 DEF BuildFails, ZeroId, Finish, Invariant, Shape, Unanswered
<1>5. ASSUME NEW out, SendOpcode(out) \/ SendCommand(out) PROVE Invariant'
  BY <1>5, SendOpcodeKeeps, SendCommandKeeps
<1>6. CASE NoAnswer \/ NoGleAnswer
  <2>1. con' = Deregister /\ pc' = "idle"
    BY <1>6 DEF NoAnswer, NoGleAnswer, Fail, Finish
  <2> QED BY <2>1, EmptyIsSequence DEF Deregister, Invariant, Shape
<1>7. CASE Answer
  BY <1>7, AnswerKeeps
<1>8. ASSUME NEW a, NEW c, Serve(a, c) PROVE Invariant'
  BY <1>8, ServeKeeps
<1> QED BY <1>1, <1>2, <1>3, <1>4, <1>5, <1>6, <1>7, <1>8 DEF Next

LEMMA InvariantAtFirst == Init => Invariant
BY EmptyIsSequence DEF Init, NewConnection, Invariant, Shape, Unanswered

\* Whichever of the three readers of replies gives up, and whenever the server
\* answers, nothing of it waits on the connection of the next call.
THEOREM NoReplyIsLeftBehind == Spec => []NoReplyLeftBehind
<1>1. Init => Invariant
  BY InvariantAtFirst
<1>2. Invariant /\ [Next]_vars => Invariant'
  BY StepKeeps
<1>3. Invariant => NoReplyLeftBehind
  BY DEF Invariant, NoReplyLeftBehind, Unanswered
<1> QED BY <1>1, <1>2, <1>3, PTL DEF Spec

-----------------------------------------------------------------------------
(* What calls ask for.                                                      *)

Requested == [w : Wait, safe : Wait, safe_first : BOOLEAN, j : Switch, fsync : Switch]

Typed ==
  /\ default \in [w : Wait, j : Switch, fsync : Switch]
  /\ w \in Wait \ {Unset}
  /\ call.asked \in Concern /\ call.options \in Requested
  /\ calls \in Nat

\* A concern that is a string, and which getLastError keeps.
Standing == IF w = 1 THEN default.w ELSE w

\* What the options o ask for by name is in the concern c, sent as p says.
Honours(c, o, p) ==
  /\ o.j = 1 => c.j = 1
  /\ o.fsync = 1 => c.fsync = 1
  /\ IsString(o.w) /\ o.safe = Unset => c.w = o.w
  /\ ~IsString(o.w) /\ o.w >= 1 =>
       \/ ~IsString(c.w) /\ c.w >= o.w
       \/ IsString(o.safe) /\ c.w = o.safe
       \/ p = "gle" /\ IsString(Standing) /\ c.w = Standing

LEMMA WaitValues ==
  /\ Unset = -1 /\ MaxW \in Nat /\ 0 \in 0..MaxW /\ 1 \in 0..MaxW
  /\ \A v \in 0..MaxW : v \in Wait /\ v \in Nat
  /\ \A v \in Int : ~IsString(v)
  /\ \A v : IsString(v) => v \in Wait /\ v # Unset
  /\ \A v \in Wait : IsString(v) \/ v = Unset \/ v \in 0..MaxW
  /\ \A v \in Wait : ~IsString(v) => v \in Int
  /\ \A v \in Wait : ~IsString(v) /\ v >= 1 => v # Unset /\ v \in 0..MaxW /\ v >= v
  /\ Unset \in Wait
BY ParameterAssumption DEF Wait, IsString

\* On the command path options only replace a concern by a string or a number
\* they name, and "safe" never lowers the number of "w".
LEMMA CommandHonours ==
  ASSUME Typed, NEW o \in Requested, NEW p
  PROVE  CommandConcern(o) \in Concern /\ Honours(CommandConcern(o), o, p)
<1>1. /\ o.w \in Wait /\ o.safe \in Wait /\ o.j \in Switch /\ o.fsync \in Switch
      /\ default.w \in Wait /\ default.j \in Switch /\ default.fsync \in Switch
      /\ w \in Wait /\ Unset = -1
  BY WaitValues DEF Requested, Typed
<1> DEFINE c == CommandConcern(o)
<1>2. c.j \in Switch /\ c.fsync \in Switch
      /\ (o.j = 1 => c.j = 1) /\ (o.fsync = 1 => c.fsync = 1)
  BY <1>1 DEF CommandConcern
<1>3. ImplicitW \in Wait
  BY <1>1 DEF ImplicitW
<1>4. \A v \in Wait : WriteW(v, o) \in Wait /\ WriteSafe(v, o) \in Wait
  BY <1>1 DEF WriteW, WriteSafe
<1>5. c.w = IF o.safe_first THEN WriteW(WriteSafe(ImplicitW, o), o)
            ELSE WriteSafe(WriteW(ImplicitW, o), o)
  BY DEF CommandConcern
<1>6. c.w \in Wait
  BY <1>3, <1>4, <1>5
<1>7. c \in Concern
  BY <1>2, <1>6 DEF CommandConcern, Concern
<1>8. ASSUME o.w # Unset PROVE c.w = o.w \/ c.w = WriteSafe(o.w, o)
  <2>1. \A v : WriteW(v, o) = o.w
    BY <1>8 DEF WriteW
  <2> QED BY <1>5, <2>1
<1>9. ASSUME IsString(o.w), o.safe = Unset PROVE c.w = o.w
  <2>1. WriteSafe(o.w, o) = o.w
    BY <1>9 DEF WriteSafe
  <2> QED BY <1>8, <1>9, <2>1, WaitValues
<1>10. ASSUME ~IsString(o.w), o.w >= 1
       PROVE  (~IsString(c.w) /\ c.w >= o.w) \/ (IsString(o.safe) /\ c.w = o.safe)
  <2>1. o.w \in 0..MaxW /\ o.w \in Int /\ o.w # Unset /\ o.w >= o.w
    BY <1>1, <1>10, WaitValues
  <2>2. CASE c.w = o.w
    BY <1>10, <2>1, <2>2
  <2>3. CASE c.w = WriteSafe(o.w, o)
    <3>1. CASE IsString(o.safe)
      BY <1>10, <2>1, <2>3, <3>1 DEF WriteSafe
    <3>2. CASE ~IsString(o.safe)
      <4>1. o.safe \in Int
        BY <1>1, <3>2, WaitValues
      <4>2. CASE o.safe = Unset \/ o.w > o.safe
        BY <1>10, <2>1, <2>3, <3>2, <4>2 DEF WriteSafe
      <4>3. CASE ~(o.safe = Unset \/ o.w > o.safe)
        <5>1. WriteSafe(o.w, o) = o.safe
          BY <3>2, <4>3 DEF WriteSafe
        <5>2. o.safe >= o.w
          BY <2>1, <4>1, <4>3
        <5> QED BY <2>3, <3>2, <5>1, <5>2
      <4> QED BY <4>2, <4>3
    <3> QED BY <3>1, <3>2
  <2> QED BY <1>8, <2>1, <2>2, <2>3
<1> HIDE DEF c
<1> QED BY <1>2, <1>7, <1>9, <1>10, Zenon DEF Honours, c

\* getLastError waits for one server at least, and for what "w" says unless a
\* string stands as the default.
LEMMA GleHonours ==
  ASSUME Typed, NEW o \in Requested
  PROVE  /\ GleConcern(o) \in Concern /\ Honours(GleConcern(o), o, "gle")
         /\ ~IsBelow(GleConcern(o).w, 1)
<1>1. /\ o.w \in Wait /\ o.safe \in Wait /\ o.j \in Switch /\ o.fsync \in Switch
      /\ default.w \in Wait /\ w \in Wait \ {Unset}
  BY DEF Requested, Typed
<1> DEFINE d == GleDefaults
<1>2. /\ d = [n |-> d.n, str |-> d.str] /\ d.n \in 0..MaxW
      /\ d.str = Unset \/ (IsString(d.str) /\ d.str = Standing)
  <2> DEFINE n == IF default.w = Unset \/ IsString(default.w) THEN 0 ELSE default.w
  <2>1. n \in 0..MaxW
    BY <1>1, WaitValues
  <2> HIDE DEF n
  <2>2. CASE IsString(w)
    <3>1. d = [n |-> n, str |-> w]
      BY <2>2 DEF GleDefaults, n
    <3>2. w # 1
      BY <2>2, WaitValues
    <3> QED BY <2>1, <2>2, <3>1, <3>2 DEF Standing
  <2>3. CASE ~IsString(w) /\ w # 1
    <3>1. d = [n |-> w, str |-> Unset]
      BY <2>3 DEF GleDefaults
    <3>2. w \in 0..MaxW
      BY <1>1, <2>3, WaitValues
    <3> QED BY <3>1, <3>2
  <2>4. CASE ~IsString(w) /\ w = 1
    <3>1. d = [n |-> n, str |-> IF IsString(default.w) THEN default.w ELSE Unset]
      BY <2>4 DEF GleDefaults, n
    <3>2. CASE IsString(default.w)
      <4>1. d = [n |-> n, str |-> default.w]
        BY <3>1, <3>2
      <4> QED BY <2>1, <2>4, <3>2, <4>1 DEF Standing
    <3>3. CASE ~IsString(default.w)
      <4>1. d = [n |-> n, str |-> Unset]
        BY <3>1, <3>3
      <4> QED BY <2>1, <4>1
    <3> QED BY <3>2, <3>3
  <2> QED BY <2>2, <2>3, <2>4
<1> HIDE DEF d
<1> DEFINE x == Chosen(o)
           v == GleOption(d, o)
<1>3. x \in Wait /\ (o.w # Unset => x = o.w)
  BY <1>1 DEF Chosen
<1> HIDE DEF x
<1>4. \/ v = d /\ (o.w = Unset)
      \/ IsString(x) /\ v = [d EXCEPT !.str = x]
      \/ o.w = Unset /\ v = [d EXCEPT !.n = 1]
      \/ ~IsString(x) /\ x # Unset /\ v = [d EXCEPT !.n = x]
  <2>1. x = Unset => o.w = Unset
    BY <1>3
  <2>2. CASE x = Unset
    BY <2>1, <2>2 DEF GleOption, x
  <2>3. CASE x # Unset /\ IsString(x)
    BY <2>3 DEF GleOption, x
  <2>4. CASE x # Unset /\ ~IsString(x) /\ o.w = Unset /\ o.safe = 1
    BY <2>4 DEF GleOption, x
  <2>5. CASE x # Unset /\ ~IsString(x) /\ ~(o.w = Unset /\ o.safe = 1)
    BY <2>5 DEF GleOption, x
  <2> QED BY <2>2, <2>3, <2>4, <2>5
<1> HIDE DEF v
<1>5. /\ v.n \in 0..MaxW /\ (v.str = Unset \/ IsString(v.str))
      /\ IsString(o.w) => v.str = o.w
      /\ ~IsString(o.w) /\ o.w # Unset => v.n = o.w /\ (v.str = Unset \/ v.str = Standing)
  <2>1. CASE v = d /\ o.w = Unset
    BY <1>2, <2>1, WaitValues
  <2>2. CASE IsString(x) /\ v = [d EXCEPT !.str = x]
    <3>1. v.n = d.n /\ v.str = x
      BY <1>2, <2>2
    <3> QED BY <1>2, <1>3, <2>2, <3>1, WaitValues
  <2>3. CASE o.w = Unset /\ v = [d EXCEPT !.n = 1]
    <3>1. v.n = 1 /\ v.str = d.str
      BY <1>2, <2>3
    <3> QED BY <1>2, <2>3, <3>1, WaitValues
  <2>4. CASE ~IsString(x) /\ x # Unset /\ v = [d EXCEPT !.n = x]
    <3>1. v.n = x /\ v.str = d.str
      BY <1>2, <2>4
    <3>2. x \in 0..MaxW
      BY <1>3, <2>4, WaitValues
    <3> QED BY <1>2, <1>3, <2>4, <3>1, <3>2, WaitValues
  <2> QED BY <1>4, <2>1, <2>2, <2>3, <2>4
<1> DEFINE c == GleConcern(o)
<1>6. /\ c = [w |-> c.w, j |-> c.j, fsync |-> c.fsync]
      /\ c.w = IF v.str # Unset THEN v.str ELSE IF v.n > 1 THEN v.n ELSE 1
  BY DEF GleConcern, v, d
<1>7. /\ c.j \in Switch /\ c.fsync \in Switch
      /\ (o.j = 1 => c.j = 1) /\ (o.fsync = 1 => c.fsync = 1)
  BY <1>1, WaitValues DEF GleConcern, Flag, Switch
<1> HIDE DEF c
<1>8. CASE v.str # Unset
  <2>1. c.w = v.str /\ IsString(c.w) /\ c.w \in Wait
    BY <1>5, <1>6, <1>8, WaitValues
  <2>2. ~IsBelow(c.w, 1)
    BY <2>1 DEF IsBelow
  <2>3. c \in Concern
    BY <1>6, <1>7, <2>1 DEF Concern
  <2>4. ~IsString(o.w) /\ o.w >= 1 => IsString(Standing) /\ c.w = Standing
    <3>1. ~IsString(o.w) /\ o.w >= 1 => o.w # Unset
      BY WaitValues
    <3> QED BY <1>5, <1>8, <2>1, <3>1
  <2>5. IsString(o.w) => c.w = o.w
    BY <1>5, <2>1
  <2> QED BY <1>7, <2>2, <2>3, <2>4, <2>5, Zenon DEF Honours, c
<1>9. CASE v.str = Unset
  <2>1. c.w \in 0..MaxW /\ c.w >= 1 /\ c.w >= v.n
    BY <1>5, <1>6, <1>9, WaitValues
  <2>2. ~IsString(c.w) /\ c.w \in Wait /\ ~IsBelow(c.w, 1)
    BY <2>1, WaitValues DEF IsBelow
  <2>3. c \in Concern
    BY <1>6, <1>7, <2>2 DEF Concern
  <2>4. ~IsString(o.w) /\ o.w >= 1 => c.w >= o.w
    <3>1. ~IsString(o.w) /\ o.w >= 1 => o.w # Unset
      BY WaitValues
    <3> QED BY <1>5, <2>1, <3>1
  <2>5. ~IsString(o.w)
    BY <1>5, <1>9, WaitValues
  <2> QED BY <1>7, <2>2, <2>3, <2>4, <2>5, Zenon DEF Honours, c
<1> QED BY <1>8, <1>9 DEF c

LEMMA AskedHonours ==
  ASSUME Typed, NEW op, NEW o \in Requested
  PROVE  /\ Asked(op, o) \in Concern
         /\ Protocol(op, o) \in {"command", "gle"} =>
              Honours(Asked(op, o), o, Protocol(op, o))
         /\ Protocol(op, o) = "gle" => ~IsBelow(Asked(op, o).w, 1)
<1>1. NoConcern \in Concern
  BY WaitValues DEF NoConcern, Concern, Switch
<1>2. CASE Protocol(op, o) = "command"
  BY <1>2, CommandHonours DEF Asked
<1>3. CASE Protocol(op, o) = "gle"
  BY <1>3, GleHonours DEF Asked
<1>4. CASE Protocol(op, o) \notin {"command", "gle"}
  BY <1>1, <1>4 DEF Asked
<1> QED BY <1>2, <1>3, <1>4

Kept == Typed /\ OptionsReachTheServer

LEMMA KeptMeans ==
  /\ OptionsReachTheServer <=>
       (pc # "idle" /\ call.protocol \in {"command", "gle"} =>
          Honours(call.asked, call.options, call.protocol))
  /\ OptionsReachTheServer' <=>
       (pc' # "idle" /\ call'.protocol \in {"command", "gle"} =>
          Honours(call.asked, call.options, call.protocol)')
BY DEF OptionsReachTheServer, Honours, Standing

LEMMA OptionsRequested == Options \subseteq Requested /\ NoOptions \in Requested
BY ParameterAssumption, WaitValues DEF Requested, NoOptions, Switch

LEMMA KeptBegins ==
  ASSUME Kept, NEW op, NEW o \in Options, Begin(op, o)
  PROVE  Kept'
<1>1. o \in Requested
  BY OptionsRequested
<1>2. /\ call'.options = o /\ call'.asked = Asked(op, o) /\ call'.protocol = Protocol(op, o)
      /\ calls' = calls + 1 /\ UNCHANGED <<default, w>>
  BY DEF Begin
<1>3. Typed'
  BY <1>1, <1>2, AskedHonours DEF Kept, Typed
<1>4. OptionsReachTheServer'
  <2>1. call'.protocol \in {"command", "gle"} => Honours(call'.asked, o, call'.protocol)
    BY <1>1, <1>2, AskedHonours DEF Kept
  <2>2. Honours(call'.asked, o, call'.protocol) => Honours(call.asked, call.options, call.protocol)'
    BY <1>2 DEF Honours, Standing
  <2> QED BY <2>1, <2>2, KeptMeans
<1> QED BY <1>3, <1>4 DEF Kept

LEMMA KeptStays == ASSUME Kept, [Next]_vars PROVE Kept'
<1>1. ASSUME UNCHANGED <<default, w, call, calls>>, pc' # "idle" => pc # "idle" PROVE Kept'
  BY <1>1 DEF Kept, Typed, OptionsReachTheServer
<1>2. ASSUME NEW v \in Settable, SetWriteConcern(v) PROVE Kept'
  BY <1>2, ParameterAssumption DEF SetWriteConcern, Kept, Typed, OptionsReachTheServer
<1>3. ASSUME NEW o \in Options,
             Insert(o) \/ Update(o) \/ RemoveDocuments(o) \/ BatchInsert(o) \/ Save(o)
      PROVE  Kept'
  BY <1>3, KeptBegins DEF Insert, Update, RemoveDocuments, BatchInsert, Save
<1>4. CASE BuildFails \/ ZeroId \/ NoAnswer \/ NoGleAnswer \/ Answer
  BY <1>1, <1>4 DEF BuildFails, ZeroId, NoAnswer, NoGleAnswer, Answer, Fail, Finish
<1>5. ASSUME NEW out, SendOpcode(out) \/ SendCommand(out) PROVE Kept'
  BY <1>1, <1>5 DEF SendOpcode, SendCommand
<1>6. ASSUME NEW a, NEW c, Serve(a, c) PROVE Kept'
  BY <1>1, <1>6 DEF Serve
<1>7. CASE UNCHANGED vars
  BY <1>1, <1>7 DEF vars
<1> QED BY <1>2, <1>3, <1>4, <1>5, <1>6, <1>7 DEF Next

LEMMA KeptAtFirst == Init => Kept
<1> SUFFICES ASSUME Init PROVE Kept
  OBVIOUS
<1>1. default \in [w : Wait, j : Switch, fsync : Switch] /\ w \in Wait \ {Unset}
  <2>1. default \in [w : Wait, j : Switch, fsync : Switch]
    BY ParameterAssumption DEF Init
  <2> QED BY <2>1, WaitValues DEF Init, Inherited
<1>2. call.asked \in Concern /\ call.options \in Requested /\ call.protocol = "opcode"
  BY OptionsRequested, WaitValues DEF Init, NoCall, NoConcern, Concern, Switch
<1> QED BY <1>1, <1>2 DEF Kept, Typed, OptionsReachTheServer, Init

\* "j", "fsync", a "w" that is a string and one that is a number of one or more
\* reach the server on either path, whatever the defaults of the client and the
\* concern of the collection; except that a "safe" that is a string may replace
\* the number, and that getLastError sends a default that is a string instead.
THEOREM OptionsAreSent == Spec => []OptionsReachTheServer
<1>1. Kept => OptionsReachTheServer
  BY DEF Kept
<1> QED BY <1>1, KeptAtFirst, KeptStays, PTL DEF Spec

-----------------------------------------------------------------------------
(* What an answer says.                                                     *)

\* A reply without an error is about a confirmed write, or one for which no
\* confirmation was asked.
Told(verdict, f, c) == verdict = "ok" => f.confirmed \/ IsBelow(c.asked.w, 1)

\* A message without an answer is of an earlier call, or of the call c, the
\* n-th, once it is sent; one that is answered is of this call.
OfCalls(m, c, n, at) ==
  IF m.protocol = "opcode"
  THEN m.call \in Nat /\ m.call <= n
       /\ (at = "send" \/ c.protocol # "opcode" => m.call < n)
  ELSE m.call = n /\ m.w = c.asked.w

Truth ==
  /\ ~con.registered => con.wire = <<>> /\ con.replies = <<>>
  /\ pc = "receive" => call.protocol \in {"command", "gle"}
  /\ call.protocol = "gle" => ~IsBelow(call.asked.w, 1)
  /\ \A i \in DOMAIN con.wire : OfCalls(con.wire[i], call, calls, pc)
  /\ pc = "receive" /\ con.replies # <<>> => Told(Head(con.replies).verdict, fate, call)
  /\ pc = "idle" /\ result = "array" =>
       /\ fate.confirmed /\ ~IsBelow(call.asked.w, 1)
       /\ call.protocol \in {"command", "gle"}

Whole == Invariant /\ Kept /\ Truth

LEMMA NoWire == DOMAIN <<>> = {} /\ \A s : Sequence(s) /\ DOMAIN s = {} => s = <<>>
<1>1. \A s : Sequence(s) /\ DOMAIN s = {} => s = <<>>
  BY LenProperties, EmptySeq DEF Sequence
<1> QED BY <1>1, EmptySeq

LEMMA TruthBegins ==
  ASSUME Whole, NEW op, NEW o \in Options, Begin(op, o)
  PROVE  Truth'
<1>1. pc = "idle" /\ calls \in Nat /\ calls' = calls + 1 /\ o \in Requested
  BY OptionsRequested DEF Begin, Whole, Kept, Typed
<1>2. /\ call'.asked = Asked(op, o) /\ call'.protocol = Protocol(op, o)
      /\ con' = IF con.registered THEN con ELSE NewConnection
      /\ pc' = "send" \/ (pc' = "idle" /\ result' = "exception")
  BY DEF Begin, Finish
<1>3. con'.registered
  BY <1>2 DEF NewConnection
<1>4. \A i \in DOMAIN con'.wire : con'.wire[i].protocol = "opcode" /\ con'.wire[i].call \in Nat
                                 /\ con'.wire[i].call < calls'
  <2>1. CASE con.registered
    <3>1. Unanswered /\ con' = con
      BY <1>1, <1>2, <2>1 DEF Whole, Invariant
    <3> QED BY <1>1, <3>1 DEF Whole, Truth, OfCalls, Unanswered
  <2>2. CASE ~con.registered
    BY <1>2, <2>2, NoWire DEF NewConnection
  <2> QED BY <2>1, <2>2
<1>5. call'.protocol = "gle" => ~IsBelow(call'.asked.w, 1)
  BY <1>1, <1>2, AskedHonours DEF Whole, Kept
<1>6. \A i \in DOMAIN con'.wire : OfCalls(con'.wire[i], call', calls', pc')
  BY <1>1, <1>4 DEF OfCalls
<1> QED BY <1>2, <1>3, <1>5, <1>6 DEF Truth

\* The calls that end without an answer.
LEMMA TruthWithoutAnswer ==
  ASSUME Whole, UNCHANGED <<call, calls, fate>>, pc = "send" \/ pc = "receive",
         con' = con \/ con' = Deregister,
         pc' = "idle", result' # "array",
         pc = "receive" => call.protocol # "opcode"
  PROVE  Truth'
<1>1. CASE con' = Deregister
  <2>1. con'.wire = <<>> /\ con'.replies = <<>>
    BY <1>1 DEF Deregister, Whole, Invariant, Shape
  <2> QED BY <2>1, NoWire DEF Whole, Truth
<1>2. CASE con' = con
  <2>1. \A i \in DOMAIN con.wire : OfCalls(con.wire[i], call', calls', pc')
    BY <1>2 DEF Whole, Truth, OfCalls
  <2> QED BY <1>2, <2>1 DEF Whole, Truth
<1> QED BY <1>1, <1>2

\* The calls that send: what they leave on the wire is theirs.
LEMMA TruthSends ==
  ASSUME Whole, UNCHANGED <<call, calls, fate>>, pc = "send", NEW out, con' = Sent(out),
         \/ pc' = "receive" /\ call.protocol \in {"command", "gle"}
         \/ pc' = "idle" /\ result' # "array" /\ (call.protocol = "opcode" \/ out # "all")
  PROVE  Truth'
<1>1. /\ con'.registered /\ con'.replies = <<>>
      /\ Shape /\ calls \in Nat
  BY SentKeeps DEF Whole, Invariant, Kept, Typed
<1>2. \A i \in DOMAIN con.wire : OfCalls(con.wire[i], call', calls', pc')
  BY DEF Whole, Truth, OfCalls
<1>3. \A i \in DOMAIN con'.wire : OfCalls(con'.wire[i], call', calls', pc')
  <2>1. CASE con'.wire = con.wire
    BY <1>2, <2>1
  <2>2. CASE out = "all" /\ con' = [con EXCEPT !.wire = Append(@, Message)]
    <3> DEFINE m == Message
    <3>1. con'.wire = Append(con.wire, m) /\ m.protocol = call.protocol /\ m.call = calls
          /\ m.w = call.asked.w
      BY <1>1, <2>2 DEF Shape, Message
    <3>2. OfCalls(m, call', calls', pc')
      BY <1>1, <2>2, <3>1 DEF OfCalls
    <3> HIDE DEF m
    <3> QED BY <1>1, <1>2, <3>1, <3>2, Appended DEF Shape
  <2>3. CASE con' = [con EXCEPT !.torn = TRUE]
    BY <1>1, <2>1, <2>3 DEF Shape
  <2> QED BY <2>1, <2>2, <2>3 DEF Sent
<1> QED BY <1>1, <1>3 DEF Whole, Truth

\* An answer that is handed out without an error is that of a confirmed write.
LEMMA TruthOfAnswers == ASSUME Whole, Answer PROVE Truth'
<1>1. /\ pc = "receive" /\ con.replies # <<>> /\ pc' = "idle" /\ con.registered
      /\ UNCHANGED <<call, calls, fate>>
      /\ con'.wire = con.wire /\ con'.registered
  BY DEF Answer, Finish, Whole, Invariant, Shape
<1> DEFINE v == Head(con.replies).verdict
<1>2. result' = IF call.protocol = "gle" THEN GleResult(v) ELSE CommandResult(v)
  BY DEF Answer, Finish
<1>3. call.protocol \in {"command", "gle"}
  BY <1>1 DEF Whole, Truth
<1>4. v = "ok" => fate.confirmed \/ IsBelow(call.asked.w, 1)
  <2>1. Told(v, fate, call)
    BY <1>1 DEF Whole, Truth
  <2> QED BY <2>1, Zenon DEF Told
<1> HIDE DEF v
<1>5. ASSUME result' = "array" PROVE fate.confirmed /\ ~IsBelow(call.asked.w, 1)
  <2>1. CASE call.protocol = "gle"
    <3>1. ~IsBelow(call.asked.w, 1)
      BY <2>1 DEF Whole, Truth
    <3>2. v = "ok"
      BY <1>2, <1>5, <2>1 DEF GleResult
    <3> QED BY <1>4, <3>1, <3>2, Zenon
  <2>2. CASE call.protocol # "gle"
    <3>1. v = "ok" /\ ~IsBelow(call.asked.w, 1)
      BY <1>2, <1>5, <2>2 DEF CommandResult, Raises, Legacy
    <3> QED BY <1>4, <3>1, Zenon
  <2> QED BY <2>1, <2>2
<1>6. \A i \in DOMAIN con'.wire : OfCalls(con'.wire[i], call', calls', pc')
  BY <1>1, <1>3 DEF Whole, Truth, OfCalls
<1> QED BY <1>1, <1>3, <1>5, <1>6 DEF Whole, Truth

\* The server changes the fate of this call's write only with its message.
LEMMA TruthServed ==
  ASSUME Whole, NEW applied, NEW confirmed, Serve(applied, confirmed)
  PROVE  Truth'
<1> DEFINE m == Head(con.wire)
<1>1. PICK v : /\ con' = [con EXCEPT !.wire = Tail(@),
                           !.replies = IF m.protocol = "opcode" THEN @
                                       ELSE Append(@, [to |-> m.id, verdict |-> v])]
               /\ v = "ok" => confirmed \/ IsBelow(m.w, 1)
  BY DEF Serve
<1>2. /\ con.wire # <<>> /\ UNCHANGED <<call, calls, pc, result>>
      /\ fate' = IF m.call = calls THEN [applied |-> applied, confirmed |-> confirmed] ELSE fate
  BY DEF Serve
<1> DEFINE r == [to |-> m.id, verdict |-> v]
<1>3. /\ con'.registered = con.registered /\ con'.wire = Tail(con.wire)
      /\ con'.replies = IF m.protocol = "opcode" THEN con.replies ELSE Append(con.replies, r)
  BY <1>1 DEF Whole, Invariant, Shape
<1>4. r.verdict = v
  OBVIOUS
<1> HIDE DEF r
<1>5. /\ m = con.wire[1] /\ 1 \in DOMAIN con.wire
      /\ \A i \in DOMAIN con'.wire : i + 1 \in DOMAIN con.wire /\ con'.wire[i] = con.wire[i + 1]
  BY <1>2, <1>3, Taken DEF Whole, Invariant, Shape
<1> HIDE DEF m
<1>6. con.registered /\ con'.registered /\ OfCalls(m, call, calls, pc)
  BY <1>2, <1>3, <1>5 DEF Whole, Truth
<1>7. \A i \in DOMAIN con'.wire : OfCalls(con'.wire[i], call', calls', pc')
  BY <1>2, <1>5 DEF Whole, Truth, OfCalls
<1>8. pc' = "receive" /\ con'.replies # <<>> => Told(Head(con'.replies).verdict, fate', call')
  <2> SUFFICES ASSUME pc = "receive", con'.replies # <<>>
               PROVE  Told(Head(con'.replies).verdict, fate', call')
    BY <1>2
  <2>1. call.protocol \in {"command", "gle"}
    BY DEF Whole, Truth
  <2>2. CASE m.protocol = "opcode"
    <3>1. con'.replies = con.replies /\ m.call # calls
      BY <1>3, <1>6, <2>1, <2>2 DEF OfCalls, Whole, Kept, Typed
    <3> QED BY <1>2, <3>1 DEF Whole, Truth, Told
  <2>3. CASE m.protocol # "opcode"
    <3>1. con.replies = <<>>
      BY <1>5, <2>3 DEF Whole, Invariant, OnlyItsOwn, Unanswered
    <3>2. Sequence(con'.replies) /\ con'.replies[1] = r
      <4>1. con'.replies = Append(<<>>, r) /\ Len(<<>>) = 0
        BY <1>3, <2>3, <3>1, EmptySeq
      <4>2. /\ Sequence(Append(<<>>, r))
            /\ Append(<<>>, r)[Len(<<>>) + 1] = r
        BY EmptyIsSequence, Appended
      <4>3. Append(<<>>, r)[1] = r
        BY <4>1, <4>2
      <4> QED BY <4>1, <4>2, <4>3
    <3>3. Head(con'.replies) = r
      BY <3>2, Taken
    <3>4. m.call = calls /\ m.w = call.asked.w
      BY <1>6, <2>3 DEF OfCalls
    <3>5. fate'.confirmed = confirmed
      BY <1>2, <3>4
    <3> QED BY <1>1, <1>2, <1>4, <3>3, <3>4, <3>5 DEF Told
  <2> QED BY <2>2, <2>3
<1>9. pc' = "idle" /\ result' = "array" =>
        fate'.confirmed /\ ~IsBelow(call'.asked.w, 1) /\ call'.protocol \in {"command", "gle"}
  <2> SUFFICES ASSUME pc = "idle", result = "array" PROVE fate' = fate
    BY <1>2 DEF Whole, Truth
  <2>1. m.protocol = "opcode" /\ call.protocol # "opcode"
    BY <1>5, <1>6 DEF Whole, Truth, Invariant, Unanswered
  <2>2. m.call # calls
    BY <1>6, <2>1 DEF OfCalls, Whole, Kept, Typed
  <2> QED BY <1>2, <2>2
<1> QED BY <1>2, <1>6, <1>7, <1>8, <1>9 DEF Whole, Truth

LEMMA TruthStays == ASSUME Whole, [Next]_vars PROVE Truth'
<1>1. CASE UNCHANGED vars
  BY <1>1 DEF vars, Whole, Truth, OfCalls, Told
<1>2. ASSUME NEW v \in Settable, SetWriteConcern(v) PROVE Truth'
  BY <1>2 DEF SetWriteConcern, Whole, Truth, OfCalls, Told
<1>3. ASSUME NEW o \in Options,
             Insert(o) \/ Update(o) \/ RemoveDocuments(o) \/ BatchInsert(o) \/ Save(o)
      PROVE  Truth'
  BY <1>3, TruthBegins DEF Insert, Update, RemoveDocuments, BatchInsert, Save
<1>4. CASE BuildFails \/ ZeroId
  BY <1>4, TruthWithoutAnswer DEF BuildFails, ZeroId, Finish, Cleared
<1>5. CASE NoAnswer \/ NoGleAnswer
  BY <1>5, TruthWithoutAnswer DEF NoAnswer, NoGleAnswer, Fail, Finish, Cleared
<1>6. ASSUME NEW out, SendOpcode(out) PROVE Truth'
  <2>1. CASE out # "error"
    BY <1>6, <2>1, TruthSends DEF SendOpcode, Finish
  <2>2. CASE out = "error"
    BY <1>6, <2>2, TruthWithoutAnswer DEF SendOpcode, Finish
  <2> QED BY <2>1, <2>2
<1>7. ASSUME NEW out, SendCommand(out) PROVE Truth'
  <2>1. /\ pc = "send" /\ con' = Sent(out) /\ call.protocol = "command"
        /\ UNCHANGED <<call, calls, fate>>
    BY <1>7 DEF SendCommand
  <2>2. pc' = "receive" \/ (pc' = "idle" /\ result' # "array" /\ out # "all")
    BY <1>7 DEF SendCommand, Finish, Cleared
  <2> QED BY <2>1, <2>2, TruthSends
<1>8. CASE Answer
  BY <1>8, TruthOfAnswers
<1>9. ASSUME NEW a, NEW c, Serve(a, c) PROVE Truth'
  BY <1>9, TruthServed
<1> QED BY <1>1, <1>2, <1>3, <1>4, <1>5, <1>6, <1>7, <1>8, <1>9 DEF Next

\* A call returns an answer without an error only if the server applied its
\* write and confirmed it to the concern the call had asked for.
THEOREM SuccessIsConfirmed == Spec => []SuccessIsTheServers
<1>1. Init => Whole
  <2> SUFFICES ASSUME Init PROVE Truth
    BY InvariantAtFirst, KeptAtFirst DEF Whole
  <2> QED BY NoWire DEF Init, NewConnection, NoCall, Truth
<1>2. Whole /\ [Next]_vars => Whole'
  BY StepKeeps, KeptStays, TruthStays DEF Whole
<1>3. Whole => SuccessIsTheServers
  BY DEF Whole, Truth, SuccessIsTheServers
<1> QED BY <1>1, <1>2, <1>3, PTL DEF Spec

-----------------------------------------------------------------------------
(* The types, and what the connection can hold.                             *)

Outcomes == {"none", "array", "error", "true", "false", "null", "exception"}

Fields ==
  /\ api \in Apis /\ default \in Defaults /\ w \in Wait \ {Unset}
  /\ request_id \in 0..(IdModulus - 1)
  /\ con.registered \in BOOLEAN /\ con.torn \in BOOLEAN
  /\ call.op \in Ops /\ call.options \in Options \cup {NoOptions}
  /\ call.acknowledged \in BOOLEAN /\ call.asked \in Concern
  /\ call.protocol \in {"command", "gle", "opcode", "none"}
  /\ call.id \in 0..(IdModulus - 1)
  /\ pc \in {"idle", "send", "receive"} /\ result \in Outcomes
  /\ fate \in [applied : BOOLEAN, confirmed : BOOLEAN]

OnWire == Len(con.wire)
Waiting == Len(con.replies)

\* A call that is about to send has not put its message on the wire.
Room ==
  /\ OnWire \in Nat /\ Waiting \in Nat /\ calls \in Nat /\ calls <= MaxCalls
  /\ OnWire + Waiting <= calls
  /\ pc = "send" => OnWire + Waiting <= calls - 1

Correct == Invariant /\ Kept /\ Fields /\ Room

LEMMA CorrectTypes == Correct => TypeOK
<1>1. Correct => OnWire + Waiting <= calls /\ calls \in 0..MaxCalls
  <2>1. MaxCalls \in Nat
    BY ParameterAssumption
  <2> QED BY <2>1 DEF Correct, Room
<1> QED BY <1>1, Zenon DEF Correct, Fields, OnWire, Waiting, TypeOK, Outcomes

LEMMA NextIdType == \A id \in 0..(IdModulus - 1) : NextId(id) \in 0..(IdModulus - 1)
<1>1. IdModulus \in Nat /\ IdModulus > 0
  BY ParameterAssumption
<1>2. ASSUME NEW n \in Int PROVE n % IdModulus \in 0..(IdModulus - 1)
  BY <1>1
<1> QED BY <1>1, <1>2 DEF NextId

LEMMA EmptyLength == Len(<<>>) = 0
BY EmptySeq

LEMMA TypesBegin ==
  ASSUME Correct, NEW op \in Ops, NEW o \in Options, Begin(op, o), Kept'
  PROVE  Fields' /\ Room'
<1> DEFINE p == Protocol(op, o)
           id == IF p = "gle" THEN NextId(request_id) ELSE request_id
<1>1. /\ calls < MaxCalls /\ calls' = calls + 1 /\ UNCHANGED <<api, default, w>>
      /\ con' = IF con.registered THEN con ELSE NewConnection
      /\ fate' = [applied |-> FALSE, confirmed |-> FALSE]
      /\ call' = [op |-> op, options |-> o, acknowledged |-> IsGleOp(o),
                  protocol |-> p, asked |-> Asked(op, o), id |-> id]
      /\ request_id' = IF p = "none" THEN request_id ELSE NextId(id)
  BY DEF Begin
<1>2. \/ pc' = "send" /\ result' = "none"
      \/ pc' = "idle" /\ result' = "exception"
  BY Zenon DEF Begin, Finish
<1>3. id \in 0..(IdModulus - 1) /\ request_id' \in 0..(IdModulus - 1)
  BY <1>1, NextIdType DEF Correct, Fields
<1>4. p \in {"command", "gle", "opcode", "none"} /\ IsGleOp(o) \in BOOLEAN
  <2>1. IsGleOp(o) \in BOOLEAN
    BY DEF IsGleOp, Flag
  <2> QED BY <2>1 DEF Protocol
<1> HIDE DEF p, id
<1>5. call'.asked \in Concern
  BY DEF Kept, Typed
<1>6. /\ con'.registered \in BOOLEAN /\ con'.torn \in BOOLEAN
      /\ OnWire' \in Nat /\ Waiting' \in Nat /\ OnWire' + Waiting' <= calls
  <2>1. CASE con.registered
    <3>1. OnWire' = OnWire /\ Waiting' = Waiting /\ con' = con
      BY <1>1, <2>1, Zenon DEF OnWire, Waiting
    <3> QED BY <3>1 DEF Correct, Fields, Room
  <2>2. CASE ~con.registered
    <3>1. con' = NewConnection
      BY <1>1, <2>2
    <3>2. OnWire' = 0 /\ Waiting' = 0
      BY <3>1, EmptyLength DEF NewConnection, OnWire, Waiting
    <3> QED BY <3>1, <3>2 DEF NewConnection, Correct, Room
  <2> QED BY <2>1, <2>2
<1>7. Room'
  <2>1. MaxCalls \in Nat /\ calls \in Nat
    BY ParameterAssumption DEF Correct, Room
  <2>2. calls' = calls + 1 /\ calls' <= MaxCalls /\ calls = calls' - 1 /\ calls' \in Nat
    BY <1>1, <2>1
  <2>3. OnWire' + Waiting' <= calls'
    <3>1. \A a, b, n \in Nat : a + b <= n => a + b <= n + 1
      OBVIOUS
    <3> QED BY <1>6, <2>1, <2>2, <3>1, Zenon
  <2> QED BY <1>6, <2>2, <2>3 DEF Room
<1>8. Fields'
  BY <1>1, <1>2, <1>3, <1>4, <1>5, <1>6 DEF Correct, Fields, Outcomes
<1> QED BY <1>7, <1>8

\* The steps of a call, which change its connection, its state and its result.
LEMMA TypesOfSteps ==
  ASSUME Correct, UNCHANGED <<api, default, w, request_id, call, calls>>,
         fate' \in [applied : BOOLEAN, confirmed : BOOLEAN],
         pc' \in {"idle", "send", "receive"}, result' \in Outcomes,
         con'.registered \in BOOLEAN, con'.torn \in BOOLEAN,
         OnWire' \in Nat, Waiting' \in Nat, OnWire' + Waiting' <= calls,
         pc' = "send" => OnWire' + Waiting' <= calls - 1
  PROVE  Fields' /\ Room'
BY DEF Correct, Fields, Room

\* A step that leaves its connection as it is, or gives it up.
LEMMA TypesOfEnds ==
  ASSUME Correct, UNCHANGED <<api, default, w, request_id, call, calls, fate>>,
         con' = con \/ con' = Deregister, pc' = "idle", result' \in Outcomes
  PROVE  Fields' /\ Room'
<1>1. /\ con'.registered \in BOOLEAN /\ con'.torn \in BOOLEAN
      /\ OnWire' \in Nat /\ Waiting' \in Nat /\ OnWire' + Waiting' <= calls
  <2>1. CASE con' = con
    <3>1. OnWire' = OnWire /\ Waiting' = Waiting
      BY <2>1, Zenon DEF OnWire, Waiting
    <3> QED BY <2>1, <3>1 DEF Correct, Fields, Room
  <2>2. CASE con' = Deregister
    <3>1. con'.wire = <<>> /\ con'.replies = <<>> /\ con'.registered = FALSE
          /\ con'.torn = con.torn
      BY <2>2 DEF Deregister, Correct, Invariant, Shape
    <3>2. OnWire' = 0 /\ Waiting' = 0
      BY <3>1, EmptyLength, Zenon DEF OnWire, Waiting
    <3>3. calls \in Nat /\ con.torn \in BOOLEAN
      BY DEF Correct, Fields, Room
    <3>4. con'.registered \in BOOLEAN /\ con'.torn \in BOOLEAN
      BY <3>1, <3>3
    <3> QED BY <3>2, <3>3, <3>4
  <2> QED BY <2>1, <2>2
<1>2. fate' \in [applied : BOOLEAN, confirmed : BOOLEAN]
  BY DEF Correct, Fields
<1> QED BY <1>1, <1>2, TypesOfSteps

\* What is sent fits where nothing of this call was sent before.
LEMMA TypesOfSends ==
  ASSUME Correct, UNCHANGED <<api, default, w, request_id, call, calls, fate>>,
         pc = "send", NEW out, con' = Sent(out), pc' \in {"idle", "receive"},
         result' \in Outcomes
  PROVE  Fields' /\ Room'
<1>1. Shape /\ con.torn \in BOOLEAN /\ con.registered \in BOOLEAN
  BY DEF Correct, Invariant, Fields
<1>2. /\ con'.registered = con.registered /\ con'.torn \in BOOLEAN
      /\ con'.replies = con.replies
      /\ con'.wire = con.wire \/ con'.wire = Append(con.wire, Message)
  BY <1>1 DEF Sent, Shape
<1>3. Waiting' = Waiting
  BY <1>2, Zenon DEF Waiting
<1>4. OnWire' = OnWire \/ OnWire' = OnWire + 1
  <2>1. Sequence(con.wire)
    BY <1>1 DEF Shape
  <2>2. Len(Append(con.wire, Message)) = Len(con.wire) + 1
    BY <2>1, Appended, Zenon
  <2> QED BY <1>2, <2>2, Zenon DEF OnWire
<1>5. OnWire' \in Nat /\ Waiting' \in Nat /\ OnWire' + Waiting' <= calls
  BY <1>3, <1>4 DEF Correct, Room
<1>6. fate' \in [applied : BOOLEAN, confirmed : BOOLEAN]
  BY DEF Correct, Fields
<1> QED BY <1>1, <1>2, <1>5, <1>6, TypesOfSteps

LEMMA TypesOfAnswers == ASSUME Correct, Answer PROVE Fields' /\ Room'
<1>1. /\ Shape /\ con.replies # <<>> /\ pc' = "idle"
      /\ con' = [con EXCEPT !.replies = Tail(@)]
      /\ UNCHANGED <<api, default, w, request_id, call, calls, fate>>
  BY DEF Answer, Finish, Correct, Invariant
<1>2. result' \in Outcomes
  <2> DEFINE v == Head(con.replies).verdict
  <2>1. result' = IF call.protocol = "gle" THEN GleResult(v) ELSE CommandResult(v)
    BY DEF Answer, Finish
  <2> QED BY <2>1 DEF GleResult, CommandResult, Legacy, Outcomes
<1>3. /\ con'.registered = con.registered /\ con'.torn = con.torn /\ con'.wire = con.wire
      /\ con'.replies = Tail(con.replies)
  BY <1>1 DEF Shape
<1>4. OnWire' = OnWire
  BY <1>3, Zenon DEF OnWire
<1>5. Waiting' = Waiting - 1 /\ Waiting # 0
  <2>1. Sequence(con.replies)
    BY <1>1 DEF Shape
  <2>2. Len(Tail(con.replies)) = Len(con.replies) - 1 /\ Len(con.replies) \in Nat \ {0}
    BY <1>1, <2>1, Taken, Zenon
  <2>3. Waiting' = Waiting - 1 /\ Waiting \in Nat \ {0}
    BY <1>3, <2>2, Zenon DEF Waiting
  <2> QED BY <2>3
<1>6. OnWire' \in Nat /\ Waiting' \in Nat /\ OnWire' + Waiting' <= calls
  BY <1>4, <1>5 DEF Correct, Room
<1>7. /\ con'.registered \in BOOLEAN /\ con'.torn \in BOOLEAN
      /\ fate' \in [applied : BOOLEAN, confirmed : BOOLEAN]
  BY <1>1, <1>3 DEF Correct, Fields
<1> QED BY <1>1, <1>2, <1>6, <1>7, TypesOfSteps

\* A message makes room for its answer.
LEMMA TypesServed ==
  ASSUME Correct, NEW applied \in BOOLEAN, NEW confirmed \in BOOLEAN,
         Serve(applied, confirmed)
  PROVE  Fields' /\ Room'
<1> DEFINE m == Head(con.wire)
<1>1. PICK v : con' = [con EXCEPT !.wire = Tail(@),
                         !.replies = IF m.protocol = "opcode" THEN @
                                     ELSE Append(@, [to |-> m.id, verdict |-> v])]
  BY DEF Serve
<1>2. /\ Shape /\ con.wire # <<>>
      /\ UNCHANGED <<api, default, w, request_id, call, pc, result, calls>>
      /\ fate' = IF m.call = calls THEN [applied |-> applied, confirmed |-> confirmed] ELSE fate
  BY DEF Serve, Correct, Invariant
<1> DEFINE r == [to |-> m.id, verdict |-> v]
<1>3. /\ con'.registered = con.registered /\ con'.torn = con.torn /\ con'.wire = Tail(con.wire)
      /\ con'.replies = con.replies \/ con'.replies = Append(con.replies, r)
  BY <1>1, <1>2 DEF Shape
<1>4. fate' \in [applied : BOOLEAN, confirmed : BOOLEAN]
  BY <1>2 DEF Correct, Fields
<1> HIDE DEF m, r
<1>5. Sequence(con.wire) /\ Sequence(con.replies)
  BY <1>2 DEF Shape
<1>6. OnWire' = OnWire - 1 /\ OnWire \in Nat \ {0}
  <2>1. Len(Tail(con.wire)) = Len(con.wire) - 1 /\ Len(con.wire) \in Nat \ {0}
    BY <1>2, <1>5, Taken, Zenon
  <2> QED BY <1>3, <2>1, Zenon DEF OnWire
<1>7. Waiting' = Waiting \/ Waiting' = Waiting + 1
  <2>1. Len(Append(con.replies, r)) = Len(con.replies) + 1
    BY <1>5, Appended, Zenon
  <2> QED BY <1>3, <2>1, Zenon DEF Waiting
<1>8. /\ OnWire' \in Nat /\ Waiting' \in Nat /\ OnWire' + Waiting' <= calls
      /\ pc' = "send" => OnWire' + Waiting' <= calls - 1
  BY <1>2, <1>6, <1>7 DEF Correct, Room
<1>9. /\ con'.registered \in BOOLEAN /\ con'.torn \in BOOLEAN
      /\ pc' \in {"idle", "send", "receive"} /\ result' \in Outcomes
  BY <1>2, <1>3 DEF Correct, Fields
<1> QED BY <1>2, <1>4, <1>8, <1>9, TypesOfSteps

LEMMA TypesStay == ASSUME Correct, [Next]_vars, Kept' PROVE Fields' /\ Room'
<1>1. CASE UNCHANGED vars
  <2>1. Fields'
    BY <1>1 DEF vars, Correct, Fields
  <2>2. OnWire' = OnWire /\ Waiting' = Waiting
    BY <1>1 DEF vars, OnWire, Waiting
  <2> QED BY <1>1, <2>1, <2>2 DEF vars, Correct, Room
<1>2. ASSUME NEW v \in Settable, SetWriteConcern(v) PROVE Fields' /\ Room'
  <2>1. Fields'
    BY <1>2, ParameterAssumption DEF SetWriteConcern, Correct, Fields
  <2>2. OnWire' = OnWire /\ Waiting' = Waiting
    BY <1>2, Zenon DEF SetWriteConcern, OnWire, Waiting
  <2> QED BY <1>2, <2>2, <2>1 DEF SetWriteConcern, Correct, Room
<1>3. ASSUME NEW o \in Options,
             Insert(o) \/ Update(o) \/ RemoveDocuments(o) \/ BatchInsert(o) \/ Save(o)
      PROVE  Fields' /\ Room'
  BY <1>3, TypesBegin DEF Insert, Update, RemoveDocuments, BatchInsert, Save, Ops
<1>4. CASE BuildFails \/ ZeroId
  <2>1. con' = con /\ pc' = "idle" /\ result' \in Outcomes
        /\ UNCHANGED <<api, default, w, request_id, call, calls, fate>>
    BY <1>4 DEF BuildFails, ZeroId, Finish, Cleared, Outcomes
  <2> QED BY <2>1, TypesOfEnds
<1>5. CASE NoAnswer \/ NoGleAnswer
  <2>1. con' = Deregister /\ pc' = "idle" /\ result' \in Outcomes
        /\ UNCHANGED <<api, default, w, request_id, call, calls, fate>>
    BY <1>5 DEF NoAnswer, NoGleAnswer, Fail, Finish, Cleared, Outcomes
  <2> QED BY <2>1, TypesOfEnds
<1>6. ASSUME NEW out, SendOpcode(out) PROVE Fields' /\ Room'
  <2>1. CASE out # "error"
    <3>1. /\ pc = "send" /\ con' = Sent(out) /\ pc' \in {"idle", "receive"} /\ result' \in Outcomes
          /\ UNCHANGED <<api, default, w, request_id, call, calls, fate>>
      BY <1>6, <2>1 DEF SendOpcode, Finish, Outcomes, Correct, Fields
    <3> QED BY <3>1, TypesOfSends
  <2>2. CASE out = "error"
    <3>1. /\ (con' = con \/ con' = Deregister) /\ pc' = "idle" /\ result' \in Outcomes
          /\ UNCHANGED <<api, default, w, request_id, call, calls, fate>>
      BY <1>6, <2>2 DEF SendOpcode, Finish, Outcomes
    <3> QED BY <3>1, TypesOfEnds
  <2> QED BY <2>1, <2>2
<1>7. ASSUME NEW out, SendCommand(out) PROVE Fields' /\ Room'
  <2>1. /\ pc = "send" /\ con' = Sent(out) /\ pc' \in {"idle", "receive"} /\ result' \in Outcomes
        /\ UNCHANGED <<api, default, w, request_id, call, calls, fate>>
    BY <1>7 DEF SendCommand, Finish, Cleared, Outcomes, Correct, Fields
  <2> QED BY <2>1, TypesOfSends
<1>8. CASE Answer
  BY <1>8, TypesOfAnswers
<1>9. ASSUME NEW a \in BOOLEAN, NEW c \in BOOLEAN, Serve(a, c) PROVE Fields' /\ Room'
  BY <1>9, TypesServed
<1> QED BY <1>1, <1>2, <1>3, <1>4, <1>5, <1>6, <1>7, <1>8, <1>9 DEF Next

\* Types; and a connection never holds more messages and answers than there
\* were calls.
THEOREM TypeCorrect == Spec => []TypeOK
<1>1. Init => Correct
  <2> SUFFICES ASSUME Init PROVE Fields /\ Room
    BY InvariantAtFirst, KeptAtFirst DEF Correct
  <2>1. w \in Wait \ {Unset} /\ call.asked \in Concern
    BY KeptAtFirst DEF Kept, Typed
  <2>2. OnWire = 0 /\ Waiting = 0
    BY EmptyLength DEF Init, NewConnection, OnWire, Waiting
  <2>3. Fields
    BY <2>1, ParameterAssumption DEF Init, NewConnection, NoCall, Ops, Fields, Outcomes
  <2> QED BY <2>2, <2>3, ParameterAssumption DEF Init, Room
<1>2. Correct /\ [Next]_vars => Correct'
  BY StepKeeps, KeptStays, TypesStay DEF Correct
<1>3. Correct => TypeOK
  BY CorrectTypes
<1> QED BY <1>1, <1>2, <1>3, PTL DEF Spec

=============================================================================
