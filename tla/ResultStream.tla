---------------------------- MODULE ResultStream ----------------------------
(***************************************************************************)
(* What a MongoCursor promises its user: the documents of the result, in   *)
(* the order of the server, each one once, and no end before everything    *)
(* that was promised has been handed over.  An iteration may break off     *)
(* with an exception instead, and may be started again at any time.        *)
(*                                                                         *)
(* Documents are named by their place in the result, 1..size.              *)
(***************************************************************************)
EXTENDS Naturals, Sequences

VARIABLES
  size,       \* how many documents the result has
  gapless,    \* does the cursor promise every document?  (Tailable ones do not.)
  promised,   \* how many documents there must be before the end
  delivered,  \* the documents the user got since the query was run
  phase       \* new, open, ended or broken

vars == <<size, gapless, promised, delivered, phase>>

Latest == IF delivered = <<>> THEN 0 ELSE delivered[Len(delivered)]

Init ==
  /\ size \in Nat /\ gapless \in BOOLEAN /\ promised \in Nat
  /\ delivered = <<>> /\ phase = "new"

\* The query is run (again): the first document may come with it, the end too.
Start ==
  /\ phase' \in {"new", "open", "ended", "broken"}
  /\ delivered' = <<>> \/ (size >= 1 /\ phase' = "open" /\ delivered' = <<1>>)
  /\ phase' = "ended" /\ gapless => promised' = 0
  /\ UNCHANGED <<size, gapless>>

Deliver ==
  /\ phase \in {"open", "ended"}
  /\ \E d \in Latest + 1 .. size :
       /\ gapless => d = Latest + 1
       /\ delivered' = Append(delivered, d)
  /\ phase' = "open"
  /\ UNCHANGED <<size, gapless>>

End ==
  /\ phase \in {"open", "ended"}
  /\ gapless => Len(delivered) >= promised'
  /\ phase' = "ended"
  /\ UNCHANGED <<size, gapless, delivered>>

Break ==
  /\ phase' = "broken"
  /\ UNCHANGED <<size, gapless, delivered>>

\* A call that neither moves on nor ends.
Stay ==
  /\ phase # "ended"
  /\ UNCHANGED <<size, gapless, delivered, phase>>

\* Documents are inserted that a tailable cursor will see.
Grow ==
  /\ ~gapless /\ size' > size
  /\ UNCHANGED <<gapless, delivered, phase>>

Next == Start \/ Deliver \/ End \/ Break \/ Stay \/ Grow

Spec == Init /\ [][Next]_vars

=============================================================================
