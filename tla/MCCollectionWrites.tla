------------------------- MODULE MCCollectionWrites -------------------------
EXTENDS CollectionWrites

CONSTANTS majority, tag

TwoStrings == {majority, tag}

Named(v, safe, first) ==
  [w |-> v, safe |-> safe, safe_first |-> first, j |-> Unset, fsync |-> Unset]

SmallOptions ==
  {Named(v, Unset, FALSE) : v \in {Unset, 0, 1, 2, majority}}
  \cup {Named(Unset, v, TRUE) : v \in {0, 1, majority}}
  \cup {Named(2, 1, FALSE), Named(1, 0, TRUE), Named(2, majority, FALSE)}
  \cup {[Named(v, Unset, FALSE) EXCEPT !.j = f[1], !.fsync = f[2]] :
          v \in {Unset, 0}, f \in {<<1, Unset>>, <<0, 1>>}}

SmallDefaults ==
  {[w |-> v, j |-> Unset, fsync |-> Unset] : v \in {Unset, 0, 2, tag}}
  \cup {[w |-> Unset, j |-> 1, fsync |-> 1]}

SmallApis == {[cmds |-> FALSE, opcodes |-> TRUE], [cmds |-> TRUE, opcodes |-> TRUE],
              [cmds |-> TRUE, opcodes |-> FALSE], [cmds |-> FALSE, opcodes |-> FALSE]}

UnsetValue == -1
=============================================================================
