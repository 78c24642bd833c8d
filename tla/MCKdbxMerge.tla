----------------------------- MODULE MCKdbxMerge -----------------------------
(* Two devices; a group and the recycle bin under the root, one entry; a     *)
(* group and an entry that may be created.                                  *)
EXTENDS KdbxMerge, TLC

CONSTANTS gA, gB, eOne, eTwo

MCFirst ==
    [groups  |-> [g \in Groups |-> IF g = Root THEN <<gA, RecycleBin>> ELSE <<>>],
     entries |-> [g \in Groups |-> IF g = RecycleBin THEN <<eOne>> ELSE <<>>],
     loc     |-> [o \in Objects |-> 0],
     rev     |-> [o \in Objects |-> Origin],
     hist    |-> [e \in Entries |-> <<>>],
     dead    |-> {},
     pool    |-> {Origin},
     name    |-> Origin,
     max     |-> 1]

Symmetry == Permutations(Device)
=============================================================================
