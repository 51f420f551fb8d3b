------------------------------ MODULE MCPadSync ------------------------------
(***************************************************************************)
(* PadSync over pads of blocks outside any list, with the merge of         *)
(* PadMerge.                                                               *)
(***************************************************************************)
EXTENDS PadSync, TLC, FiniteSets

CONSTANTS
    Leaf,      \* what a block may say
    synced,    \* the one that every device may hold at first
    MaxCells,  \* of PadMerge
    MaxLines   \* bound on the blocks of a pad

P == INSTANCE PadMerge

Nothing == <<>>
New == {Nothing}
Synced == {<<[box |-> "none", leaf |-> synced]>>}
NewOrSynced == {Nothing, <<[box |-> "none", leaf |-> synced]>>}
Leaves(ls) == P!Leaves(ls)

Flat(leaves) == [box : {"none"}, leaf : leaves]

FlatTexts == Seq(Flat(Leaf))
FlatEdits(ls, leaves) == P!Edits(ls, Flat(leaves))
FlatTakenOut(old, new) == P!TakenOut(old, new)
FlatMerge(base, ours, theirs) == P!Merge(base, ours, theirs)

\* The same, tabulated for the pads of a few blocks: adding nothing to the
\* function makes TLC compute it once.
FlatPads == UNION {[1..n -> Flat(Leaf)] : n \in 0..MaxLines}

Tabled(f) == f @@ <<>>

Merged ==
    Tabled([base \in FlatPads |->
        Tabled([ours \in FlatPads |->
            Tabled([theirs \in FlatPads |-> FlatMerge(base, ours, theirs)])])])

TabledMerge(base, ours, theirs) == Merged[base][ours][theirs]

Symmetry == Permutations(Device) \cup Permutations(Leaf \ {synced})
=============================================================================
