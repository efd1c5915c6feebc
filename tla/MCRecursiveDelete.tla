-------------------------- MODULE MCRecursiveDelete -------------------------
(***************************************************************************)
(* Instances of RecursiveDelete for TLC: a chain of three entries below    *)
(* the base's sibling-free root, beside a leaf; n is added by others.       *)
(***************************************************************************)
EXTENDS RecursiveDelete
CONSTANTS root, base, ou, user, leaf, new

MCEntries == {root, base, ou, user, leaf, new}
MCParent == [e \in MCEntries |->
               CASE e = root -> NoEntry
                 [] e = base -> root
                 [] e \in {ou, leaf} -> base
                 [] e \in {user, new} -> ou]
MCAbove[e \in MCEntries] ==
  {e} \union IF MCParent[e] = NoEntry THEN {} ELSE MCAbove[MCParent[e]]
MCInitial == {root, base, ou, user, leaf}

All == MCEntries
NoUsers == MCEntries \ {user}
AnyFilter == {All, NoUsers, {ou, user}}
AnyRefusal == {{}, {user}, {ou, leaf}}
NoRefusal == {{}}
NoFilter == {All}
=============================================================================
