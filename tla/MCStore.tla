------------------------------ MODULE MCStore ------------------------------
(* Instances of FileTree and of FileContent for TLC, each on its own.        *)
EXTENDS FileTree, FileContent, TLC

CONSTANTS small, large, u1, u2, p1, q1, p2

MCContents == {small, large}
MCSize == small :> 1 @@ large :> 2

\* One user with two paths, who may fill them with one large and one small
\* content, and one with a single path.
MCUsers == {u1, u2}
MCPaths == {p1, q1, p2}
MCOwner == p1 :> u1 @@ q1 :> u1 @@ p2 :> u2

VARIABLE part

PartsInit == part \in {"tree", "content"} /\ TreeInit /\ Init

TreePart == part = "tree" /\ TreeNext /\ UNCHANGED <<part, vars>>
ContentPart == part = "content" /\ Next /\ UNCHANGED <<part, treeVars>>

PartsSpec == PartsInit /\ [][TreePart \/ ContentPart]_<<part, treeVars, vars>>
TreePartSpec ==
    PartsInit /\ part = "tree" /\ [][TreePart]_<<part, treeVars, vars>>
ContentPartSpec ==
    PartsInit /\ part = "content" /\ [][ContentPart]_<<part, treeVars, vars>>

\* Names and contents of a tree are interchangeable, and so are request threads
\* and the paths of one user.
StoreSymmetry ==
    Permutations(Names) \cup Permutations(Crcs)
      \cup Permutations(Slots) \cup Permutations({p1, q1})

\* No operation reads `served` or `stray`, and the runs with this view state
\* nothing of `stray`.
Unread == <<part, tree, metaVars, blobs, cutVars, editVars, slotVars>>
=============================================================================
