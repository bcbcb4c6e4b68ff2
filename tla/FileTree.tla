------------------------------ MODULE FileTree ------------------------------
(***************************************************************************)
(* One user's tree of files and folders in the file store                   *)
(* (web_app/file_store/data_interface.py).  Every operation here runs under *)
(* the metadata edit lock, so it is one atomic step; an operation that      *)
(* raises leaves the metadata as it was and is not a step.  A path is its   *)
(* sequence of names, so "starts with path/" is being a strict extension.   *)
(*                                                                          *)
(* The metadata keeps files as a list of (path, crc) entries and folders as *)
(* a list of paths.  Nothing but the operations themselves makes entry      *)
(* paths unique, lists the parents of an entry, or keeps files and folders  *)
(* apart.                                                                   *)
(***************************************************************************)
EXTENDS Naturals, FiniteSets, Sequences, SequencesExt

CONSTANTS
    Names,      \* path components
    Crcs,       \* file contents, by checksum
    MaxDepth,   \* bound: names in a path
    MaxFiles,   \* bound: entries in the tree
    MaxFolders  \* bound: listed folders

ASSUME FileTreeAssumption ==
    /\ MaxDepth \in Nat \ {0} /\ MaxFiles \in Nat /\ MaxFolders \in Nat

VARIABLES
    files,      \* the user's entries
    folders,    \* the user's listed folders
    served      \* the kind of request served last; no operation reads it

treeVars == <<files, folders, served>>
tree == <<files, folders>>

\* What _normalise_path lets through, and the root directory.
TreePaths == UNION {[1..n -> Names] : n \in 1..MaxDepth}
Root == <<>>

Within(path, folder) == IsStrictPrefix(folder, path)
AtOrWithin(path, top) == path = top \/ Within(path, top)

\* _parent_folders: every directory above a path.
ParentFolders(path) == {SubSeq(path, 1, n) : n \in 1..(Len(path) - 1)}

EntryPaths == {entry.path : entry \in files}

\* _folder_paths: listed folders and those that only files imply.
FolderPaths == folders \cup UNION {ParentFolders(p) : p \in EntryPaths}

\* Where a path below (or at) source goes when source becomes target.
Relocate(path, source, target) ==
    target \o SubSeq(path, Len(source) + 1, Len(path))

\* The bounds on the tree; an operation that would exceed them is not taken.
Fits(newFiles, newFolders) ==
    /\ Cardinality(newFiles) =< MaxFiles
    /\ Cardinality(newFolders) =< MaxFolders
    /\ \A entry \in newFiles : Len(entry.path) =< MaxDepth
    /\ \A folder \in newFolders : Len(folder) =< MaxDepth

Become(kind, newFiles, newFolders) ==
    /\ Fits(newFiles, newFolders)
    /\ served' = kind
    /\ files' = newFiles
    /\ folders' = newFolders

TreeInit == files = {} /\ folders = {} /\ served = "none"

-----------------------------------------------------------------------------
\* save_files: a batch of uploads, one content per path, and the directories
\* an archive names.  An upload whose content the path already has is ignored;
\* any other replaces the entry at its path.
SaveFiles(uploads, dirs) ==
    LET paths == {u.path : u \in uploads}
        required == dirs \cup UNION {ParentFolders(p) : p \in paths}
        fresh == uploads \ files
        freshPaths == {u.path : u \in fresh}
    IN  /\ required \cap paths = {}
        /\ (required \cap EntryPaths) \subseteq paths
        /\ \A p \in paths : ~\E f \in folders : AtOrWithin(f, p)
        /\ Become("save",
                  {e \in files : e.path \notin freshPaths} \cup fresh,
                  folders \cup dirs
                    \cup UNION {ParentFolders(p) : p \in dirs \cup freshPaths})

\* delete_path: an entry, a listed folder, or whatever lies below the path.
DeletePath(target) ==
    LET removed == {e \in files : AtOrWithin(e.path, target)}
    IN  /\ removed # {} \/ target \in folders
        /\ Become("delete", files \ removed,
                  {f \in folders : ~AtOrWithin(f, target)})

\* _normalise_batch_paths: a path below another selected one is dropped.
TopMost(batch) == {p \in batch : ~\E q \in batch : Within(p, q)}

\* delete_paths
DeletePaths(batch) ==
    LET targets == TopMost(batch)
        Gone(path) == \E t \in targets : AtOrWithin(path, t)
    IN  /\ \A t \in targets :
              t \in FolderPaths \/ \E p \in EntryPaths : AtOrWithin(p, t)
        /\ Become("delete", {e \in files : ~Gone(e.path)},
                  {f \in folders : ~Gone(f)})

\* delete_all_files and, for this user's part of the metadata, delete_user_data
DeleteAll == Become("delete", {}, {})

\* create_folder
CreateFolder(path) ==
    /\ path \notin EntryPaths
    /\ Become("create", files, folders \cup ParentFolders(path) \cup {path})

\* Faulty variants: no check, and a check of the destination alone.
DestinationsUnchecked(moved, source, destination) == TRUE

DestinationFree(moved, source, destination) ==
    \A e \in files \ moved : e.path # destination

\* The check of _move_path_locked on where the files of a move end up.
DestinationsFree(moved, source, destination) ==
    LET destinations == {Relocate(e.path, source, destination) : e \in moved}
    IN  \A e \in files \ moved : e.path \notin destinations

\* move_path and _move_path_locked: rename or move one file or folder.
MovePath(source, destination) ==
    LET moved == {e \in files : AtOrWithin(e.path, source)}
        movedFolders == {f \in folders : AtOrWithin(f, source)}
    IN  /\ ~AtOrWithin(destination, source)
        /\ moved # {} \/ source \in folders
        /\ DestinationsFree(moved, source, destination)
        /\ Become("move",
                  (files \ moved) \cup
                    {[e EXCEPT !.path = Relocate(@, source, destination)] :
                        e \in moved},
                  (folders \ movedFolders)
                    \cup {Relocate(f, source, destination) : f \in movedFolders}
                    \cup ParentFolders(destination))

\* The selected path that a path moves with, and where it goes below
\* `destination`.
Moving(path, sources) == \E s \in sources : AtOrWithin(path, s)
SourceOf(path, sources) == CHOOSE s \in sources : AtOrWithin(path, s)
Target(source, destination) == Append(destination, Last(source))
NewPath(path, sources, destination) ==
    LET source == SourceOf(path, sources)
    IN  Relocate(path, source, Target(source, destination))

\* move_paths and _move_paths_locked: move a selection into one folder.
MovePaths(batch, destination) ==
    LET sources == TopMost(batch)
        affectedFolders == {p \in FolderPaths : Moving(p, sources)}
        affected == {p \in EntryPaths : Moving(p, sources)} \cup affectedFolders
        unaffected == (EntryPaths \cup FolderPaths) \ affected
        IsFolder(s) == s \in FolderPaths \/ \E p \in EntryPaths : Within(p, s)
    IN  /\ \A s \in sources :
              /\ IsFolder(s) \/ s \in EntryPaths
              /\ IsFolder(s) => ~AtOrWithin(destination, s)
              /\ Target(s, destination) # s
        /\ destination # Root =>
              ~\E p \in EntryPaths : AtOrWithin(destination, p)
        /\ \A s, t \in sources : Target(s, destination) = Target(t, destination) => s = t
        /\ \A p \in affected : NewPath(p, sources, destination) \notin unaffected
        /\ \A p, q \in affected :
              NewPath(p, sources, destination) = NewPath(q, sources, destination) => p = q
        /\ Become("move",
                  {IF Moving(e.path, sources)
                     THEN [e EXCEPT !.path = NewPath(@, sources, destination)] ELSE e :
                      e \in files},
                  (folders \ affectedFolders)
                    \cup {NewPath(f, sources, destination) : f \in affectedFolders}
                    \cup (IF destination = Root THEN {}
                          ELSE {destination} \cup ParentFolders(destination)))

-----------------------------------------------------------------------------
\* Selections a request may name: bounded to two paths.  One with a path that is
\* not there is refused, or served as if it had been left out when it lies
\* below the other one.
Selected ==
    LET there == EntryPaths \cup FolderPaths
    IN  {{p, q} : p, q \in there}

\* Batches a request may upload: bounded to two files, at different paths
\* (save_files refuses duplicates), or one file and one named directory.
Upload == [path : TreePaths, crc : Crcs]
Uploads ==
    {{pair[1], pair[2]} : pair \in {x \in Upload \X Upload :
                                       x[1].path = x[2].path => x[1] = x[2]}}

TreeNext ==
    \/ \E U \in Uploads : SaveFiles(U, {})
    \/ \E u \in Upload, d \in TreePaths : SaveFiles({u}, {d})
    \/ \E p \in TreePaths : DeletePath(p) \/ CreateFolder(p)
    \/ \E batch \in Selected : DeletePaths(batch)
    \/ DeleteAll
    \/ \E s, d \in TreePaths : MovePath(s, d)
    \/ \E batch \in Selected, d \in TreePaths \cup {Root} : MovePaths(batch, d)

TreeSpec == TreeInit /\ [][TreeNext]_treeVars

-----------------------------------------------------------------------------
TreeTypeOK ==
    /\ files \subseteq [path : TreePaths, crc : Crcs]
    /\ folders \subseteq TreePaths
    /\ served \in {"none", "save", "delete", "create", "move"}

\* A path names one file: lookups, replacements and deletions take the first
\* entry they find at a path (get_file_path, data_interface.py:321), so a
\* second one would be unreachable and never replaced.
UniquePaths == \A d, e \in files : d.path = e.path => d = e

\* Every directory above a file or a folder is itself a listed folder, so a
\* folder that a listing shows does not vanish when the last file in it is
\* moved or deleted, as one that only files imply would (_folder_paths,
\* data_interface.py:115).
ParentsListed ==
    \A p \in EntryPaths \cup folders : ParentFolders(p) \subseteq folders

\* What holds between any two operations on a tree.
TreeSound == TreeTypeOK /\ UniquePaths /\ ParentsListed

\* Moving never drops, merges or duplicates a file: each content keeps its
\* number of entries (_move_path_locked and _move_paths_locked).
KeepsFiles ==
    \A c \in Crcs : Cardinality({e \in files' : e.crc = c})
                      = Cardinality({e \in files : e.crc = c})

MoveKeepsFiles == [][served' = "move" => KeepsFiles]_treeVars

\* A path is not both a file and a folder ("A file conflicts with a folder
\* path", "A folder conflicts with a file path", "A file already exists at
\* this path": data_interface.py:268, 273 and 393).
FilesAreNotFolders == EntryPaths \cap FolderPaths = {}
=============================================================================
