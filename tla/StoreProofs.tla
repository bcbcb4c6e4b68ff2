----------------------------- MODULE StoreProofs -----------------------------
(***************************************************************************)
(* Proofs about the file store: about FileContent for every number of       *)
(* request threads, users, paths and contents, whatever their sizes, the    *)
(* limit and the faults; about FileTree for every set of names and contents *)
(* and every bound on the tree; and about Thumbnails and Archive for every  *)
(* number of requests, files and places in the queue.  They share no        *)
(* variable; each part has the inductive invariant of one of them.          *)
(***************************************************************************)
EXTENDS FileTree, FileContent, Thumbnails, Archive, FiniteSetTheorems,
        SequenceTheorems, TLAPS

\* Between edits the metadata lists the contents that entries name.
Saved == index = Refs(entries)

\* The holder of the lock is at work on its edit, and nobody else is.
HolderWorks == \A s \in Slots : pc[s] \in {"applying", "cleaning"} <=> holder = s

\* An upload has files for the paths it has still to deal with, and an erasure takes
\* the paths of its user.
UploadRight ==
    /\ DOMAIN batch = Slots
    /\ \A s \in Slots :
        /\ kind[s] = "upload" => targets[s] \subseteq DOMAIN batch[s]
        /\ kind[s] = "erase" => targets[s] = PathsOf(user[s])
        /\ pc[s] \in {"checking", "streaming", "applying"} => kind[s] = "upload"

\* A reader looks for a content.
ReaderRight == \A s \in Slots : pc[s] = "opening" => want[s] # NoContent

\* What is on disk between edits, and during one whose copy of the metadata lists
\* `listed` for the entries `naming`.
AtRest == index \subseteq blobs \cup damaged /\ blobs \subseteq index \cup abandoned

Applying(listed, naming) ==
    index \subseteq blobs \cup damaged /\ naming \subseteq listed

Cleaning(listed, naming) ==
    /\ listed = naming \cup doomed /\ doomed \cap naming = {}
    /\ index \cap naming \subseteq blobs \cup damaged

OnDisk ==
    /\ holder = NoSlot => AtRest
    /\ holder # NoSlot =>
        /\ newIndex \ index \subseteq blobs
        /\ blobs \subseteq newIndex \cup abandoned
        /\ pc[holder] = "applying" => Applying(newIndex, Refs(newEntries))
        /\ pc[holder] = "cleaning" => Cleaning(newIndex, Refs(newEntries))

StoreInv ==
    /\ TypeOK /\ Saved /\ HolderWorks /\ UploadRight /\ ReaderRight /\ OnDisk

-----------------------------------------------------------------------------
(* The invariant by parts: the store and the slots of the requests.        *)

StoreTyped ==
    /\ index \subseteq Contents /\ entries \in Trees /\ blobs \subseteq Contents
    /\ damaged \subseteq Contents /\ abandoned \subseteq Contents
    /\ holder \in Slots \cup {NoSlot}
    /\ newIndex \subseteq Contents /\ newEntries \in Trees /\ doomed \subseteq Contents

Phases == {"idle", "checking", "streaming", "waiting", "applying", "cleaning", "opening"}
Kinds == {"none", "upload", "delete", "move", "erase", "download"}

SlotsRight ==
    /\ stray \in BOOLEAN
    /\ pc \in [Slots -> Phases] /\ kind \in [Slots -> Kinds]
    /\ user \in [Slots -> Users \cup {NoUser}]
    /\ \A s \in Slots : kind[s] = "upload" => batch[s] \in Batches(user[s])
    /\ targets \in [Slots -> SUBSET Paths] /\ temps \in [Slots -> SUBSET Paths]
    /\ want \in [Slots -> Contents \cup {NoContent}] /\ alone \in [Slots -> BOOLEAN]
    /\ replaced \in [Slots -> Nat]
    /\ UploadRight /\ ReaderRight

\* The invariant and its two parts.
LEMMA StoreParts ==
    StoreInv <=> StoreTyped /\ SlotsRight /\ Saved /\ HolderWorks /\ OnDisk
  BY DEF StoreInv, TypeOK, StoreTyped, SlotsRight, Phases, Kinds

\* An upload has contents for paths.
LEMMA BatchFits ==
    ASSUME NEW u, NEW b \in Batches(u)
    PROVE  DOMAIN b \subseteq Paths /\ \A p \in DOMAIN b : b[p] \in Contents
  <1>1. PICK P \in Selections(u) : b \in [P -> Contents]
    BY DEF Batches
  <1>2. P \subseteq Paths
    BY DEF Selections, PathsOf
  <1> QED  BY <1>1, <1>2

\* The other requests stay where they are.
Steps(s, next) ==
    /\ SlotsRight' /\ pc'[s] = next
    /\ \A t \in Slots \ {s} : pc'[t] = pc[t]

\* A request ends.
LEMMA LeaveMoves ==
    ASSUME SlotsRight, NEW s \in Slots, NEW left, Leave(s, left),
           alone' \in [Slots -> BOOLEAN]
    PROVE  Steps(s, "idle")
  <1>1. /\ pc' \in [Slots -> Phases] /\ pc'[s] = "idle"
        /\ \A t \in Slots \ {s} : pc'[t] = pc[t]
    BY DEF Leave, SlotsRight, Phases
  <1>2. /\ kind' \in [Slots -> Kinds] /\ kind'[s] = "none"
        /\ \A t \in Slots \ {s} : kind'[t] = kind[t]
    BY DEF Leave, SlotsRight, Kinds
  <1>3. user' \in [Slots -> Users \cup {NoUser}] /\ \A t \in Slots \ {s} : user'[t] = user[t]
    BY DEF Leave, SlotsRight
  <1>4. DOMAIN batch' = Slots /\ \A t \in Slots \ {s} : batch'[t] = batch[t]
    BY DEF Leave, SlotsRight, UploadRight
  <1>5. /\ targets' \in [Slots -> SUBSET Paths] /\ temps' \in [Slots -> SUBSET Paths]
        /\ \A t \in Slots \ {s} : targets'[t] = targets[t]
    BY DEF Leave, SlotsRight
  <1>6. /\ want' \in [Slots -> Contents \cup {NoContent}]
        /\ \A t \in Slots \ {s} : want'[t] = want[t]
    BY DEF Leave, SlotsRight
  <1>7. replaced' \in [Slots -> Nat]
    BY DEF Leave, SlotsRight
  <1>8. stray' \in BOOLEAN
    BY DEF Leave
  <1>9. \A t \in Slots : kind'[t] = "upload" => batch'[t] \in Batches(user'[t])
    BY <1>2, <1>3, <1>4 DEF SlotsRight
  <1>10. UploadRight'
    BY <1>1, <1>2, <1>3, <1>4, <1>5 DEF SlotsRight, UploadRight
  <1>11. ReaderRight'
    BY <1>1, <1>6 DEF SlotsRight, ReaderRight
  <1> QED  BY <1>1, <1>2, <1>3, <1>5, <1>6, <1>7, <1>8, <1>9, <1>10, <1>11
           DEF Steps, SlotsRight

\* The same, when it has saved nothing.
LEMMA EndMoves ==
    ASSUME SlotsRight, NEW s \in Slots, NEW left, End(s, left)
    PROVE  Steps(s, "idle")
  BY LeaveMoves DEF End, SlotsRight

\* A request takes a step without ending.
LEMMA StepMoves ==
    ASSUME SlotsRight, NEW s \in Slots, NEW next \in Phases,
           pc' = [pc EXCEPT ![s] = next],
           targets' \in [Slots -> SUBSET Paths],
           \A t \in Slots \ {s} : targets'[t] = targets[t],
           temps' \in [Slots -> SUBSET Paths],
           UNCHANGED <<stray, kind, user, batch, want, alone>>,
           replaced' \in [Slots -> Nat],
           kind[s] = "upload" => targets'[s] \subseteq DOMAIN batch[s],
           kind[s] # "upload" => targets'[s] = targets[s],
           next \in {"streaming", "applying"} => kind[s] = "upload",
           next \notin {"opening", "checking"}
    PROVE  Steps(s, next)
  <1>1. pc' \in [Slots -> Phases] /\ pc'[s] = next /\ \A t \in Slots \ {s} : pc'[t] = pc[t]
    BY DEF SlotsRight
  <1>2. UploadRight'
    BY <1>1 DEF SlotsRight, UploadRight
  <1>3. ReaderRight'
    BY <1>1 DEF SlotsRight, ReaderRight
  <1> QED  BY <1>1, <1>2, <1>3 DEF Steps, SlotsRight

-----------------------------------------------------------------------------
(* What the kinds of steps keep.                                           *)

\* A step of a request that does not hold the lock.
LEMMA OutsideKeeps ==
    ASSUME StoreInv, NEW s \in Slots, NEW next, Steps(s, next),
           next \notin {"applying", "cleaning"}, holder # s,
           UNCHANGED <<metaVars, blobs, cutVars, editVars>>
    PROVE  StoreInv'
  <1>1. StoreTyped /\ SlotsRight /\ Saved /\ HolderWorks /\ OnDisk
    BY StoreParts
  <1>2. StoreTyped' /\ Saved'
    BY <1>1 DEF StoreTyped, Saved, Refs, metaVars, cutVars, editVars
  <1>3. HolderWorks'
    BY <1>1 DEF HolderWorks, Steps, editVars
  <1>4. holder # NoSlot => pc'[holder] = pc[holder]
    BY <1>1 DEF Steps, StoreTyped
  <1>5. OnDisk'
    BY <1>1, <1>4 DEF OnDisk, AtRest, Applying, Cleaning, Refs, metaVars, cutVars, editVars
  <1>6. SlotsRight'
    BY DEF Steps
  <1> QED  BY <1>2, <1>3, <1>5, <1>6, StoreParts, PTL

\* A step of the request that holds the lock, and goes on holding it.
LEMMA InsideKeeps ==
    ASSUME StoreInv, NEW s \in Slots, NEW next, Steps(s, next),
           next \in {"applying", "cleaning"}, holder = s, holder' = s,
           UNCHANGED <<metaVars, cutVars>>,
           newIndex' \subseteq Contents, newEntries' \in Trees, doomed' \subseteq Contents,
           blobs' \subseteq Contents,
           newIndex' \ index \subseteq blobs', blobs' \subseteq newIndex' \cup abandoned,
           next = "applying" => Applying(newIndex, Refs(newEntries))',
           next = "cleaning" => Cleaning(newIndex, Refs(newEntries))'
    PROVE  StoreInv'
  <1>1. StoreTyped /\ SlotsRight /\ Saved /\ HolderWorks /\ OnDisk
    BY StoreParts
  <1>2. StoreTyped' /\ Saved'
    BY <1>1 DEF StoreTyped, Saved, Refs, metaVars, cutVars
  <1>3. HolderWorks'
    BY <1>1 DEF HolderWorks, Steps
  <1>4. OnDisk'
    <2>1. holder' # NoSlot
      BY FileContentAssumption
    <2>2. pc'[holder'] = next /\ index' = index /\ abandoned' = abandoned
      BY DEF Steps, metaVars, cutVars
    <2> QED  BY <2>1, <2>2 DEF OnDisk
  <1>5. SlotsRight'
    BY DEF Steps
  <1> QED  BY <1>2, <1>3, <1>4, <1>5, StoreParts, PTL

\* The lock is taken.
LEMMA EnterKeeps ==
    ASSUME StoreInv, NEW s \in Slots, NEW next, Steps(s, next),
           next \in {"applying", "cleaning"}, holder = NoSlot, holder' = s,
           UNCHANGED <<metaVars, blobs, cutVars>>,
           newIndex' = index, newEntries' \in Trees, doomed' \subseteq Contents,
           next = "applying" => Refs(newEntries') \subseteq index,
           next = "cleaning" => doomed' = index \ Refs(newEntries')
                                /\ Refs(newEntries') \subseteq index
    PROVE  StoreInv'
  <1>1. StoreTyped /\ SlotsRight /\ Saved /\ HolderWorks /\ OnDisk
    BY StoreParts
  <1>2. StoreTyped' /\ Saved'
    BY <1>1 DEF StoreTyped, Saved, Refs, metaVars, cutVars
  <1>3. HolderWorks'
    BY <1>1, FileContentAssumption DEF HolderWorks, Steps
  <1>4. OnDisk'
    <2>1. holder' # NoSlot
      BY FileContentAssumption
    <2>2. pc'[holder'] = next /\ UNCHANGED <<index, abandoned, damaged, blobs>>
      BY DEF Steps, metaVars, cutVars
    <2>3. AtRest
      BY <1>1 DEF OnDisk
    <2>4. Refs(newEntries)' = Refs(newEntries')
      BY DEF Refs
    <2>5. next = "applying" => Applying(newIndex, Refs(newEntries))'
      BY <2>2, <2>3, <2>4 DEF Applying, AtRest
    <2>6. next = "cleaning" => Cleaning(newIndex, Refs(newEntries))'
      BY <2>2, <2>3, <2>4 DEF Cleaning, AtRest
    <2>7. newIndex' \ index' \subseteq blobs' /\ blobs' \subseteq newIndex' \cup abandoned'
      BY <2>2, <2>3 DEF AtRest
    <2> QED  BY <2>1, <2>2, <2>5, <2>6, <2>7 DEF OnDisk
  <1>5. SlotsRight'
    BY DEF Steps
  <1> QED  BY <1>2, <1>3, <1>4, <1>5, StoreParts, PTL

\* The lock is released.
LEMMA LeaveKeeps ==
    ASSUME StoreInv, NEW s \in Slots, Steps(s, "idle"), holder = s, Release,
           index' \subseteq Contents, entries' \in Trees, blobs' \subseteq Contents,
           damaged' \subseteq Contents, abandoned' \subseteq Contents,
           Saved', AtRest'
    PROVE  StoreInv'
  <1>1. StoreTyped /\ SlotsRight /\ Saved /\ HolderWorks /\ OnDisk
    BY StoreParts
  <1>2. holder' = NoSlot /\ newIndex' = {} /\ doomed' = {} /\ newEntries' \in Trees
    BY DEF Release, EmptyTree, Trees
  <1>3. StoreTyped'
    BY <1>2 DEF StoreTyped
  <1>4. HolderWorks'
    BY <1>1, <1>2, FileContentAssumption DEF HolderWorks, Steps
  <1>5. OnDisk'
    BY <1>2 DEF OnDisk
  <1>6. SlotsRight'
    BY DEF Steps
  <1> QED  BY <1>3, <1>4, <1>5, <1>6, StoreParts, PTL

-----------------------------------------------------------------------------
(* Requests begin, spool and read.                                         *)

\* The bytes of some entries are finitely many.
LEMMA BytesFinite ==
    ASSUME NEW listing, NEW P, IsFiniteSet(P), \A p \in P : listing[p] \in Contents
    PROVE  IsFiniteSet(BytesAt(listing, P)) /\ SizeAt(listing, P) \in Nat
  <1>1. PICK f : f = [p \in P |-> {p} \X (1..Size[listing[p]])]
    OBVIOUS
  <1>2. PICK F : F = {{p} \X (1..Size[listing[p]]) : p \in P}
    OBVIOUS
  <1>3. f \in [P -> F] /\ \A b \in F : \E p \in P : f[p] = b
    BY <1>1, <1>2
  <1>4. f \in Surjection(P, F)
    BY <1>3 DEF Surjection
  <1>5. IsFiniteSet(F)
    BY <1>4, FS_Surjection
  <1>6. ASSUME NEW p \in P
        PROVE  IsFiniteSet({p} \X (1..Size[listing[p]]))
    <2>1. Size[listing[p]] \in Nat
      BY FileContentAssumption
    <2>2. IsFiniteSet(1..Size[listing[p]])
      BY <2>1, FS_Interval
    <2> QED  BY <2>2, FS_Singleton, FS_Product
  <1>7. \A b \in F : IsFiniteSet(b)
    BY <1>2, <1>6
  <1>8. IsFiniteSet(UNION F)
    BY <1>5, <1>7, FS_UNION
  <1> QED  BY <1>2, <1>8, FS_CardinalityType DEF BytesAt, SizeAt

\* Contents at the paths of a user.
LEMMA ListedFinite ==
    ASSUME NEW u, NEW listing \in Trees
    PROVE  /\ IsFiniteSet(PathsOf(u)) /\ IsFiniteSet(Listed(u, listing))
           /\ Listed(u, listing) \subseteq PathsOf(u)
           /\ \A p \in Listed(u, listing) : listing[p] \in Contents
  <1>1. PathsOf(u) \subseteq Paths /\ Listed(u, listing) \subseteq PathsOf(u)
    BY DEF PathsOf, Listed
  <1>2. IsFiniteSet(Paths)
    BY FileContentAssumption
  <1>3. IsFiniteSet(PathsOf(u)) /\ IsFiniteSet(Listed(u, listing))
    BY <1>1, <1>2, FS_Subset
  <1> QED  BY <1>1, <1>3 DEF Listed, Trees, PathsOf

LEMMA BatchListed ==
    ASSUME NEW u, NEW b \in Batches(u)
    PROVE  /\ DOMAIN b \subseteq PathsOf(u) /\ IsFiniteSet(DOMAIN b)
           /\ \A p \in DOMAIN b : b[p] \in Contents
  <1>1. DOMAIN b \subseteq PathsOf(u) /\ PathsOf(u) \subseteq Paths
    BY DEF Batches, Selections, PathsOf
  <1>2. IsFiniteSet(Paths)
    BY FileContentAssumption
  <1>3. IsFiniteSet(DOMAIN b)
    BY <1>1, <1>2, FS_Subset
  <1> QED  BY <1>1, <1>3, BatchFits

\* The actions of a request that does not hold the lock.
LEMMA OutsideActions ==
    ASSUME StoreInv, NEW s \in Slots,
           \/ \E u \in Users : \/ \E b \in Batches(u) : BeginUpload(s, u, b)
                               \/ \E P \in Selections(u) :
                                     BeginDelete(s, u, P) \/ BeginMove(s, u, P)
                               \/ BeginErase(s, u)
                               \/ \E p \in PathsOf(u) : BeginRead(s, u, p)
           \/ \E p \in Paths : StreamOne(s, p)
           \/ CheckQuota(s) \/ TurnAway(s) \/ StreamFails(s) \/ Open(s)
    PROVE  StoreInv'
  <1>0. SlotsRight /\ StoreTyped /\ HolderWorks
    BY StoreParts
  <1>1. ASSUME pc[s] \notin {"applying", "cleaning"}, NEW next, Steps(s, next),
               next \notin {"applying", "cleaning"},
               UNCHANGED <<metaVars, blobs, cutVars, editVars>>
        PROVE  StoreInv'
    BY <1>0, <1>1, OutsideKeeps DEF HolderWorks
  <1>2. ASSUME NEW what \in Kinds, NEW u \in Users, NEW paths, paths \subseteq Paths,
               NEW next \in Phases, Begin(s, what, u, paths, next)
        PROVE  /\ pc[s] = "idle"
               /\ pc' \in [Slots -> Phases] /\ pc'[s] = next
               /\ \A t \in Slots \ {s} : pc'[t] = pc[t]
               /\ kind' \in [Slots -> Kinds] /\ kind'[s] = what
               /\ \A t \in Slots \ {s} : kind'[t] = kind[t]
               /\ user' \in [Slots -> Users \cup {NoUser}] /\ user'[s] = u
               /\ \A t \in Slots \ {s} : user'[t] = user[t]
               /\ targets' \in [Slots -> SUBSET Paths] /\ targets'[s] = paths
               /\ \A t \in Slots \ {s} : targets'[t] = targets[t]
    BY <1>0, <1>2 DEF Begin, SlotsRight
  <1>3. ASSUME NEW u \in Users, NEW b \in Batches(u), BeginUpload(s, u, b)
        PROVE  StoreInv'
    <2>1. /\ Begin(s, "upload", u, DOMAIN b, "checking")
          /\ batch' = [batch EXCEPT ![s] = b]
          /\ UNCHANGED <<metaVars, blobs, stray, cutVars, editVars, temps, want>>
      BY <1>3 DEF BeginUpload
    <2>2. DOMAIN b \subseteq Paths /\ "upload" \in Kinds /\ "checking" \in Phases
      BY BatchFits DEF Kinds, Phases
    <2>3. /\ pc[s] = "idle"
          /\ pc' \in [Slots -> Phases] /\ pc'[s] = "checking"
          /\ \A t \in Slots \ {s} : pc'[t] = pc[t]
          /\ kind' \in [Slots -> Kinds] /\ kind'[s] = "upload"
          /\ \A t \in Slots \ {s} : kind'[t] = kind[t]
          /\ user' \in [Slots -> Users \cup {NoUser}] /\ user'[s] = u
          /\ \A t \in Slots \ {s} : user'[t] = user[t]
          /\ targets' \in [Slots -> SUBSET Paths] /\ targets'[s] = DOMAIN b
          /\ \A t \in Slots \ {s} : targets'[t] = targets[t]
      BY <1>2, <2>1, <2>2
    <2>4. /\ DOMAIN batch' = Slots /\ batch'[s] = b
          /\ \A t \in Slots \ {s} : batch'[t] = batch[t]
      BY <1>0, <2>1 DEF SlotsRight, UploadRight
    <2>5. alone' \in [Slots -> BOOLEAN] /\ replaced' \in [Slots -> Nat]
      <3>1. entries \in Trees /\ DOMAIN b \cap Listed(u, entries) \subseteq Listed(u, entries)
        BY <1>0 DEF StoreTyped
      <3>2. /\ IsFiniteSet(DOMAIN b \cap Listed(u, entries))
            /\ \A p \in DOMAIN b \cap Listed(u, entries) : entries[p] \in Contents
        BY <3>1, ListedFinite, FS_Subset
      <3>3. SizeAt(entries, DOMAIN b \cap Listed(u, entries)) \in Nat
        BY <3>2, BytesFinite
      <3>4. replaced' \in [Slots -> Nat]
        BY <1>0, <1>3, <3>3 DEF BeginUpload, SlotsRight
      <3> QED  BY <1>0, <1>3, <3>4 DEF BeginUpload, SlotsRight
    <2>6. UploadRight'
      BY <1>0, <2>3, <2>4 DEF SlotsRight, UploadRight
    <2>7. ReaderRight'
      BY <1>0, <2>1, <2>3 DEF SlotsRight, ReaderRight
    <2>8. \A t \in Slots : kind'[t] = "upload" => batch'[t] \in Batches(user'[t])
      BY <1>0, <2>3, <2>4 DEF SlotsRight
    <2>9. Steps(s, "checking")
      BY <1>0, <2>1, <2>3, <2>5, <2>6, <2>7, <2>8 DEF Steps, SlotsRight
    <2> QED  BY <1>1, <2>1, <2>3, <2>9
  <1>4. ASSUME NEW u \in Users, NEW paths, paths \subseteq Paths,
               NEW what \in Kinds, what # "upload",
               what = "erase" => paths = PathsOf(u),
               Begin(s, what, u, paths, "waiting"),
               UNCHANGED <<metaVars, blobs, stray, cutVars, editVars, batch, temps, want,
                           replaced, alone>>
        PROVE  StoreInv'
    <2>1. "waiting" \in Phases
      BY DEF Phases
    <2>2. /\ pc[s] = "idle"
          /\ pc' \in [Slots -> Phases] /\ pc'[s] = "waiting"
          /\ \A t \in Slots \ {s} : pc'[t] = pc[t]
          /\ kind' \in [Slots -> Kinds] /\ kind'[s] = what
          /\ \A t \in Slots \ {s} : kind'[t] = kind[t]
          /\ user' \in [Slots -> Users \cup {NoUser}] /\ user'[s] = u
          /\ \A t \in Slots \ {s} : user'[t] = user[t]
          /\ targets' \in [Slots -> SUBSET Paths] /\ targets'[s] = paths
          /\ \A t \in Slots \ {s} : targets'[t] = targets[t]
      BY <1>2, <1>4, <2>1
    <2>3. UploadRight' /\ ReaderRight'
      BY <1>0, <1>4, <2>2 DEF SlotsRight, UploadRight, ReaderRight
    <2>4. \A t \in Slots : kind'[t] = "upload" => batch'[t] \in Batches(user'[t])
      BY <1>0, <1>4, <2>2 DEF SlotsRight
    <2>5. Steps(s, "waiting")
      BY <1>0, <1>4, <2>2, <2>3, <2>4 DEF Steps, SlotsRight
    <2> QED  BY <1>1, <1>4, <2>2, <2>5
  <1>5. ASSUME NEW u \in Users, NEW P \in Selections(u),
               BeginDelete(s, u, P) \/ BeginMove(s, u, P)
        PROVE  StoreInv'
    <2>1. P \subseteq Paths /\ "delete" \in Kinds /\ "move" \in Kinds
      BY DEF Selections, PathsOf, Kinds
    <2>2. CASE BeginDelete(s, u, P)
      BY <1>4, <2>1, <2>2 DEF BeginDelete
    <2>3. CASE BeginMove(s, u, P)
      BY <1>4, <2>1, <2>3 DEF BeginMove
    <2> QED  BY <1>5, <2>2, <2>3
  <1>6. ASSUME NEW u \in Users, BeginErase(s, u)
        PROVE  StoreInv'
    <2>1. PathsOf(u) \subseteq Paths /\ "erase" \in Kinds
      BY DEF PathsOf, Kinds
    <2> QED  BY <1>4, <1>6, <2>1 DEF BeginErase
  <1>7. ASSUME NEW u \in Users, NEW p \in PathsOf(u), BeginRead(s, u, p)
        PROVE  StoreInv'
    <2>1. /\ Begin(s, "download", u, {p}, "opening")
          /\ want' = [want EXCEPT ![s] = entries[p]]
          /\ UNCHANGED <<metaVars, blobs, stray, cutVars, editVars, batch, temps, replaced,
                         alone>>
          /\ p \in Paths /\ entries[p] # NoContent
      BY <1>7 DEF BeginRead, Listed, PathsOf
    <2>2. "download" \in Kinds /\ "opening" \in Phases /\ {p} \subseteq Paths
      BY <2>1 DEF Kinds, Phases
    <2>3. /\ pc[s] = "idle"
          /\ pc' \in [Slots -> Phases] /\ pc'[s] = "opening"
          /\ \A t \in Slots \ {s} : pc'[t] = pc[t]
          /\ kind' \in [Slots -> Kinds] /\ kind'[s] = "download"
          /\ \A t \in Slots \ {s} : kind'[t] = kind[t]
          /\ user' \in [Slots -> Users \cup {NoUser}] /\ user'[s] = u
          /\ \A t \in Slots \ {s} : user'[t] = user[t]
          /\ targets' \in [Slots -> SUBSET Paths] /\ targets'[s] = {p}
          /\ \A t \in Slots \ {s} : targets'[t] = targets[t]
      BY <1>2, <2>1, <2>2
    <2>4. /\ want' \in [Slots -> Contents \cup {NoContent}] /\ want'[s] = entries[p]
          /\ \A t \in Slots \ {s} : want'[t] = want[t]
      BY <1>0, <2>1 DEF SlotsRight, StoreTyped, Trees
    <2>5. ReaderRight'
      BY <1>0, <2>1, <2>3, <2>4 DEF SlotsRight, ReaderRight
    <2>6. UploadRight'
      BY <1>0, <2>1, <2>3 DEF SlotsRight, UploadRight
    <2>7. \A t \in Slots : kind'[t] = "upload" => batch'[t] \in Batches(user'[t])
      BY <1>0, <2>1, <2>3 DEF SlotsRight
    <2>8. Steps(s, "opening")
      BY <1>0, <2>1, <2>3, <2>4, <2>5, <2>6, <2>7 DEF Steps, SlotsRight
    <2> QED  BY <1>1, <2>1, <2>3, <2>8
  <1>8. ASSUME NEW p \in Paths, StreamOne(s, p)
        PROVE  StoreInv'
    <2>1. /\ pc[s] = "streaming" /\ kind[s] = "upload"
          /\ temps' = [temps EXCEPT ![s] = @ \cup {p}]
          /\ UNCHANGED <<stray, kind, user, batch, want, alone>>
          /\ replaced' \in [Slots -> Nat]
          /\ UNCHANGED <<metaVars, blobs, cutVars, editVars>>
      BY <1>0, <1>8 DEF StreamOne, SlotsRight, UploadRight
    <2>2. temps' \in [Slots -> SUBSET Paths]
      BY <1>0, <2>1 DEF SlotsRight
    <2>3. DOMAIN batch[s] \subseteq Paths /\ targets[s] \subseteq DOMAIN batch[s]
      BY <1>0, <2>1, BatchFits DEF SlotsRight, UploadRight
    <2>4. CASE targets[s] = {p}
      <3>1. /\ pc' = [pc EXCEPT ![s] = "waiting"] /\ "waiting" \in Phases
            /\ targets' = [targets EXCEPT ![s] = DOMAIN batch[s]]
        BY <1>8, <2>4 DEF StreamOne, Phases
      <3>2. /\ targets' \in [Slots -> SUBSET Paths] /\ targets'[s] = DOMAIN batch[s]
            /\ \A t \in Slots \ {s} : targets'[t] = targets[t]
        BY <1>0, <2>3, <3>1 DEF SlotsRight
      <3>3. Steps(s, "waiting")
        BY <1>0, <2>1, <2>2, <3>1, <3>2, StepMoves
      <3> QED  BY <1>1, <2>1, <3>3
    <2>5. CASE targets[s] # {p}
      <3>1. /\ pc' = pc /\ "streaming" \in Phases
            /\ targets' = [targets EXCEPT ![s] = targets[s] \ {p}]
        BY <1>8, <2>5 DEF StreamOne, Phases
      <3>2. /\ targets' \in [Slots -> SUBSET Paths] /\ targets'[s] = targets[s] \ {p}
            /\ \A t \in Slots \ {s} : targets'[t] = targets[t]
            /\ pc' = [pc EXCEPT ![s] = "streaming"]
        BY <1>0, <2>1, <3>1 DEF SlotsRight
      <3>3. Steps(s, "streaming")
        BY <1>0, <2>1, <2>2, <2>3, <3>1, <3>2, StepMoves
      <3> QED  BY <1>1, <2>1, <3>3
    <2> QED  BY <2>4, <2>5
  <1>9. ASSUME TurnAway(s) \/ StreamFails(s) \/ Open(s)
        PROVE  StoreInv'
    <2>1. /\ pc[s] \in {"waiting", "streaming", "opening"}
          /\ Steps(s, "idle") /\ UNCHANGED <<metaVars, blobs, cutVars, editVars>>
      BY <1>0, <1>9, EndMoves DEF TurnAway, StreamFails, Open
    <2> QED  BY <1>1, <2>1
  <1>10. ASSUME CheckQuota(s)
         PROVE  StoreInv'
    <2>1. /\ pc[s] = "checking" /\ kind[s] = "upload"
          /\ UNCHANGED <<metaVars, blobs, cutVars, editVars>>
      BY <1>0, <1>10 DEF CheckQuota, SlotsRight, UploadRight
    <2>2. CASE WithinQuota(s)
      <3>1. /\ pc' = [pc EXCEPT ![s] = "streaming"] /\ "streaming" \in Phases
            /\ replaced' = [replaced EXCEPT ![s] = 0]
            /\ UNCHANGED <<stray, kind, user, batch, targets, temps, want, alone>>
        BY <1>10, <2>2 DEF CheckQuota, Phases
      <3>2. /\ targets' \in [Slots -> SUBSET Paths] /\ temps' \in [Slots -> SUBSET Paths]
            /\ replaced' \in [Slots -> Nat] /\ targets[s] \subseteq DOMAIN batch[s]
        BY <1>0, <2>1, <3>1 DEF SlotsRight, UploadRight
      <3>3. Steps(s, "streaming")
        BY <1>0, <2>1, <3>1, <3>2, StepMoves
      <3> QED  BY <1>1, <2>1, <3>3
    <2>3. CASE ~WithinQuota(s)
      <3>1. Steps(s, "idle")
        BY <1>0, <1>10, <2>3, EndMoves DEF CheckQuota
      <3> QED  BY <1>1, <2>1, <3>1
    <2> QED  BY <2>2, <2>3
  <1> QED  BY <1>3, <1>5, <1>6, <1>7, <1>8, <1>9, <1>10

-----------------------------------------------------------------------------
(* The edit.                                                               *)

\* The actions that take the lock.
LEMMA EnterActions ==
    ASSUME StoreInv, NEW s \in Slots, EnterUpload(s) \/ EnterDelete(s) \/ EnterMove(s)
    PROVE  StoreInv'
  <1>0. SlotsRight /\ StoreTyped /\ HolderWorks /\ Saved
    BY StoreParts
  <1>1. CASE EnterUpload(s)
    <2>1. /\ pc[s] = "waiting" /\ kind[s] = "upload" /\ holder = NoSlot /\ holder' = s
          /\ newIndex' = index /\ newEntries' = entries
          /\ pc' = [pc EXCEPT ![s] = "applying"]
          /\ UNCHANGED <<metaVars, blobs, stray, cutVars, doomed, kind, user, batch,
                         targets, temps, want, replaced, alone>>
      BY <1>1 DEF EnterUpload
    <2>2. targets[s] \subseteq DOMAIN batch[s] /\ "applying" \in Phases
      BY <1>0, <2>1 DEF SlotsRight, UploadRight, Phases
    <2>3. Steps(s, "applying")
      BY <1>0, <2>1, <2>2, StepMoves DEF SlotsRight
    <2>4. Refs(newEntries') \subseteq index
      BY <1>0, <2>1 DEF Saved
    <2> QED  BY <1>0, <2>1, <2>3, <2>4, EnterKeeps DEF StoreTyped
  <1>2. CASE EnterDelete(s)
    <2>1. /\ pc[s] = "waiting" /\ kind[s] # "upload" /\ holder = NoSlot
          /\ UNCHANGED <<metaVars, blobs, cutVars>>
      BY <1>2 DEF EnterDelete
    <2>2. CASE End(s, {}) /\ UNCHANGED editVars
      <3>1. Steps(s, "idle")
        BY <1>0, <2>2, EndMoves
      <3> QED  BY <2>1, <2>2, <3>1, FileContentAssumption, OutsideKeeps
    <2>3. CASE /\ holder' = s /\ newIndex' = index
               /\ newEntries' = [p \in Paths |-> IF p \in targets[s]
                                                 THEN NoContent ELSE entries[p]]
               /\ doomed' = Unreferenced(s, index, newEntries')
               /\ pc' = [pc EXCEPT ![s] = "cleaning"]
               /\ UNCHANGED <<stray, kind, user, batch, targets, temps, want, replaced,
                              alone>>
      <3>1. "cleaning" \in Phases
        BY DEF Phases
      <3>2. Steps(s, "cleaning")
        BY <1>0, <2>1, <2>3, <3>1, StepMoves DEF SlotsRight
      <3>3. newEntries' \in Trees
        BY <1>0, <2>3 DEF StoreTyped, Trees
      <3>4. Refs(newEntries') \subseteq index
        BY <1>0, <2>3 DEF Saved, Refs
      <3>5. doomed' = index \ Refs(newEntries') /\ doomed' \subseteq Contents
        BY <1>0, <2>3 DEF Unreferenced, StoreTyped
      <3> QED  BY <2>1, <2>3, <3>2, <3>3, <3>4, <3>5, EnterKeeps
    <2> QED  BY <1>2, <2>2, <2>3 DEF EnterDelete
  <1>3. CASE EnterMove(s)
    <2>1. /\ pc[s] = "waiting" /\ kind[s] = "move" /\ holder = NoSlot /\ holder' = s
          /\ newIndex' = index /\ doomed' = {}
          /\ pc' = [pc EXCEPT ![s] = "cleaning"] /\ "cleaning" \in Phases
          /\ targets[s] \subseteq Listed(user[s], entries)
          /\ UNCHANGED <<metaVars, blobs, stray, cutVars, kind, user, batch, targets,
                         temps, want, replaced, alone>>
      BY <1>3 DEF EnterMove, Phases
    <2>2. Steps(s, "cleaning")
      BY <1>0, <2>1, StepMoves DEF SlotsRight
    <2>3. PICK to \in SUBSET (PathsOf(user[s]) \ (Listed(user[s], entries) \ targets[s])) :
            \E from \in Bijection(to, targets[s]) :
              newEntries' = [p \in Paths |-> IF p \in to THEN entries[from[p]]
                                             ELSE IF p \in targets[s] THEN NoContent
                                             ELSE entries[p]]
      BY <1>3 DEF EnterMove
    <2>4. PICK from \in Bijection(to, targets[s]) :
            newEntries' = [p \in Paths |-> IF p \in to THEN entries[from[p]]
                                           ELSE IF p \in targets[s] THEN NoContent
                                           ELSE entries[p]]
      BY <2>3
    <2>5. /\ from \in [to -> targets[s]]
          /\ \A p \in targets[s] : \E q \in to : from[q] = p
      BY <2>4 DEF Bijection, Surjection
    <2>6. targets[s] \subseteq Paths /\ to \subseteq Paths
      BY <2>1, <2>3 DEF Listed, PathsOf
    <2>7. newEntries' \in Trees
      <3>1. \A p \in Paths : newEntries'[p] \in Contents \cup {NoContent}
        BY <1>0, <2>4, <2>5, <2>6 DEF StoreTyped, Trees
      <3> QED  BY <2>4, <3>1 DEF Trees
    <2>8. Refs(newEntries') \subseteq Refs(entries)
      BY <2>4, <2>5, <2>6 DEF Refs
    <2>9. Refs(entries) \subseteq Refs(newEntries')
      <3> SUFFICES ASSUME NEW p \in Paths, entries[p] # NoContent
                   PROVE  \E q \in Paths : newEntries'[q] = entries[p]
        BY DEF Refs
      <3>1. CASE p \in targets[s]
        BY <2>4, <2>5, <2>6, <3>1
      <3>2. CASE p \notin targets[s]
        <4>1. p \notin to
          BY <2>3, <3>2 DEF Listed
        <4> QED  BY <2>4, <3>2, <4>1
      <3> QED  BY <3>1, <3>2
    <2>10. Refs(newEntries') = index
      BY <1>0, <2>8, <2>9 DEF Saved
    <2> QED  BY <2>1, <2>2, <2>7, <2>10, EnterKeeps
  <1> QED  BY <1>1, <1>2, <1>3

\* An upload applies a file of its batch.
LEMMA ApplyAction ==
    ASSUME StoreInv, NEW s \in Slots, NEW p \in Paths, ApplyOne(s, p)
    PROVE  StoreInv'
  <1>0. SlotsRight /\ StoreTyped /\ HolderWorks /\ Saved /\ OnDisk
    BY StoreParts
  <1>1. PICK c : c = batch[s][p]
    OBVIOUS
  <1>2. /\ pc[s] = "applying" /\ p \in targets[s]
        /\ UNCHANGED <<metaVars, stray, cutVars, holder, kind, user, batch, want, alone>>
        /\ UNCHANGED replaced
        /\ temps' = [temps EXCEPT ![s] = @ \ {p}]
        /\ targets' = [targets EXCEPT ![s] = @ \ {p}]
    BY DEF ApplyOne
  <1>3. /\ holder = s /\ s # NoSlot /\ kind[s] = "upload"
        /\ targets[s] \subseteq DOMAIN batch[s] /\ c \in Contents
    <2>1. holder = s /\ kind[s] = "upload" /\ targets[s] \subseteq DOMAIN batch[s]
      BY <1>0, <1>2 DEF HolderWorks, SlotsRight, UploadRight
    <2>2. batch[s] \in Batches(user[s])
      BY <1>0, <2>1 DEF SlotsRight
    <2> QED  BY <1>1, <1>2, <2>1, <2>2, BatchFits, FileContentAssumption
  <1>4. /\ Applying(newIndex, Refs(newEntries)) /\ newIndex \ index \subseteq blobs
        /\ blobs \subseteq newIndex \cup abandoned
    BY <1>0, <1>2, <1>3 DEF OnDisk
  <1>5. /\ newIndex' \subseteq Contents /\ newEntries' \in Trees /\ blobs' \subseteq Contents
        /\ newIndex' \ index \subseteq blobs' /\ blobs' \subseteq newIndex' \cup abandoned
        /\ index \subseteq blobs' \cup damaged
        /\ Refs(newEntries') \subseteq newIndex'
    <2>1. CASE UNCHANGED <<newIndex, newEntries, blobs>>
      BY <1>0, <1>4, <2>1 DEF StoreTyped, Applying
    <2>2. CASE /\ newIndex' = newIndex \cup ({c} \ newIndex)
               /\ newEntries' = [newEntries EXCEPT ![p] = c]
               /\ blobs' = blobs \cup ({c} \ newIndex)
      <3>1. newEntries' \in Trees /\ \A q \in Paths : newEntries'[q] \in {c, newEntries[q]}
        BY <1>0, <1>3, <2>2 DEF StoreTyped, Trees
      <3>2. Refs(newEntries') \subseteq Refs(newEntries) \cup {c}
        BY <3>1 DEF Refs
      <3> QED  BY <1>0, <1>3, <1>4, <2>2, <3>1, <3>2 DEF StoreTyped, Applying
    <2> QED  BY <1>1, <2>1, <2>2 DEF ApplyOne
  <1>6. /\ temps' \in [Slots -> SUBSET Paths] /\ targets' \in [Slots -> SUBSET Paths]
        /\ targets'[s] = targets[s] \ {p} /\ replaced' \in [Slots -> Nat]
        /\ \A t \in Slots \ {s} : targets'[t] = targets[t]
    BY <1>0, <1>2 DEF SlotsRight
  <1>7. Refs(newEntries)' = Refs(newEntries') /\ UNCHANGED <<index, abandoned, damaged>>
    BY <1>2 DEF Refs, metaVars, cutVars
  <1>8. CASE targets[s] = {p}
    <2>1. /\ pc' = [pc EXCEPT ![s] = "cleaning"] /\ "cleaning" \in Phases
          /\ doomed' = newIndex' \ Refs(newEntries')
      BY <1>8 DEF ApplyOne, Unreferenced, Phases
    <2>2. Steps(s, "cleaning")
      BY <1>0, <1>2, <1>3, <1>6, <2>1, StepMoves
    <2>3. Cleaning(newIndex, Refs(newEntries))'
      BY <1>5, <1>7, <2>1 DEF Cleaning
    <2>4. doomed' \subseteq Contents
      BY <1>5, <2>1
    <2> QED  BY <1>2, <1>3, <1>5, <2>2, <2>3, <2>4, InsideKeeps
  <1>9. CASE targets[s] # {p}
    <2>1. UNCHANGED <<pc, doomed>> /\ "applying" \in Phases
      BY <1>9 DEF ApplyOne, Phases
    <2>2. pc' = [pc EXCEPT ![s] = "applying"]
      BY <1>0, <1>2, <2>1 DEF SlotsRight
    <2>3. Steps(s, "applying")
      BY <1>0, <1>2, <1>3, <1>6, <2>1, <2>2, StepMoves
    <2>4. Applying(newIndex, Refs(newEntries))'
      BY <1>5, <1>7 DEF Applying
    <2>5. doomed' \subseteq Contents
      BY <1>0, <2>1 DEF StoreTyped
    <2> QED  BY <1>2, <1>3, <1>5, <2>3, <2>4, <2>5, InsideKeeps
  <1> QED  BY <1>8, <1>9

\* An edit deletes a content.
LEMMA CleanAction ==
    ASSUME StoreInv, NEW s \in Slots, NEW c \in Contents, CleanOne(s, c)
    PROVE  StoreInv'
  <1>0. SlotsRight /\ StoreTyped /\ HolderWorks /\ Saved /\ OnDisk
    BY StoreParts
  <1>1. /\ pc[s] = "cleaning" /\ c \in doomed /\ blobs' = blobs \ {c}
        /\ newIndex' = newIndex \ {c} /\ doomed' = doomed \ {c}
        /\ UNCHANGED <<metaVars, cutVars, holder, newEntries>> /\ UNCHANGED slotVars
        /\ stray' = stray
    BY DEF CleanOne
  <1>2. holder = s /\ s # NoSlot
    BY <1>0, <1>1, FileContentAssumption DEF HolderWorks
  <1>3. /\ Cleaning(newIndex, Refs(newEntries)) /\ newIndex \ index \subseteq blobs
        /\ blobs \subseteq newIndex \cup abandoned
    BY <1>0, <1>1, <1>2 DEF OnDisk
  <1>4. Steps(s, "cleaning")
    BY <1>0, <1>1 DEF Steps, slotVars, SlotsRight, UploadRight, ReaderRight
  <1>5. Refs(newEntries)' = Refs(newEntries) /\ UNCHANGED <<index, damaged, abandoned>>
    BY <1>1 DEF Refs, metaVars, cutVars
  <1>6. /\ Cleaning(newIndex, Refs(newEntries))'
        /\ newIndex' \ index \subseteq blobs'
    BY <1>1, <1>3, <1>5 DEF Cleaning
  <1>7. blobs' \subseteq newIndex' \cup abandoned
    BY <1>1, <1>3
  <1> QED  BY <1>0, <1>1, <1>2, <1>4, <1>6, <1>7, InsideKeeps DEF StoreTyped

\* What an edit cut short, or rolled back, leaves is at rest.
LEMMA LeftAtRest ==
    ASSUME StoreInv, NEW s \in Slots, holder = s, NEW kept, kept \subseteq blobs,
           pc[s] = "applying" => kept = blobs,
           pc[s] = "cleaning" => blobs \ kept \subseteq doomed,
           Steps(s, "idle"), Release, UNCHANGED metaVars,
           damaged' = damaged \cup Dropped(s),
           \/ blobs' = kept /\ abandoned' = abandoned \cup (newIndex \ index)
           \/ /\ blobs' = kept \ (newIndex \ index)
              /\ abandoned' = abandoned \ (newIndex \ index)
    PROVE  StoreInv'
  <1>0. SlotsRight /\ StoreTyped /\ HolderWorks /\ Saved /\ OnDisk
    BY StoreParts
  <1>1. /\ s # NoSlot /\ pc[s] \in {"applying", "cleaning"}
        /\ newIndex \ index \subseteq blobs /\ blobs \subseteq newIndex \cup abandoned
        /\ pc[s] = "applying" => Applying(newIndex, Refs(newEntries))
        /\ pc[s] = "cleaning" => Cleaning(newIndex, Refs(newEntries))
    BY <1>0, FileContentAssumption DEF OnDisk, HolderWorks
  <1>2. Dropped(s) \subseteq index /\ index \subseteq Contents
    BY <1>0 DEF Dropped, StoreTyped
  <1>3. index \subseteq kept \cup damaged'
    <2>1. CASE pc[s] = "applying"
      BY <1>1, <2>1 DEF Applying
    <2>2. CASE pc[s] = "cleaning"
      BY <1>1, <2>2 DEF Cleaning, Dropped
    <2> QED  BY <1>1, <2>1, <2>2
  <1>4. index' = index /\ entries' = entries
    BY DEF metaVars
  <1>5. AtRest'
    BY <1>1, <1>3, <1>4 DEF AtRest
  <1>6. Saved'
    BY <1>0, <1>4 DEF Saved, Refs
  <1>7. /\ index' \subseteq Contents /\ entries' \in Trees /\ blobs' \subseteq Contents
        /\ damaged' \subseteq Contents /\ abandoned' \subseteq Contents
    BY <1>0, <1>2, <1>4 DEF StoreTyped
  <1> QED  BY <1>5, <1>6, <1>7, LeaveKeeps

\* The actions that end an edit, and the death of any request.
LEMMA EndActions ==
    ASSUME StoreInv, NEW s \in Slots,
           \/ \E c \in Contents : CleanFails(s, c)
           \/ ApplyFails(s) \/ Save(s) \/ SaveFails(s) \/ Crash(s)
    PROVE  StoreInv'
  <1>0. SlotsRight /\ StoreTyped /\ HolderWorks /\ Saved /\ OnDisk
    BY StoreParts
  <1>1. ASSUME NEW c \in Contents, CleanFails(s, c)
        PROVE  StoreInv'
    <2>1. PICK kept \in {blobs, blobs \ {c}} :
            IF kind[s] = "upload" THEN RollBack(s, kept)
            ELSE blobs' = kept /\ CutShort(s, {})
      BY <1>1 DEF CleanFails
    <2>2. pc[s] = "cleaning" /\ c \in doomed /\ UNCHANGED metaVars
      BY <1>1 DEF CleanFails
    <2>3. holder = s /\ kept \subseteq blobs /\ blobs \ kept \subseteq doomed
      BY <1>0, <2>2 DEF HolderWorks
    <2>4. CASE kind[s] = "upload"
      <3>1. /\ blobs' = kept \ (newIndex \ index) /\ damaged' = damaged \cup Dropped(s)
            /\ abandoned' = abandoned \ (newIndex \ index) /\ End(s, {}) /\ Release
        BY <2>1, <2>4 DEF RollBack
      <3> QED  BY <1>0, <2>2, <2>3, <3>1, EndMoves, LeftAtRest
    <2>5. CASE kind[s] # "upload"
      <3>1. /\ blobs' = kept /\ damaged' = damaged \cup Dropped(s)
            /\ abandoned' = abandoned \cup (newIndex \ index) /\ End(s, {}) /\ Release
        BY <2>1, <2>5 DEF CutShort
      <3> QED  BY <1>0, <2>2, <2>3, <3>1, EndMoves, LeftAtRest
    <2> QED  BY <2>4, <2>5
  <1>2. CASE ApplyFails(s)
    <2>1. /\ pc[s] = "applying" /\ RollBack(s, blobs) /\ UNCHANGED metaVars
      BY <1>2 DEF ApplyFails
    <2>2. holder = s
      BY <1>0, <2>1 DEF HolderWorks
    <2> QED  BY <1>0, <2>1, <2>2, EndMoves, LeftAtRest DEF RollBack
  <1>3. CASE Save(s)
    <2>1. /\ pc[s] = "cleaning" /\ doomed = {} /\ index' = newIndex
          /\ entries' = newEntries /\ damaged' = damaged \cap newIndex
          /\ abandoned' = abandoned \ newIndex /\ Leave(s, {}) /\ Release
          /\ blobs' = blobs /\ alone' \in [Slots -> BOOLEAN]
      BY <1>3 DEF Save
    <2>2. holder = s /\ s # NoSlot
      BY <1>0, <2>1, FileContentAssumption DEF HolderWorks
    <2>3. /\ Cleaning(newIndex, Refs(newEntries)) /\ newIndex \ index \subseteq blobs
          /\ blobs \subseteq newIndex \cup abandoned
      BY <1>0, <2>1, <2>2 DEF OnDisk
    <2>4. newIndex = Refs(newEntries)
      BY <2>1, <2>3 DEF Cleaning
    <2>5. Saved'
      BY <2>1, <2>4 DEF Saved, Refs
    <2>6. AtRest'
      BY <2>1, <2>3, <2>4 DEF AtRest, Cleaning
    <2>7. /\ index' \subseteq Contents /\ entries' \in Trees /\ blobs' \subseteq Contents
          /\ damaged' \subseteq Contents /\ abandoned' \subseteq Contents
      BY <1>0, <2>1 DEF StoreTyped
    <2> QED  BY <1>0, <2>1, <2>2, <2>5, <2>6, <2>7, LeaveMoves, LeaveKeeps
  <1>4. ASSUME NEW left, holder = s, CutShort(s, left), UNCHANGED <<metaVars, blobs>>
        PROVE  StoreInv'
    BY <1>0, <1>4, EndMoves, LeftAtRest DEF CutShort
  <1>5. CASE SaveFails(s)
    BY <1>0, <1>4, <1>5 DEF SaveFails, HolderWorks
  <1>6. CASE Crash(s)
    <2>1. CASE holder = s
      BY <1>4, <1>6, <2>1 DEF Crash
    <2>2. CASE holder # s
      <3>1. End(s, temps[s]) /\ UNCHANGED <<metaVars, blobs, cutVars, editVars>>
        BY <1>6, <2>2 DEF Crash
      <3>2. Steps(s, "idle")
        BY <1>0, <3>1, EndMoves
      <3> QED  BY <2>2, <3>1, <3>2, OutsideKeeps
    <2> QED  BY <2>1, <2>2
  <1> QED  BY <1>1, <1>2, <1>3, <1>5, <1>6

-----------------------------------------------------------------------------
\* The invariant of every behaviour of the store.
THEOREM StoreInvariant == Spec => []StoreInv
  <1>1. Init => StoreInv
    <2> SUFFICES ASSUME Init
                 PROVE  StoreInv
      OBVIOUS
    <2>1. entries \in Trees /\ Refs(entries) = {}
      BY DEF Init, EmptyTree, Trees, Refs
    <2>2. StoreTyped
      BY <2>1 DEF Init, StoreTyped
    <2>3. UploadRight /\ ReaderRight /\ HolderWorks
      BY FileContentAssumption DEF Init, UploadRight, ReaderRight, HolderWorks
    <2>4. SlotsRight
      BY <2>3 DEF Init, SlotsRight, Phases, Kinds
    <2>5. Saved /\ OnDisk
      BY <2>1 DEF Init, Saved, OnDisk, AtRest
    <2> QED  BY <2>2, <2>3, <2>4, <2>5, StoreParts
  <1>2. StoreInv /\ [Next]_vars => StoreInv'
    <2> SUFFICES ASSUME StoreInv, [Next]_vars
                 PROVE  StoreInv'
      OBVIOUS
    <2>1. CASE UNCHANGED vars
      <3>1. StoreTyped /\ SlotsRight /\ Saved /\ HolderWorks /\ OnDisk
        BY StoreParts
      <3> USE <2>1 DEF vars, metaVars, cutVars, editVars, slotVars
      <3>2. StoreTyped' /\ Saved' /\ HolderWorks' /\ OnDisk'
        BY <3>1 DEF StoreTyped, Saved, HolderWorks, OnDisk, AtRest, Applying, Cleaning,
           Refs
      <3>3. SlotsRight'
        BY <3>1 DEF SlotsRight, UploadRight, ReaderRight
      <3> QED  BY <3>2, <3>3, StoreParts, PTL
    <2>2. CASE Next
      BY <2>2, OutsideActions, EnterActions, ApplyAction, CleanAction, EndActions DEF Next
    <2> QED  BY <2>1, <2>2
  <1> QED  BY <1>1, <1>2, PTL DEF Spec

\* ContentSound for every number of requests, users, paths and contents and for
\* every fault: no edit, failure or death takes from an entry, or from a reader
\* that looked it up, a content it does not itself remove or replace, but what an
\* edit cut short was deleting.
THEOREM ContentIsSound == Spec => []ContentSound
  <1>1. StoreInv => ContentSound
    <2> SUFFICES ASSUME StoreInv
                 PROVE  ContentSound
      OBVIOUS
    <2>0. StoreTyped /\ SlotsRight /\ Saved /\ HolderWorks /\ OnDisk
      BY StoreParts
    <2>1. ContentIntact
      <3> SUFFICES ASSUME NEW p \in Paths, entries[p] # NoContent, ~BeingChanged(p)
                   PROVE  entries[p] \in blobs \cup damaged
        BY DEF ContentIntact
      <3>1. entries[p] \in index
        BY <2>0 DEF Saved, Refs
      <3>2. CASE holder = NoSlot
        BY <2>0, <3>1, <3>2 DEF OnDisk, AtRest
      <3>3. CASE holder # NoSlot
        <4>1. entries[p] \in Refs(newEntries)
          BY <3>3 DEF BeingChanged, Refs
        <4>2. pc[holder] \in {"applying", "cleaning"}
          BY <2>0, <3>3 DEF HolderWorks, StoreTyped
        <4> QED  BY <2>0, <3>1, <3>3, <4>1, <4>2 DEF OnDisk, Applying, Cleaning
      <3> QED  BY <3>2, <3>3
    <2>2. LookupGoesStaleByItsEntry
      BY <2>0, <2>1 DEF LookupGoesStaleByItsEntry, ContentIntact, SlotsRight, ReaderRight
    <2> QED  BY <2>1, <2>2 DEF ContentSound, StoreInv
  <1> QED  BY <1>1, StoreInvariant, PTL

\* NothingOrphaned for every number of requests, users, paths and contents: between
\* edits the metadata lists the contents that entries name, and the store holds no
\* other but what an edit cut short had just stored.
THEOREM NothingIsOrphaned == Spec => []NothingOrphaned
  <1>1. StoreInv => NothingOrphaned
    BY StoreParts DEF NothingOrphaned, Saved, OnDisk, AtRest
  <1> QED  BY <1>1, StoreInvariant, PTL

-----------------------------------------------------------------------------
(* The limit.  While the first load of the check waits for the second, what *)
(* an upload found to replace is still there; after the check, what it does *)
(* not replace leaves room for what it brings.  Both last while no other    *)
(* upload of its user runs and no edit upsets it: a deletion makes room,    *)
(* and a move keeps the number of bytes.                                    *)

\* What an upload leaves alone.
Rest(s) == Listed(user[s], entries) \ DOMAIN batch[s]

Room(s) ==
    IF pc[s] = "checking"
      THEN replaced[s] =< SizeAt(entries, DOMAIN batch[s] \cap Listed(user[s], entries))
      ELSE SizeAt(entries, Rest(s)) + SizeAt(batch[s], DOMAIN batch[s]) =< Quota

Roomy ==
    \A s \in Slots : alone[s] =>
        /\ pc[s] # "idle" /\ kind[s] = "upload" /\ user[s] \in Users
        /\ Rivals(s, user[s]) = {}
        /\ Room(s)

\* The copy of the metadata after a move: each entry lies at one path, and comes from
\* one of its own.
MovedTotal(s) ==
    \E to, gone \in SUBSET PathsOf(user[s]) : \E from \in Injection(to, gone) :
        \A p \in Paths : newEntries[p] = IF p \in to THEN entries[from[p]]
                                        ELSE IF p \in gone THEN NoContent
                                        ELSE entries[p]

\* The copy of the metadata has what the holder of the lock has done so far.
Edited ==
    holder # NoSlot =>
        /\ kind[holder] = "upload" =>
              \A p \in Paths :
                 newEntries[p] = IF p \in DOMAIN batch[holder] \ targets[holder]
                                   THEN batch[holder][p] ELSE entries[p]
        /\ kind[holder] = "move" => MovedTotal(holder)
        /\ kind[holder] \notin {"upload", "move"} =>
              \A p \in Paths :
                 newEntries[p] \in IF Owner[p] = user[holder] THEN {entries[p], NoContent}
                                  ELSE {entries[p]}
        /\ pc[holder] = "cleaning" /\ kind[holder] = "upload" => targets[holder] = {}

\* An upload that waits for the lock has still to apply all its files.
Spooled ==
    \A s \in Slots : pc[s] = "waiting" /\ kind[s] = "upload" => targets[s] = DOMAIN batch[s]

QuotaInv == StoreInv /\ Roomy /\ Edited /\ Spooled

\* Where two trees have the same contents they have the same bytes.
LEMMA SameBytes ==
    ASSUME NEW listing, NEW other, NEW P, \A p \in P : listing[p] = other[p]
    PROVE  BytesAt(listing, P) = BytesAt(other, P) /\ SizeAt(listing, P) = SizeAt(other, P)
  <1>1. BytesAt(listing, P) = BytesAt(other, P)
    BY DEF BytesAt
  <1> QED  BY <1>1 DEF SizeAt

\* Fewer entries have no more bytes.
LEMMA FewerBytes ==
    ASSUME NEW listing, NEW P, NEW R \in SUBSET P, IsFiniteSet(P),
           \A p \in P : listing[p] \in Contents
    PROVE  SizeAt(listing, R) =< SizeAt(listing, P)
  <1>1. BytesAt(listing, R) \subseteq BytesAt(listing, P)
    BY DEF BytesAt
  <1> QED  BY <1>1, BytesFinite, FS_Subset DEF SizeAt

\* The bytes of two sets of entries add up.
LEMMA BytesAdd ==
    ASSUME NEW listing, NEW P, NEW R, IsFiniteSet(P), IsFiniteSet(R), P \cap R = {},
           \A p \in P \cup R : listing[p] \in Contents
    PROVE  SizeAt(listing, P \cup R) = SizeAt(listing, P) + SizeAt(listing, R)
  <1>1. PICK A, B : A = BytesAt(listing, P) /\ B = BytesAt(listing, R)
    OBVIOUS
  <1>2. BytesAt(listing, P \cup R) = A \cup B /\ A \cap B = {}
    BY <1>1 DEF BytesAt
  <1>3. IsFiniteSet(A) /\ IsFiniteSet(B)
    BY <1>1, BytesFinite
  <1>4. /\ Cardinality(A \cup B) = Cardinality(A) + Cardinality(B) - Cardinality(A \cap B)
        /\ Cardinality(A \cap B) = 0 /\ Cardinality(A) \in Nat /\ Cardinality(B) \in Nat
    BY <1>2, <1>3, FS_Union, FS_EmptySet, FS_CardinalityType
  <1>5. Cardinality(A \cup B) = Cardinality(A) + Cardinality(B)
    BY <1>4
  <1> QED  BY <1>1, <1>2, <1>5 DEF SizeAt

-----------------------------------------------------------------------------
(* Steps that save nothing.                                                *)

\* An upload keeps the room it has.
LEMMA RoomStays ==
    ASSUME NEW t \in Slots, Room(t), entries' = entries, user'[t] = user[t],
           batch'[t] = batch[t], pc'[t] = "checking" <=> pc[t] = "checking",
           pc[t] = "checking" => replaced'[t] = replaced[t]
    PROVE  Room(t)'
  <1>1. CASE pc[t] = "checking"
    <2>1. SizeAt(entries, DOMAIN batch[t] \cap Listed(user[t], entries))'
            = SizeAt(entries, DOMAIN batch[t] \cap Listed(user[t], entries))
      BY DEF SizeAt, BytesAt, Listed
    <2> QED  BY <1>1, <2>1 DEF Room
  <1>2. CASE pc[t] # "checking"
    <2>1. /\ SizeAt(entries, Rest(t))' = SizeAt(entries, Rest(t))
          /\ SizeAt(batch[t], DOMAIN batch[t])' = SizeAt(batch[t], DOMAIN batch[t])
      BY DEF SizeAt, BytesAt, Rest, Listed
    <2> QED  BY <1>2, <2>1 DEF Room
  <1> QED  BY <1>1, <1>2

\* Uploads go on or end, and none begins.
LEMMA RoomyStays ==
    ASSUME Roomy, entries' = entries,
           \A t \in Slots : alone'[t] =>
              /\ alone[t] /\ pc'[t] # "idle"
              /\ kind'[t] = kind[t] /\ user'[t] = user[t] /\ batch'[t] = batch[t]
              /\ pc'[t] = "checking" <=> pc[t] = "checking"
              /\ replaced'[t] = replaced[t],
           \A t \in Slots : kind'[t] = "upload" => kind[t] = "upload" /\ user'[t] = user[t]
    PROVE  Roomy'
  <1> SUFFICES ASSUME NEW s \in Slots, alone'[s]
               PROVE  /\ pc'[s] # "idle" /\ kind'[s] = "upload" /\ user'[s] \in Users
                      /\ Rivals(s, user[s])' = {}
                      /\ Room(s)'
    BY DEF Roomy
  <1>1. /\ alone[s] /\ pc'[s] # "idle"
        /\ kind'[s] = kind[s] /\ user'[s] = user[s] /\ batch'[s] = batch[s]
        /\ pc'[s] = "checking" <=> pc[s] = "checking"
        /\ replaced'[s] = replaced[s]
    OBVIOUS
  <1>2. /\ kind[s] = "upload" /\ user[s] \in Users /\ Rivals(s, user[s]) = {}
        /\ Room(s)
    BY <1>1 DEF Roomy
  <1>3. Rivals(s, user[s])' = {}
    BY <1>1, <1>2 DEF Rivals
  <1>4. Room(s)'
    BY <1>1, <1>2, RoomStays
  <1> QED  BY <1>1, <1>2, <1>3, <1>4

\* The edit goes on without a change to the copy.
LEMMA EditedStays ==
    ASSUME Edited, StoreInv, UNCHANGED <<holder, newEntries, entries>>,
           holder # NoSlot =>
              /\ pc'[holder] = pc[holder] /\ kind'[holder] = kind[holder]
              /\ batch'[holder] = batch[holder] /\ targets'[holder] = targets[holder]
              /\ user'[holder] = user[holder]
    PROVE  Edited'
  <1>1. holder # NoSlot /\ MovedTotal(holder) => MovedTotal(holder)'
    BY DEF MovedTotal, PathsOf
  <1> QED  BY <1>1 DEF Edited

\* The lock is free.
LEMMA EditedOver == holder' = NoSlot => Edited'
  BY DEF Edited

\* A request that ends takes its own state along.
LEMMA LeaveLeaves ==
    ASSUME StoreInv, NEW s \in Slots, NEW left, Leave(s, left)
    PROVE  /\ kind'[s] = "none"
           /\ \A t \in Slots \ {s} :
                 /\ kind'[t] = kind[t] /\ user'[t] = user[t] /\ batch'[t] = batch[t]
                 /\ pc'[t] = pc[t] /\ targets'[t] = targets[t]
                 /\ replaced'[t] = replaced[t]
  <1>1. SlotsRight
    BY StoreParts
  <1> QED  BY <1>1 DEF SlotsRight, UploadRight, Leave

LEMMA EndLeaves ==
    ASSUME StoreInv, NEW s \in Slots, NEW left, End(s, left)
    PROVE  /\ ~alone'[s] /\ kind'[s] = "none"
           /\ \A t \in Slots \ {s} :
                 /\ alone'[t] = alone[t] /\ kind'[t] = kind[t] /\ user'[t] = user[t]
                 /\ batch'[t] = batch[t] /\ pc'[t] = pc[t] /\ targets'[t] = targets[t]
                 /\ replaced'[t] = replaced[t]
  <1>1. SlotsRight
    BY StoreParts
  <1>2. ~alone'[s] /\ \A t \in Slots \ {s} : alone'[t] = alone[t]
    BY <1>1 DEF SlotsRight, End
  <1> QED  BY <1>2, LeaveLeaves DEF End

LEMMA EndRoomy ==
    ASSUME StoreInv, Roomy, NEW s \in Slots, NEW left, End(s, left), entries' = entries
    PROVE  Roomy'
  <1>1. \A t \in Slots : alone[t] => pc[t] # "idle"
    BY DEF Roomy
  <1> QED  BY <1>1, EndLeaves, RoomyStays

\* Those that wait go on waiting, with all that they have to do.
LEMMA SpooledStays ==
    ASSUME Spooled,
           \A t \in Slots : pc'[t] = "waiting" /\ kind'[t] = "upload" =>
              /\ pc[t] = "waiting" /\ kind[t] = "upload"
              /\ targets'[t] = targets[t] /\ batch'[t] = batch[t]
    PROVE  Spooled'
  BY DEF Spooled

\* A step of a request that does not hold the lock, seen from the others.
LEMMA OthersStay ==
    ASSUME QuotaInv, NEW s \in Slots, pc[s] \notin {"applying", "cleaning"},
           UNCHANGED <<metaVars, editVars>>,
           \A t \in Slots \ {s} :
              /\ pc'[t] = pc[t] /\ kind'[t] = kind[t] /\ user'[t] = user[t]
              /\ batch'[t] = batch[t] /\ targets'[t] = targets[t],
           pc'[s] = "waiting" /\ kind'[s] = "upload" => targets'[s] = DOMAIN batch'[s]
    PROVE  Edited' /\ Spooled'
  <1>1. HolderWorks /\ StoreTyped
    BY StoreParts DEF QuotaInv
  <1>2. holder # s /\ holder \in Slots \cup {NoSlot}
    BY <1>1 DEF HolderWorks, StoreTyped
  <1>3. Edited'
    BY <1>2, EditedStays DEF QuotaInv, metaVars, editVars
  <1>4. Spooled'
    BY DEF QuotaInv, Spooled
  <1> QED  BY <1>3, <1>4

\* A request that begins, and uploads nothing.
LEMMA BeginKeeps ==
    ASSUME QuotaInv, NEW s \in Slots, NEW what, what # "upload", NEW u, NEW paths, NEW next,
           Begin(s, what, u, paths, next),
           UNCHANGED <<metaVars, editVars, batch, replaced, alone>>
    PROVE  Roomy' /\ Edited' /\ Spooled'
  <1>1. SlotsRight
    BY StoreParts DEF QuotaInv
  <1>2. /\ pc[s] = "idle" /\ kind'[s] = what
        /\ \A t \in Slots \ {s} : /\ pc'[t] = pc[t] /\ kind'[t] = kind[t]
                                  /\ user'[t] = user[t] /\ targets'[t] = targets[t]
    BY <1>1 DEF Begin, SlotsRight
  <1>3. Edited' /\ Spooled'
    BY <1>2, OthersStay
  <1>4. \A t \in Slots : alone'[t] => t # s /\ pc[t] # "idle"
    BY <1>2 DEF QuotaInv, Roomy
  <1>5. Roomy'
    BY <1>2, <1>4, RoomyStays DEF QuotaInv, metaVars
  <1> QED  BY <1>3, <1>5

\* The check, without what the batch replaces.
LEMMA CheckMeans ==
    ASSUME NEW s \in Slots, batch[s] \in Batches(user[s]), entries \in Trees,
           replaced[s] \in Nat,
           replaced[s] =< SizeAt(entries, DOMAIN batch[s] \cap Listed(user[s], entries)),
           WithinQuota(s)
    PROVE  SizeAt(entries, Rest(s)) + SizeAt(batch[s], DOMAIN batch[s]) =< Quota
  <1>1. PICK P, R, D, b : /\ D = Listed(user[s], entries) /\ b = batch[s]
                          /\ P = D \ DOMAIN b /\ R = DOMAIN b \cap D
    OBVIOUS
  <1>2. IsFiniteSet(D) /\ \A p \in D : entries[p] \in Contents
    BY <1>1, ListedFinite
  <1>3. IsFiniteSet(P) /\ IsFiniteSet(R) /\ P \cap R = {} /\ P \cup R = D
    BY <1>1, <1>2, FS_Subset
  <1>4. SizeAt(entries, D) = SizeAt(entries, P) + SizeAt(entries, R)
    BY <1>2, <1>3, BytesAdd
  <1>5. /\ SizeAt(entries, P) \in Nat /\ SizeAt(entries, R) \in Nat
        /\ SizeAt(b, DOMAIN b) \in Nat
    BY <1>1, <1>2, <1>3, BatchListed, BytesFinite
  <1>6. SizeAt(entries, D) - replaced[s] + SizeAt(b, DOMAIN b) =< Quota
    BY <1>1 DEF WithinQuota, Usage
  <1>7. Quota \in Nat /\ replaced[s] =< SizeAt(entries, R)
    BY <1>1, FileContentAssumption
  <1>8. SizeAt(entries, P) + SizeAt(b, DOMAIN b) =< Quota
    BY <1>4, <1>5, <1>6, <1>7
  <1> QED  BY <1>1, <1>8 DEF Rest

\* An upload begins.
LEMMA BeginUploadKeeps ==
    ASSUME QuotaInv, NEW s \in Slots, NEW u \in Users, NEW b \in Batches(u),
           BeginUpload(s, u, b)
    PROVE  Roomy' /\ Edited' /\ Spooled'
  <1>1. SlotsRight /\ StoreTyped
    BY StoreParts DEF QuotaInv
  <1>2. /\ pc[s] = "idle" /\ kind'[s] = "upload" /\ user'[s] = u /\ batch'[s] = b
        /\ pc'[s] = "checking"
        /\ replaced'[s] = SizeAt(entries, DOMAIN b \cap Listed(u, entries))
        /\ \A t \in Slots \ {s} :
              /\ pc'[t] = pc[t] /\ kind'[t] = kind[t] /\ user'[t] = user[t]
              /\ targets'[t] = targets[t] /\ batch'[t] = batch[t]
              /\ replaced'[t] = replaced[t]
        /\ UNCHANGED <<metaVars, editVars>>
    BY <1>1 DEF BeginUpload, Begin, SlotsRight, UploadRight
  <1>3. Edited' /\ Spooled'
    BY <1>2, OthersStay
  <1>4. entries' = entries /\ entries \in Trees
    BY <1>1, <1>2 DEF metaVars, StoreTyped
  <1>5. \A t \in Slots : alone'[t] = IF t = s THEN Rivals(s, u) = {}
                                     ELSE alone[t] /\ t \notin Rivals(s, u)
    BY DEF BeginUpload
  <1>6. replaced'[s] \in Nat
    <2>1. DOMAIN b \cap Listed(u, entries) \in SUBSET Listed(u, entries)
      OBVIOUS
    <2>2. /\ IsFiniteSet(DOMAIN b \cap Listed(u, entries))
          /\ \A p \in DOMAIN b \cap Listed(u, entries) : entries[p] \in Contents
      BY <1>4, <2>1, ListedFinite, FS_Subset
    <2> QED  BY <1>2, <2>2, BytesFinite
  <1>7. Roomy'
    <2> SUFFICES ASSUME NEW t \in Slots, alone'[t]
                 PROVE  /\ pc'[t] # "idle" /\ kind'[t] = "upload" /\ user'[t] \in Users
                        /\ Rivals(t, user[t])' = {}
                        /\ Room(t)'
      BY DEF Roomy
    <2>1. CASE t = s
      <3>1. Rivals(s, u) = {}
        BY <1>5, <2>1
      <3>2. Rivals(t, user[t])' = {}
        BY <1>2, <2>1, <3>1 DEF Rivals
      <3>3. SizeAt(entries, DOMAIN batch[t] \cap Listed(user[t], entries))'
              = SizeAt(entries, DOMAIN b \cap Listed(u, entries))
        BY ZenonT(40), <1>2, <1>4, <2>1 DEF SizeAt, BytesAt, Listed
      <3>4. replaced'[s] \in Nat
        BY <1>6
      <3>5. Room(t)'
        BY <1>2, <2>1, <3>3, <3>4 DEF Room
      <3> QED  BY <1>2, <2>1, <3>2, <3>5
    <2>2. CASE t # s
      <3>1. alone[t] /\ t \notin Rivals(s, u)
        BY <1>5, <2>2
      <3>2. /\ pc[t] # "idle" /\ kind[t] = "upload" /\ user[t] \in Users
            /\ Rivals(t, user[t]) = {} /\ Room(t)
        BY <3>1 DEF QuotaInv, Roomy
      <3>3. user[t] # u
        BY <2>2, <3>1, <3>2 DEF Rivals
      <3>4. Rivals(t, user[t])' = {}
        BY <1>2, <2>2, <3>2, <3>3 DEF Rivals
      <3>5. Room(t)'
        BY <1>2, <1>4, <2>2, <3>2, RoomStays
      <3> QED  BY <1>2, <2>2, <3>2, <3>4, <3>5
    <2> QED  BY <2>1, <2>2
  <1> QED  BY <1>3, <1>7

\* The limit is checked.
LEMMA CheckQuotaKeeps ==
    ASSUME QuotaInv, NEW s \in Slots, CheckQuota(s), WithinQuota(s)
    PROVE  Roomy' /\ Edited' /\ Spooled'
  <1>1. SlotsRight /\ StoreTyped
    BY StoreParts DEF QuotaInv
  <1>2. /\ pc[s] = "checking" /\ pc'[s] = "streaming"
        /\ \A t \in Slots \ {s} : pc'[t] = pc[t] /\ replaced'[t] = replaced[t]
        /\ UNCHANGED <<metaVars, editVars, kind, user, batch, targets, alone>>
    BY <1>1 DEF CheckQuota, SlotsRight
  <1>3. Edited' /\ Spooled'
    BY <1>2, OthersStay
  <1>4. entries' = entries /\ entries \in Trees
    BY <1>1, <1>2 DEF metaVars, StoreTyped
  <1>5. Roomy'
    <2> SUFFICES ASSUME NEW t \in Slots, alone[t]
                 PROVE  /\ pc'[t] # "idle" /\ kind'[t] = "upload" /\ user'[t] \in Users
                        /\ Rivals(t, user[t])' = {}
                        /\ Room(t)'
      BY <1>2 DEF Roomy
    <2>1. /\ pc[t] # "idle" /\ kind[t] = "upload" /\ user[t] \in Users
          /\ Rivals(t, user[t]) = {} /\ Room(t)
      BY DEF QuotaInv, Roomy
    <2>2. Rivals(t, user[t])' = {}
      BY <1>2, <2>1 DEF Rivals
    <2>3. CASE t = s
      <3>1. batch[s] \in Batches(user[s]) /\ replaced[s] \in Nat
        BY <1>1, <2>1, <2>3 DEF SlotsRight
      <3>2. SizeAt(entries, Rest(s)) + SizeAt(batch[s], DOMAIN batch[s]) =< Quota
        BY <1>2, <1>4, <2>1, <2>3, <3>1, CheckMeans DEF Room
      <3>3. /\ SizeAt(entries, Rest(s))' = SizeAt(entries, Rest(s))
            /\ SizeAt(batch[s], DOMAIN batch[s])' = SizeAt(batch[s], DOMAIN batch[s])
        BY <1>2, <1>4 DEF SizeAt, BytesAt, Rest, Listed
      <3>4. Room(s)'
        BY <1>2, <3>2, <3>3 DEF Room
      <3> QED  BY <1>2, <2>1, <2>2, <2>3, <3>4
    <2>4. CASE t # s
      <3>1. Room(t)'
        BY <1>2, <1>4, <2>1, <2>4, RoomStays
      <3> QED  BY <1>2, <2>1, <2>2, <2>4, <3>1
    <2> QED  BY <2>3, <2>4
  <1> QED  BY <1>3, <1>5

-----------------------------------------------------------------------------
(* The edit.                                                               *)

LEMMA StreamOneKeeps ==
    ASSUME QuotaInv, NEW s \in Slots, NEW p \in Paths, StreamOne(s, p)
    PROVE  Roomy' /\ Edited' /\ Spooled'
  <1>1. SlotsRight
    BY StoreParts DEF QuotaInv
  <1>2. /\ pc[s] = "streaming" /\ pc'[s] \in {"streaming", "waiting"}
        /\ pc'[s] = "waiting" => targets'[s] = DOMAIN batch[s]
        /\ \A t \in Slots \ {s} : pc'[t] = pc[t] /\ targets'[t] = targets[t]
        /\ UNCHANGED <<metaVars, editVars, kind, user, batch, replaced, alone>>
    BY <1>1 DEF StreamOne, SlotsRight
  <1>3. Edited' /\ Spooled'
    BY <1>2, OthersStay
  <1>4. \A t \in Slots : alone[t] => pc'[t] # "idle"
    BY <1>2 DEF QuotaInv, Roomy
  <1>5. Roomy'
    BY <1>2, <1>4, RoomyStays DEF QuotaInv, metaVars
  <1> QED  BY <1>3, <1>5

\* A request ends without having held the lock.
LEMMA EndOutside ==
    ASSUME QuotaInv, NEW s \in Slots, NEW left, End(s, left),
           pc[s] \notin {"applying", "cleaning"}, UNCHANGED <<metaVars, editVars>>
    PROVE  Roomy' /\ Edited' /\ Spooled'
  <1>1. SlotsRight
    BY StoreParts DEF QuotaInv
  <1>2. pc'[s] = "idle"
    BY <1>1 DEF End, Leave, SlotsRight
  <1>3. Edited' /\ Spooled'
    BY <1>2, EndLeaves, OthersStay DEF QuotaInv
  <1>4. Roomy'
    BY EndRoomy DEF QuotaInv, metaVars
  <1> QED  BY <1>3, <1>4

\* A request ends, releases the lock and has saved nothing.
LEMMA EndInside ==
    ASSUME QuotaInv, NEW s \in Slots, NEW left, End(s, left), Release, UNCHANGED metaVars
    PROVE  Roomy' /\ Edited' /\ Spooled'
  <1>1. Edited'
    BY EditedOver DEF Release
  <1>2. Spooled'
    BY EndLeaves, SpooledStays DEF QuotaInv
  <1>3. Roomy'
    BY EndRoomy DEF QuotaInv, metaVars
  <1> QED  BY <1>1, <1>2, <1>3

LEMMA EnterUploadKeeps ==
    ASSUME QuotaInv, NEW s \in Slots, EnterUpload(s)
    PROVE  Roomy' /\ Edited' /\ Spooled'
  <1>1. SlotsRight /\ StoreTyped
    BY StoreParts DEF QuotaInv
  <1>2. /\ pc[s] = "waiting" /\ kind[s] = "upload" /\ holder' = s /\ newEntries' = entries
        /\ entries' = entries /\ pc'[s] = "applying"
        /\ \A t \in Slots \ {s} : pc'[t] = pc[t]
        /\ UNCHANGED <<kind, user, batch, targets, replaced, alone>>
    BY <1>1 DEF EnterUpload, SlotsRight, metaVars
  <1>3. targets[s] = DOMAIN batch[s]
    BY <1>2 DEF QuotaInv, Spooled
  <1>4. Edited'
    BY <1>2, <1>3 DEF Edited
  <1>5. Spooled'
    BY <1>2, SpooledStays DEF QuotaInv
  <1>6. \A t \in Slots : alone[t] => pc'[t] # "idle"
    BY <1>2 DEF QuotaInv, Roomy
  <1>7. Roomy'
    BY <1>2, <1>6, RoomyStays DEF QuotaInv
  <1> QED  BY <1>4, <1>5, <1>7

LEMMA EnterDeleteKeeps ==
    ASSUME QuotaInv, NEW s \in Slots, EnterDelete(s)
    PROVE  Roomy' /\ Edited' /\ Spooled'
  <1>1. SlotsRight /\ StoreTyped
    BY StoreParts DEF QuotaInv
  <1>2. /\ pc[s] = "waiting" /\ kind[s] \in {"delete", "erase"} /\ UNCHANGED metaVars
    BY DEF EnterDelete
  <1>3. CASE End(s, {}) /\ UNCHANGED editVars
    BY <1>2, <1>3, EndOutside
  <1>4. CASE ~(End(s, {}) /\ UNCHANGED editVars)
    <2>1. /\ holder' = s
          /\ newEntries' = [p \in Paths |-> IF p \in targets[s]
                                              THEN NoContent ELSE entries[p]]
          /\ pc' = [pc EXCEPT ![s] = "cleaning"]
          /\ kind[s] = "delete" => targets[s] \subseteq Listed(user[s], entries)
          /\ UNCHANGED <<kind, user, batch, targets, replaced, alone>>
      BY <1>4 DEF EnterDelete
    <2>2. /\ pc'[s] = "cleaning" /\ \A t \in Slots \ {s} : pc'[t] = pc[t]
          /\ entries' = entries
      BY <1>1, <1>2, <2>1 DEF SlotsRight, metaVars
    <2>3. Edited'
      <3>1. targets[s] \subseteq PathsOf(user[s])
        BY <1>1, <1>2, <2>1 DEF SlotsRight, UploadRight, Listed
      <3>2. \A p \in Paths :
              newEntries'[p] \in IF Owner[p] = user'[s] THEN {entries'[p], NoContent}
                                ELSE {entries'[p]}
        BY <2>1, <2>2, <3>1 DEF PathsOf
      <3>3. kind'[s] \notin {"upload", "move"}
        BY <1>2, <2>1
      <3> QED  BY <2>1, <3>2, <3>3 DEF Edited
    <2>4. Spooled'
      BY <2>1, <2>2, SpooledStays DEF QuotaInv
    <2>5. \A t \in Slots : alone[t] => pc'[t] # "idle"
      BY <2>2 DEF QuotaInv, Roomy
    <2>6. Roomy'
      BY <1>2, <2>1, <2>2, <2>5, RoomyStays DEF QuotaInv
    <2> QED  BY <2>3, <2>4, <2>6
  <1> QED  BY <1>3, <1>4

LEMMA EnterMoveKeeps ==
    ASSUME QuotaInv, NEW s \in Slots, EnterMove(s)
    PROVE  Roomy' /\ Edited' /\ Spooled'
  <1>1. SlotsRight
    BY StoreParts DEF QuotaInv
  <1>2. /\ pc[s] = "waiting" /\ kind[s] = "move" /\ holder' = s /\ entries' = entries
        /\ targets[s] \subseteq PathsOf(user[s])
        /\ pc'[s] = "cleaning" /\ \A t \in Slots \ {s} : pc'[t] = pc[t]
        /\ UNCHANGED <<kind, user, batch, targets, replaced, alone>>
    BY <1>1 DEF EnterMove, SlotsRight, metaVars, Listed
  <1>3. PICK to \in SUBSET PathsOf(user[s]) : \E from \in Bijection(to, targets[s]) :
          newEntries' = [p \in Paths |-> IF p \in to THEN entries[from[p]]
                                         ELSE IF p \in targets[s] THEN NoContent
                                         ELSE entries[p]]
    BY DEF EnterMove
  <1>4. PICK from \in Bijection(to, targets[s]) :
          newEntries' = [p \in Paths |-> IF p \in to THEN entries[from[p]]
                                         ELSE IF p \in targets[s] THEN NoContent
                                         ELSE entries[p]]
    BY <1>3
  <1>5. from \in Injection(to, targets[s]) /\ targets[s] \in SUBSET PathsOf(user[s])
    BY <1>2, <1>4 DEF Bijection
  <1>6. \A p \in Paths : newEntries'[p] = IF p \in to THEN entries'[from[p]]
                                          ELSE IF p \in targets[s] THEN NoContent
                                          ELSE entries'[p]
    BY <1>2, <1>4
  <1>7. MovedTotal(s)'
    <2>1. PathsOf(user[s])' = PathsOf(user[s])
      BY <1>2 DEF PathsOf
    <2> QED  BY <1>3, <1>5, <1>6, <2>1 DEF MovedTotal
  <1>8. Edited'
    BY <1>2, <1>7 DEF Edited
  <1>9. Spooled'
    BY <1>2, SpooledStays DEF QuotaInv
  <1>10. \A t \in Slots : alone[t] => pc'[t] # "idle"
    BY <1>2 DEF QuotaInv, Roomy
  <1>11. Roomy'
    BY <1>2, <1>10, RoomyStays DEF QuotaInv
  <1> QED  BY <1>8, <1>9, <1>11

LEMMA ApplyOneKeeps ==
    ASSUME QuotaInv, NEW s \in Slots, NEW p \in Paths, ApplyOne(s, p)
    PROVE  Roomy' /\ Edited' /\ Spooled'
  <1>1. SlotsRight /\ StoreTyped /\ HolderWorks
    BY StoreParts DEF QuotaInv
  <1>2. PICK c : c = batch[s][p]
    OBVIOUS
  <1>3. /\ pc[s] = "applying" /\ p \in targets[s]
        /\ IF newEntries[p] = c THEN newEntries' = newEntries
           ELSE newEntries' = [newEntries EXCEPT ![p] = c]
        /\ targets' = [targets EXCEPT ![s] = @ \ {p}]
        /\ IF targets[s] = {p} THEN pc' = [pc EXCEPT ![s] = "cleaning"] ELSE pc' = pc
        /\ entries' = entries /\ UNCHANGED <<holder, kind, user, batch, replaced, alone>>
    BY <1>2 DEF ApplyOne, metaVars
  <1>4. /\ holder = s /\ s # NoSlot /\ kind[s] = "upload" /\ p \in DOMAIN batch[s]
    BY <1>1, <1>3, FileContentAssumption DEF HolderWorks, SlotsRight, UploadRight
  <1>5. /\ targets'[s] = targets[s] \ {p} /\ pc'[s] \in {"applying", "cleaning"}
        /\ pc'[s] = "cleaning" => targets[s] = {p}
        /\ \A t \in Slots \ {s} : pc'[t] = pc[t] /\ targets'[t] = targets[t]
    BY <1>1, <1>3 DEF SlotsRight
  <1>6. \A q \in Paths : newEntries'[q] = IF q = p THEN c ELSE newEntries[q]
    BY <1>1, <1>3 DEF StoreTyped, Trees
  <1>7. \A q \in Paths : newEntries[q] = IF q \in DOMAIN batch[s] \ targets[s]
                                            THEN batch[s][q] ELSE entries[q]
    BY <1>4 DEF QuotaInv, Edited
  <1>8. \A q \in Paths : newEntries'[q] = IF q \in DOMAIN batch[s] \ targets'[s]
                                            THEN batch[s][q] ELSE entries[q]
    BY <1>2, <1>4, <1>5, <1>6, <1>7
  <1>9. Edited'
    BY <1>3, <1>4, <1>5, <1>8 DEF Edited
  <1>10. Spooled'
    BY <1>3, <1>5, SpooledStays DEF QuotaInv
  <1>11. \A t \in Slots : alone[t] => pc'[t] # "idle"
    BY <1>5 DEF QuotaInv, Roomy
  <1>12. Roomy'
    BY <1>3, <1>5, <1>11, RoomyStays DEF QuotaInv
  <1> QED  BY <1>9, <1>10, <1>12

LEMMA CleanOneKeeps ==
    ASSUME QuotaInv, NEW s \in Slots, NEW c, CleanOne(s, c)
    PROVE  Roomy' /\ Edited' /\ Spooled'
  <1>1. UNCHANGED <<entries, holder, newEntries, pc, kind, user, batch, targets, replaced,
                   alone>>
    BY DEF CleanOne, metaVars, slotVars
  <1>2. Edited' /\ Spooled'
    BY <1>1 DEF QuotaInv, Edited, Spooled, MovedTotal, PathsOf
  <1>3. \A t \in Slots : alone[t] => pc[t] # "idle"
    BY DEF QuotaInv, Roomy
  <1>4. Roomy'
    BY <1>1, <1>3, RoomyStays DEF QuotaInv
  <1> QED  BY <1>2, <1>4

\* The metadata is saved: it adds what the upload brought, or nothing.
LEMMA SavedIs ==
    ASSUME QuotaInv, NEW s \in Slots, Save(s)
    PROVE  /\ holder = s /\ entries' = newEntries /\ Leave(s, {}) /\ Release
           /\ entries \in Trees /\ newEntries \in Trees
           /\ kind[s] = "upload" =>
                 /\ batch[s] \in Batches(user[s])
                 /\ \A p \in Paths : newEntries[p] = IF p \in DOMAIN batch[s]
                                                      THEN batch[s][p] ELSE entries[p]
           /\ kind[s] = "move" => MovedTotal(s)
           /\ kind[s] \notin {"upload", "move"} =>
                 \A p \in Paths :
                    newEntries[p] \in IF Owner[p] = user[s] THEN {entries[p], NoContent}
                                     ELSE {entries[p]}
  <1>1. SlotsRight /\ StoreTyped /\ HolderWorks
    BY StoreParts DEF QuotaInv
  <1>2. /\ pc[s] = "cleaning" /\ entries' = newEntries /\ Leave(s, {}) /\ Release
    BY DEF Save
  <1>3. holder = s /\ s # NoSlot
    BY <1>1, <1>2, FileContentAssumption DEF HolderWorks
  <1>4. /\ kind[s] = "upload" =>
              /\ targets[s] = {}
              /\ \A p \in Paths : newEntries[p] = IF p \in DOMAIN batch[s] \ targets[s]
                                                   THEN batch[s][p] ELSE entries[p]
        /\ kind[s] = "move" => MovedTotal(s)
        /\ kind[s] \notin {"upload", "move"} =>
              \A p \in Paths :
                 newEntries[p] \in IF Owner[p] = user[s] THEN {entries[p], NoContent}
                                  ELSE {entries[p]}
    BY <1>2, <1>3 DEF QuotaInv, Edited
  <1> QED  BY <1>1, <1>2, <1>3, <1>4 DEF SlotsRight, StoreTyped

\* An edit saves nothing in the tree of another user.
LEMMA SavedElsewhere ==
    ASSUME QuotaInv, NEW s \in Slots, Save(s), NEW p \in Paths, Owner[p] # user[s]
    PROVE  newEntries[p] = entries[p]
  <1>1. CASE kind[s] = "upload"
    <2>1. /\ batch[s] \in Batches(user[s])
          /\ \A q \in Paths : newEntries[q] = IF q \in DOMAIN batch[s]
                                               THEN batch[s][q] ELSE entries[q]
      BY <1>1, SavedIs
    <2>2. DOMAIN batch[s] \subseteq PathsOf(user[s])
      BY <2>1, BatchListed
    <2> QED  BY <2>1, <2>2 DEF PathsOf
  <1>2. CASE kind[s] = "move"
    BY <1>2, SavedIs DEF MovedTotal, PathsOf
  <1>3. CASE kind[s] \notin {"upload", "move"}
    BY <1>3, SavedIs
  <1> QED  BY <1>1, <1>2, <1>3

\* A move keeps the bytes of its user.
LEMMA MovedBytes ==
    ASSUME NEW s \in Slots, entries \in Trees, newEntries \in Trees, MovedTotal(s)
    PROVE  Usage(user[s], newEntries) =< Usage(user[s], entries)
  <1>1. PICK u : u = user[s]
    OBVIOUS
  <1>2. PICK to \in SUBSET PathsOf(u), gone \in SUBSET PathsOf(u) :
          \E from \in Injection(to, gone) :
             \A p \in Paths : newEntries[p] = IF p \in to THEN entries[from[p]]
                                             ELSE IF p \in gone THEN NoContent
                                             ELSE entries[p]
    BY <1>1 DEF MovedTotal
  <1>3. PICK from \in Injection(to, gone) :
          \A p \in Paths : newEntries[p] = IF p \in to THEN entries[from[p]]
                                          ELSE IF p \in gone THEN NoContent
                                          ELSE entries[p]
    BY <1>2
  <1>4. /\ from \in [to -> gone] /\ \A p, q \in to : from[p] = from[q] => p = q
        /\ PathsOf(u) \subseteq Paths
    BY <1>3 DEF Injection, IsInjective, PathsOf
  <1>5. PICK old, new : old = Listed(u, entries) /\ new = Listed(u, newEntries)
    OBVIOUS
  <1>6. PICK g : g = [p \in new |-> IF p \in to THEN from[p] ELSE p]
    OBVIOUS
  <1>7. \A p \in new : g[p] \in old /\ newEntries[p] = entries[g[p]]
    BY <1>2, <1>3, <1>4, <1>5, <1>6 DEF Listed
  <1>8. \A p \in new : p \notin to => p \notin gone
    BY <1>3, <1>4, <1>5 DEF Listed
  <1>9. \A p, q \in new : g[p] = g[q] => p = q
    BY <1>4, <1>6, <1>8
  <1>10. PICK A, B : A = BytesAt(newEntries, new) /\ B = BytesAt(entries, old)
    OBVIOUS
  <1>11. PICK f : f = [b \in A |-> <<g[b[1]], b[2]>>]
    OBVIOUS
  <1>12. \A b \in A : /\ b = <<b[1], b[2]>> /\ b[1] \in new
                      /\ b[2] \in 1..Size[newEntries[b[1]]]
    BY <1>10 DEF BytesAt
  <1>13. \A b \in A : f[b] \in B
    <2> SUFFICES ASSUME NEW b \in A
                 PROVE  <<g[b[1]], b[2]>> \in B
      BY <1>11
    <2>1. g[b[1]] \in old /\ b[2] \in 1..Size[entries[g[b[1]]]]
      BY <1>7, <1>12
    <2> QED  BY <1>10, <2>1 DEF BytesAt
  <1>14. \A a, b \in A : f[a] = f[b] => a = b
    <2> SUFFICES ASSUME NEW a \in A, NEW b \in A, <<g[a[1]], a[2]>> = <<g[b[1]], b[2]>>
                 PROVE  a = b
      BY <1>11
    <2>1. g[a[1]] = g[b[1]] /\ a[2] = b[2]
      OBVIOUS
    <2>2. a[1] = b[1]
      BY <1>9, <1>12, <2>1
    <2>3. a = <<a[1], a[2]>> /\ b = <<b[1], b[2]>>
      BY <1>12
    <2> QED  BY <2>1, <2>2, <2>3
  <1>15. f \in Injection(A, B)
    BY SMTT(30), <1>11, <1>13, <1>14 DEF Injection, IsInjective
  <1>16. IsFiniteSet(B)
    <2>1. IsFiniteSet(old) /\ \A p \in old : entries[p] \in Contents
      BY <1>5, ListedFinite
    <2> QED  BY <1>10, <2>1, BytesFinite
  <1>17. Cardinality(A) =< Cardinality(B)
    BY <1>15, <1>16, FS_Injection
  <1> QED  BY <1>1, <1>5, <1>10, <1>17 DEF Usage, SizeAt

\* What a batch replaces, and what it does not, when the entries at its paths stay.
LEMMA BatchStays ==
    ASSUME NEW u, NEW b \in Batches(u), entries \in Trees, newEntries \in Trees,
           \A p \in DOMAIN b : entries[p] # NoContent => newEntries[p] = entries[p]
    PROVE  /\ SizeAt(entries, DOMAIN b \cap Listed(u, entries))
                =< SizeAt(newEntries, DOMAIN b \cap Listed(u, newEntries))
           /\ Usage(u, newEntries) =< Usage(u, entries) =>
                SizeAt(newEntries, Listed(u, newEntries) \ DOMAIN b)
                  =< SizeAt(entries, Listed(u, entries) \ DOMAIN b)
  <1>1. PICK old, new : old = Listed(u, entries) /\ new = Listed(u, newEntries)
    OBVIOUS
  <1>2. /\ IsFiniteSet(old) /\ \A p \in old : entries[p] \in Contents
        /\ IsFiniteSet(new) /\ \A p \in new : newEntries[p] \in Contents
    BY <1>1, ListedFinite
  <1>3. PICK P, Q, R, S : /\ P = DOMAIN b \cap old /\ Q = old \ DOMAIN b
                          /\ R = DOMAIN b \cap new /\ S = new \ DOMAIN b
    OBVIOUS
  <1>4. /\ P \in SUBSET old /\ Q \in SUBSET old /\ P \cap Q = {} /\ P \cup Q = old
        /\ R \in SUBSET new /\ S \in SUBSET new /\ R \cap S = {} /\ R \cup S = new
    BY <1>3
  <1>5. IsFiniteSet(P) /\ IsFiniteSet(Q) /\ IsFiniteSet(R) /\ IsFiniteSet(S)
    BY <1>2, <1>4, FS_Subset
  <1>6. P \in SUBSET R /\ \A p \in P : newEntries[p] = entries[p]
    BY <1>1, <1>3 DEF Listed
  <1>7. SizeAt(newEntries, P) =< SizeAt(newEntries, R)
    BY <1>2, <1>4, <1>5, <1>6, FewerBytes
  <1>8. SizeAt(newEntries, P) = SizeAt(entries, P)
    BY <1>6, SameBytes
  <1>9. /\ SizeAt(entries, old) = SizeAt(entries, P) + SizeAt(entries, Q)
        /\ SizeAt(newEntries, new) = SizeAt(newEntries, R) + SizeAt(newEntries, S)
    BY <1>2, <1>4, <1>5, BytesAdd
  <1>10. /\ SizeAt(entries, P) \in Nat /\ SizeAt(entries, Q) \in Nat
         /\ SizeAt(newEntries, R) \in Nat /\ SizeAt(newEntries, S) \in Nat
    BY <1>2, <1>4, <1>5, BytesFinite
  <1>11. SizeAt(newEntries, new) =< SizeAt(entries, old)
           => SizeAt(newEntries, S) =< SizeAt(entries, Q)
    BY <1>7, <1>8, <1>9, <1>10
  <1> QED  BY <1>1, <1>3, <1>7, <1>8, <1>11 DEF Usage

\* A deletion makes room.
LEMMA FewerLeft ==
    ASSUME NEW u, NEW b, entries \in Trees,
           \A p \in PathsOf(u) : newEntries[p] \in {entries[p], NoContent}
    PROVE  SizeAt(newEntries, Listed(u, newEntries) \ DOMAIN b)
             =< SizeAt(entries, Listed(u, entries) \ DOMAIN b)
  <1>1. PICK P, R : /\ P = Listed(u, entries) \ DOMAIN b
                    /\ R = Listed(u, newEntries) \ DOMAIN b
    OBVIOUS
  <1>2. R \in SUBSET P /\ \A p \in R : newEntries[p] = entries[p]
    BY <1>1 DEF Listed
  <1>3. IsFiniteSet(P) /\ \A p \in P : entries[p] \in Contents
    <2>1. /\ IsFiniteSet(Listed(u, entries))
          /\ \A p \in Listed(u, entries) : entries[p] \in Contents
      BY ListedFinite
    <2>2. P \in SUBSET Listed(u, entries)
      BY <1>1
    <2> QED  BY <2>1, <2>2, FS_Subset
  <1>4. SizeAt(newEntries, R) = SizeAt(entries, R)
    BY <1>2, SameBytes
  <1>5. SizeAt(entries, R) =< SizeAt(entries, P)
    BY <1>2, <1>3, FewerBytes
  <1> QED  BY <1>1, <1>4, <1>5

\* An upload that the edit does not upset keeps the room it has.
LEMMA SaveLeavesRoom ==
    ASSUME QuotaInv, NEW s \in Slots, Save(s), NEW t \in Slots \ {s}, alone[t],
           ~Upsets(s, t)
    PROVE  Room(t)'
  <1>1. /\ kind[t] = "upload" /\ user[t] \in Users /\ Rivals(t, user[t]) = {} /\ Room(t)
        /\ pc'[t] = pc[t] /\ user'[t] = user[t] /\ batch'[t] = batch[t]
        /\ replaced'[t] = replaced[t] /\ entries' = newEntries
        /\ entries \in Trees /\ newEntries \in Trees
    BY SavedIs, LeaveLeaves DEF QuotaInv, Roomy
  <1>2. PICK u, b : u = user[t] /\ b = batch[t]
    OBVIOUS
  <1>3. b \in Batches(u) /\ replaced[t] \in Nat
    BY <1>1, <1>2, StoreParts DEF QuotaInv, SlotsRight
  <1>4. DOMAIN b \subseteq PathsOf(u) /\ PathsOf(u) \subseteq Paths
    BY <1>3, BatchListed DEF PathsOf
  <1>5. /\ SizeAt(entries, DOMAIN batch[t] \cap Listed(user[t], entries))'
              = SizeAt(newEntries, DOMAIN b \cap Listed(u, newEntries))
        /\ SizeAt(entries, Rest(t))'
              = SizeAt(newEntries, Listed(u, newEntries) \ DOMAIN b)
        /\ SizeAt(batch[t], DOMAIN batch[t])' = SizeAt(b, DOMAIN b)
    BY <1>1, <1>2 DEF Rest, Listed, SizeAt, BytesAt
  <1>6. IsFiniteSet(Listed(u, entries)) /\ IsFiniteSet(Listed(u, newEntries))
    BY <1>1, ListedFinite
  <1>7. /\ SizeAt(entries, DOMAIN b \cap Listed(u, entries)) \in Nat
        /\ SizeAt(newEntries, DOMAIN b \cap Listed(u, newEntries)) \in Nat
        /\ SizeAt(entries, Listed(u, entries) \ DOMAIN b) \in Nat
        /\ SizeAt(newEntries, Listed(u, newEntries) \ DOMAIN b) \in Nat
        /\ SizeAt(b, DOMAIN b) \in Nat /\ Quota \in Nat
    <2>1. ASSUME NEW held \in Trees, NEW P \in SUBSET Listed(u, held)
          PROVE  SizeAt(held, P) \in Nat
      <3>1. /\ IsFiniteSet(Listed(u, held)) /\ \A p \in P : held[p] \in Contents
        BY ListedFinite
      <3>2. IsFiniteSet(P)
        BY <3>1, FS_Subset
      <3> QED  BY <3>1, <3>2, BytesFinite
    <2>2. SizeAt(b, DOMAIN b) \in Nat
      BY <1>3, BatchListed, BytesFinite
    <2> QED  BY <1>1, <2>1, <2>2, FileContentAssumption
  <1>8. CASE pc[t] = "checking"
    <2>1. \A p \in DOMAIN b : entries[p] # NoContent => newEntries[p] = entries[p]
      <3>1. CASE user[s] = u
        BY <1>1, <1>2, <1>8, <3>1 DEF Upsets
      <3>2. CASE user[s] # u
        BY <1>4, <3>2, SavedElsewhere DEF PathsOf
      <3> QED  BY <3>1, <3>2
    <2>2. SizeAt(entries, DOMAIN b \cap Listed(u, entries))
            =< SizeAt(newEntries, DOMAIN b \cap Listed(u, newEntries))
      BY <1>1, <1>3, <2>1, BatchStays
    <2>3. replaced[t] =< SizeAt(entries, DOMAIN b \cap Listed(u, entries))
      BY <1>1, <1>2, <1>8 DEF Room
    <2>4. replaced[t] =< SizeAt(newEntries, DOMAIN b \cap Listed(u, newEntries))
      BY <1>3, <1>7, <2>2, <2>3
    <2> QED  BY <1>1, <1>5, <1>8, <2>4 DEF Room
  <1>9. CASE pc[t] # "checking"
    <2>1. SizeAt(entries, Listed(u, entries) \ DOMAIN b) + SizeAt(b, DOMAIN b) =< Quota
      BY <1>1, <1>2, <1>9 DEF Room, Rest
    <2>2. SizeAt(newEntries, Listed(u, newEntries) \ DOMAIN b)
            =< SizeAt(entries, Listed(u, entries) \ DOMAIN b)
      <3>1. CASE user[s] # u
        <4>1. \A p \in PathsOf(u) : newEntries[p] = entries[p]
          BY <3>1, SavedElsewhere DEF PathsOf
        <4> QED  BY <1>1, <4>1, FewerLeft
      <3>2. CASE user[s] = u /\ kind[s] = "move"
        <4>1. \A p \in DOMAIN b : entries[p] # NoContent => newEntries[p] = entries[p]
          BY <1>1, <1>2, <3>2 DEF Upsets
        <4>2. Usage(u, newEntries) =< Usage(u, entries)
          BY <1>1, <3>2, SavedIs, MovedBytes
        <4> QED  BY <1>1, <1>3, <4>1, <4>2, BatchStays
      <3>3. CASE user[s] = u /\ kind[s] # "move"
        <4>1. kind[s] # "upload"
          BY <1>1, <1>2, <3>3 DEF Rivals
        <4>2. \A p \in PathsOf(u) : newEntries[p] \in {entries[p], NoContent}
          BY <3>3, <4>1, SavedIs DEF PathsOf
        <4> QED  BY <1>1, <4>2, FewerLeft
      <3> QED  BY <3>1, <3>2, <3>3
    <2>3. SizeAt(newEntries, Listed(u, newEntries) \ DOMAIN b) + SizeAt(b, DOMAIN b) =< Quota
      BY <1>7, <2>1, <2>2
    <2> QED  BY <1>1, <1>5, <1>9, <2>3 DEF Room
  <1> QED  BY <1>8, <1>9

LEMMA SaveKeeps ==
    ASSUME QuotaInv, NEW s \in Slots, Save(s)
    PROVE  Roomy' /\ Edited' /\ Spooled'
  <1>1. Leave(s, {}) /\ Release
    BY SavedIs
  <1>2. Edited'
    BY <1>1, EditedOver DEF Release
  <1>3. /\ kind'[s] = "none"
        /\ \A t \in Slots \ {s} :
              /\ kind'[t] = kind[t] /\ user'[t] = user[t] /\ batch'[t] = batch[t]
              /\ pc'[t] = pc[t] /\ targets'[t] = targets[t]
    BY <1>1, LeaveLeaves DEF QuotaInv
  <1>4. Spooled'
    BY <1>3, SpooledStays DEF QuotaInv
  <1>5. Roomy'
    <2> SUFFICES ASSUME NEW t \in Slots, alone'[t]
                 PROVE  /\ pc'[t] # "idle" /\ kind'[t] = "upload" /\ user'[t] \in Users
                        /\ Rivals(t, user[t])' = {}
                        /\ Room(t)'
      BY DEF Roomy
    <2>1. t # s /\ alone[t] /\ ~Upsets(s, t)
      BY DEF Save
    <2>2. /\ pc[t] # "idle" /\ kind[t] = "upload" /\ user[t] \in Users
          /\ Rivals(t, user[t]) = {}
      BY <2>1 DEF QuotaInv, Roomy
    <2>3. Rivals(t, user[t])' = {}
      BY <1>3, <2>1, <2>2 DEF Rivals
    <2>4. Room(t)'
      BY <2>1, SaveLeavesRoom
    <2> QED  BY <1>3, <2>1, <2>2, <2>3, <2>4
  <1> QED  BY <1>2, <1>4, <1>5

\* What the upload saves is what it left alone and what it brought.
LEMMA SaveFits ==
    ASSUME QuotaInv, NEW s \in Slots, Save(s), alone[s]
    PROVE  Usage(user[s], newEntries) =< Quota
  <1>1. PICK u, b, P : /\ u = user[s] /\ b = batch[s]
                       /\ P = Listed(u, entries) \ DOMAIN b
    OBVIOUS
  <1>2. kind[s] = "upload" /\ SizeAt(entries, P) + SizeAt(b, DOMAIN b) =< Quota
    BY <1>1 DEF QuotaInv, Roomy, Room, Rest, Save
  <1>3. /\ entries \in Trees /\ newEntries \in Trees /\ b \in Batches(u)
        /\ \A p \in Paths : newEntries[p] = IF p \in DOMAIN b THEN b[p] ELSE entries[p]
    BY <1>1, <1>2, SavedIs
  <1>4. /\ DOMAIN b \subseteq PathsOf(u) /\ IsFiniteSet(DOMAIN b)
        /\ \A p \in DOMAIN b : b[p] \in Contents
    BY <1>3, BatchListed
  <1>5. /\ IsFiniteSet(Listed(u, entries)) /\ Listed(u, entries) \subseteq PathsOf(u)
        /\ \A p \in Listed(u, entries) : entries[p] \in Contents
    BY <1>3, ListedFinite
  <1>6. /\ IsFiniteSet(P) /\ P \cap DOMAIN b = {} /\ P \subseteq Listed(u, entries)
    BY <1>1, <1>5, FS_Subset
  <1>7. Listed(u, newEntries) = P \cup DOMAIN b
    BY <1>1, <1>3, <1>4, FileContentAssumption DEF Listed, PathsOf
  <1>8. /\ \A p \in P : newEntries[p] = entries[p]
        /\ \A p \in DOMAIN b : newEntries[p] = b[p]
    BY <1>3, <1>4, <1>5, <1>6 DEF PathsOf
  <1>9. SizeAt(newEntries, P \cup DOMAIN b)
          = SizeAt(newEntries, P) + SizeAt(newEntries, DOMAIN b)
    BY <1>4, <1>5, <1>6, <1>8, BytesAdd
  <1>10. /\ SizeAt(newEntries, P) = SizeAt(entries, P)
         /\ SizeAt(newEntries, DOMAIN b) = SizeAt(b, DOMAIN b)
    BY <1>8, SameBytes
  <1> QED  BY <1>1, <1>2, <1>7, <1>9, <1>10 DEF Usage

-----------------------------------------------------------------------------
\* A step keeps the invariant; and only Save changes the entries.
LEMMA QuotaStep ==
    ASSUME QuotaInv, NEW s \in Slots,
           \/ \E u \in Users :
                \/ \E b \in Batches(u) : BeginUpload(s, u, b)
                \/ \E P \in Selections(u) : BeginDelete(s, u, P) \/ BeginMove(s, u, P)
                \/ BeginErase(s, u)
                \/ \E p \in PathsOf(u) : BeginRead(s, u, p)
           \/ \E p \in Paths : StreamOne(s, p) \/ ApplyOne(s, p)
           \/ CheckQuota(s)
           \/ EnterUpload(s) \/ EnterDelete(s) \/ EnterMove(s) \/ TurnAway(s)
           \/ \E c \in Contents : CleanOne(s, c) \/ CleanFails(s, c)
           \/ Save(s) \/ Open(s)
           \/ StreamFails(s) \/ ApplyFails(s) \/ SaveFails(s) \/ Crash(s)
    PROVE  /\ Roomy' /\ Edited' /\ Spooled'
           /\ entries' # entries => Save(s)
  <1>1. ASSUME NEW u \in Users, NEW b \in Batches(u), BeginUpload(s, u, b)
        PROVE  Roomy' /\ Edited' /\ Spooled' /\ entries' = entries
    BY <1>1, BeginUploadKeeps DEF BeginUpload, metaVars
  <1>2. ASSUME NEW u \in Users,
               \/ \E P \in Selections(u) : BeginDelete(s, u, P) \/ BeginMove(s, u, P)
               \/ BeginErase(s, u)
               \/ \E p \in PathsOf(u) : BeginRead(s, u, p)
        PROVE  Roomy' /\ Edited' /\ Spooled' /\ entries' = entries
    BY <1>2, BeginKeeps DEF BeginDelete, BeginMove, BeginErase, BeginRead, metaVars
  <1>3. ASSUME NEW p \in Paths, StreamOne(s, p) \/ ApplyOne(s, p)
        PROVE  Roomy' /\ Edited' /\ Spooled' /\ entries' = entries
    BY <1>3, StreamOneKeeps, ApplyOneKeeps DEF StreamOne, ApplyOne, metaVars
  <1>4. CASE EnterUpload(s) \/ EnterDelete(s) \/ EnterMove(s)
    BY <1>4, EnterUploadKeeps, EnterDeleteKeeps, EnterMoveKeeps
       DEF EnterUpload, EnterDelete, EnterMove, metaVars
  <1>5. ASSUME NEW c \in Contents, CleanOne(s, c)
        PROVE  Roomy' /\ Edited' /\ Spooled' /\ entries' = entries
    BY <1>5, CleanOneKeeps DEF CleanOne, metaVars
  <1>6. ASSUME NEW left, End(s, left) /\ Release /\ UNCHANGED metaVars
        PROVE  Roomy' /\ Edited' /\ Spooled' /\ entries' = entries
    BY <1>6, EndInside DEF metaVars
  <1>7. ASSUME NEW left, End(s, left), pc[s] \notin {"applying", "cleaning"},
               UNCHANGED <<metaVars, editVars>>
        PROVE  Roomy' /\ Edited' /\ Spooled' /\ entries' = entries
    BY <1>7, EndOutside DEF metaVars
  <1>8. ASSUME NEW c \in Contents, CleanFails(s, c)
        PROVE  Roomy' /\ Edited' /\ Spooled' /\ entries' = entries
    BY <1>6, <1>8 DEF CleanFails, RollBack, CutShort
  <1>9. CASE ApplyFails(s) \/ SaveFails(s)
    BY <1>6, <1>9 DEF ApplyFails, SaveFails, RollBack, CutShort
  <1>10. CASE StreamFails(s) \/ Open(s) \/ TurnAway(s)
    BY <1>7, <1>10 DEF StreamFails, Open, TurnAway
  <1>11. CASE Crash(s)
    <2>1. CASE holder = s
      BY <1>6, <1>11, <2>1 DEF Crash, CutShort
    <2>2. CASE holder # s
      <3>1. pc[s] \notin {"applying", "cleaning"}
        BY <2>2, StoreParts DEF QuotaInv, HolderWorks
      <3> QED  BY <1>7, <1>11, <2>2, <3>1 DEF Crash
    <2> QED  BY <2>1, <2>2
  <1>12. CASE Save(s)
    BY <1>12, SaveKeeps
  <1>13. CASE CheckQuota(s)
    <2>1. CASE WithinQuota(s)
      BY <1>13, <2>1, CheckQuotaKeeps DEF CheckQuota, metaVars
    <2>2. CASE ~WithinQuota(s)
      BY <1>7, <1>13, <2>2 DEF CheckQuota
    <2> QED  BY <2>1, <2>2
  <1> QED  BY <1>1, <1>2, <1>3, <1>4, <1>5, <1>8, <1>9, <1>10, <1>11, <1>12, <1>13

\* UploadAloneKeepsQuota for every number of requests, users, paths and contents of
\* any size: an upload that no other upload of its user ran beside leaves the user
\* within the limit, whatever was deleted, moved or lost to failures between the first
\* load of its check and its save; unless a move took an entry that it replaces to
\* another path, or one was deleted between the two loads and so deducted twice.
THEOREM LoneUploadsFit == Spec => UploadAloneKeepsQuota
  <1>1. Init => Roomy /\ Edited /\ Spooled
    BY DEF Init, Roomy, Edited, Spooled
  <1>2. QuotaInv /\ [Next]_vars => (Roomy /\ Edited /\ Spooled)'
    <2> SUFFICES ASSUME QuotaInv, [Next]_vars
                 PROVE  Roomy' /\ Edited' /\ Spooled'
      OBVIOUS
    <2>1. CASE Next
      BY <2>1, QuotaStep DEF Next
    <2>2. CASE UNCHANGED vars
      <3>1. UNCHANGED <<entries, holder, newEntries, pc, kind, user, batch, targets, replaced,
                        alone>>
        BY <2>2 DEF vars, metaVars, editVars, slotVars
      <3>2. Edited' /\ Spooled'
        BY <3>1 DEF QuotaInv, Edited, Spooled, MovedTotal, PathsOf
      <3>3. \A t \in Slots : alone[t] => pc[t] # "idle"
        BY DEF QuotaInv, Roomy
      <3>4. Roomy'
        BY <3>1, <3>3, RoomyStays DEF QuotaInv
      <3> QED  BY <3>2, <3>4
    <2> QED  BY <2>1, <2>2
  <1>3. QuotaInv /\ [Next]_vars =>
          [\A s \in Slots : holder = s /\ alone[s] /\ entries' # entries
              => Usage(user[s], entries') =< Quota]_vars
    <2> SUFFICES ASSUME QuotaInv, Next, NEW s \in Slots, holder = s, alone[s],
                        entries' # entries
                 PROVE  Usage(user[s], entries') =< Quota
      OBVIOUS
    <2>1. PICK t \in Slots : Save(t)
      BY QuotaStep DEF Next
    <2>2. t = s /\ entries' = newEntries
      BY <2>1, SavedIs
    <2> QED  BY <2>1, <2>2, SaveFits
  <1> QED  BY <1>1, <1>2, <1>3, StoreInvariant, PTL DEF Spec, QuotaInv, UploadAloneKeepsQuota

-----------------------------------------------------------------------------
\* Paths, name by name: a path is within another one that it begins with.
LEMMA WithinNames ==
    ASSUME NEW p \in Seq(Names), NEW q \in Seq(Names)
    PROVE  /\ Within(p, q) <=> Len(q) < Len(p) /\ \A i \in 1..Len(q) : p[i] = q[i]
           /\ AtOrWithin(p, q) <=> Len(q) =< Len(p) /\ \A i \in 1..Len(q) : p[i] = q[i]
  <1>1. Len(p) \in Nat /\ Len(q) \in Nat
    OBVIOUS
  <1>2. ASSUME Len(q) =< Len(p)
        PROVE  (SubSeq(q, 1, Len(q)) = SubSeq(p, 1, Len(q)))
                 <=> \A i \in 1..Len(q) : p[i] = q[i]
    <2>1. \A i \in 1..Len(q) : q[i] \in Names /\ p[i] \in Names
      BY <1>1, <1>2, ElementOfSeq
    <2>2. /\ SubSeq(q, 1, Len(q)) \in Seq(Names) /\ Len(SubSeq(q, 1, Len(q))) = Len(q)
          /\ \A i \in 1..Len(q) : SubSeq(q, 1, Len(q))[i] = q[i]
      BY <1>1, <2>1, SubSeqProperties
    <2>3. /\ SubSeq(p, 1, Len(q)) \in Seq(Names) /\ Len(SubSeq(p, 1, Len(q))) = Len(q)
          /\ \A i \in 1..Len(q) : SubSeq(p, 1, Len(q))[i] = p[i]
      BY <1>1, <2>1, SubSeqProperties
    <2> QED  BY <2>2, <2>3, SeqEqual
  <1>3. Len(p) = Len(q) /\ (\A i \in 1..Len(q) : p[i] = q[i]) <=> p = q
    BY SeqEqual
  <1>4. Within(p, q) <=> Len(q) =< Len(p) /\ (\A i \in 1..Len(q) : p[i] = q[i]) /\ p # q
    BY <1>2 DEF Within, IsStrictPrefix, IsPrefix
  <1> QED  BY <1>1, <1>3, <1>4 DEF AtOrWithin

\* The directories above a path are the paths it is within, but for the root.
LEMMA ParentsAbove ==
    ASSUME NEW p \in Seq(Names)
    PROVE  \A q : q \in ParentFolders(p) <=> q \in Seq(Names) /\ 0 < Len(q) /\ Within(p, q)
  <1>1. Len(p) \in Nat
    OBVIOUS
  <1>2. ASSUME NEW n \in 0..Len(p)
        PROVE  /\ SubSeq(p, 1, n) \in Seq(Names) /\ Len(SubSeq(p, 1, n)) = n
               /\ \A i \in 1..n : SubSeq(p, 1, n)[i] = p[i]
    <2>1. \A i \in 1..n : p[i] \in Names
      BY ElementOfSeq
    <2> QED  BY <1>1, <2>1, SubSeqProperties
  <1>3. ASSUME NEW q, q \in ParentFolders(p)
        PROVE  q \in Seq(Names) /\ 0 < Len(q) /\ Within(p, q)
    <2>1. PICK n \in 1..(Len(p) - 1) : q = SubSeq(p, 1, n)
      BY <1>3 DEF ParentFolders
    <2>2. /\ q \in Seq(Names) /\ Len(q) = n /\ n < Len(p) /\ 0 < n
          /\ \A i \in 1..n : q[i] = p[i]
      BY <1>1, <1>2, <2>1
    <2> QED  BY <2>2, WithinNames
  <1>4. ASSUME NEW q, q \in Seq(Names), 0 < Len(q), Within(p, q)
        PROVE  q \in ParentFolders(p)
    <2>1. Len(q) < Len(p) /\ \A i \in 1..Len(q) : p[i] = q[i]
      BY <1>4, WithinNames
    <2>2. Len(q) \in 1..(Len(p) - 1)
      BY <1>1, <1>4, <2>1
    <2>3. q = SubSeq(p, 1, Len(q))
      BY <1>2, <1>4, <2>1, <2>2, SeqEqual
    <2> QED  BY <2>2, <2>3 DEF ParentFolders
  <1> QED  BY <1>3, <1>4

\* The directories above one that is above a path are above the path.
LEMMA ParentsOfParents ==
    ASSUME NEW p \in Seq(Names), NEW q \in ParentFolders(p)
    PROVE  q \in Seq(Names) /\ ParentFolders(q) \subseteq ParentFolders(p)
  <1>1. q \in Seq(Names) /\ Within(p, q)
    BY ParentsAbove
  <1>2. ASSUME NEW r \in ParentFolders(q)
        PROVE  r \in ParentFolders(p)
    <2>1. r \in Seq(Names) /\ 0 < Len(r) /\ Within(q, r)
      BY <1>1, ParentsAbove
    <2>2. /\ Len(q) < Len(p) /\ \A i \in 1..Len(q) : p[i] = q[i]
      BY <1>1, WithinNames
    <2>3. /\ Len(r) < Len(q) /\ \A i \in 1..Len(r) : q[i] = r[i]
      BY <1>1, <2>1, WithinNames
    <2>4. Len(r) < Len(p) /\ \A i \in 1..Len(r) : p[i] = r[i]
      BY <1>1, <2>1, <2>2, <2>3
    <2>5. Within(p, r)
      BY <2>1, <2>4, WithinNames
    <2> QED  BY <2>1, <2>5, ParentsAbove
  <1> QED  BY <1>1, <1>2

\* What is below a directory that is at or within `top` is within it too.
LEMMA BelowStays ==
    ASSUME NEW p \in Seq(Names), NEW q \in ParentFolders(p), NEW top \in Seq(Names),
           AtOrWithin(q, top)
    PROVE  AtOrWithin(p, top)
  <1>1. q \in Seq(Names) /\ Within(p, q)
    BY ParentsAbove
  <1>2. /\ Len(q) < Len(p) /\ \A i \in 1..Len(q) : p[i] = q[i]
    BY <1>1, WithinNames
  <1>3. /\ Len(top) =< Len(q) /\ \A i \in 1..Len(top) : q[i] = top[i]
    BY <1>1, WithinNames
  <1>4. /\ Len(top) =< Len(p) /\ \A i \in 1..Len(top) : p[i] = top[i]
    BY <1>1, <1>2, <1>3
  <1> QED  BY <1>4, WithinNames

\* Of two directories that a path is at or within, one is at or within the other.
LEMMA PrefixesAgree ==
    ASSUME NEW p \in Seq(Names), NEW q \in Seq(Names), NEW r \in Seq(Names),
           AtOrWithin(p, q), AtOrWithin(p, r)
    PROVE  q = r \/ Within(q, r) \/ Within(r, q)
  <1>1. /\ Len(q) =< Len(p) /\ \A i \in 1..Len(q) : p[i] = q[i]
        /\ Len(r) =< Len(p) /\ \A i \in 1..Len(r) : p[i] = r[i]
    BY WithinNames
  <1>2. CASE Len(q) = Len(r)
    BY <1>1, <1>2, SeqEqual
  <1>3. Len(q) \in Nat /\ Len(r) \in Nat
    OBVIOUS
  <1>4. CASE Len(r) < Len(q)
    <2>1. ASSUME NEW i \in 1..Len(r)
          PROVE  q[i] = r[i]
      <3>1. i \in 1..Len(q)
        BY <1>3, <1>4
      <3> QED  BY <1>1, <3>1
    <2> QED  BY <1>4, <2>1, WithinNames
  <1>5. CASE Len(q) < Len(r)
    <2>1. ASSUME NEW i \in 1..Len(q)
          PROVE  r[i] = q[i]
      <3>1. i \in 1..Len(r)
        BY <1>3, <1>5
      <3> QED  BY <1>1, <3>1
    <2> QED  BY <1>5, <2>1, WithinNames
  <1> QED  BY <1>3, <1>2, <1>4, <1>5

\* A path that moves, name by name.
LEMMA RelocateNames ==
    ASSUME NEW p \in Seq(Names), NEW s \in Seq(Names), NEW t \in Seq(Names),
           Len(s) =< Len(p)
    PROVE  /\ Relocate(p, s, t) \in Seq(Names)
           /\ Len(Relocate(p, s, t)) = Len(t) + Len(p) - Len(s)
           /\ \A i \in 1..Len(t) : Relocate(p, s, t)[i] = t[i]
           /\ \A i \in 1..(Len(p) - Len(s)) :
                Relocate(p, s, t)[Len(t) + i] = p[Len(s) + i]
  <1>1. PICK d : d = SubSeq(p, Len(s) + 1, Len(p))
    OBVIOUS
  <1>2. Len(p) \in Nat /\ Len(s) \in Nat /\ Len(t) \in Nat
    OBVIOUS
  <1>3. \A i \in (Len(s) + 1)..Len(p) : p[i] \in Names
    BY <1>2, ElementOfSeq
  <1>4. /\ d \in Seq(Names) /\ Len(d) = Len(p) - Len(s)
        /\ \A i \in 1..(Len(p) - Len(s)) : d[i] = p[Len(s) + i]
    <2>1. /\ d \in Seq(Names)
          /\ Len(d) = IF Len(s) + 1 <= Len(p) THEN Len(p) - (Len(s) + 1) + 1 ELSE 0
          /\ \A i \in 1 .. Len(p) - (Len(s) + 1) + 1 : d[i] = p[(Len(s) + 1) + i - 1]
      BY <1>1, <1>2, <1>3, SubSeqProperties
    <2>2. Len(d) = Len(p) - Len(s)
      BY <1>2, <2>1
    <2>3. ASSUME NEW i \in 1..(Len(p) - Len(s))
          PROVE  d[i] = p[Len(s) + i]
      <3>1. i \in 1 .. Len(p) - (Len(s) + 1) + 1 /\ (Len(s) + 1) + i - 1 = Len(s) + i
        BY <1>2
      <3> QED  BY <2>1, <3>1
    <2> QED  BY <2>1, <2>2, <2>3
  <1>5. /\ Relocate(p, s, t) \in Seq(Names)
        /\ Len(Relocate(p, s, t)) = Len(t) + Len(d)
        /\ \A i \in 1..(Len(t) + Len(d)) :
              Relocate(p, s, t)[i] = IF i <= Len(t) THEN t[i] ELSE d[i - Len(t)]
    BY SMTT(30), <1>1, <1>4, ConcatProperties DEF Relocate
  <1>6. ASSUME NEW i \in 1..(Len(p) - Len(s))
        PROVE  Relocate(p, s, t)[Len(t) + i] = p[Len(s) + i]
    <2>1. Len(t) + i \in 1..(Len(t) + Len(d)) /\ ~(Len(t) + i <= Len(t))
          /\ (Len(t) + i) - Len(t) = i
      BY <1>2, <1>4
    <2> QED  BY <1>4, <1>5, <2>1
  <1>7. Len(Relocate(p, s, t)) = Len(t) + Len(p) - Len(s)
    BY <1>2, <1>4, <1>5
  <1>8. ASSUME NEW i \in 1..Len(t)
        PROVE  Relocate(p, s, t)[i] = t[i]
    <2>1. i \in 1..(Len(t) + Len(d)) /\ i <= Len(t)
      BY <1>2, <1>4
    <2> QED  BY <1>5, <2>1
  <1> QED  BY <1>5, <1>6, <1>7, <1>8

\* Two paths that move from one place to another stay apart.
LEMMA RelocateApart ==
    ASSUME NEW p \in Seq(Names), NEW q \in Seq(Names), NEW s \in Seq(Names),
           NEW t \in Seq(Names), AtOrWithin(p, s), AtOrWithin(q, s),
           Relocate(p, s, t) = Relocate(q, s, t)
    PROVE  p = q
  <1>1. /\ Len(s) =< Len(p) /\ \A i \in 1..Len(s) : p[i] = s[i]
        /\ Len(s) =< Len(q) /\ \A i \in 1..Len(s) : q[i] = s[i]
    BY WithinNames
  <1>2. Len(p) \in Nat /\ Len(q) \in Nat /\ Len(s) \in Nat /\ Len(t) \in Nat
    OBVIOUS
  <1>3. /\ Len(Relocate(p, s, t)) = Len(t) + Len(p) - Len(s)
        /\ \A i \in 1..(Len(p) - Len(s)) :
              Relocate(p, s, t)[Len(t) + i] = p[Len(s) + i]
    BY ZenonT(40), <1>1, RelocateNames
  <1>4. /\ Len(Relocate(q, s, t)) = Len(t) + Len(q) - Len(s)
        /\ \A i \in 1..(Len(q) - Len(s)) :
              Relocate(q, s, t)[Len(t) + i] = q[Len(s) + i]
    BY ZenonT(40), <1>1, RelocateNames
  <1>5. Len(p) = Len(q)
    BY <1>2, <1>3, <1>4
  <1>6. \A i \in 1..(Len(p) - Len(s)) : p[Len(s) + i] = q[Len(s) + i]
    BY <1>5, <1>3, <1>4
  <1>7. ASSUME NEW i \in 1..Len(p)
        PROVE  p[i] = q[i]
    <2>1. CASE i =< Len(s)
      BY <1>1, <2>1
    <2>2. CASE i > Len(s)
      <3>1. i - Len(s) \in 1..(Len(p) - Len(s)) /\ Len(s) + (i - Len(s)) = i
        BY <2>2
      <3> QED  BY <1>6, <3>1
    <2> QED  BY <2>1, <2>2
  <1> QED  BY <1>5, <1>7, SeqEqual

\* A directory above a path that has moved is above its target, or has moved too.
LEMMA ParentsMove ==
    ASSUME NEW p \in Seq(Names), NEW s \in Seq(Names), NEW t \in Seq(Names),
           0 < Len(s), AtOrWithin(p, s), NEW r \in ParentFolders(Relocate(p, s, t))
    PROVE  \/ r \in ParentFolders(t)
           \/ \E q \in ParentFolders(p) : AtOrWithin(q, s) /\ r = Relocate(q, s, t)
  <1>1. Len(s) =< Len(p) /\ \A i \in 1..Len(s) : p[i] = s[i]
    BY WithinNames
  <1>2. PICK m : m = Relocate(p, s, t)
    OBVIOUS
  <1>3. /\ m \in Seq(Names) /\ Len(m) = Len(t) + Len(p) - Len(s)
        /\ \A i \in 1..Len(t) : m[i] = t[i]
        /\ \A i \in 1..(Len(p) - Len(s)) : m[Len(t) + i] = p[Len(s) + i]
    <2>1. /\ Relocate(p, s, t) \in Seq(Names)
          /\ Len(Relocate(p, s, t)) = Len(t) + Len(p) - Len(s)
          /\ \A i \in 1..Len(t) : Relocate(p, s, t)[i] = t[i]
          /\ \A i \in 1..(Len(p) - Len(s)) :
                Relocate(p, s, t)[Len(t) + i] = p[Len(s) + i]
      BY ZenonT(40), <1>1, RelocateNames
    <2> QED  BY <1>2, <2>1
  <1>4. /\ r \in Seq(Names) /\ 0 < Len(r) /\ Len(r) < Len(m)
        /\ \A i \in 1..Len(r) : m[i] = r[i]
    BY <1>2, <1>3, ParentsAbove, WithinNames
  <1>5. CASE Len(r) < Len(t)
    <2>1. \A i \in 1..Len(r) : t[i] = r[i]
      BY <1>3, <1>4, <1>5
    <2> QED  BY <1>4, <1>5, <2>1, WithinNames, ParentsAbove
  <1>6. CASE Len(t) =< Len(r)
    <2>1. PICK n : n = Len(r) - Len(t) + Len(s)
      OBVIOUS
    <2>2. n \in 1..(Len(p) - 1) /\ Len(s) =< n /\ n \in Nat
      BY <1>1, <1>3, <1>4, <1>6, <2>1
    <2>3. PICK q : q = SubSeq(p, 1, n)
      OBVIOUS
    <2>4. q \in Seq(Names) /\ Len(q) = n /\ \A i \in 1..n : q[i] = p[i]
      <3>1. \A i \in 1..n : p[i] \in Names
        BY <2>2, ElementOfSeq
      <3> QED  BY <2>2, <2>3, <3>1, SubSeqProperties
    <2>5. q \in ParentFolders(p)
      BY <2>2, <2>3 DEF ParentFolders
    <2>6. AtOrWithin(q, s)
      <3>1. \A i \in 1..Len(s) : q[i] = s[i]
        BY <1>1, <2>2, <2>4
      <3> QED  BY <2>2, <2>4, <3>1, WithinNames
    <2>7. /\ Relocate(q, s, t) \in Seq(Names)
          /\ Len(Relocate(q, s, t)) = Len(t) + n - Len(s)
          /\ \A i \in 1..Len(t) : Relocate(q, s, t)[i] = t[i]
          /\ \A i \in 1..(n - Len(s)) : Relocate(q, s, t)[Len(t) + i] = q[Len(s) + i]
      BY ZenonT(40), <2>2, <2>4, RelocateNames
    <2>8. Len(r) = Len(t) + n - Len(s) /\ n - Len(s) = Len(r) - Len(t)
      BY <2>1
    <2>9. ASSUME NEW i \in 1..Len(r)
          PROVE  r[i] = Relocate(q, s, t)[i]
      <3>1. CASE i =< Len(t)
        BY <1>3, <1>4, <2>7, <3>1
      <3>2. CASE i > Len(t)
        <4>1. PICK k : k = i - Len(t)
          OBVIOUS
        <4>2. /\ k \in 1..(n - Len(s)) /\ Len(t) + k = i /\ Len(s) + k \in 1..n
              /\ k \in 1..(Len(p) - Len(s))
          BY <2>2, <2>8, <3>2, <4>1
        <4>3. r[i] = p[Len(s) + k]
          BY <1>3, <1>4, <4>2
        <4>4. Relocate(q, s, t)[i] = p[Len(s) + k]
          BY <2>4, <2>7, <4>2
        <4> QED  BY <4>3, <4>4
      <3> QED  BY <3>1, <3>2
    <2>10. r = Relocate(q, s, t)
      BY <1>4, <2>7, <2>8, <2>9, SeqEqual
    <2> QED  BY <2>5, <2>6, <2>10
  <1> QED  BY <1>4, <1>5, <1>6

\* The paths of a tree.
LEMMA TreePathsAre ==
    \A p : p \in TreePaths <=> p \in Seq(Names) /\ 0 < Len(p) /\ Len(p) =< MaxDepth
  <1>1. ASSUME NEW p, p \in TreePaths
        PROVE  p \in Seq(Names) /\ 0 < Len(p) /\ Len(p) =< MaxDepth
    <2>1. PICK n \in 1..MaxDepth : p \in [1..n -> Names]
      BY <1>1 DEF TreePaths
    <2>2. n \in Nat /\ 0 < n /\ n =< MaxDepth
      BY FileTreeAssumption
    <2>3. p \in Seq(Names)
      BY <2>1, <2>2, SeqDef
    <2>4. Len(p) = n
      BY <2>1, <2>2, <2>3
    <2> QED  BY <2>2, <2>3, <2>4
  <1>2. ASSUME NEW p, p \in Seq(Names), 0 < Len(p), Len(p) =< MaxDepth
        PROVE  p \in TreePaths
    <2>1. p \in [1..Len(p) -> Names] /\ Len(p) \in Nat
      BY <1>2, LenProperties
    <2>2. Len(p) \in 1..MaxDepth
      BY <1>2, <2>1, FileTreeAssumption
    <2> QED  BY <2>1, <2>2 DEF TreePaths
  <1> QED  BY <1>1, <1>2

\* The parents of a tree's paths are its paths too.
LEMMA ParentPaths ==
    ASSUME NEW p \in TreePaths
    PROVE  /\ ParentFolders(p) \subseteq TreePaths
           /\ \A q \in ParentFolders(p) : ParentFolders(q) \subseteq ParentFolders(p)
  <1>1. p \in Seq(Names) /\ Len(p) =< MaxDepth /\ Len(p) \in Nat
    BY TreePathsAre
  <1>2. ASSUME NEW q \in ParentFolders(p)
        PROVE  q \in TreePaths
    <2>1. q \in Seq(Names) /\ 0 < Len(q) /\ Within(p, q)
      BY <1>1, ParentsAbove
    <2>2. Len(q) < Len(p) /\ Len(q) \in Nat
      BY <1>1, <2>1, WithinNames
    <2>3. Len(q) =< MaxDepth
      BY <1>1, <2>2, FileTreeAssumption
    <2> QED  BY <2>1, <2>3, TreePathsAre
  <1> QED  BY <1>1, <1>2, ParentsOfParents

\* An entry of the tree.
Entries == [path : TreePaths, crc : Crcs]

\* The directories above the paths F are among D, and so are those above them.
Closed(F, D) == \A p \in F \cup D : ParentFolders(p) \subseteq D

\* What holds between any two operations on a tree.
TreeInv ==
    /\ files \subseteq Entries /\ IsFiniteSet(files)
    /\ folders \subseteq TreePaths
    /\ UniquePaths /\ Closed(EntryPaths, folders)

\* The invariant of the tree is at least as strong as TreeSound.
LEMMA TreeInvSound ==
    TreeInv /\ served \in {"none", "save", "delete", "create", "move"} => TreeSound
  BY DEF TreeInv, Entries, TreeSound, TreeTypeOK, ParentsListed, Closed

\* What Become does.
LEMMA Becoming ==
    ASSUME NEW request, NEW newFiles, NEW newFolders, Become(request, newFiles, newFolders)
    PROVE  /\ served' = request /\ files' = newFiles /\ folders' = newFolders
           /\ \A e \in files' : Len(e.path) =< MaxDepth
           /\ \A f \in folders' : Len(f) =< MaxDepth
  BY DEF Become, Fits

\* Entries and folders that stay, and those that are added, are a tree.
LEMMA Changed ==
    ASSUME files' \subseteq Entries, IsFiniteSet(files'), folders' \subseteq TreePaths,
           \A d, e \in files' : d.path = e.path => d = e,
           \A e \in files' : ParentFolders(e.path) \subseteq folders',
           \A f \in folders' : ParentFolders(f) \subseteq folders'
    PROVE  TreeInv'
  BY DEF TreeInv, UniquePaths, Closed, EntryPaths

\* Saving files, and the directories an archive names.
LEMMA SaveStep ==
    ASSUME TreeInv, NEW uploads, NEW dirs, SaveFiles(uploads, dirs),
           uploads \subseteq Entries, dirs \subseteq TreePaths, IsFiniteSet(uploads),
           \A u, v \in uploads : u.path = v.path => u = v
    PROVE  TreeInv' /\ served' = "save"
  <1>1. PICK fresh, freshPaths : fresh = uploads \ files /\ freshPaths = {u.path : u \in fresh}
    OBVIOUS
  <1>2. /\ served' = "save"
        /\ files' = {e \in files : e.path \notin freshPaths} \cup fresh
        /\ folders' = folders \cup dirs \cup UNION {ParentFolders(p) : p \in dirs \cup freshPaths}
    BY <1>1, Becoming DEF SaveFiles
  <1>3. \A f : f \in folders' <=> \/ f \in folders \/ f \in dirs
                                  \/ \E d \in dirs \cup freshPaths : f \in ParentFolders(d)
    BY <1>2
  <1>4. freshPaths \subseteq TreePaths /\ fresh \subseteq Entries
    BY <1>1 DEF Entries
  <1>5. files' \subseteq Entries /\ IsFiniteSet(files')
    <2>1. IsFiniteSet({e \in files : e.path \notin freshPaths}) /\ IsFiniteSet(fresh)
      BY <1>1, FS_Subset DEF TreeInv
    <2> QED  BY <1>2, <1>4, <2>1, FS_Union DEF TreeInv
  <1>6. \A d, e \in files' : d.path = e.path => d = e
    BY <1>1, <1>2 DEF TreeInv, UniquePaths
  <1>7. \A e \in files' : ParentFolders(e.path) \subseteq folders'
    <2>1. \A e \in files : ParentFolders(e.path) \subseteq folders
      BY DEF TreeInv, Closed, EntryPaths
    <2>2. ASSUME NEW e \in fresh
          PROVE  ParentFolders(e.path) \subseteq folders'
      <3>1. e.path \in freshPaths
        BY <1>1
      <3> QED  BY <1>3, <3>1
    <2> QED  BY <1>2, <2>1, <2>2
  <1>8. /\ folders' \subseteq TreePaths
        /\ \A f \in folders' : ParentFolders(f) \subseteq folders'
    <2>1. \A f \in folders : ParentFolders(f) \subseteq folders
      BY DEF TreeInv, Closed
    <2>2. ASSUME NEW d \in dirs \cup freshPaths
          PROVE  /\ d \in TreePaths
                 /\ ParentFolders(d) \subseteq TreePaths /\ ParentFolders(d) \subseteq folders'
                 /\ \A q \in ParentFolders(d) : ParentFolders(q) \subseteq folders'
      <3>1. d \in TreePaths
        BY <1>4
      <3>2. ParentFolders(d) \subseteq folders'
        BY <1>3
      <3> QED  BY <3>1, <3>2, ParentPaths
    <2>3. folders \subseteq TreePaths
      BY DEF TreeInv
    <2>4. ASSUME NEW f \in folders'
          PROVE  \/ f \in folders \/ f \in dirs
                 \/ \E d \in dirs \cup freshPaths : f \in ParentFolders(d)
      BY <1>3
    <2>5. \A f \in folders : ParentFolders(f) \subseteq folders'
      BY <1>2, <2>1
    <2> QED  BY <2>2, <2>3, <2>4, <2>5
  <1> QED  BY <1>2, <1>5, <1>6, <1>7, <1>8, Changed

\* Deleting what is at or within some paths.
LEMMA DeleteStep ==
    ASSUME TreeInv, NEW tops, tops \subseteq Seq(Names),
           files' = {e \in files : ~\E t \in tops : AtOrWithin(e.path, t)},
           folders' = {f \in folders : ~\E t \in tops : AtOrWithin(f, t)}
    PROVE  TreeInv'
  <1>1. files' \subseteq Entries /\ IsFiniteSet(files') /\ folders' \subseteq TreePaths
    BY FS_Subset DEF TreeInv
  <1>2. \A d, e \in files' : d.path = e.path => d = e
    BY DEF TreeInv, UniquePaths
  <1>3. ASSUME NEW p \in TreePaths, ParentFolders(p) \subseteq folders,
               ~\E t \in tops : AtOrWithin(p, t)
        PROVE  ParentFolders(p) \subseteq folders'
    <2>1. p \in Seq(Names)
      BY TreePathsAre
    <2>2. ASSUME NEW q \in ParentFolders(p), NEW t \in tops, AtOrWithin(q, t)
          PROVE  FALSE
      <3>1. t \in Seq(Names)
        OBVIOUS
      <3> QED  BY <1>3, <2>1, <2>2, <3>1, BelowStays
    <2> QED  BY <1>3, <2>2
  <1>4. \A e \in files' : ParentFolders(e.path) \subseteq folders'
    <2> SUFFICES ASSUME NEW e \in files'
                 PROVE  ParentFolders(e.path) \subseteq folders'
      OBVIOUS
    <2>1. e \in files /\ ~\E t \in tops : AtOrWithin(e.path, t)
      OBVIOUS
    <2>2. e.path \in TreePaths /\ ParentFolders(e.path) \subseteq folders
      BY <2>1 DEF TreeInv, Entries, Closed, EntryPaths
    <2> QED  BY <1>3, <2>1, <2>2
  <1>5. \A f \in folders' : ParentFolders(f) \subseteq folders'
    <2> SUFFICES ASSUME NEW f \in folders'
                 PROVE  ParentFolders(f) \subseteq folders'
      OBVIOUS
    <2>1. f \in folders /\ ~\E t \in tops : AtOrWithin(f, t)
      OBVIOUS
    <2>2. f \in TreePaths /\ ParentFolders(f) \subseteq folders
      BY <2>1 DEF TreeInv, Closed
    <2> QED  BY <1>3, <2>1, <2>2
  <1> QED  BY <1>1, <1>2, <1>4, <1>5, Changed

\* Creating a folder, and those above it.
LEMMA CreateStep ==
    ASSUME TreeInv, NEW path \in TreePaths, CreateFolder(path)
    PROVE  TreeInv' /\ served' = "create"
  <1>1. /\ served' = "create" /\ files' = files
        /\ folders' = folders \cup ParentFolders(path) \cup {path}
    BY Becoming DEF CreateFolder
  <1>2. /\ ParentFolders(path) \subseteq TreePaths
        /\ \A q \in ParentFolders(path) : ParentFolders(q) \subseteq ParentFolders(path)
    BY ParentPaths
  <1>3. /\ files' \subseteq Entries /\ IsFiniteSet(files') /\ folders' \subseteq TreePaths
        /\ \A d, e \in files' : d.path = e.path => d = e
    BY <1>1, <1>2 DEF TreeInv, UniquePaths
  <1>4. /\ \A e \in files : ParentFolders(e.path) \subseteq folders
        /\ \A f \in folders : ParentFolders(f) \subseteq folders
    BY DEF TreeInv, Closed, EntryPaths
  <1>5. /\ \A e \in files' : ParentFolders(e.path) \subseteq folders'
        /\ \A f \in folders' : ParentFolders(f) \subseteq folders'
    BY <1>1, <1>2, <1>4
  <1> QED  BY <1>1, <1>3, <1>5, Changed

\* Giving each file a path of its own keeps the files.
LEMMA FilesMove ==
    ASSUME TreeInv, NEW M \in [files -> Entries], files' = {M[e] : e \in files},
           \A e \in files : M[e].crc = e.crc,
           \A d, e \in files : M[d].path = M[e].path => d = e
    PROVE  /\ files' \subseteq Entries /\ IsFiniteSet(files')
           /\ \A d, e \in files' : d.path = e.path => d = e
           /\ KeepsFiles
  <1>1. files' \subseteq Entries
    OBVIOUS
  <1>2. IsFiniteSet(files')
    <2>1. M \in Surjection(files, files')
      BY DEF Surjection
    <2> QED  BY <2>1, FS_Surjection DEF TreeInv
  <1>3. \A d, e \in files' : d.path = e.path => d = e
    OBVIOUS
  <1>4. ASSUME NEW c \in Crcs
        PROVE  Cardinality({e \in files' : e.crc = c}) = Cardinality({e \in files : e.crc = c})
    <2>1. PICK A, B : A = {e \in files : e.crc = c} /\ B = {e \in files' : e.crc = c}
      OBVIOUS
    <2>2. PICK F : F = [e \in A |-> M[e]]
      OBVIOUS
    <2>3. F \in [A -> B]
      BY <2>1, <2>2
    <2>4. \A d, e \in A : F[d] = F[e] => d = e
      BY <2>1, <2>2
    <2>5. \A t \in B : \E e \in A : F[e] = t
      BY SMTT(30), <2>1, <2>2
    <2>6. F \in Injection(A, B)
      BY <2>3, <2>4 DEF Injection, IsInjective
    <2>7. F \in Surjection(A, B)
      BY <2>3, <2>5 DEF Surjection
    <2>8. ExistsBijection(A, B)
      BY <2>6, <2>7 DEF ExistsBijection, Bijection
    <2>9. IsFiniteSet(A)
      BY <2>1, FS_Subset DEF TreeInv
    <2> QED  BY <2>1, <2>8, <2>9, FS_Bijection
  <1> QED  BY <1>1, <1>2, <1>3, <1>4 DEF KeepsFiles

\* The one path of an antichain that a path moves with.
LEMMA OneSource ==
    ASSUME NEW S, S \subseteq Seq(Names), \A s, t \in S : ~Within(s, t),
           NEW p \in Seq(Names), NEW s \in S, AtOrWithin(p, s)
    PROVE  Moving(p, S) /\ SourceOf(p, S) = s
  <1>1. Moving(p, S)
    BY DEF Moving
  <1>2. SourceOf(p, S) \in S /\ AtOrWithin(p, SourceOf(p, S))
    BY DEF SourceOf
  <1>3. s \in Seq(Names) /\ SourceOf(p, S) \in Seq(Names)
    BY <1>2
  <1>4. \/ s = SourceOf(p, S) \/ Within(s, SourceOf(p, S)) \/ Within(SourceOf(p, S), s)
    BY <1>2, <1>3, PrefixesAgree
  <1> QED  BY <1>1, <1>2, <1>4

\* Where a path goes when what is at or within each path s of S goes to T[s].
Moved(p, S, T) ==
    IF Moving(p, S) THEN Relocate(p, SourceOf(p, S), T[SourceOf(p, S)]) ELSE p

\* Moving part of a tree, with directories D for it to go to, leaves a tree of
\* the same files.
LEMMA MoveStep ==
    ASSUME TreeInv, NEW S, S \subseteq Seq(Names), \A s \in S : 0 < Len(s),
           \A s, t \in S : ~Within(s, t),
           NEW T \in [S -> Seq(Names)], \A s \in S : 0 < Len(T[s]),
           NEW D, D \subseteq TreePaths, \A s \in S : ParentFolders(T[s]) \subseteq D,
           \A f \in D : ParentFolders(f) \subseteq D,
           files' = {[e EXCEPT !.path = Moved(e.path, S, T)] : e \in files},
           folders' = {Moved(f, S, T) : f \in folders} \cup D,
           \A p, q \in EntryPaths : Moved(p, S, T) = Moved(q, S, T) => p = q,
           \A e \in files' : Len(e.path) =< MaxDepth,
           \A f \in folders' : Len(f) =< MaxDepth
    PROVE  TreeInv' /\ KeepsFiles
  <1>1. ASSUME NEW p \in Seq(Names), NEW s \in S, AtOrWithin(p, s)
        PROVE  Moved(p, S, T) = Relocate(p, s, T[s])
    BY <1>1, OneSource DEF Moved
  <1>2. ASSUME NEW p \in Seq(Names), ~Moving(p, S)
        PROVE  Moved(p, S, T) = p
    BY <1>2 DEF Moved
  <1>3. ASSUME NEW p \in TreePaths
        PROVE  Moved(p, S, T) \in Seq(Names) /\ 0 < Len(Moved(p, S, T))
    <2>1. p \in Seq(Names) /\ 0 < Len(p)
      BY TreePathsAre
    <2>2. CASE Moving(p, S)
      <3>1. PICK s \in S : AtOrWithin(p, s)
        BY <2>2 DEF Moving
      <3>2. s \in Seq(Names) /\ T[s] \in Seq(Names) /\ 0 < Len(T[s])
        OBVIOUS
      <3>3. Len(s) =< Len(p)
        BY <2>1, <3>1, <3>2, WithinNames
      <3>4. /\ Relocate(p, s, T[s]) \in Seq(Names)
            /\ Len(Relocate(p, s, T[s])) = Len(T[s]) + Len(p) - Len(s)
        BY <2>1, <3>2, <3>3, RelocateNames
      <3>5. Len(p) \in Nat /\ Len(s) \in Nat /\ Len(T[s]) \in Nat
        BY <2>1, <3>2
      <3> QED  BY <1>1, <2>1, <3>1, <3>2, <3>3, <3>4, <3>5
    <2>3. CASE ~Moving(p, S)
      BY <1>2, <2>1, <2>3
    <2> QED  BY <2>2, <2>3
  <1>4. ASSUME NEW p \in TreePaths, ParentFolders(p) \subseteq folders
        PROVE  ParentFolders(Moved(p, S, T)) \subseteq folders'
    <2>1. p \in Seq(Names)
      BY TreePathsAre
    <2>2. CASE Moving(p, S)
      <3>1. PICK s \in S : AtOrWithin(p, s)
        BY <2>2 DEF Moving
      <3>2. s \in Seq(Names) /\ T[s] \in Seq(Names) /\ 0 < Len(s)
        OBVIOUS
      <3>3. Moved(p, S, T) = Relocate(p, s, T[s])
        BY <1>1, <2>1, <3>1
      <3>4. ASSUME NEW r \in ParentFolders(Relocate(p, s, T[s]))
            PROVE  r \in folders'
        <4>1. \/ r \in ParentFolders(T[s])
              \/ \E q \in ParentFolders(p) : AtOrWithin(q, s) /\ r = Relocate(q, s, T[s])
          BY <2>1, <3>1, <3>2, ParentsMove
        <4>2. CASE r \in ParentFolders(T[s])
          BY <4>2
        <4>3. ASSUME NEW q \in ParentFolders(p), AtOrWithin(q, s), r = Relocate(q, s, T[s])
              PROVE  r \in folders'
          <5>1. q \in Seq(Names) /\ q \in folders
            BY <1>4, <2>1, ParentsAbove
          <5>2. r = Moved(q, S, T)
            BY <1>1, <4>3, <5>1
          <5> QED  BY <5>1, <5>2
        <4> QED  BY <4>1, <4>2, <4>3
      <3> QED  BY <3>3, <3>4
    <2>3. CASE ~Moving(p, S)
      <3>1. ASSUME NEW q \in ParentFolders(p)
            PROVE  q \in folders'
        <4>1. q \in Seq(Names) /\ q \in folders
          BY <1>4, <2>1, ParentsAbove
        <4>2. ~Moving(q, S)
          <5>1. ASSUME NEW s \in S, AtOrWithin(q, s)
                PROVE  AtOrWithin(p, s)
            <6>1. s \in Seq(Names)
              OBVIOUS
            <6> QED  BY <2>1, <5>1, <6>1, BelowStays
          <5> QED  BY <2>3, <5>1 DEF Moving
        <4>3. Moved(q, S, T) = q
          BY <1>2, <4>1, <4>2
        <4> QED  BY <4>1, <4>3
      <3>2. Moved(p, S, T) = p
        BY <1>2, <2>1, <2>3
      <3> QED  BY <3>1, <3>2
    <2> QED  BY <2>2, <2>3
  <1>5. PICK M : M = [e \in files |-> [e EXCEPT !.path = Moved(e.path, S, T)]]
    OBVIOUS
  <1>6. ASSUME NEW e \in files
        PROVE  /\ e.path \in TreePaths /\ e.path \in EntryPaths
               /\ M[e].path = Moved(e.path, S, T) /\ M[e].crc = e.crc
               /\ M[e] \in files' /\ M[e] \in Entries
    <2>1. e \in Entries
      BY DEF TreeInv
    <2>2. e = [path |-> e.path, crc |-> e.crc] /\ e.path \in TreePaths /\ e.crc \in Crcs
      BY <2>1 DEF Entries
    <2>3. M[e] = [path |-> Moved(e.path, S, T), crc |-> e.crc] /\ M[e] \in files'
      <3>1. M[e] = [e EXCEPT !.path = Moved(e.path, S, T)]
        BY <1>5
      <3>2. [e EXCEPT !.path = Moved(e.path, S, T)] = [path |-> Moved(e.path, S, T), crc |-> e.crc]
        BY <2>2
      <3>3. M[e] \in files'
        BY <3>1
      <3> QED  BY <3>1, <3>2, <3>3
    <2>4. M[e].path = Moved(e.path, S, T) /\ M[e].crc = e.crc
      BY <2>3
    <2>5. Len(M[e].path) =< MaxDepth
      BY <2>3
    <2>6. Len(Moved(e.path, S, T)) =< MaxDepth
      BY <2>4, <2>5
    <2>7. Moved(e.path, S, T) \in TreePaths
      BY <1>3, <2>2, <2>6, TreePathsAre
    <2> QED  BY <2>2, <2>3, <2>4, <2>7 DEF Entries, EntryPaths
  <1>7. M \in [files -> Entries] /\ files' = {M[e] : e \in files}
    <2>1. files' = {M[e] : e \in files}
      BY <1>5
    <2>2. M \in [files -> Entries]
      BY <1>5, <1>6
    <2> QED  BY <2>1, <2>2
  <1>8. /\ \A e \in files : M[e].crc = e.crc
        /\ \A d, e \in files : M[d].path = M[e].path => d = e
    <2>1. ASSUME NEW d \in files, NEW e \in files, M[d].path = M[e].path
          PROVE  d = e
      <3>1. /\ M[d].path = Moved(d.path, S, T) /\ d.path \in EntryPaths
            /\ M[e].path = Moved(e.path, S, T) /\ e.path \in EntryPaths
        BY <1>6
      <3>2. d.path = e.path
        BY <2>1, <3>1
      <3> QED  BY <3>2 DEF TreeInv, UniquePaths
    <2> QED  BY <1>6, <2>1
  <1>9. /\ files' \subseteq Entries /\ IsFiniteSet(files')
        /\ \A d, e \in files' : d.path = e.path => d = e
        /\ KeepsFiles
    BY <1>7, <1>8, FilesMove
  <1>10. ASSUME NEW f \in folders'
         PROVE  f \in TreePaths /\ ParentFolders(f) \subseteq folders'
    <2>1. CASE f \in D
      BY <2>1
    <2>2. ASSUME NEW g \in folders, f = Moved(g, S, T)
          PROVE  f \in TreePaths /\ ParentFolders(f) \subseteq folders'
      <3>1. g \in TreePaths /\ ParentFolders(g) \subseteq folders
        BY DEF TreeInv, Closed
      <3>2. Len(f) =< MaxDepth
        BY <1>10
      <3> QED  BY <1>3, <1>4, <2>2, <3>1, <3>2, TreePathsAre
    <2> QED  BY <2>1, <2>2
  <1>11. ASSUME NEW e \in files'
         PROVE  ParentFolders(e.path) \subseteq folders'
    <2>1. PICK d \in files : e = M[d]
      BY <1>7
    <2>2. ParentFolders(d.path) \subseteq folders
      BY DEF TreeInv, Closed, EntryPaths
    <2>3. d.path \in TreePaths /\ e.path = Moved(d.path, S, T)
      BY <1>6, <2>1
    <2> QED  BY <1>4, <2>2, <2>3
  <1>12. TreeInv'
    <2>1. folders' \subseteq TreePaths
      BY <1>10
    <2>2. \A f \in folders' : ParentFolders(f) \subseteq folders'
      BY <1>10
    <2>3. \A e \in files' : ParentFolders(e.path) \subseteq folders'
      BY <1>11
    <2> QED  BY <1>9, <2>1, <2>2, <2>3, Changed
  <1> QED  BY <1>9, <1>12

\* Directories of entries are listed, so every path of the tree is one it can have.
LEMMA PathsListed ==
    ASSUME TreeInv
    PROVE  /\ FolderPaths = folders
           /\ \A p : p \in EntryPaths => p \in TreePaths
           /\ \A p : p \in EntryPaths \cup FolderPaths => p \in Seq(Names) /\ 0 < Len(p)
           /\ \A chosen \in Selected : chosen \subseteq EntryPaths \cup FolderPaths
  <1>1. \A p \in EntryPaths : ParentFolders(p) \subseteq folders
    BY DEF TreeInv, Closed
  <1>2. FolderPaths = folders
    BY <1>1 DEF FolderPaths
  <1>3. \A p : p \in EntryPaths => p \in TreePaths
    BY DEF TreeInv, EntryPaths, Entries
  <1>4. \A p : p \in EntryPaths \cup FolderPaths => p \in Seq(Names) /\ 0 < Len(p)
    BY <1>2, <1>3, TreePathsAre DEF TreeInv
  <1>5. \A chosen \in Selected : chosen \subseteq EntryPaths \cup FolderPaths
    BY DEF Selected
  <1> QED  BY <1>2, <1>3, <1>4, <1>5

\* Deleting one path, and what is below it.
LEMMA DeletePathStep ==
    ASSUME TreeInv, NEW target \in TreePaths, DeletePath(target)
    PROVE  TreeInv' /\ served' = "delete"
  <1>1. /\ served' = "delete"
        /\ files' = files \ {e \in files : AtOrWithin(e.path, target)}
        /\ folders' = {f \in folders : ~AtOrWithin(f, target)}
    BY Becoming DEF DeletePath
  <1>2. PICK tops : tops = {target}
    OBVIOUS
  <1>3. /\ files' = {e \in files : ~\E t \in tops : AtOrWithin(e.path, t)}
        /\ folders' = {f \in folders : ~\E t \in tops : AtOrWithin(f, t)}
    BY <1>2, <1>1
  <1>4. tops \subseteq Seq(Names)
    BY <1>2, TreePathsAre
  <1>5. TreeInv'
    BY <1>3, <1>4, DeleteStep
  <1> QED  BY <1>1, <1>5

\* Deleting a selection.
LEMMA DeletePathsStep ==
    ASSUME TreeInv, NEW chosen \in Selected, DeletePaths(chosen)
    PROVE  TreeInv' /\ served' = "delete"
  <1>1. PICK tops : tops = TopMost(chosen)
    OBVIOUS
  <1>2. /\ served' = "delete"
        /\ files' = {e \in files : ~\E t \in tops : AtOrWithin(e.path, t)}
        /\ folders' = {f \in folders : ~\E t \in tops : AtOrWithin(f, t)}
    BY <1>1, Becoming DEF DeletePaths
  <1>3. tops \subseteq Seq(Names)
    BY <1>1, PathsListed DEF TopMost
  <1>4. TreeInv'
    BY <1>2, <1>3, DeleteStep
  <1> QED  BY <1>2, <1>4

\* Deleting everything.
LEMMA DeleteAllStep ==
    ASSUME TreeInv, DeleteAll
    PROVE  TreeInv' /\ served' = "delete"
  <1>1. served' = "delete" /\ files' = {} /\ folders' = {}
    BY Becoming DEF DeleteAll
  <1> QED  BY <1>1, FS_EmptySet, Changed

\* Moving one path: what is at or within it goes to `destination`.
LEMMA MovePathStep ==
    ASSUME TreeInv, NEW source \in TreePaths, NEW destination \in TreePaths,
           MovePath(source, destination)
    PROVE  TreeInv' /\ KeepsFiles /\ served' = "move"
  <1>1. PICK moved : moved = {e \in files : AtOrWithin(e.path, source)}
    OBVIOUS
  <1>2. /\ served' = "move"
        /\ files' = (files \ moved) \cup
              {[e EXCEPT !.path = Relocate(e.path, source, destination)] : e \in moved}
        /\ folders' = {f \in folders : ~AtOrWithin(f, source)}
              \cup {Relocate(f, source, destination) :
                       f \in {g \in folders : AtOrWithin(g, source)}}
              \cup ParentFolders(destination)
        /\ \A e \in files' : Len(e.path) =< MaxDepth
        /\ \A f \in folders' : Len(f) =< MaxDepth
        /\ DestinationsFree(moved, source, destination)
    BY <1>1, Becoming DEF MovePath
  <1>3. /\ source \in Seq(Names) /\ 0 < Len(source)
        /\ destination \in Seq(Names) /\ 0 < Len(destination)
    BY TreePathsAre
  <1>4. PICK S, T : S = {source} /\ T = [s \in S |-> destination]
    OBVIOUS
  <1>5. /\ S \subseteq Seq(Names) /\ \A s \in S : 0 < Len(s)
        /\ T \in [S -> Seq(Names)] /\ \A s \in S : 0 < Len(T[s])
        /\ \A s \in S : ParentFolders(T[s]) \subseteq ParentFolders(destination)
    BY <1>3, <1>4
  <1>6. \A s, t \in S : ~Within(s, t)
    BY <1>4 DEF Within, IsStrictPrefix
  <1>7. ASSUME NEW p
        PROVE  /\ AtOrWithin(p, source) => Moved(p, S, T) = Relocate(p, source, destination)
               /\ ~AtOrWithin(p, source) => Moved(p, S, T) = p
    <2>1. Moving(p, S) <=> AtOrWithin(p, source)
      BY <1>4 DEF Moving
    <2>2. Moving(p, S) => SourceOf(p, S) = source
      BY <1>4, <2>1 DEF SourceOf
    <2> QED  BY <1>4, <2>1, <2>2 DEF Moved
  <1>8. ASSUME NEW e \in files, ~AtOrWithin(e.path, source)
        PROVE  [e EXCEPT !.path = Moved(e.path, S, T)] = e
    <2>1. e \in Entries
      BY DEF TreeInv
    <2> QED  BY <1>7, <1>8, <2>1 DEF Entries
  <1>9. files' = {[e EXCEPT !.path = Moved(e.path, S, T)] : e \in files}
    <2>1. ASSUME NEW e \in files, AtOrWithin(e.path, source)
          PROVE  [e EXCEPT !.path = Moved(e.path, S, T)]
                   = [e EXCEPT !.path = Relocate(e.path, source, destination)]
      BY <1>7, <2>1
    <2>2. \A x : x \in files' <=>
             \/ \E e \in files : ~AtOrWithin(e.path, source) /\ x = e
             \/ \E e \in files : /\ AtOrWithin(e.path, source)
                                 /\ x = [e EXCEPT !.path = Relocate(e.path, source, destination)]
      BY <1>1, <1>2
    <2>3. ASSUME NEW x, x \in files'
          PROVE  \E e \in files : x = [e EXCEPT !.path = Moved(e.path, S, T)]
      <3>1. ASSUME NEW e \in files, ~AtOrWithin(e.path, source), x = e
            PROVE  x = [e EXCEPT !.path = Moved(e.path, S, T)]
        BY <1>8, <3>1
      <3>2. ASSUME NEW e \in files, AtOrWithin(e.path, source),
                   x = [e EXCEPT !.path = Relocate(e.path, source, destination)]
            PROVE  x = [e EXCEPT !.path = Moved(e.path, S, T)]
        BY <2>1, <3>2
      <3> QED  BY <2>2, <2>3, <3>1, <3>2
    <2>4. ASSUME NEW e \in files
          PROVE  [e EXCEPT !.path = Moved(e.path, S, T)] \in files'
      BY <1>8, <2>1, <2>2
    <2> QED  BY <2>3, <2>4
  <1>10. folders' = {Moved(f, S, T) : f \in folders} \cup ParentFolders(destination)
    BY <1>2, <1>7
  <1>11. ASSUME NEW p \in EntryPaths, NEW q \in EntryPaths, Moved(p, S, T) = Moved(q, S, T)
         PROVE  p = q
    <2>1. p \in Seq(Names) /\ q \in Seq(Names)
      BY PathsListed
    <2>2. CASE AtOrWithin(p, source) /\ AtOrWithin(q, source)
      <3>1. Relocate(p, source, destination) = Relocate(q, source, destination)
        BY <1>7, <1>11, <2>2
      <3> QED  BY <1>3, <2>1, <2>2, <3>1, RelocateApart
    <2>3. ASSUME NEW a \in EntryPaths, NEW b \in EntryPaths, AtOrWithin(a, source),
                 ~AtOrWithin(b, source), Moved(a, S, T) = Moved(b, S, T)
          PROVE  FALSE
      <3>1. b = Relocate(a, source, destination)
        BY <1>7, <2>3
      <3>2. PICK d \in moved : d.path = a
        BY <1>1, <2>3 DEF EntryPaths
      <3>3. PICK e \in files \ moved : e.path = b
        BY <1>1, <2>3 DEF EntryPaths
      <3>4. e.path \notin {Relocate(x.path, source, destination) : x \in moved}
        BY <1>2 DEF DestinationsFree
      <3> QED  BY <3>1, <3>2, <3>3, <3>4
    <2>4. CASE ~AtOrWithin(p, source) /\ ~AtOrWithin(q, source)
      BY <1>7, <1>11, <2>4
    <2> QED  BY <1>11, <2>2, <2>3, <2>4
  <1>12. /\ ParentFolders(destination) \subseteq TreePaths
         /\ \A f \in ParentFolders(destination) :
               ParentFolders(f) \subseteq ParentFolders(destination)
    BY ParentPaths
  <1>13. TreeInv' /\ KeepsFiles
    BY <1>2, <1>5, <1>6, <1>9, <1>10, <1>11, <1>12, MoveStep
  <1> QED  BY <1>2, <1>13

\* The directories above a name in `destination` are it and those above it.
LEMMA ParentsBelow ==
    ASSUME NEW destination \in Seq(Names), NEW name \in Names
    PROVE  /\ Append(destination, name) \in Seq(Names)
           /\ Len(Append(destination, name)) = Len(destination) + 1
           /\ destination = Root => ParentFolders(Append(destination, name)) = {}
           /\ ParentFolders(Append(destination, name))
                \subseteq {destination} \cup ParentFolders(destination)
  <1>1. PICK t : t = Append(destination, name)
    OBVIOUS
  <1>2. /\ t \in Seq(Names) /\ Len(t) = Len(destination) + 1 /\ Len(destination) \in Nat
        /\ \A i \in 1..Len(destination) : t[i] = destination[i]
    BY <1>1, AppendProperties
  <1>3. ASSUME NEW q \in ParentFolders(t)
        PROVE  /\ destination # Root
               /\ q = destination \/ q \in ParentFolders(destination)
    <2>1. q \in Seq(Names) /\ 0 < Len(q) /\ Within(t, q)
      BY <1>2, ParentsAbove
    <2>2. Len(q) < Len(t) /\ \A i \in 1..Len(q) : t[i] = q[i]
      BY <1>2, <2>1, WithinNames
    <2>3. Len(q) =< Len(destination) /\ \A i \in 1..Len(q) : destination[i] = q[i]
      BY SMTT(30), <1>2, <2>1, <2>2
    <2>4. AtOrWithin(destination, q)
      BY <2>1, <2>3, WithinNames
    <2>5. destination # Root
      BY <2>1, <2>3 DEF Root
    <2> QED  BY <2>1, <2>4, <2>5, ParentsAbove DEF AtOrWithin
  <1> QED  BY <1>1, <1>2, <1>3

\* Moving a selection: each selected path goes into `destination`.
LEMMA MovePathsStep ==
    ASSUME TreeInv, NEW chosen \in Selected, NEW destination \in TreePaths \cup {Root},
           MovePaths(chosen, destination)
    PROVE  TreeInv' /\ KeepsFiles /\ served' = "move"
  <1>1. PICK S : S = TopMost(chosen)
    OBVIOUS
  <1>2. PICK D : D = IF destination = Root THEN {}
                     ELSE {destination} \cup ParentFolders(destination)
    OBVIOUS
  <1>3. PICK affected : affected = {p \in EntryPaths : Moving(p, S)}
                                     \cup {p \in FolderPaths : Moving(p, S)}
    OBVIOUS
  <1>4. /\ served' = "move"
        /\ files' = {IF Moving(e.path, S)
                       THEN [e EXCEPT !.path = NewPath(e.path, S, destination)] ELSE e :
                        e \in files}
        /\ folders' = (folders \ {p \in FolderPaths : Moving(p, S)})
              \cup {NewPath(f, S, destination) : f \in {p \in FolderPaths : Moving(p, S)}}
              \cup D
        /\ \A e \in files' : Len(e.path) =< MaxDepth
        /\ \A f \in folders' : Len(f) =< MaxDepth
    BY <1>1, <1>2, Becoming DEF MovePaths
  <1>5. /\ \A p \in affected :
              NewPath(p, S, destination) \notin (EntryPaths \cup FolderPaths) \ affected
        /\ \A p, q \in affected :
              NewPath(p, S, destination) = NewPath(q, S, destination) => p = q
    BY <1>1, <1>3 DEF MovePaths
  <1>6. S \subseteq Seq(Names) /\ \A s \in S : 0 < Len(s)
    BY <1>1, PathsListed DEF TopMost
  <1>7. \A s, t \in S : ~Within(s, t)
    BY <1>1 DEF TopMost
  <1>8. destination \in Seq(Names)
    BY TreePathsAre, EmptySeq DEF Root
  <1>9. ASSUME NEW s \in S
        PROVE  /\ Target(s, destination) \in Seq(Names) /\ 0 < Len(Target(s, destination))
               /\ ParentFolders(Target(s, destination)) \subseteq D
    <2>1. s[Len(s)] \in Names
      <3>1. s \in Seq(Names) /\ 0 < Len(s)
        BY <1>6
      <3>2. Len(s) \in 1..Len(s)
        BY <3>1
      <3> QED  BY <3>1, <3>2, ElementOfSeq
    <2>2. Target(s, destination) = Append(destination, s[Len(s)])
      BY DEF Target, Last
    <2>3. /\ Append(destination, s[Len(s)]) \in Seq(Names)
          /\ Len(Append(destination, s[Len(s)])) = Len(destination) + 1
          /\ destination = Root => ParentFolders(Append(destination, s[Len(s)])) = {}
          /\ ParentFolders(Append(destination, s[Len(s)]))
               \subseteq {destination} \cup ParentFolders(destination)
      BY <1>8, <2>1, ParentsBelow
    <2>4. Len(destination) \in Nat
      BY <1>8
    <2> QED  BY <1>2, <2>2, <2>3, <2>4
  <1>10. PICK T : T = [s \in S |-> Target(s, destination)]
    OBVIOUS
  <1>11. /\ T \in [S -> Seq(Names)] /\ \A s \in S : 0 < Len(T[s])
         /\ \A s \in S : ParentFolders(T[s]) \subseteq D
    BY <1>9, <1>10
  <1>12. D \subseteq TreePaths /\ \A f \in D : ParentFolders(f) \subseteq D
    <2>1. CASE destination = Root
      BY <1>2, <2>1
    <2>2. CASE destination # Root
      BY <1>2, <2>2, ParentPaths
    <2> QED  BY <2>1, <2>2
  <1>13. ASSUME NEW p
         PROVE  /\ Moving(p, S) => Moved(p, S, T) = NewPath(p, S, destination)
                /\ ~Moving(p, S) => Moved(p, S, T) = p
    <2>1. Moving(p, S) => SourceOf(p, S) \in S
      BY DEF Moving, SourceOf
    <2> QED  BY <1>10, <2>1 DEF Moved, NewPath
  <1>14. files' = {[e EXCEPT !.path = Moved(e.path, S, T)] : e \in files}
    <2>1. ASSUME NEW e \in files
          PROVE  (IF Moving(e.path, S)
                    THEN [e EXCEPT !.path = NewPath(e.path, S, destination)] ELSE e)
                   = [e EXCEPT !.path = Moved(e.path, S, T)]
      <3>1. CASE Moving(e.path, S)
        BY <1>13, <3>1
      <3>2. CASE ~Moving(e.path, S)
        <4>1. e \in Entries
          BY DEF TreeInv
        <4> QED  BY <1>13, <3>2, <4>1 DEF Entries
      <3> QED  BY <3>1, <3>2
    <2> QED  BY <1>4, <2>1
  <1>15. folders' = {Moved(f, S, T) : f \in folders} \cup D
    <2>1. FolderPaths = folders
      BY PathsListed
    <2> QED  BY <1>4, <1>13, <2>1
  <1>16. ASSUME NEW p \in EntryPaths, NEW q \in EntryPaths, Moved(p, S, T) = Moved(q, S, T)
         PROVE  p = q
    <2>1. CASE Moving(p, S) /\ Moving(q, S)
      <3>1. p \in affected /\ q \in affected
        BY <1>3, <2>1
      <3> QED  BY <1>5, <1>13, <1>16, <2>1, <3>1
    <2>2. ASSUME NEW a \in EntryPaths, NEW b \in EntryPaths, Moving(a, S), ~Moving(b, S),
                 Moved(a, S, T) = Moved(b, S, T)
          PROVE  FALSE
      <3>1. b = NewPath(a, S, destination)
        BY <1>13, <2>2
      <3>2. a \in affected /\ b \notin affected
        BY <1>3, <2>2
      <3> QED  BY <1>5, <3>1, <3>2
    <2>3. CASE ~Moving(p, S) /\ ~Moving(q, S)
      BY <1>13, <1>16, <2>3
    <2> QED  BY <1>16, <2>1, <2>2, <2>3
  <1>17. TreeInv' /\ KeepsFiles
    BY <1>4, <1>6, <1>7, <1>11, <1>12, <1>14, <1>15, <1>16, MoveStep
  <1> QED  BY <1>4, <1>17

\* What an upload may hold.
LEMMA UploadsAre ==
    /\ \A U \in Uploads : /\ U \subseteq Entries /\ IsFiniteSet(U)
                          /\ \A u, v \in U : u.path = v.path => u = v
    /\ \A u \in Upload : u \in Entries
  <1>1. \A u \in Upload : u \in Entries
    BY DEF Upload, Entries
  <1>2. ASSUME NEW U \in Uploads
        PROVE  /\ U \subseteq Entries /\ IsFiniteSet(U)
               /\ \A u, v \in U : u.path = v.path => u = v
    <2>1. PICK pair \in Upload \X Upload :
             /\ pair[1].path = pair[2].path => pair[1] = pair[2]
             /\ U = {pair[1], pair[2]}
      BY DEF Uploads
    <2>2. IsFiniteSet({pair[1]}) /\ IsFiniteSet({pair[2]})
      BY FS_Singleton
    <2>3. IsFiniteSet({pair[1]} \cup {pair[2]})
      BY <2>2, FS_Union
    <2>4. U = {pair[1]} \cup {pair[2]}
      BY <2>1
    <2> QED  BY <1>1, <2>1, <2>3, <2>4
  <1> QED  BY <1>1, <1>2

\* A step leaves a tree, and one that moves keeps its files.
LEMMA TreeStep ==
    ASSUME TreeInv, TreeNext
    PROVE  /\ TreeInv' /\ served' \in {"none", "save", "delete", "create", "move"}
           /\ served' = "move" => KeepsFiles
  <1>1. ASSUME NEW U \in Uploads, SaveFiles(U, {})
        PROVE  TreeInv' /\ served' = "save"
    BY <1>1, UploadsAre, SaveStep
  <1>2. ASSUME NEW u \in Upload, NEW d \in TreePaths, SaveFiles({u}, {d})
        PROVE  TreeInv' /\ served' = "save"
    <2>1. /\ {u} \subseteq Entries /\ IsFiniteSet({u}) /\ {d} \subseteq TreePaths
          /\ \A x, y \in {u} : x.path = y.path => x = y
      BY UploadsAre, FS_Singleton
    <2> QED  BY <1>2, <2>1, SaveStep
  <1>3. CASE \E p \in TreePaths : DeletePath(p) \/ CreateFolder(p)
    BY <1>3, DeletePathStep, CreateStep
  <1>4. CASE \E chosen \in Selected : DeletePaths(chosen)
    BY <1>4, DeletePathsStep
  <1>5. CASE DeleteAll
    BY <1>5, DeleteAllStep
  <1>6. CASE \E s, d \in TreePaths : MovePath(s, d)
    BY <1>6, MovePathStep
  <1>7. CASE \E chosen \in Selected, d \in TreePaths \cup {Root} : MovePaths(chosen, d)
    BY <1>7, MovePathsStep
  <1> QED  BY <1>1, <1>2, <1>3, <1>4, <1>5, <1>6, <1>7 DEF TreeNext

\* What every step preserves.
TreeIInv == TreeInv /\ served \in {"none", "save", "delete", "create", "move"}

\* The invariant of the tree holds in every state.
LEMMA TreeInvariant == TreeSpec => []TreeIInv
  <1>1. TreeInit => TreeIInv
    BY FS_EmptySet DEF TreeInit, TreeIInv, TreeInv, UniquePaths, Closed, EntryPaths
  <1>2. TreeIInv /\ [TreeNext]_treeVars => TreeIInv'
    <2> SUFFICES ASSUME TreeIInv, [TreeNext]_treeVars
                 PROVE  TreeIInv'
      OBVIOUS
    <2>1. CASE TreeNext
      BY <2>1, TreeStep DEF TreeIInv
    <2>2. CASE UNCHANGED treeVars
      BY <2>2 DEF treeVars, TreeIInv, TreeInv, UniquePaths, Closed, EntryPaths
    <2> QED  BY <2>1, <2>2
  <1> QED  BY <1>1, <1>2, PTL DEF TreeSpec

\* The operations keep the tree sound (TreeSound): entry paths name one file
\* each, and every directory above a file or a folder is listed.
THEOREM TreeIsSound == TreeSpec => []TreeSound
  <1>1. TreeIInv => TreeSound
    BY TreeInvSound DEF TreeIInv
  <1> QED  BY <1>1, TreeInvariant, PTL

\* Renaming and moving keep every content's number of files (MoveKeepsFiles).
THEOREM MovesKeepFiles == TreeSpec => MoveKeepsFiles
  <1>1. TreeIInv /\ [TreeNext]_treeVars => [served' = "move" => KeepsFiles]_treeVars
    BY TreeStep DEF TreeIInv
  <1> QED  BY <1>1, TreeInvariant, PTL DEF TreeSpec, MoveKeepsFiles

-----------------------------------------------------------------------------
(* Thumbnails.                                                             *)

\* Every request is somewhere.
MakersTyped == maker = [r \in Makers |-> maker[r]]

\* A thumbnail that is not whole is being written, or was given up.
PartialAccounted ==
    thumbnail = "partial" => broken \/ \E r \in Makers : maker[r] = "write"

\* Once the deletion has passed the thumbnail and was not late, there is none
\* and nobody has the content in memory to make one.
GoneForGood ==
    ~stored /\ cleanup # "thumbnail" /\ ~late =>
        /\ thumbnail = "none"
        /\ \A r \in Makers : maker[r] # "save" /\ maker[r] # "write"

TInv == MakersTyped /\ PartialAccounted /\ GoneForGood

\* A step in which one request goes on leaves the others where they are.
LEMMA MakerGoesOn ==
    ASSUME MakersTyped, NEW r \in Makers, NEW at, MakerGoes(r, at)
    PROVE  /\ MakersTyped'
           /\ maker'[r] = at
           /\ \A q \in Makers \ {r} : maker'[q] = maker[q]
  BY DEF MakersTyped, MakerGoes

\* No step of a request leaves a partial thumbnail that nobody accounts for,
\* or makes one of a content that is deleted.
LEMMA MakerStep ==
    ASSUME TInv, NEW r \in Makers,
           \/ AskThumbnail(r) \/ LookForThumbnail(r) \/ CheckContent(r) \/ OpenContent(r)
           \/ BeginWrite(r) \/ EndWrite(r) \/ MakeFails(r) \/ EncodingFails(r)
    PROVE  TInv'
  <1> USE DEF TInv, MakerOnly
  <1>1. CASE AskThumbnail(r) \/ LookForThumbnail(r) \/ CheckContent(r) \/ OpenContent(r)
    <2>1. PICK at : /\ MakerGoes(r, at) /\ at # "write"
                    /\ at = "save" => stored
                    /\ maker[r] # "write"
      <3>1. CASE AskThumbnail(r)
        BY <3>1 DEF AskThumbnail
      <3>2. CASE LookForThumbnail(r)
        BY <3>2 DEF LookForThumbnail
      <3>3. CASE CheckContent(r)
        BY <3>3 DEF CheckContent
      <3>4. CASE OpenContent(r)
        BY <3>4 DEF OpenContent
      <3> QED  BY <1>1, <3>1, <3>2, <3>3, <3>4
    <2>2. UNCHANGED <<named, stored, thumbnail, cleanup, late, broken>>
      BY <1>1 DEF AskThumbnail, LookForThumbnail, CheckContent, OpenContent
    <2>3. /\ MakersTyped' /\ maker'[r] = at
          /\ \A q \in Makers \ {r} : maker'[q] = maker[q]
      BY <2>1, MakerGoesOn
    <2>4. PartialAccounted'
      BY <2>1, <2>2, <2>3 DEF PartialAccounted
    <2>5. GoneForGood'
      BY <2>1, <2>2, <2>3 DEF GoneForGood
    <2> QED  BY <2>3, <2>4, <2>5
  <1>2. CASE BeginWrite(r)
    <2>1. /\ MakersTyped' /\ maker'[r] = "write"
          /\ \A q \in Makers \ {r} : maker'[q] = maker[q]
      BY <1>2, MakerGoesOn DEF BeginWrite
    <2> QED  BY <1>2, <2>1 DEF BeginWrite, PartialAccounted, GoneForGood
  <1>3. CASE EndWrite(r)
    <2>1. /\ MakersTyped' /\ maker'[r] = "nothing"
          /\ \A q \in Makers \ {r} : maker'[q] = maker[q]
      BY <1>3, MakerGoesOn DEF EndWrite
    <2>2. PartialAccounted'
      BY <1>3, <2>1 DEF EndWrite, PartialAccounted
    <2>3. GoneForGood'
      BY <1>3, <2>1 DEF EndWrite, GoneForGood
    <2> QED  BY <2>1, <2>2, <2>3
  <1>4. CASE MakeFails(r)
    <2>1. /\ MakersTyped' /\ maker'[r] = "nothing"
          /\ \A q \in Makers \ {r} : maker'[q] = maker[q]
      BY <1>4, MakerGoesOn DEF MakeFails
    <2> QED  BY <1>4, <2>1 DEF MakeFails, PartialAccounted, GoneForGood
  <1>5. CASE EncodingFails(r)
    <2>1. MakersTyped'
      BY <1>5 DEF EncodingFails, MakersTyped, Unlinked
    <2>2. \A q \in Makers : maker'[q] # "write" /\ (maker'[q] = "save" => maker[q] = "save")
      BY <1>5 DEF EncodingFails, Unlinked
    <2> QED  BY <1>5, <2>1, <2>2 DEF EncodingFails, PartialAccounted, GoneForGood
  <1> QED  BY <1>1, <1>2, <1>3, <1>4, <1>5

\* Every state keeps the invariant.
LEMMA ThumbnailInvariant == ThumbnailSpec => []TInv
  <1>1. ThumbnailInit => TInv
    BY DEF ThumbnailInit, TInv, MakersTyped, PartialAccounted, GoneForGood
  <1>2. TInv /\ [ThumbnailNext]_thumbnailVars => TInv'
    <2> SUFFICES ASSUME TInv, [ThumbnailNext]_thumbnailVars PROVE TInv'
      OBVIOUS
    <2> USE DEF TInv, MakersTyped, PartialAccounted, GoneForGood
    <2>1. CASE UNCHANGED thumbnailVars
      BY <2>1 DEF thumbnailVars
    <2>2. CASE DeleteContent
      BY <2>2 DEF DeleteContent
    <2>3. CASE DeleteThumbnail
      <3>1. MakersTyped'
        BY <2>3 DEF DeleteThumbnail, Unlinked
      <3>2. \A q \in Makers : maker'[q] # "write" /\ (maker'[q] = "save" => maker[q] = "save")
        BY <2>3 DEF DeleteThumbnail, Unlinked
      <3>3. thumbnail' = "none" /\ late' = (\E r \in Makers : maker[r] = "save")
        BY <2>3 DEF DeleteThumbnail
      <3>4. CASE \E r \in Makers : maker[r] = "save"
        BY <3>1, <3>3, <3>4
      <3>5. CASE \A r \in Makers : maker[r] # "save"
        BY <3>1, <3>2, <3>3, <3>5
      <3> QED  BY <3>4, <3>5
    <2>4. CASE SaveMetadata
      BY <2>4 DEF SaveMetadata
    <2>5. CASE CleanupDies
      BY <2>5 DEF CleanupDies
    <2>6. CASE UploadAgain
      BY <2>6 DEF UploadAgain
    <2>7. ASSUME NEW r \in Makers,
                 \/ AskThumbnail(r) \/ LookForThumbnail(r) \/ CheckContent(r)
                 \/ OpenContent(r) \/ BeginWrite(r) \/ EndWrite(r) \/ MakeFails(r)
                 \/ EncodingFails(r)
          PROVE  TInv'
      BY <2>7, MakerStep
    <2> QED  BY <2>1, <2>2, <2>3, <2>4, <2>5, <2>6, <2>7 DEF ThumbnailNext
  <1> QED  BY <1>1, <1>2, PTL DEF ThumbnailSpec

\* A thumbnail that nobody works on is there only with its content, and whole,
\* but for the two exceptions the property names (data_interface.py:137, :673
\* and :690).
THEOREM ThumbnailsFollow == ThumbnailSpec => []ThumbnailFollows
  <1>1. TInv => ThumbnailFollows
    BY DEF TInv, PartialAccounted, GoneForGood, ThumbnailFollows
  <1> QED  BY <1>1, ThumbnailInvariant, PTL
-----------------------------------------------------------------------------
(* Archive.                                                                *)

Chunks == 0..Directory

ArchiveTyped ==
    /\ queue \in Seq(Chunks)
    /\ writer = [does |-> writer.does, next |-> writer.next]
    /\ writer.next \in 1..Directory
    /\ response = [does |-> response.does, sent |-> response.sent]
    /\ response.sent \in Seq(Chunks)

\* The chunk in place i of what is written up to file n, and how many there are.
Chunk(n, i) == IF i < n THEN i ELSE IF i = n THEN Directory ELSE Nothing
Written ==
    (writer.next - 1) + (IF writer.does = "end" THEN 1
                         ELSE IF writer.does = "over" THEN 2 ELSE 0)
Taken == Len(response.sent) + (IF response.does = "over" THEN 1 ELSE 0)

\* What is sent and what is in the queue make up what is written.
InOrder ==
    /\ Taken + Len(queue) = Written
    /\ \A i \in 1..Len(response.sent) : response.sent[i] = Chunk(writer.next, i)
    /\ \A i \in 1..Len(queue) : queue[i] = Chunk(writer.next, Taken + i)
    /\ response.does = "over" => Len(response.sent) = writer.next

\* The writer begins with the response, and leaves the files only after the last
\* or when one is gone.
InTurn ==
    /\ response.does = "nothing" => writer.does = "nothing"
    /\ writer.does \in {"directory", "end", "over"} => writer.next = Directory \/ lost

AInv == ArchiveTyped /\ InOrder /\ InTurn

\* What Append does to a sequence.
LEMMA Appended ==
    ASSUME NEW S, NEW q \in Seq(S), NEW e \in S
    PROVE  /\ Append(q, e) \in Seq(S)
           /\ Len(q) \in Nat /\ Len(Append(q, e)) = Len(q) + 1
           /\ \A i \in 1..Len(q) : Append(q, e)[i] = q[i]
           /\ Append(q, e)[Len(q) + 1] = e
  OBVIOUS

\* What Head and Tail are of a sequence that is not empty.
LEMMA HeadAndTail ==
    ASSUME NEW S, NEW q \in Seq(S), q # <<>>
    PROVE  /\ Head(q) \in S /\ Head(q) = q[1]
           /\ Tail(q) \in Seq(S)
           /\ Len(q) \in Nat \ {0} /\ Len(Tail(q)) = Len(q) - 1
           /\ \A i \in 1..(Len(q) - 1) : Tail(q)[i] = q[i + 1]
  OBVIOUS

\* The numbers in the invariant are numbers.
LEMMA Counted ==
    ASSUME ArchiveTyped
    PROVE  /\ FileCount \in Nat /\ Directory = FileCount + 1 /\ Nothing = 0
           /\ writer.next \in 1..Directory
           /\ Len(queue) \in Nat /\ Len(response.sent) \in Nat
           /\ Taken \in Nat /\ Taken >= Len(response.sent) /\ Written \in Nat
  BY SMTT(30), ArchiveAssumption, LenProperties
     DEF ArchiveTyped, Directory, Nothing, Taken, Written

\* A chunk that is put where the count says it belongs keeps the order.
LEMMA PutKeepsOrder ==
    ASSUME AInv, ArchiveTyped', NEW chunk \in Chunks, NEW n \in Nat, n = Written,
           Put(chunk), UNCHANGED response,
           Written' = n + 1, chunk = Chunk(writer'.next, n + 1),
           \A i \in 1..n : Chunk(writer'.next, i) = Chunk(writer.next, i),
           response.does = "over" => writer'.next = writer.next
    PROVE  InOrder'
  <1>1. /\ Taken \in Nat /\ Len(queue) \in Nat /\ Taken + Len(queue) = n
        /\ Len(response.sent) \in Nat /\ Taken >= Len(response.sent)
    BY Counted DEF AInv, InOrder
  <1>2. /\ Len(queue') = Len(queue) + 1 /\ queue'[Len(queue) + 1] = chunk
        /\ \A i \in 1..Len(queue) : queue'[i] = queue[i]
    BY Appended DEF Put, AInv, ArchiveTyped
  <1>3. Taken' = Taken /\ response' = response
    BY DEF Taken
  <1>4. Taken' + Len(queue') = Written'
    BY <1>1, <1>2, <1>3
  <1>5. \A i \in 1..Len(response'.sent) : response'.sent[i] = Chunk(writer'.next, i)
    BY <1>1, <1>3 DEF AInv, InOrder
  <1>6. \A i \in 1..Len(queue') : queue'[i] = Chunk(writer'.next, Taken + i)
    <2> TAKE i \in 1..Len(queue')
    <2>1. CASE i = Len(queue) + 1
      BY SMTT(30), <1>1, <1>2, <2>1
    <2>2. CASE i \in 1..Len(queue)
      <3>1. Taken + i \in 1..n /\ queue'[i] = Chunk(writer.next, Taken + i)
        BY <1>1, <1>2, <2>2 DEF AInv, InOrder
      <3> QED  BY <3>1
    <2> QED  BY <1>1, <1>2, <2>1, <2>2
  <1>7. response'.does = "over" => Len(response'.sent) = writer'.next
    BY <1>3 DEF AInv, InOrder
  <1> QED  BY <1>3, <1>4, <1>5, <1>6, <1>7 DEF InOrder

\* What the writer does keeps the invariant.
LEMMA WriterStep ==
    ASSUME AInv, WriteFile \/ FileGone \/ WriteDirectory \/ EndArchive
    PROVE  AInv'
  <1>0. ArchiveTyped /\ InOrder /\ InTurn
    BY DEF AInv
  <1> DEFINE n == writer.next
  <1>1. /\ FileCount \in Nat /\ Directory = FileCount + 1 /\ Nothing = 0
        /\ n \in 1..Directory /\ Written \in Nat
    BY <1>0, Counted
  <1>2. CASE WriteFile
    <2>1. /\ writer.does = "files" /\ n \in 1..FileCount /\ Put(n)
          /\ writer'.does = "files" /\ writer'.next = n + 1
          /\ writer' = [does |-> writer'.does, next |-> writer'.next]
          /\ UNCHANGED <<lost, response>>
      BY <1>0, <1>2 DEF WriteFile, Folder, ArchiveTyped
    <2>2. Written = n - 1 /\ Written' = n
      BY <1>1, <2>1 DEF Written
    <2>3. ArchiveTyped'
      <3>1. n \in Chunks /\ writer'.next \in 1..Directory
        BY <1>1, <2>1 DEF Chunks
      <3>2. queue' \in Seq(Chunks)
        BY <1>0, <2>1, <3>1, Appended DEF Put, ArchiveTyped
      <3> QED  BY <1>0, <2>1, <3>1, <3>2 DEF ArchiveTyped
    <2>4. InOrder'
      <3>1. /\ n \in Chunks /\ n - 1 \in Nat /\ n = (n - 1) + 1
            /\ n = Chunk(writer'.next, n)
            /\ \A i \in 1..(n - 1) : Chunk(writer'.next, i) = Chunk(n, i)
        BY <1>1, <2>1 DEF Chunks, Chunk
      <3>2. response.does # "over"
        <4>1. /\ Taken \in Nat /\ Len(queue) \in Nat /\ Taken >= Len(response.sent)
              /\ Taken + Len(queue) = n - 1
          BY <1>0, <2>2, Counted DEF InOrder
        <4> QED  BY <1>0, <1>1, <4>1 DEF InOrder
      <3> QED  BY <2>1, <2>2, <2>3, <3>1, <3>2, PutKeepsOrder
    <2>5. InTurn'
      BY <1>0, <2>1 DEF InTurn
    <2> QED  BY <2>3, <2>4, <2>5 DEF AInv
  <1>3. CASE FileGone
    <2>1. /\ writer.does = "files" /\ writer'.does = "directory"
          /\ writer'.next = n /\ lost' = TRUE
          /\ writer' = [does |-> writer'.does, next |-> writer'.next]
          /\ UNCHANGED <<queue, response>>
      BY <1>0, <1>3 DEF FileGone, ArchiveTyped
    <2>2. Written' = Written /\ Taken' = Taken
      BY <2>1 DEF Written, Taken
    <2> QED  BY <1>0, <2>1, <2>2 DEF AInv, ArchiveTyped, InOrder, InTurn
  <1>4. CASE WriteDirectory
    <2>1. /\ writer.does = "directory" \/ (writer.does = "files" /\ n \notin Folder)
          /\ Put(Directory) /\ writer'.does = "end" /\ writer'.next = n
          /\ writer' = [does |-> writer'.does, next |-> writer'.next]
          /\ UNCHANGED <<lost, response>>
      BY <1>0, <1>4 DEF WriteDirectory, ArchiveTyped
    <2>2. Written = n - 1 /\ Written' = n
      BY <1>1, <2>1 DEF Written
    <2>3. ArchiveTyped'
      <3>1. Directory \in Chunks
        BY <1>1 DEF Chunks
      <3>2. queue' \in Seq(Chunks)
        BY <1>0, <2>1, <3>1, Appended DEF Put, ArchiveTyped
      <3> QED  BY <1>0, <2>1, <3>2 DEF ArchiveTyped
    <2>4. InOrder'
      <3>1. /\ Directory \in Chunks /\ n - 1 \in Nat /\ n = (n - 1) + 1
            /\ Directory = Chunk(writer'.next, n)
        BY <1>1, <2>1 DEF Chunks, Chunk
      <3> QED  BY <2>1, <2>2, <2>3, <3>1, PutKeepsOrder
    <2>5. InTurn'
      BY <1>0, <1>1, <2>1 DEF InTurn, Folder
    <2> QED  BY <2>3, <2>4, <2>5 DEF AInv
  <1>5. CASE EndArchive
    <2>1. /\ writer.does = "end" /\ Put(Nothing)
          /\ writer'.does = "over" /\ writer'.next = n
          /\ writer' = [does |-> writer'.does, next |-> writer'.next]
          /\ UNCHANGED <<lost, response>>
      BY <1>0, <1>5 DEF EndArchive, ArchiveTyped
    <2>2. Written = n /\ Written' = n + 1
      BY <1>1, <2>1 DEF Written
    <2>3. ArchiveTyped'
      <3>1. Nothing \in Chunks
        BY <1>1 DEF Chunks
      <3>2. queue' \in Seq(Chunks)
        BY <1>0, <2>1, <3>1, Appended DEF Put, ArchiveTyped
      <3> QED  BY <1>0, <2>1, <3>2 DEF ArchiveTyped
    <2>4. InOrder'
      <3>1. /\ Nothing \in Chunks /\ n \in Nat
            /\ Nothing = Chunk(writer'.next, n + 1)
        BY <1>1, <2>1 DEF Chunks, Chunk
      <3> QED  BY <2>1, <2>2, <2>3, <3>1, PutKeepsOrder
    <2>5. InTurn'
      BY <1>0, <2>1 DEF InTurn
    <2> QED  BY <2>3, <2>4, <2>5 DEF AInv
  <1> QED  BY <1>2, <1>3, <1>4, <1>5

\* What the response takes keeps the invariant.
LEMMA TakeStep ==
    ASSUME AInv, Take
    PROVE  AInv'
  <1>0. ArchiveTyped /\ InOrder /\ InTurn
    BY DEF AInv
  <1> DEFINE n == writer.next
             sent == response.sent
  <1>1. /\ FileCount \in Nat /\ Directory = FileCount + 1 /\ Nothing = 0
        /\ n \in 1..Directory /\ Written \in Nat
        /\ Taken \in Nat /\ Len(queue) \in Nat /\ Len(sent) \in Nat
    BY <1>0, Counted
  <1>2. /\ Taken = Len(sent) /\ response.does = "take"
        /\ Taken + Len(queue) = Written
        /\ UNCHANGED <<writer, lost>> /\ Written' = Written
    BY <1>0, <1>1 DEF Take, Taken, InOrder, Written
  <1>3. /\ Head(queue) = queue[1] /\ Head(queue) \in Chunks
        /\ queue' \in Seq(Chunks)
        /\ Len(queue) >= 1 /\ Len(queue') = Len(queue) - 1
        /\ \A i \in 1..(Len(queue) - 1) : queue'[i] = queue[i + 1]
    BY <1>0, HeadAndTail DEF Take, ArchiveTyped
  <1>4. Head(queue) = Chunk(n, Taken + 1)
    BY <1>0, <1>1, <1>3 DEF InOrder
  <1>5. CASE Head(queue) = Nothing
    <2>1. /\ response'.does = "over" /\ response'.sent = sent
          /\ response' = [does |-> response'.does, sent |-> response'.sent]
      BY <1>0, <1>5 DEF Take, ArchiveTyped
    <2>2. Taken + 1 > n
      BY <1>1, <1>4, <1>5 DEF Chunk
    <2>3. Taken + 1 =< Written /\ Written =< n + 1
      BY SMTT(30), <1>1, <1>2, <1>3 DEF Written
    <2>4. Taken' = Taken + 1 /\ Len(sent) = n
      BY <1>1, <1>2, <2>1, <2>2, <2>3 DEF Taken
    <2>5. \A i \in 1..Len(queue') : queue'[i] = Chunk(n, Taken' + i)
      <3> TAKE i \in 1..Len(queue')
      <3>1. i + 1 \in 1..Len(queue) /\ queue'[i] = queue[i + 1]
        BY <1>1, <1>3
      <3>2. queue[i + 1] = Chunk(n, Taken + (i + 1))
        BY <1>0, <3>1 DEF InOrder
      <3> QED  BY <1>1, <1>3, <2>4, <3>1, <3>2
    <2>6. InOrder'
      <3>1. Taken' + Len(queue') = Written'
        BY <1>1, <1>2, <1>3, <2>4
      <3>2. \A i \in 1..Len(response'.sent) : response'.sent[i] = Chunk(n, i)
        BY <1>0, <2>1 DEF InOrder
      <3> QED  BY <1>2, <2>1, <2>4, <2>5, <3>1, <3>2 DEF InOrder
    <2>7. ArchiveTyped' /\ InTurn'
      BY <1>0, <1>2, <1>3, <2>1 DEF ArchiveTyped, InTurn
    <2> QED  BY <2>6, <2>7 DEF AInv
  <1>6. CASE Head(queue) # Nothing
    <2>1. /\ response'.does = "take" /\ response'.sent = Append(sent, Head(queue))
          /\ response' = [does |-> response'.does, sent |-> response'.sent]
      BY <1>0, <1>2, <1>6 DEF Take, ArchiveTyped
    <2>2. /\ response'.sent \in Seq(Chunks) /\ Len(response'.sent) = Len(sent) + 1
          /\ \A i \in 1..Len(sent) : response'.sent[i] = sent[i]
          /\ response'.sent[Len(sent) + 1] = Head(queue)
      BY <1>0, <1>3, <2>1, Appended DEF ArchiveTyped
    <2>3. Taken' = Taken + 1
      BY <1>1, <1>2, <2>1, <2>2 DEF Taken
    <2>4. \A i \in 1..Len(response'.sent) : response'.sent[i] = Chunk(n, i)
      <3> TAKE i \in 1..Len(response'.sent)
      <3>1. CASE i = Len(sent) + 1
        BY <1>2, <1>4, <2>2, <3>1
      <3>2. CASE i \in 1..Len(sent)
        BY <1>0, <2>2, <3>2 DEF InOrder
      <3> QED  BY <1>1, <2>2, <3>1, <3>2
    <2>5. \A i \in 1..Len(queue') : queue'[i] = Chunk(n, Taken' + i)
      <3> TAKE i \in 1..Len(queue')
      <3>1. i + 1 \in 1..Len(queue) /\ queue'[i] = queue[i + 1]
        BY <1>1, <1>3
      <3>2. queue[i + 1] = Chunk(n, Taken + (i + 1))
        BY <1>0, <3>1 DEF InOrder
      <3>3. Taken + (i + 1) = Taken' + i
        BY <1>1, <1>3, <2>3
      <3> QED  BY <3>1, <3>2, <3>3
    <2>6. Taken' + Len(queue') = Written'
      <3>1. /\ Taken \in Nat /\ Len(queue) \in Nat /\ Len(queue') = Len(queue) - 1
            /\ Taken' = Taken + 1 /\ Written' = Written
            /\ Taken + Len(queue) = Written
        BY <1>1, <1>2, <1>3, <2>3
      <3> QED  BY ONLY <3>1
    <2>7. InOrder'
      BY <1>2, <2>1, <2>4, <2>5, <2>6 DEF InOrder
    <2>8. ArchiveTyped' /\ InTurn'
      BY <1>0, <1>2, <1>3, <2>1, <2>2 DEF ArchiveTyped, InTurn
    <2> QED  BY <2>7, <2>8 DEF AInv
  <1> QED  BY <1>5, <1>6

\* Every state keeps the invariant.
LEMMA ArchiveInvariant == ArchiveSpec => []AInv
  <1>1. ArchiveInit => AInv
    <2> SUFFICES ASSUME ArchiveInit PROVE AInv
      OBVIOUS
    <2>1. /\ queue = <<>> /\ writer.next = 1 /\ writer.does = "nothing"
          /\ response.does = "nothing" /\ response.sent = <<>>
      BY DEF ArchiveInit
    <2>2. ArchiveTyped
      BY <2>1, ArchiveAssumption DEF ArchiveInit, ArchiveTyped, Directory
    <2>3. Taken = 0 /\ Written = 0 /\ Len(queue) = 0
      BY <2>1 DEF Taken, Written
    <2> QED  BY <2>1, <2>2, <2>3 DEF AInv, InOrder, InTurn
  <1>2. AInv /\ [ArchiveNext]_archiveVars => AInv'
    <2> SUFFICES ASSUME AInv, [ArchiveNext]_archiveVars PROVE AInv'
      OBVIOUS
    <2>1. CASE UNCHANGED archiveVars
      <3>1. UNCHANGED <<queue, writer, lost, response>> /\ Taken' = Taken /\ Written' = Written
        BY <2>1 DEF archiveVars, Taken, Written
      <3> QED  BY <3>1 DEF AInv, ArchiveTyped, InOrder, InTurn
    <2>2. CASE BeginArchive
      <3>1. /\ writer.next = writer'.next /\ response'.sent = response.sent
            /\ writer' = [does |-> writer'.does, next |-> writer'.next]
            /\ response' = [does |-> response'.does, sent |-> response'.sent]
            /\ response.does = "nothing" /\ response'.does = "take"
            /\ writer'.does = "files" /\ UNCHANGED <<queue, lost>>
        BY <2>2 DEF BeginArchive, AInv, ArchiveTyped
      <3>2. Taken' = Taken /\ Written' = Written
        BY <3>1 DEF Taken, Written, AInv, InTurn
      <3> QED  BY <3>1, <3>2 DEF AInv, ArchiveTyped, InOrder, InTurn
    <2>3. CASE ClientLeaves
      <3>1. /\ response'.sent = response.sent /\ UNCHANGED <<queue, writer, lost>>
            /\ response' = [does |-> response'.does, sent |-> response'.sent]
            /\ response.does = "take" /\ response'.does = "gone"
        BY <2>3 DEF ClientLeaves, AInv, ArchiveTyped
      <3>2. Taken' = Taken /\ Written' = Written
        BY <3>1 DEF Taken, Written
      <3> QED  BY <3>1, <3>2 DEF AInv, ArchiveTyped, InOrder, InTurn
    <2>4. CASE Take
      BY <2>4, TakeStep
    <2>5. CASE WriteFile \/ FileGone \/ WriteDirectory \/ EndArchive
      BY <2>5, WriterStep
    <2> QED  BY <2>1, <2>2, <2>3, <2>4, <2>5 DEF ArchiveNext
  <1> QED  BY <1>1, <1>2, PTL DEF ArchiveSpec

\* A response that ended has sent every file in order and the directory last, or
\* the files before one that was gone and the directory (__init__.py:218, :233).
THEOREM ArchivesAreWhole == ArchiveSpec => []ArchiveWhole
  <1>1. AInv => ArchiveWhole
    <2> SUFFICES ASSUME AInv, response.does = "over"
                 PROVE  \E m \in 0..FileCount :
                          /\ response.sent = Append([i \in 1..m |-> i], Directory)
                          /\ m = FileCount \/ lost
      BY DEF ArchiveWhole
    <2> DEFINE m == writer.next - 1
               written == [i \in 1..m |-> i]
               sent == response.sent
    <2>1. /\ ArchiveTyped /\ FileCount \in Nat /\ Directory = FileCount + 1
          /\ writer.next \in 1..Directory /\ Written \in Nat
          /\ Taken \in Nat /\ Len(queue) \in Nat /\ Len(sent) \in Nat
      BY Counted DEF AInv
    <2>2. Len(sent) = m + 1 /\ m \in 0..FileCount
      BY <2>1 DEF AInv, InOrder
    <2>3. writer.does = "over"
      BY SMTT(30), <2>1, <2>2 DEF AInv, InOrder, Taken, Written
    <2>4. m = FileCount \/ lost
      BY <2>1, <2>3 DEF AInv, InTurn
    <2>5. /\ written \in Seq(Int) /\ Len(written) = m /\ Directory \in Int
          /\ \A i \in 1..m : written[i] = i
      BY <2>1, <2>2
    <2>6. /\ Append(written, Directory) \in Seq(Int) /\ Len(Append(written, Directory)) = m + 1
          /\ \A i \in 1..m : Append(written, Directory)[i] = i
          /\ Append(written, Directory)[m + 1] = Directory
      <3> HIDE DEF written, m
      <3> QED  BY <2>5, Appended
    <2>7. \A i \in 1..Len(sent) : sent[i] = Append(written, Directory)[i]
      BY SMTT(30), <2>1, <2>2, <2>6 DEF AInv, InOrder, Chunk
    <2>8. sent \in Seq(Int)
      BY <2>1 DEF ArchiveTyped, Chunks
    <2>9. sent = Append(written, Directory)
      BY <2>2, <2>6, <2>7, <2>8, SeqEqual
    <2> QED  BY <2>2, <2>4, <2>9
  <1> QED  BY <1>1, ArchiveInvariant, PTL
=============================================================================
