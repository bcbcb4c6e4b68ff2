---------------------------- MODULE FileContent ----------------------------
(***************************************************************************)
(* The file store's contents on disk, the metadata that names them, and the *)
(* requests of several workers that use both                                *)
(* (web_app/file_store/data_interface.py).                                  *)
(*                                                                          *)
(* A content is stored once, in a file named by its checksum, for all the   *)
(* users that have it.  An upload is spooled to temporary files before it   *)
(* takes the metadata edit lock; an edit renames or deletes content files   *)
(* one at a time while it holds the lock, and the metadata that says so is  *)
(* replaced only when it ends.  Readers take no lock: they look an entry up *)
(* and open the file later.                                                 *)
(*                                                                          *)
(* The lock is the one of RmwLock with punctual renewals, so at most one    *)
(* request holds it.  Which paths may coexist is the subject of FileTree.   *)
(***************************************************************************)
EXTENDS Integers, FiniteSets, Functions

CONSTANTS
    Slots,      \* request threads; each serves one request after another
    Users,
    Paths,      \* paths of files; each belongs to one user's tree
    Owner,      \* the user of each path
    Contents,   \* distinct contents, by checksum
    Size,       \* bytes of each content
    Quota,      \* a user's storage limit
    Faults      \* what may go wrong: a subset of FaultKinds

NoSlot == "none"
NoContent == "none"
NoUser == "none"

FaultKinds == {"stream", "apply", "clean", "save", "crash"}

ASSUME FileContentAssumption ==
    /\ IsFiniteSet(Paths)    \* nginx limits a request, and the names in it
    /\ Owner \in [Paths -> Users]
    /\ Size \in [Contents -> Nat]
    /\ Quota \in Nat
    /\ Faults \subseteq FaultKinds
    /\ NoSlot \notin Slots /\ NoContent \notin Contents

PathsOf(u) == {p \in Paths : Owner[p] = u}

\* What requests of a user may name: some paths, or an upload for each.
Selections(u) == (SUBSET PathsOf(u)) \ {{}}
Batches(u) == UNION {[P -> Contents] : P \in Selections(u)}

VARIABLES
    \* metadata.json
    index,      \* metadata.files: the contents it lists
    entries,    \* the content of each path
    \* the files directory
    blobs,      \* the contents in it
    stray,      \* a temporary file in it outlived its request
    damaged, abandoned,     \* contents that an edit cut short was going to
                            \* delete, and contents it had just stored
    \* the request that holds the metadata lock
    holder,
    newIndex, newEntries,   \* its copy of the metadata
    doomed,     \* contents it has still to delete
    \* each request
    pc, kind, user,
    batch,      \* contents of an upload
    targets,    \* paths it has still to deal with
    temps,      \* paths whose upload is in a temporary file
    want,       \* the content a reader looked up
    replaced,   \* bytes that an upload replaces, as its check of the limit finds
    alone       \* no other upload of its user was in flight with this one, and
                \* none of the entries it replaces was moved away, or deleted
                \* while it was checked

metaVars == <<index, entries>>
editVars == <<holder, newIndex, newEntries, doomed>>
slotVars == <<pc, kind, user, batch, targets, temps, want, replaced, alone>>
cutVars == <<damaged, abandoned>>
vars == <<metaVars, blobs, stray, cutVars, editVars, slotVars>>

EmptyTree == [p \in Paths |-> NoContent]

\* The contents that some entry names.
Refs(tree) == {tree[p] : p \in Paths} \ {NoContent}

\* The bytes of the entries at `paths`, how many they are, and
\* get_total_storage_size.
BytesAt(tree, paths) == UNION {{p} \X (1..Size[tree[p]]) : p \in paths}
SizeAt(tree, paths) == Cardinality(BytesAt(tree, paths))
Listed(u, tree) == {p \in PathsOf(u) : tree[p] # NoContent}
Usage(u, tree) == SizeAt(tree, Listed(u, tree))

Init ==
    /\ index = {}
    /\ entries = EmptyTree
    /\ blobs = {}
    /\ stray = FALSE
    /\ damaged = {} /\ abandoned = {}
    /\ holder = NoSlot
    /\ newIndex = {} /\ newEntries = entries /\ doomed = {}
    /\ pc = [s \in Slots |-> "idle"]
    /\ kind = [s \in Slots |-> "none"]
    /\ user = [s \in Slots |-> NoUser]
    /\ batch = [s \in Slots |-> <<>>]
    /\ targets = [s \in Slots |-> {}]
    /\ temps = [s \in Slots |-> {}]
    /\ want = [s \in Slots |-> NoContent]
    /\ replaced = [s \in Slots |-> 0]
    /\ alone = [s \in Slots |-> FALSE]

-----------------------------------------------------------------------------
(* Requests begin and end.                                                 *)

Begin(s, what, u, paths, next) ==
    /\ pc[s] = "idle"
    /\ pc' = [pc EXCEPT ![s] = next]
    /\ kind' = [kind EXCEPT ![s] = what]
    /\ user' = [user EXCEPT ![s] = u]
    /\ targets' = [targets EXCEPT ![s] = paths]

\* The request is over, leaving the temporary files `left` behind.
Leave(s, left) ==
    /\ pc' = [pc EXCEPT ![s] = "idle"]
    /\ kind' = [kind EXCEPT ![s] = "none"]
    /\ user' = [user EXCEPT ![s] = NoUser]
    /\ batch' = [batch EXCEPT ![s] = <<>>]
    /\ targets' = [targets EXCEPT ![s] = {}]
    /\ temps' = [temps EXCEPT ![s] = {}]
    /\ want' = [want EXCEPT ![s] = NoContent]
    /\ replaced' = [replaced EXCEPT ![s] = 0]
    /\ stray' = (stray \/ left # {})

\* The same, when it has saved nothing.
End(s, left) ==
    /\ Leave(s, left)
    /\ alone' = [alone EXCEPT ![s] = FALSE]

\* The lock is released and the copy of the metadata dropped.
Release ==
    /\ holder' = NoSlot
    /\ newIndex' = {}
    /\ newEntries' = EmptyTree
    /\ doomed' = {}

\* The other uploads of the same user that are in flight.
Rivals(s, u) == {t \in Slots \ {s} : kind[t] = "upload" /\ user[t] = u}

\* upload_file, up to the first load of validate_batch_quota: what the batch
\* replaces.
BeginUpload(s, u, b) ==
    /\ Begin(s, "upload", u, DOMAIN b, "checking")
    /\ batch' = [batch EXCEPT ![s] = b]
    /\ replaced' = [replaced EXCEPT ![s] = SizeAt(entries, DOMAIN b \cap Listed(u, entries))]
    /\ alone' = [t \in Slots |->
                   IF t = s THEN Rivals(s, u) = {}
                   ELSE alone[t] /\ t \notin Rivals(s, u)]
    /\ UNCHANGED <<metaVars, blobs, stray, cutVars, editVars, temps, want>>

\* Faulty variant: only the incoming bytes are held against the limit.
BatchWithinQuota(s) == SizeAt(batch[s], DOMAIN batch[s]) =< Quota

\* The second load of validate_batch_quota, of what there is in all: what was
\* found to be replaced does not count.
WithinQuota(s) ==
    Usage(user[s], entries) - replaced[s] + SizeAt(batch[s], DOMAIN batch[s]) =< Quota

\* The limit is checked without the lock, and the upload refused or spooled.
CheckQuota(s) ==
    /\ pc[s] = "checking"
    /\ IF WithinQuota(s)
         THEN /\ pc' = [pc EXCEPT ![s] = "streaming"]
              /\ replaced' = [replaced EXCEPT ![s] = 0]
              /\ UNCHANGED <<stray, kind, user, batch, targets, temps, want, alone>>
         ELSE End(s, {})
    /\ UNCHANGED <<metaVars, blobs, cutVars, editVars>>

\* delete_path and delete_paths.
BeginDelete(s, u, paths) ==
    /\ Begin(s, "delete", u, paths, "waiting")
    /\ UNCHANGED <<metaVars, blobs, stray, cutVars, editVars, batch, temps, want,
                   replaced, alone>>

\* move_path and move_paths.
BeginMove(s, u, paths) ==
    /\ Begin(s, "move", u, paths, "waiting")
    /\ UNCHANGED <<metaVars, blobs, stray, cutVars, editVars, batch, temps, want,
                   replaced, alone>>

\* delete_all_files and delete_user_data, which take whatever there is.
BeginErase(s, u) ==
    /\ Begin(s, "erase", u, PathsOf(u), "waiting")
    /\ UNCHANGED <<metaVars, blobs, stray, cutVars, editVars, batch, temps, want,
                   replaced, alone>>

\* get_file_path for a download: the entry is looked up.
BeginRead(s, u, p) ==
    /\ p \in Listed(u, entries)
    /\ Begin(s, "download", u, {p}, "opening")
    /\ want' = [want EXCEPT ![s] = entries[p]]
    /\ UNCHANGED <<metaVars, blobs, stray, cutVars, editVars, batch, temps, replaced,
                   alone>>

-----------------------------------------------------------------------------
(* Spooling, outside the lock.                                             *)

\* _stream_upload of one file of the batch.
StreamOne(s, p) ==
    /\ pc[s] = "streaming"
    /\ p \in targets[s]
    /\ temps' = [temps EXCEPT ![s] = @ \cup {p}]
    /\ IF targets[s] = {p}
         THEN /\ pc' = [pc EXCEPT ![s] = "waiting"]
              /\ targets' = [targets EXCEPT ![s] = DOMAIN batch[s]]
         ELSE /\ targets' = [targets EXCEPT ![s] = @ \ {p}]
              /\ UNCHANGED pc
    /\ UNCHANGED <<metaVars, blobs, stray, cutVars, editVars, kind, user, batch, want,
                   replaced, alone>>

\* The stream breaks: that file is unlinked.  save_files has not reached the
\* statement whose finally clause sweeps the ones before it.
StreamFails(s) ==
    /\ "stream" \in Faults
    /\ pc[s] = "streaming"
    /\ End(s, temps[s])
    /\ UNCHANGED <<metaVars, blobs, cutVars, editVars>>

-----------------------------------------------------------------------------
(* The edit, under the lock.                                               *)

\* Faulty variant: only the entries of the request's own user count.
UnreferencedByUser(s, listed, tree) ==
    listed \ {tree[p] : p \in PathsOf(user[s])}

\* _cleanup_unreferenced: the listed contents that no entry of any user names.
Unreferenced(s, listed, tree) == listed \ Refs(tree)

\* The lock is taken and the metadata loaded; an upload is ready to apply its
\* files.
EnterUpload(s) ==
    /\ pc[s] = "waiting" /\ kind[s] = "upload"
    /\ holder = NoSlot
    /\ holder' = s
    /\ newIndex' = index
    /\ newEntries' = entries
    /\ pc' = [pc EXCEPT ![s] = "applying"]
    /\ UNCHANGED <<metaVars, blobs, stray, cutVars, doomed, kind, user, batch, targets,
                   temps, want, replaced, alone>>

\* An upload is refused under the lock, or any request while it waits for it.
TurnAway(s) ==
    /\ pc[s] = "waiting"
    /\ End(s, {})
    /\ UNCHANGED <<metaVars, blobs, cutVars, editVars>>

\* The same for a deletion: the copy loses the entries, and contents that no
\* entry of any user names any more are to go.  A deletion that names a path
\* the user does not have is refused.
EnterDelete(s) ==
    /\ pc[s] = "waiting" /\ kind[s] \in {"delete", "erase"}
    /\ holder = NoSlot
    /\ IF kind[s] = "delete" /\ ~(targets[s] \subseteq Listed(user[s], entries))
         THEN /\ End(s, {})
              /\ UNCHANGED editVars
         ELSE /\ holder' = s
              /\ newIndex' = index
              /\ newEntries' = [p \in Paths |-> IF p \in targets[s]
                                                 THEN NoContent ELSE entries[p]]
              /\ doomed' = Unreferenced(s, index, newEntries')
              /\ pc' = [pc EXCEPT ![s] = "cleaning"]
              /\ UNCHANGED <<stray, kind, user, batch, targets, temps, want,
                             replaced, alone>>
    /\ UNCHANGED <<metaVars, blobs, cutVars>>

\* The same for a move: the entries come to lie at other paths, where there is
\* no entry that stays.
EnterMove(s) ==
    LET free == PathsOf(user[s]) \ (Listed(user[s], entries) \ targets[s])
    IN  /\ pc[s] = "waiting" /\ kind[s] = "move"
        /\ holder = NoSlot
        /\ targets[s] \subseteq Listed(user[s], entries)
        /\ holder' = s
        /\ newIndex' = index
        /\ \E to \in SUBSET free : \E from \in Bijection(to, targets[s]) :
             newEntries' = [p \in Paths |-> IF p \in to THEN entries[from[p]]
                                            ELSE IF p \in targets[s] THEN NoContent
                                            ELSE entries[p]]
        /\ doomed' = {}
        /\ pc' = [pc EXCEPT ![s] = "cleaning"]
        /\ UNCHANGED <<metaVars, blobs, stray, cutVars, kind, user, batch, targets, temps,
                       want, replaced, alone>>

\* _save_file_metadata for one file of the batch: content that the store has
\* already is dropped, other content is renamed into place.
ApplyOne(s, p) ==
    LET c == batch[s][p]
        stored == {c} \ newIndex
    IN  /\ pc[s] = "applying"
        /\ p \in targets[s]
        /\ IF newEntries[p] = c
             THEN UNCHANGED <<newIndex, newEntries, blobs>>
             ELSE /\ newIndex' = newIndex \cup stored
                  /\ newEntries' = [newEntries EXCEPT ![p] = c]
                  /\ blobs' = blobs \cup stored
        /\ temps' = [temps EXCEPT ![s] = @ \ {p}]
        /\ targets' = [targets EXCEPT ![s] = @ \ {p}]
        /\ IF targets[s] = {p}
             THEN /\ pc' = [pc EXCEPT ![s] = "cleaning"]
                  /\ doomed' = Unreferenced(s, newIndex', newEntries')
             ELSE UNCHANGED <<pc, doomed>>
        /\ UNCHANGED <<metaVars, stray, cutVars, holder, kind, user, batch, want,
                       replaced, alone>>

\* What the edit of s deletes from the store: contents that no entry of its
\* copy names any more.
Dropped(s) == IF pc[s] = "cleaning" THEN index \ Refs(newEntries) ELSE {}

\* The edit ends before its metadata is saved, and nothing undoes what it did
\* on disk.
CutShort(s, left) ==
    /\ damaged' = damaged \cup Dropped(s)
    /\ abandoned' = abandoned \cup (newIndex \ index)
    /\ End(s, left)
    /\ Release

\* Faulty variant: only the metadata is taken back.
RollBackMetadata(s, kept) ==
    /\ blobs' = kept
    /\ damaged' = damaged \cup Dropped(s)
    /\ UNCHANGED abandoned
    /\ End(s, {})
    /\ Release

\* The except clause of save_files: delete what this call stored, discard the
\* copy of the metadata, sweep the temporary files.
RollBack(s, kept) ==
    /\ blobs' = kept \ (newIndex \ index)
    /\ damaged' = damaged \cup Dropped(s)
    /\ abandoned' = abandoned \ (newIndex \ index)
    /\ End(s, {})
    /\ Release

\* Renaming a file into place fails.
ApplyFails(s) ==
    /\ "apply" \in Faults
    /\ pc[s] = "applying"
    /\ RollBack(s, blobs)
    /\ UNCHANGED metaVars

\* The loop of _cleanup_unreferenced, or of delete_user_data: one content goes.
CleanOne(s, c) ==
    /\ pc[s] = "cleaning"
    /\ c \in doomed
    /\ blobs' = blobs \ {c}
    /\ newIndex' = newIndex \ {c}
    /\ doomed' = doomed \ {c}
    /\ UNCHANGED <<metaVars, stray, cutVars, holder, newEntries, slotVars>>

\* Deleting a content fails, or deleting its thumbnail once it has gone.
CleanFails(s, c) ==
    /\ "clean" \in Faults
    /\ pc[s] = "cleaning"
    /\ c \in doomed
    /\ \E kept \in {blobs, blobs \ {c}} :
          IF kind[s] = "upload"
            THEN RollBack(s, kept)
            ELSE blobs' = kept /\ CutShort(s, {})
    /\ UNCHANGED metaVars

\* The edit of s takes away an entry that the upload t would replace: by a move,
\* or while the limit is checked.
Upsets(s, t) ==
    /\ kind[t] = "upload" /\ user[t] = user[s]
    /\ kind[s] = "move" \/ pc[t] = "checking"
    /\ \E p \in DOMAIN batch[t] : entries[p] # NoContent /\ newEntries[p] # entries[p]

\* The block ends: the metadata file is replaced and the lock released.
Save(s) ==
    /\ pc[s] = "cleaning"
    /\ doomed = {}
    /\ index' = newIndex
    /\ entries' = newEntries
    /\ damaged' = damaged \cap newIndex
    /\ abandoned' = abandoned \ newIndex
    /\ Leave(s, {})
    /\ alone' = [t \in Slots |-> t # s /\ alone[t] /\ ~Upsets(s, t)]
    /\ Release
    /\ UNCHANGED blobs

\* Replacing the metadata file fails: the exception is raised past the except
\* clause, so nothing on disk is undone.
SaveFails(s) ==
    /\ "save" \in Faults
    /\ pc[s] = "cleaning"
    /\ doomed = {}
    /\ CutShort(s, {})
    /\ UNCHANGED <<metaVars, blobs>>

-----------------------------------------------------------------------------
\* send_file opens the content, without the lock, or finds it gone and answers
\* with an error; once it is open, deleting it does no harm.
Open(s) ==
    /\ pc[s] = "opening"
    /\ End(s, {})
    /\ UNCHANGED <<metaVars, blobs, cutVars, editVars>>

\* The worker dies; the lease of its lock expires.
Crash(s) ==
    /\ "crash" \in Faults
    /\ pc[s] # "idle"
    /\ IF holder = s THEN CutShort(s, temps[s])
       ELSE End(s, temps[s]) /\ UNCHANGED <<cutVars, editVars>>
    /\ UNCHANGED <<metaVars, blobs>>

-----------------------------------------------------------------------------
Next ==
    \E s \in Slots :
        \/ \E u \in Users :
              \/ \E b \in Batches(u) : BeginUpload(s, u, b)
              \/ \E P \in Selections(u) : BeginDelete(s, u, P) \/ BeginMove(s, u, P)
              \/ BeginErase(s, u)
              \/ \E p \in PathsOf(u) : BeginRead(s, u, p)
        \/ \E p \in Paths : StreamOne(s, p) \/ ApplyOne(s, p)
        \/ CheckQuota(s)
        \/ EnterUpload(s) \/ EnterDelete(s) \/ EnterMove(s) \/ TurnAway(s)
        \/ \E c \in Contents : CleanOne(s, c) \/ CleanFails(s, c)
        \/ Save(s) \/ Open(s)
        \/ StreamFails(s) \/ ApplyFails(s) \/ SaveFails(s) \/ Crash(s)

Spec == Init /\ [][Next]_vars

-----------------------------------------------------------------------------
Trees == [Paths -> Contents \cup {NoContent}]

TypeOK ==
    /\ index \subseteq Contents
    /\ entries \in Trees
    /\ blobs \subseteq Contents
    /\ stray \in BOOLEAN
    /\ damaged \subseteq Contents /\ abandoned \subseteq Contents
    /\ holder \in Slots \cup {NoSlot}
    /\ newIndex \subseteq Contents
    /\ newEntries \in Trees
    /\ doomed \subseteq Contents
    /\ pc \in [Slots -> {"idle", "checking", "streaming", "waiting",
                         "applying", "cleaning", "opening"}]
    /\ kind \in [Slots -> {"none", "upload", "delete", "move", "erase", "download"}]
    /\ user \in [Slots -> Users \cup {NoUser}]
    /\ \A s \in Slots : kind[s] = "upload" => batch[s] \in Batches(user[s])
    /\ targets \in [Slots -> SUBSET Paths]
    /\ temps \in [Slots -> SUBSET Paths]
    /\ want \in [Slots -> Contents \cup {NoContent}]
    /\ replaced \in [Slots -> Nat]
    /\ alone \in [Slots -> BOOLEAN]

\* The holder of the lock is removing or replacing this entry.
BeingChanged(p) == holder # NoSlot /\ newEntries[p] # entries[p]

\* The content of every entry that the saved metadata lists is on disk, at
\* every moment, unless the edit in progress is removing or replacing that
\* very entry, or an edit that a crash or an error cut short was deleting that
\* content for good: content that another entry or another user still needs
\* is never deleted (_cleanup_unreferenced, delete_user_data), and an upload
\* that fails takes back only what it stored (save_files,
\* data_interface.py:284: "Roll back files written to disk this call").
ContentIntact ==
    \A p \in Paths :
        entries[p] # NoContent /\ ~BeingChanged(p)
            => entries[p] \in blobs \cup damaged

\* Between edits the store holds the listed contents and no others, except
\* what an edit cut short had just stored: content nobody lists any more has
\* been deleted, and a later upload of the same content adopts the remnant.
NothingOrphaned ==
    holder = NoSlot =>
        index = Refs(entries) /\ blobs \ index \subseteq abandoned

\* A download that finds its content gone has raced with an edit of that very
\* entry, or met the damage of an edit cut short: edits of other entries
\* never break it (get_file_path looks up without the lock,
\* data_interface.py:312).
LookupGoesStaleByItsEntry ==
    \A s \in Slots :
        pc[s] = "opening" /\ want[s] \notin blobs \cup damaged =>
            \A p \in targets[s] : entries[p] # want[s] \/ BeingChanged(p)

\* Neither entries nor lookups lead to content that another edit deleted.
ContentSound == TypeOK /\ ContentIntact /\ LookupGoesStaleByItsEntry

\* An upload takes its user over the storage limit, which is checked before
\* the lock is taken, only when another upload of that user is in flight with
\* it, or when an entry that it was going to replace was moved away or changed
\* by a move, or was deleted between the two loads of the check, and so
\* deducted twice (validate_batch_quota, data_interface.py:643).
UploadAloneKeepsQuota ==
    [][\A s \in Slots :
          holder = s /\ alone[s] /\ entries' # entries
              => Usage(user[s], entries') =< Quota]_vars

\* No upload leaves temporary files behind ("sweep leftovers on error paths",
\* data_interface.py:292).
NoStrayTemps == ~stray
=============================================================================
