--------------------------------- MODULE Loft ---------------------------------
(***************************************************************************)
(* Posts of the photo blog: web_app/loft/data_interface.py and the routes   *)
(* of web_app/loft/__init__.py that change them.                            *)
(*                                                                          *)
(* A post is an entry of the one meta.json (`meta`) and a directory         *)
(* (`dirs`).  Entries change under the lock of meta.json; directories       *)
(* change wherever a request happens to be, so a deletion, a creation and   *)
(* a publication of one post may pass each other.  An upload to a gallery   *)
(* is staged without any lock and published under the quota lock of the     *)
(* gallery's owner: what an earlier publication left is cleared by its      *)
(* journal, the quota checked, a journal of the new names written, the      *)
(* files moved in, the entry saved, the journal deleted.  A directory is    *)
(* removed file by file.                                                    *)
(*                                                                          *)
(* Names of media are numbers: uploads all want the same stem, the case in  *)
(* which the search for a free suffix matters, and take the lowest free     *)
(* ones.  The content of a medium is the number of its upload.  A medium    *)
(* and a document weigh one unit each.  The journals of a post are the sets *)
(* of names they list.  A lock whose holder dies is free at once: nobody    *)
(* else can act on it before its lease has run out.                         *)
(***************************************************************************)
EXTENDS Integers, FiniteSets

CONSTANTS
    Requests,   \* request threads
    Users,
    Admins,     \* users who may edit every post, and upload raw ones
    Posts,      \* project and slug
    Quota,      \* units each user may store (quota_bytes)
    MaxName,    \* bound: names of media in a post
    Batches,    \* numbers of media an upload may bring
    Archives,   \* names of media that an administrator's archive may hold
    MaxOps,     \* bound: creations and uploads, raw ones included
    Faults,     \* what may go wrong: "stage", "move", "delete", "save",
                \* "crash", "lease"
    None

ASSUME LoftAssumption ==
    /\ Admins \subseteq Users
    /\ Batches \subseteq Nat \ {0}
    /\ IsFiniteSet(Posts)   \* slugs name directories: their length is bounded
    /\ Quota \in Nat /\ MaxName \in Nat /\ MaxOps \in Nat
    /\ Archives \subseteq SUBSET (1..MaxName)
    /\ None \notin Users \cup Posts \cup Requests

Names == 1..MaxName
Ops == 1..MaxOps
NoFile == 0

VARIABLES
    meta,       \* meta.json: the entry of each post, or None
    dirs,       \* the directory of each post
    metaLock,   \* the request that holds the lock of meta.json
    quotaLock,  \* and loft-quota:<user>
    req,        \* each request
    ops,        \* creations and uploads begun
    \* history
    taken,      \* listed media whose files a deletion removed
    raced,      \* posts on which two requests passed each other: deleted or
                \* created beside another, or published when the lock was lost;
                \* or an archive was unpacked over a gallery
    littered,   \* posts whose directory a deletion has begun to empty, or an
                \* archive was unpacked into, until the directory goes
    cut         \* posts where a request died or failed half way, or was refused
                \* after it made the directory

locks == <<metaLock, quotaLock>>
history == <<taken, raced, littered, cut>>
vars == <<meta, dirs, locks, req, ops, history>>

Kinds == {"raw", "markdown", "gallery"}
Item == [name : Names, id : Ops]
Entry == [type : Kinds, owner : Users, items : SUBSET Item, born : Ops]
ASSUME NoneAssumption == None \notin Entry   \* no entry is not an entry

Directory == [made : BOOLEAN, body : BOOLEAN, media : [Names -> Ops \cup {NoFile}],
              journals : SUBSET SUBSET Names]
Steps == {"idle", "mkdir", "entry", "body", "unpack", "register", "look", "stage", "wait",
          "recover", "recovering", "quota", "publish", "journal", "move", "finish",
          "rollback", "withdraw", "rmtree", "rmdir", "pop", "unlist", "purging"}
Request == [at : Steps, user : Users \cup {None}, post : Posts \cup {None},
            op : Ops \cup {0},       \* its creation or upload
            saw : Ops \cup {0},      \* born of the entry it was allowed to change
            kind : Kinds, owner : Users \cup {None}, files : Batches \cup {0},
            staged : BOOLEAN, names : SUBSET Names, moved : SUBSET Names,
            todo : SUBSET Posts, clean : BOOLEAN, creating : BOOLEAN]

NoDir == [made |-> FALSE, body |-> FALSE, media |-> [n \in Names |-> NoFile],
          journals |-> {}]
Idle == [at |-> "idle", user |-> None, post |-> None, op |-> 0, saw |-> 0,
         kind |-> "raw", owner |-> None, files |-> 0, staged |-> FALSE,
         names |-> {}, moved |-> {}, todo |-> {}, clean |-> TRUE,
         creating |-> FALSE]

Init ==
    /\ meta = [p \in Posts |-> None]
    /\ dirs = [p \in Posts |-> NoDir]
    /\ metaLock = None
    /\ quotaLock = [u \in Users |-> None]
    /\ req = [r \in Requests |-> Idle]
    /\ ops = 0
    /\ taken = {} /\ raced = {} /\ littered = {} /\ cut = {}

-----------------------------------------------------------------------------
(* Reading.                                                                *)

NamesIn(items) == {i.name : i \in items}
IsGallery(p) == meta[p] # None /\ meta[p].type = "gallery"
Listed(p) == IF IsGallery(p) THEN NamesIn(meta[p].items) ELSE {}
OnDisk(p) == {n \in Names : dirs[p].media[n] # NoFile}
MediaIn(p) == {[name |-> n, id |-> dirs[p].media[n]] : n \in OnDisk(p)}

\* user_can_edit.
MayEdit(u, p) == meta[p] # None /\ (u \in Admins \/ meta[p].owner = u)

OwnedBy(u) == {p \in Posts : meta[p] # None /\ meta[p].owner = u}
Galleries(u) == {p \in OwnedBy(u) : meta[p].type = "gallery" /\ dirs[p].made}

\* user_storage_bytes: everything in the directories of the user's posts.
Stored(P) == {pn \in P \X Names : dirs[pn[1]].media[pn[2]] # NoFile}
MediaBytes(P) == Cardinality(Stored(P))
Used(u) == MediaBytes(OwnedBy(u)) + Cardinality({p \in OwnedBy(u) : dirs[p].body})

\* check_quota.
WithinQuota(u, more) == Used(u) + more =< Quota

\* The k lowest names that are neither listed nor taken on disk.
FreeNames(p, k) ==
    LET free == Names \ (Listed(p) \cup OnDisk(p))
    IN  {n \in free : Cardinality({m \in free : m < n}) < k}

At(r, step) == req[r].at = step
Go(r, step) == req' = [req EXCEPT ![r].at = step]
Done(r) == req' = [req EXCEPT ![r] = Idle]
\* Another request is between its first look at the post and its end.
BusyOn(r, p) == \E q \in Requests \ {r} : req[q].post = p
\* Another request is about to remove the directory of the post.
Emptied(p) == \E q \in Requests : req[q].post = p /\ At(q, "rmdir")
Journaled(p) == UNION dirs[p].journals
MetaFree == metaLock = None

Without(d, names) ==
    [d EXCEPT !.media = [n \in Names |-> IF n \in names THEN NoFile ELSE @[n]]]

-----------------------------------------------------------------------------
(* Creating a post.                                                        *)

\* A request begins, as the number of one of the creations and uploads.
Begin(r, request) ==
    /\ At(r, "idle") /\ ops < MaxOps
    /\ ops' = ops + 1
    /\ req' = [req EXCEPT ![r] = [request EXCEPT !.op = ops + 1]]

\* create_markdown_post and create_gallery_post up to the directory: the slug is
\* free if there is no directory, and a document is held against the quota.
\* new_post may bring media for a gallery.
BeginCreate(r, u, p, kind, k) ==
    /\ ~dirs[p].made
    /\ kind = "markdown" => k = 0 /\ WithinQuota(u, 1)
    /\ Begin(r, [Idle EXCEPT !.at = "mkdir", !.user = u, !.post = p, !.saw = ops + 1,
                            !.kind = kind, !.files = k, !.creating = k > 0])
    /\ UNCHANGED <<meta, dirs, locks, history>>

\* post_dir.mkdir(exist_ok=True).
MakeDir(r) ==
    /\ At(r, "mkdir")
    /\ dirs' = [dirs EXCEPT ![req[r].post].made = TRUE]
    /\ Go(r, "entry")
    /\ UNCHANGED <<meta, locks, ops, history>>

\* write_post_meta replaces whatever entry there is.
PutEntry(r, p, kind) ==
    /\ MetaFree
    /\ meta' = [meta EXCEPT ![p] = [type |-> kind, owner |-> req[r].user,
                                    items |-> {}, born |-> req[r].op]]
    /\ raced' = raced \cup {x \in {p} : meta[p] # None \/ ~dirs[p].made}

WriteEntry(r) ==
    /\ At(r, "entry")
    /\ PutEntry(r, req[r].post, req[r].kind)
    /\ CASE req[r].kind = "markdown" -> Go(r, "body")
         [] req[r].files > 0 ->
              req' = [req EXCEPT ![r].at = "look", ![r].kind = "raw"]
         [] OTHER -> Done(r)
    /\ UNCHANGED <<dirs, locks, ops, taken, littered, cut>>

\* The lock is not to be had or the save fails, or the lock was lost and the error
\* comes after the save; nothing is undone.
EntryFails(r) ==
    LET p == req[r].post
        kind == IF At(r, "register") THEN "raw" ELSE req[r].kind
    IN  /\ "save" \in Faults
        /\ At(r, "entry") \/ At(r, "register")
        /\ PutEntry(r, p, kind) \/ UNCHANGED <<meta, raced>>
        /\ cut' = cut \cup {p}
        /\ Done(r)
        /\ UNCHANGED <<dirs, locks, ops, taken, littered>>

\* source.md is written; atomic_write makes the directory if it has gone.
PutBody(p) ==
    /\ dirs' = [dirs EXCEPT ![p].made = TRUE, ![p].body = TRUE]
    /\ raced' = raced \cup {x \in {p} : ~dirs[p].made \/ Emptied(p)}

\* Or cannot be written, and the post keeps its entry.
WriteBody(r) ==
    /\ At(r, "body")
    /\ PutBody(req[r].post) \/ ("save" \in Faults /\ UNCHANGED <<dirs, raced>>)
    /\ Done(r)
    /\ UNCHANGED <<meta, locks, ops, taken, littered, cut>>

\* update_markdown_post, which neither checks the quota nor changes the entry but
\* for its title.
UpdateBody(u, p) ==
    /\ MayEdit(u, p) /\ meta[p].type = "markdown" /\ MetaFree
    /\ PutBody(p)
    /\ UNCHANGED <<meta, locks, req, ops, taken, littered, cut>>

\* upload_post, for an administrator's archive: the directory is made...
BeginRaw(r, u, p) ==
    /\ u \in Admins
    /\ Begin(r, [Idle EXCEPT !.at = "unpack", !.user = u, !.post = p])
    /\ dirs' = [dirs EXCEPT ![p].made = TRUE]
    /\ raced' = raced \cup {x \in {p} : meta[p] # None /\ ~dirs[p].made}
    /\ UNCHANGED <<meta, locks, taken, littered, cut>>

\* ... and stays when the archive is then refused: no zip, or a path out of it.
RefuseRaw(r) ==
    LET p == req[r].post
    IN  /\ At(r, "unpack")
        /\ cut' = cut \cup {x \in {p} : meta[p] = None}
        /\ Done(r)
        /\ UNCHANGED <<meta, dirs, locks, ops, taken, raced, littered>>

\* extractall adds to the directory and overwrites what has the same name, and may
\* fail part way.
Unpack(r) ==
    LET p == req[r].post
        Extract(names) ==
            dirs' = [dirs EXCEPT ![p].made = TRUE, ![p].body = TRUE,
                                 ![p].media = [n \in Names |-> IF n \in names THEN req[r].op
                                                               ELSE @[n]]]
    IN  /\ At(r, "unpack")
        /\ \/ /\ \E names \in Archives : Extract(names)
              /\ Go(r, "register")
              /\ UNCHANGED cut
           \/ /\ "move" \in Faults
              /\ \E names \in UNION {SUBSET whole : whole \in Archives} : Extract(names)
              /\ Done(r)
              /\ cut' = cut \cup {p}
        /\ littered' = littered \cup {p}
        /\ raced' = raced \cup {x \in {p} : IsGallery(p) \/ BusyOn(r, p)}
        /\ UNCHANGED <<meta, locks, ops, taken>>

\* register_raw_post replaces the entry.
Register(r) ==
    /\ At(r, "register")
    /\ PutEntry(r, req[r].post, "raw")
    /\ Done(r)
    /\ UNCHANGED <<dirs, locks, ops, taken, littered, cut>>

-----------------------------------------------------------------------------
(* Uploading to a gallery: staging.                                        *)

\* Faulty variant: edit_post takes any order of the media, and with it what the client
\* did not list is dropped.
AnyOrder(p, order) == TRUE

\* update_gallery_meta: the client's media_order lists exactly the present media.
OrderMatches(p, order) == order = Listed(p)

\* The route add_gallery_images, and edit_post, which first sets the items to the
\* client's order of them.
BeginAdd(r, u, p, order, k) ==
    /\ MetaFree
    /\ MayEdit(u, p) /\ IsGallery(p) /\ OrderMatches(p, order)
    /\ meta' = [meta EXCEPT ![p].items = {i \in @ : i.name \in order}]
    /\ Begin(r, [Idle EXCEPT !.at = "look", !.user = u, !.post = p, !.files = k])
    /\ UNCHANGED <<dirs, locks, history>>

\* The request fails; new_post then deletes the post it created.
GiveUp(r) ==
    req' = [req EXCEPT ![r] =
              IF @.creating
                THEN [Idle EXCEPT !.at = "rmtree", !.post = req[r].post,
                                  !.saw = req[r].saw]
                ELSE Idle]

\* add_gallery_media reads the entry, and with it whose quota counts.
Look(r) ==
    LET p == req[r].post
    IN  /\ At(r, "look")
        /\ IF IsGallery(p)
             THEN req' = [req EXCEPT ![r].at = "stage", ![r].owner = meta[p].owner]
             ELSE GiveUp(r)
        /\ UNCHANGED <<meta, dirs, locks, ops, history>>

\* _cleanup_stale_gallery_staging removes what other uploads staged longer ago than
\* the limit; _prepare_gallery_uploads then stages this one's media.
Stage(r) ==
    /\ At(r, "stage")
    /\ \E old \in SUBSET {q \in Requests \ {r} : req[q].staged} :
         req' = [q \in Requests |->
                   IF q = r THEN [req[q] EXCEPT !.at = "wait", !.staged = TRUE]
                   ELSE IF q \in old THEN [req[q] EXCEPT !.staged = FALSE]
                   ELSE req[q]]
    /\ UNCHANGED <<meta, dirs, locks, ops, history>>

\* The media are refused, or cannot be spooled.
StageFails(r) ==
    /\ At(r, "stage") /\ "stage" \in Faults
    /\ GiveUp(r)
    /\ UNCHANGED <<meta, dirs, locks, ops, history>>

\* Faulty variant: the lock of the user who uploads, not of the owner.
LockOfUser(r) == req[r].user

\* The lock that serialises the publications of one owner.
LockOf(r) == req[r].owner

\* It is taken, or not within gallery_quota_lock_blocking_timeout_s.
TakeQuota(r) ==
    /\ At(r, "wait") /\ quotaLock[LockOf(r)] = None
    /\ quotaLock' = [quotaLock EXCEPT ![LockOf(r)] = r]
    /\ Go(r, "recover")
    /\ UNCHANGED <<meta, dirs, metaLock, ops, history>>

Busy(r) ==
    /\ At(r, "wait") /\ quotaLock[LockOf(r)] # None
    /\ GiveUp(r)
    /\ UNCHANGED <<meta, dirs, locks, ops, history>>

DropQuota(r) ==
    quotaLock' = [u \in Users |-> IF quotaLock[u] = r THEN None ELSE quotaLock[u]]

-----------------------------------------------------------------------------
(* Recovery: _recover_gallery_publish_journals, under both locks.           *)

BeginRecovery(r) ==
    /\ At(r, "recover") /\ MetaFree
    /\ metaLock' = r
    /\ req' = [req EXCEPT ![r].at = "recovering", ![r].todo = Galleries(req[r].owner)]
    /\ UNCHANGED <<meta, dirs, quotaLock, ops, history>>

\* Faulty variant: what the journals name goes, listed or not.
AllJournaled(p) == Journaled(p) \cap OnDisk(p)

\* What the journals of a gallery name and its entry does not list.
Leftovers(p) == (Journaled(p) \ Listed(p)) \cap OnDisk(p)

\* These files are removed one by one, then the journals.
RemoveLeftovers(r, p) ==
    /\ At(r, "recovering") /\ p \in req[r].todo
    /\ \E n \in Leftovers(p) : dirs' = [dirs EXCEPT ![p] = Without(@, {n})]
    /\ UNCHANGED <<meta, locks, req, ops, history>>

RemoveJournals(r, p) ==
    /\ At(r, "recovering") /\ p \in req[r].todo
    /\ Leftovers(p) = {}
    /\ dirs' = [dirs EXCEPT ![p].journals = {}]
    /\ req' = [req EXCEPT ![r].todo = @ \ {p}]
    /\ UNCHANGED <<meta, locks, ops, history>>

\* A file cannot be removed: logged, and the next journal's turn.
RecoveryFails(r, p) ==
    /\ At(r, "recovering") /\ "delete" \in Faults
    /\ p \in req[r].todo /\ dirs[p].journals # {}
    /\ req' = [req EXCEPT ![r].todo = @ \ {p}, ![r].clean = FALSE]
    /\ UNCHANGED <<meta, dirs, locks, ops, history>>

\* The block ends with a save, which changes nothing but may fail.
EndRecovery(r) ==
    /\ At(r, "recovering") /\ req[r].todo = {}
    /\ metaLock' = None
    /\ \/ Go(r, "quota") /\ UNCHANGED quotaLock
       \/ "save" \in Faults /\ GiveUp(r) /\ DropQuota(r)
    /\ UNCHANGED <<meta, dirs, ops, history>>

\* check_quota, with the limit of the owner.
CheckQuota(r) ==
    /\ At(r, "quota")
    /\ IF WithinQuota(req[r].owner, req[r].files)
         THEN Go(r, "publish") /\ UNCHANGED quotaLock
         ELSE GiveUp(r) /\ DropQuota(r)
    /\ UNCHANGED <<meta, dirs, metaLock, ops, history>>

-----------------------------------------------------------------------------
(* Publication: _publish_gallery_uploads.                                   *)

\* Under the lock of meta.json the post is looked at again, and names are chosen.
BeginPublish(r) ==
    LET p == req[r].post
        chosen == FreeNames(p, req[r].files)
    IN  /\ At(r, "publish") /\ MetaFree
        /\ IF IsGallery(p) /\ meta[p].owner = req[r].owner /\ dirs[p].made
             THEN /\ Cardinality(chosen) = req[r].files
                  /\ metaLock' = r
                  /\ req' = [req EXCEPT ![r].at = "journal", ![r].names = chosen,
                                        ![r].clean = TRUE]
                  /\ UNCHANGED quotaLock
             ELSE GiveUp(r) /\ DropQuota(r) /\ UNCHANGED metaLock
        /\ UNCHANGED <<meta, dirs, ops, history>>

\* The journal is written, making the directory if it has gone.
WriteJournal(r) ==
    LET p == req[r].post
    IN  /\ At(r, "journal")
        /\ dirs' = [dirs EXCEPT ![p].made = TRUE,
                                ![p].journals = @ \cup {req[r].names}]
        /\ raced' = raced \cup {x \in {p} : ~dirs[p].made \/ Emptied(p)}
        /\ Go(r, "move")
        /\ UNCHANGED <<meta, locks, ops, taken, littered, cut>>

\* Or it cannot be written: an OSError, like those below.
JournalFails(r) ==
    /\ At(r, "journal") /\ "save" \in Faults
    /\ metaLock' = None
    /\ GiveUp(r) /\ DropQuota(r)
    /\ UNCHANGED <<meta, dirs, ops, history>>

\* The staged media are renamed into the directory one by one...
Move(r) ==
    LET p == req[r].post
        rest == req[r].names \ req[r].moved
    IN  /\ At(r, "move")
        /\ req[r].staged /\ dirs[p].made
        /\ \E n \in rest :
             /\ \A m \in rest : n =< m
             /\ dirs' = [dirs EXCEPT ![p].media[n] = req[r].op]
             /\ req' = [req EXCEPT ![r].moved = @ \cup {n}]
        /\ UNCHANGED <<meta, locks, ops, history>>

\* ... unless a rename fails, or what is renamed or where to has gone.  The exception
\* leaves the block, and the lock, before it is handled.
MoveFails(r) ==
    /\ At(r, "move") /\ req[r].names # req[r].moved
    /\ ~req[r].staged \/ ~dirs[req[r].post].made \/ "move" \in Faults
    /\ metaLock' = None
    /\ Go(r, "rollback")
    /\ UNCHANGED <<meta, dirs, quotaLock, ops, history>>

\* The items are added and the entry saved.
SaveItems(r) ==
    LET p == req[r].post
    IN  /\ At(r, "move") /\ req[r].names = req[r].moved
        /\ metaLock' = None
        /\ meta' = [meta EXCEPT ![p].items =
                      @ \cup [name : req[r].names, id : {req[r].op}]]

Commit(r) ==
    /\ SaveItems(r)
    /\ Go(r, "finish")
    /\ UNCHANGED <<dirs, quotaLock, ops, history>>

\* The save fails...
SaveFails(r) ==
    /\ At(r, "move") /\ req[r].names = req[r].moved /\ "save" \in Faults
    /\ metaLock' = None
    /\ Go(r, "rollback")
    /\ UNCHANGED <<meta, dirs, quotaLock, ops, history>>

\* ... or succeeds, and the lock turns out to have been lost meanwhile: rmw_lock raises
\* RuntimeError after the save, which is rolled back like any other failure; but
\* new_post does not catch it, and keeps the post.
LeaseLost(r) ==
    /\ "lease" \in Faults
    /\ SaveItems(r)
    /\ raced' = raced \cup {req[r].post}
    /\ req' = [req EXCEPT ![r].at = "rollback", ![r].creating = FALSE]
    /\ UNCHANGED <<dirs, quotaLock, ops, taken, littered, cut>>

\* The journal is deleted, or stays if that fails: what it names is listed.
Finish(r) ==
    LET p == req[r].post
    IN  /\ At(r, "finish")
        /\ \/ /\ dirs' = [dirs EXCEPT ![p].journals = @ \ {req[r].names}]
              /\ UNCHANGED cut
           \/ /\ "delete" \in Faults
              /\ cut' = cut \cup {p}
              /\ UNCHANGED dirs
        /\ Done(r) /\ DropQuota(r)
        /\ UNCHANGED <<meta, metaLock, ops, taken, raced, littered>>

\* After a failure what was moved is deleted, without the lock of meta.json...
Rollback(r) ==
    LET p == req[r].post
    IN  /\ At(r, "rollback")
        /\ \/ /\ dirs' = [dirs EXCEPT ![p] = Without(@, req[r].moved)]
              /\ Go(r, "withdraw")
              /\ UNCHANGED <<quotaLock, cut>>
           \/ /\ "delete" \in Faults
              /\ \E gone \in SUBSET req[r].moved :
                   /\ gone # req[r].moved
                   /\ dirs' = [dirs EXCEPT ![p] = Without(@, gone)]
              /\ cut' = cut \cup {p}
              /\ GiveUp(r) /\ DropQuota(r)
        /\ UNCHANGED <<meta, metaLock, ops, taken, raced, littered>>

\* ... and then, unless a deletion failed, the journal, which may fail as well.
Withdraw(r) ==
    LET p == req[r].post
    IN  /\ At(r, "withdraw")
        /\ \/ /\ dirs' = [dirs EXCEPT ![p].journals = @ \ {req[r].names}]
              /\ UNCHANGED cut
           \/ /\ "delete" \in Faults
              /\ cut' = cut \cup {p}
              /\ UNCHANGED dirs
        /\ GiveUp(r) /\ DropQuota(r)
        /\ UNCHANGED <<meta, metaLock, ops, taken, raced, littered>>

-----------------------------------------------------------------------------
(* Deleting.                                                               *)

\* The route delete_post, its check of the owner made.
BeginDelete(r, u, p) ==
    /\ At(r, "idle") /\ MayEdit(u, p)
    /\ req' = [req EXCEPT ![r] = [Idle EXCEPT !.at = "rmtree", !.post = p,
                                              !.saw = meta[p].born]]
    /\ UNCHANGED <<meta, dirs, locks, ops, history>>

\* delete_post: nothing to do without a directory; otherwise rmtree begins.
BeginRemoval(r) ==
    LET p == req[r].post
    IN  /\ At(r, "rmtree")
        /\ IF dirs[p].made
             THEN /\ littered' = littered \cup {p}
                  /\ raced' = raced \cup {x \in {p} : BusyOn(r, p)}
                  /\ Go(r, "rmdir")
             ELSE UNCHANGED <<raced, littered>> /\ Done(r)
        /\ UNCHANGED <<meta, dirs, locks, ops, taken, cut>>

\* One of the files in a directory goes: a medium, a journal, or anything else.
RemoveFile(p) ==
    \/ \E n \in OnDisk(p) :
         /\ dirs' = [dirs EXCEPT ![p] = Without(@, {n})]
         /\ taken' = taken \cup {i \in MediaIn(p) : i.name = n}
    \/ /\ \E names \in dirs[p].journals : dirs' = [dirs EXCEPT ![p].journals = @ \ {names}]
       /\ UNCHANGED taken
    \/ /\ dirs[p].body
       /\ dirs' = [dirs EXCEPT ![p].body = FALSE]
       /\ UNCHANGED taken

\* The files go in any order...
RemoveFiles(r) ==
    LET p == req[r].post
    IN  /\ At(r, "rmdir")
        /\ RemoveFile(p)
        /\ raced' = raced \cup {x \in {p} : BusyOn(r, p)}
        /\ UNCHANGED <<meta, locks, req, ops, littered, cut>>

EmptyDir == [NoDir EXCEPT !.made = TRUE]

\* ... and then the directory.  It stays when it has gone already, or something came
\* into it meanwhile...
RemoveDir(r) ==
    LET p == req[r].post
    IN  /\ At(r, "rmdir")
        /\ \/ /\ dirs[p] = EmptyDir
              /\ dirs' = [dirs EXCEPT ![p] = NoDir]
              /\ littered' = littered \ {p}
              /\ raced' = raced \cup {x \in {p} : BusyOn(r, p)}
              /\ Go(r, "pop")
           \/ /\ dirs[p] # EmptyDir
              /\ ~dirs[p].made \/ BusyOn(r, p) \/ p \in raced
              /\ raced' = raced \cup {p}
              /\ Done(r)
              /\ UNCHANGED <<dirs, littered>>
        /\ UNCHANGED <<meta, locks, ops, taken, cut>>

\* ... or when the removal fails, and what has gone by then is gone.
RemovalFails(r) ==
    /\ At(r, "rmdir") /\ "delete" \in Faults
    /\ cut' = cut \cup {req[r].post}
    /\ Done(r)
    /\ UNCHANGED <<meta, dirs, locks, ops, taken, raced, littered>>

\* The entry goes after the directory, whoever's entry it is by now; or the save fails.
RemoveEntry(r) ==
    LET p == req[r].post
    IN  /\ At(r, "pop") /\ MetaFree
        /\ \/ /\ meta' = [meta EXCEPT ![p] = None]
              /\ UNCHANGED cut
           \/ /\ "save" \in Faults
              /\ cut' = cut \cup {p}
              /\ UNCHANGED meta
        /\ raced' = raced \cup
             {x \in {p} : dirs[p].made \/ (meta[p] # None /\ meta[p].born # req[r].saw)}
        /\ Done(r)
        /\ UNCHANGED <<dirs, locks, ops, taken, littered>>

\* delete_gallery_media: the file is deleted under the lock...
Unlink(r, u, p, n) ==
    /\ At(r, "idle") /\ MetaFree
    /\ MayEdit(u, p) /\ n \in Listed(p)
    /\ metaLock' = r
    /\ dirs' = [dirs EXCEPT ![p] = Without(@, {n})]
    /\ taken' = taken \cup {i \in meta[p].items : i.name = n}
    /\ req' = [req EXCEPT ![r] = [Idle EXCEPT !.at = "unlist", !.post = p,
                                              !.names = {n}]]
    /\ UNCHANGED <<meta, quotaLock, ops, raced, littered, cut>>

\* ... and its item with the save, which may fail.
Unlist(r) ==
    LET p == req[r].post
    IN  /\ At(r, "unlist")
        /\ \/ /\ meta' = [meta EXCEPT ![p].items = {i \in @ : i.name \notin req[r].names}]
              /\ UNCHANGED cut
           \/ /\ "save" \in Faults
              /\ cut' = cut \cup {p}
              /\ UNCHANGED meta
        /\ metaLock' = None
        /\ Done(r)
        /\ UNCHANGED <<dirs, quotaLock, ops, taken, raced, littered>>

\* delete_user_data: under the lock, each post of the user loses its directory...
BeginPurge(r, u) ==
    /\ At(r, "idle") /\ MetaFree /\ OwnedBy(u) # {}
    /\ metaLock' = r
    /\ req' = [req EXCEPT ![r] = [Idle EXCEPT !.at = "purging", !.user = u,
                                              !.todo = OwnedBy(u)]]
    /\ UNCHANGED <<meta, dirs, quotaLock, ops, history>>

PurgeFiles(r, p) ==
    /\ At(r, "purging") /\ p \in req[r].todo
    /\ RemoveFile(p)
    /\ littered' = littered \cup {p}
    /\ raced' = raced \cup {x \in {p} : BusyOn(r, p)}
    /\ UNCHANGED <<meta, locks, req, ops, cut>>

\* ... which stays if its removal fails or something came into it: errors are ignored...
PurgeOne(r, p) ==
    /\ At(r, "purging") /\ p \in req[r].todo
    /\ req' = [req EXCEPT ![r].todo = @ \ {p}]
    /\ raced' = raced \cup {x \in {p} : BusyOn(r, p)}
    /\ \/ /\ dirs[p] \in {NoDir, EmptyDir}
          /\ dirs' = [dirs EXCEPT ![p] = NoDir]
          /\ littered' = littered \ {p}
          /\ UNCHANGED cut
       \/ /\ dirs[p].made
          /\ "delete" \in Faults \/ BusyOn(r, p) \/ p \in raced
          /\ littered' = littered \cup {p}
          /\ cut' = cut \cup {p}
          /\ UNCHANGED dirs
    /\ UNCHANGED <<meta, locks, ops, taken>>

\* ... and its entry with the save.
EndPurge(r) ==
    /\ At(r, "purging") /\ req[r].todo = {}
    /\ \/ /\ meta' = [p \in Posts |-> IF p \in OwnedBy(req[r].user) THEN None ELSE meta[p]]
          /\ UNCHANGED cut
       \/ /\ "save" \in Faults
          /\ cut' = cut \cup OwnedBy(req[r].user)
          /\ UNCHANGED meta
    /\ metaLock' = None
    /\ Done(r)
    /\ UNCHANGED <<dirs, quotaLock, ops, taken, raced, littered>>

-----------------------------------------------------------------------------

\* The posts that a request, if it ended now, would leave half done.
HalfDone(r) ==
    {p \in Posts :
       \/ At(r, "purging") /\ p \in OwnedBy(req[r].user)
       \/ /\ req[r].post = p
          /\ req[r].creating \/ req[r].at \in {"mkdir", "entry", "body", "unpack",
               "register", "journal", "move", "finish", "rollback", "withdraw",
               "rmdir", "pop", "unlist"}}

\* A worker dies.  Its locks run out.
Crash(r) ==
    /\ "crash" \in Faults /\ ~At(r, "idle")
    /\ cut' = cut \cup HalfDone(r)
    /\ metaLock' = IF metaLock = r THEN None ELSE metaLock
    /\ DropQuota(r)
    /\ Done(r)
    /\ UNCHANGED <<meta, dirs, ops, taken, raced, littered>>

Creating(r) == \E u \in Users, p \in Posts, kind \in Kinds \ {"raw"}, k \in Batches \cup {0} :
                 BeginCreate(r, u, p, kind, k)
Adding(r) == \E u \in Users, p \in Posts, order \in SUBSET Names, k \in Batches :
               BeginAdd(r, u, p, order, k)
Deleting(r) ==
    \E u \in Users, p \in Posts :
        BeginRaw(r, u, p) \/ BeginDelete(r, u, p) \/ \E n \in Names : Unlink(r, u, p, n)
Recovering(r) ==
    \E p \in Posts :
        RemoveLeftovers(r, p) \/ RemoveJournals(r, p) \/ RecoveryFails(r, p)
            \/ PurgeFiles(r, p) \/ PurgeOne(r, p)

Step(r) ==
    \/ MakeDir(r) \/ WriteEntry(r) \/ EntryFails(r) \/ WriteBody(r)
    \/ RefuseRaw(r) \/ Unpack(r) \/ Register(r)
    \/ Look(r) \/ Stage(r) \/ StageFails(r) \/ TakeQuota(r) \/ Busy(r)
    \/ BeginRecovery(r) \/ Recovering(r) \/ EndRecovery(r) \/ CheckQuota(r)
    \/ BeginPublish(r) \/ WriteJournal(r) \/ JournalFails(r) \/ Move(r) \/ MoveFails(r)
    \/ Commit(r) \/ SaveFails(r) \/ LeaseLost(r) \/ Finish(r)
    \/ Rollback(r) \/ Withdraw(r)
    \/ BeginRemoval(r) \/ RemoveFiles(r) \/ RemoveDir(r) \/ RemovalFails(r)
    \/ RemoveEntry(r) \/ Unlist(r) \/ EndPurge(r)

Next ==
    \/ \E u \in Users, p \in Posts : UpdateBody(u, p)
    \/ \E r \in Requests :
          \/ Creating(r) \/ Adding(r) \/ Deleting(r)
          \/ \E u \in Users : BeginPurge(r, u)
          \/ Step(r) \/ Crash(r)

Spec == Init /\ [][Next]_vars

-----------------------------------------------------------------------------

TypeOK ==
    /\ meta \in [Posts -> Entry \cup {None}]
    /\ dirs \in [Posts -> Directory]
    /\ metaLock \in Requests \cup {None}
    /\ quotaLock \in [Users -> Requests \cup {None}]
    /\ req \in [Requests -> Request]
    /\ ops \in 0..MaxOps
    /\ taken \subseteq Item
    /\ raced \subseteq Posts /\ littered \subseteq Posts /\ cut \subseteq Posts

\* A medium that an entry lists is on disk, as the upload that listed it wrote it, and
\* under a name of its own: no publication, rollback or recovery of another touches it.
\* Only a deletion that was asked for takes it, and may die or fail before the entry
\* is saved.
MediaIntact ==
    \A p \in Posts \ raced : IsGallery(p) =>
        /\ \A i \in meta[p].items : dirs[p].media[i.name] = i.id \/ i \in taken
        /\ \A i, j \in meta[p].items : i.name = j.name => i = j

\* Whatever dies or fails, a medium in a gallery that is not listed is named by a journal,
\* by which the next upload finds it; unless a deletion of the post has begun to take
\* its files, of which the journal may be the first.
StraysJournaled ==
    \A p \in Posts \ (raced \cup littered) : IsGallery(p) =>
        OnDisk(p) \subseteq Listed(p) \cup Journaled(p)

\* The galleries of a user never grow past the quota, whatever several uploads of
\* several users to several of them do at once.  (A document is checked without a
\* lock and may.)
GalleriesWithinQuota ==
    \A u \in Users : MediaBytes({p \in OwnedBy(u) \ raced : IsGallery(p)}) =< Quota

\* An upload that counts the bytes and publishes does so in galleries without
\* leftovers, though publications before it died, unless their removal failed or the
\* gallery is being deleted.
ClearedFirst ==
    \A r \in Requests : req[r].at \in {"quota", "publish"} /\ req[r].clean =>
        \A p \in Galleries(req[r].owner) \ (raced \cup littered) :
            dirs[p].journals = {} /\ OnDisk(p) \subseteq Listed(p)

\* When nobody works on a post, it has both an entry and a directory or neither, no
\* journal, and a gallery's media are those listed; unless a request died or failed half
\* way there, an archive was refused, or two requests passed each other.
NothingHalfDone ==
    \A p \in Posts \ (raced \cup cut) :
        (\A r \in Requests : req[r].post # p /\ ~At(r, "purging")) =>
            /\ dirs[p].made <=> meta[p] # None
            /\ dirs[p].journals = {}
            /\ IsGallery(p) => OnDisk(p) = Listed(p)

\* What was begun and not finished is known, and cleared away before more is published.
PublicationSound == TypeOK /\ StraysJournaled /\ ClearedFirst /\ NothingHalfDone

=============================================================================
