----------------------------- MODULE Thumbnails -----------------------------
(***************************************************************************)
(* The thumbnail of one stored content (web_app/file_store/                 *)
(* data_interface.py, get_thumbnail_for_file and create_thumbnail), made    *)
(* when it is first asked for, without a lock, beside the edit that deletes *)
(* the content (_cleanup_unreferenced).  Module FileContent has the rest of *)
(* what happens to contents.                                                *)
(***************************************************************************)
EXTENDS Naturals, FiniteSets

CONSTANTS Makers        \* request threads that ask for the thumbnail

VARIABLES
    named,      \* whether the saved metadata names the content
    stored,     \* whether the content is there
    thumbnail,  \* its thumbnail: none, partial or whole
    maker,      \* what each request is about to do
    cleanup,    \* how far the deletion of the content has come
    late,       \* whether it passed a thumbnail in the making, or was cut short
    broken      \* whether a request stopped in the middle of a thumbnail

thumbnailVars == <<named, stored, thumbnail, maker, cleanup, late, broken>>

ThumbnailInit ==
    /\ named = TRUE /\ stored = TRUE
    /\ thumbnail = "none"
    /\ maker = [r \in Makers |-> "nothing"]
    /\ cleanup = "nothing"
    /\ late = FALSE /\ broken = FALSE

Making(r) == maker[r] \in {"create", "open", "save", "write", "write unlinked"}
MakerGoes(r, at) == maker' = [maker EXCEPT ![r] = at]
Unlinked(r) == IF maker[r] = "write" THEN "write unlinked" ELSE maker[r]
MakerOnly == UNCHANGED <<named, stored, cleanup, late>>

\* get_thumbnail_for_file looks the content up, then for its thumbnail.
AskThumbnail(r) ==
    /\ maker[r] = "nothing"
    /\ named /\ stored
    /\ MakerGoes(r, "look")
    /\ UNCHANGED <<thumbnail, broken>> /\ MakerOnly

LookForThumbnail(r) ==
    /\ maker[r] = "look"
    /\ MakerGoes(r, IF thumbnail = "none" THEN "create" ELSE "nothing")
    /\ UNCHANGED <<thumbnail, broken>> /\ MakerOnly

\* create_thumbnail looks for both once more, opens the content and scales it.
CheckContent(r) ==
    /\ maker[r] = "create"
    /\ MakerGoes(r, IF stored /\ thumbnail = "none" THEN "open" ELSE "nothing")
    /\ UNCHANGED <<thumbnail, broken>> /\ MakerOnly

OpenContent(r) ==
    /\ maker[r] = "open"
    /\ MakerGoes(r, IF stored THEN "save" ELSE "nothing")
    /\ UNCHANGED <<thumbnail, broken>> /\ MakerOnly

\* The file is opened for writing where it will be.
BeginWrite(r) ==
    /\ maker[r] = "save"
    /\ MakerGoes(r, "write")
    /\ thumbnail' = "partial"
    /\ UNCHANGED broken /\ MakerOnly

\* Of several requests that write it the last one completes it.
EndWrite(r) ==
    /\ maker[r] \in {"write", "write unlinked"}
    /\ MakerGoes(r, "nothing")
    /\ thumbnail' = IF /\ maker[r] = "write"
                       /\ \A q \in Makers \ {r} : maker[q] # "write"
                      THEN "whole" ELSE thumbnail
    /\ UNCHANGED broken /\ MakerOnly

\* The image cannot be read or written, or the worker dies.
MakeFails(r) ==
    /\ Making(r)
    /\ MakerGoes(r, "nothing")
    /\ broken' = (broken \/ maker[r] = "write")
    /\ UNCHANGED thumbnail /\ MakerOnly

\* The library removes what it could not write, whoever else writes it.
EncodingFails(r) ==
    /\ maker[r] = "write"
    /\ thumbnail' = "none"
    /\ maker' = [q \in Makers |-> IF q = r THEN "nothing" ELSE Unlinked(q)]
    /\ broken' = FALSE
    /\ MakerOnly

-----------------------------------------------------------------------------
\* _cleanup_unreferenced, under the lock.
DeleteContent ==
    /\ cleanup = "nothing" /\ named
    /\ stored' = FALSE
    /\ cleanup' = "thumbnail"
    /\ UNCHANGED <<named, thumbnail, maker, late, broken>>

\* Faulty variant: the thumbnail is left where it is.
SkipThumbnail ==
    /\ cleanup = "thumbnail"
    /\ cleanup' = "metadata"
    /\ UNCHANGED <<named, stored, thumbnail, maker, late, broken>>

\* Whoever writes it goes on writing a file that has no name any more.
DeleteThumbnail ==
    /\ cleanup = "thumbnail"
    /\ thumbnail' = "none"
    /\ maker' = [r \in Makers |-> Unlinked(r)]
    /\ late' = (\E r \in Makers : maker[r] = "save")
    /\ broken' = FALSE
    /\ cleanup' = "metadata"
    /\ UNCHANGED <<named, stored>>

SaveMetadata ==
    /\ cleanup = "metadata"
    /\ named' = FALSE
    /\ cleanup' = "nothing"
    /\ UNCHANGED <<stored, thumbnail, maker, late, broken>>

CleanupDies ==
    /\ cleanup # "nothing"
    /\ cleanup' = "nothing"
    /\ late' = (late \/ cleanup = "thumbnail")
    /\ UNCHANGED <<named, stored, thumbnail, maker, broken>>

\* The same content is uploaded again, and stored if no metadata names it.
UploadAgain ==
    /\ cleanup = "nothing" /\ ~named
    /\ stored' = TRUE /\ named' = TRUE
    /\ late' = FALSE
    /\ UNCHANGED <<thumbnail, maker, cleanup, broken>>

ThumbnailNext ==
    \/ \E r \in Makers :
        \/ AskThumbnail(r) \/ LookForThumbnail(r) \/ CheckContent(r) \/ OpenContent(r)
        \/ BeginWrite(r) \/ EndWrite(r) \/ MakeFails(r) \/ EncodingFails(r)
    \/ DeleteContent \/ DeleteThumbnail \/ SaveMetadata \/ CleanupDies \/ UploadAgain

ThumbnailSpec == ThumbnailInit /\ [][ThumbnailNext]_thumbnailVars

-----------------------------------------------------------------------------
\* When nobody works on it, a thumbnail is there only with its content, unless
\* the deletion passed a request that had the content in memory and not begun
\* to write (data_interface.py:690), or was cut short between the two files
\* (:137).  And it is whole, unless a request stopped while it wrote: nothing
\* makes it again then (:673).
ThumbnailFollows ==
    (\A r \in Makers : maker[r] = "nothing") /\ cleanup = "nothing" =>
        /\ thumbnail # "none" => stored \/ late
        /\ thumbnail = "partial" => broken
=============================================================================
