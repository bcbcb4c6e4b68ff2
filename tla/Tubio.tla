-------------------------------- MODULE Tubio --------------------------------
(***************************************************************************)
(* Tubio's library: the records and playlists of metadata.json and the      *)
(* audio files they stand for (web_app/tubio).                              *)
(*                                                                          *)
(* An edit of metadata.json runs under its lock and is one step.  Audio     *)
(* files are written, replaced and deleted outside it.  cache_audio takes a *)
(* claim in Redis that keeps other calls of cache_audio away; the rest of   *)
(* the writers ignore it and it may run out, so it is left out: conversions *)
(* of a track may always overlap.  A track is named by its crc: of its      *)
(* video's id when a surprise playlist reserves it, of its bytes when it is *)
(* converted first or uploaded, so one video may have two.  A user's        *)
(* regular playlists are taken together as the user's shelf.                *)
(***************************************************************************)
EXTENDS Naturals, FiniteSets

CONSTANTS
    Slots,          \* request threads
    Users,
    Reserved,       \* crcs that surprise playlists reserve
    Converted,      \* crcs of converted videos
    Uploaded,       \* crcs of uploaded files
    Video(_),       \* the video of a reserved or a converted crc
    WorkersDie      \* whether a worker may die in the middle of a request

Videos == Reserved \cup Converted
Tracks == Videos \cup Uploaded
NoUser == "none"
NoTrack == "no track"

\* A crc is a number.
ASSUME TubioAssumption == NoTrack \notin Tracks

VARIABLES
    shelf,      \* tracks in the regular playlists of each user
    surprise,   \* tracks in the user's surprise playlist
    age,        \* of that playlist: none, fresh, or stale, past its lifetime
    audios,     \* the record of each track: absent, uncached or cached
    files,      \* tracks with an audio file
    \* each request
    pc, user, track,
    doomed,     \* files a cleanup has yet to delete
    \* bookkeeping
    torn,       \* tracks whose file two requests worked on at once, whose
                \* request was cut short, or whose record was saved although
                \* the lock's release raised
    lapsed      \* tracks a cleanup dropped while a request was about to add
                \* them to a playlist

library == <<shelf, surprise, age, audios>>
work == <<pc, user, track, doomed, torn>>
vars == <<library, files, work, lapsed>>

Init ==
    /\ shelf = [u \in Users |-> {}] /\ surprise = [u \in Users |-> {}]
    /\ age = [u \in Users |-> "none"]
    /\ audios = [t \in Tracks |-> "absent"]
    /\ files = {}
    /\ pc = [s \in Slots |-> "idle"]
    /\ user = [s \in Slots |-> NoUser]
    /\ track = [s \in Slots |-> NoTrack]
    /\ doomed = [s \in Slots |-> {}]
    /\ torn = {} /\ lapsed = {}

Records == {t \in Tracks : audios[t] # "absent"}
\* What the user may play, and may start a surprise playlist from.
Seeds(u) == shelf[u] \cup (IF age[u] = "fresh" THEN surprise[u] ELSE {})
\* The crcs of the same video.
Sought(t) == {r \in Videos : Video(r) = Video(t)}

Steps == {"idle", "write", "record", "shelve", "convert", "placed", "unlink",
          "unlinked", "serve", "repair", "cache", "cache placed", "undo", "create",
          "grow", "clean", "delete"}
\* The steps of a request that decide about, or change, the file of its track.
FileSteps == {"write", "record", "unlink", "unlinked", "convert", "placed",
              "serve", "repair", "cache", "cache placed", "undo"}
WorksOn(s) == doomed[s] \cup (IF pc[s] \in FileSteps THEN {track[s]} ELSE {})
BesideOthers(s) == UNION {WorksOn(r) : r \in Slots \ {s}}

Begin(s, what, u, t) ==
    /\ pc[s] = "idle"
    /\ pc' = [pc EXCEPT ![s] = what]
    /\ user' = [user EXCEPT ![s] = u]
    /\ track' = [track EXCEPT ![s] = t]
    /\ torn' = IF what \in FileSteps THEN torn \cup ({t} \cap BesideOthers(s))
               ELSE torn
    /\ UNCHANGED doomed

Go(s, next) ==
    /\ pc' = [pc EXCEPT ![s] = next]
    /\ UNCHANGED <<user, track, doomed, torn>>

Free(s) ==
    /\ pc' = [pc EXCEPT ![s] = "idle"]
    /\ user' = [user EXCEPT ![s] = NoUser]
    /\ track' = [track EXCEPT ![s] = NoTrack]
    /\ doomed' = [doomed EXCEPT ![s] = {}]

Done(s) == Free(s) /\ UNCHANGED torn

\* A conversion has saved the record of its track.  If the lock turns out to
\* be lost when it is released, that raises all the same, and the handler takes
\* the file away.
Saved(s) ==
    \/ Done(s)
    \/ /\ pc' = [pc EXCEPT ![s] = "undo"]
       /\ torn' = torn \cup {track[s]}
       /\ UNCHANGED <<user, track, doomed>>

\* A cleanup follows.
Clean(s) ==
    /\ pc' = [pc EXCEPT ![s] = "clean"]
    /\ user' = [user EXCEPT ![s] = NoUser]
    /\ track' = [track EXCEPT ![s] = NoTrack]
    /\ UNCHANGED <<doomed, torn>>

-----------------------------------------------------------------------------
(* Uploads and downloads.                                                  *)

\* upload_audio, save_audio: the crc is looked up in the unlocked metadata.
BeginUpload(s, u, t) ==
    /\ Begin(s, IF t \in Records THEN "shelve" ELSE "write", u, t)
    /\ UNCHANGED <<library, files, lapsed>>

WriteUpload(s) ==
    /\ pc[s] = "write"
    /\ files' = files \cup {track[s]}
    /\ Go(s, "record")
    /\ UNCHANGED <<library, lapsed>>

RecordUpload(s) ==
    /\ pc[s] = "record"
    /\ audios' = [audios EXCEPT ![track[s]] = "cached"]
    /\ Go(s, "shelve")
    /\ UNCHANGED <<shelf, surprise, age, files, lapsed>>

\* The track is added to a playlist, in an edit of its own.
Shelve(s) ==
    /\ pc[s] = "shelve"
    /\ shelf' = [shelf EXCEPT ![user[s]] = @ \cup {track[s]}]
    /\ Done(s)
    /\ UNCHANGED <<surprise, age, audios, files, lapsed>>

\* youtube_download: a record of the video, if the unlocked metadata has one,
\* is added to a playlist; otherwise the video is converted.
BeginDownload(s, u, t) ==
    /\ shelf[u] \cap Sought(t) \cap Records = {}
    /\ \/ /\ Sought(t) \cap Records = {}
          /\ t \in Converted
          /\ Begin(s, "convert", u, t)
       \/ \E r \in Sought(t) \cap Records : Begin(s, "shelve", u, r)
    /\ UNCHANGED <<library, files, lapsed>>

\* download_youtube_audio: the converted file takes its place.
PlaceDownload(s) ==
    /\ pc[s] = "convert"
    /\ files' = files \cup {track[s]}
    /\ Go(s, "placed")
    /\ UNCHANGED <<library, lapsed>>

\* Then record and playlist are written, in one edit.
SaveDownload(s) ==
    /\ pc[s] = "placed"
    /\ audios' = [audios EXCEPT ![track[s]] = "cached"]
    /\ shelf' = [shelf EXCEPT ![user[s]] = @ \cup {track[s]}]
    /\ Saved(s)
    /\ UNCHANGED <<surprise, age, files, lapsed>>

\* resync_audio: the file is deleted, the record is put back as uncached, and
\* the video is converted again for the same crc.
BeginResync(s, u, t) ==
    /\ t \in Videos \cap Records
    /\ Begin(s, "unlink", u, t)
    /\ UNCHANGED <<library, files, lapsed>>

Unlink(s) ==
    /\ pc[s] = "unlink"
    /\ files' = files \ {track[s]}
    /\ Go(s, "unlinked")
    /\ UNCHANGED <<library, lapsed>>

MarkUncached(s) ==
    /\ pc[s] = "unlinked"
    /\ audios' = [audios EXCEPT ![track[s]] = "uncached"]
    /\ Go(s, "convert")
    /\ UNCHANGED <<shelf, surprise, age, files, lapsed>>

-----------------------------------------------------------------------------
(* Converting a track that only has a record.                              *)

\* serve_audio finds the record uncached.
BeginServe(s, t) ==
    /\ t \in Records /\ audios[t] = "uncached"
    /\ Begin(s, "serve", NoUser, t)
    /\ UNCHANGED <<library, files, lapsed>>

\* _redownload_audio
CheckFile(s) ==
    /\ pc[s] = "serve"
    /\ Go(s, IF track[s] \in files THEN "repair" ELSE "cache")
    /\ UNCHANGED <<library, files, lapsed>>

Repair(s) ==
    /\ pc[s] = "repair"
    /\ audios' = [audios EXCEPT ![track[s]] = "cached"]
    /\ Done(s)
    /\ UNCHANGED <<shelf, surprise, age, files, lapsed>>

\* cache_audio: the user may play the track and it is not there.
BeginCache(s, u, t) ==
    /\ t \in Seeds(u)
    /\ t \in Videos \cap Records
    /\ ~(audios[t] = "cached" /\ t \in files)
    /\ Begin(s, "cache", NoUser, t)
    /\ UNCHANGED <<library, files, lapsed>>

\* cache_youtube_audio
PlaceCached(s) ==
    /\ pc[s] = "cache"
    /\ files' = files \cup {track[s]}
    /\ Go(s, "cache placed")
    /\ UNCHANGED <<library, lapsed>>

\* The record becomes cached, if it has not been removed meanwhile.
SaveCached(s) ==
    /\ pc[s] = "cache placed"
    /\ track[s] \in Records
    /\ audios' = [audios EXCEPT ![track[s]] = "cached"]
    /\ Saved(s)
    /\ UNCHANGED <<shelf, surprise, age, files, lapsed>>

-----------------------------------------------------------------------------
(* Surprise playlists.                                                     *)

\* A video is picked from the unlocked metadata: for a new playlist, by what
\* the user can play, or for the one there is, by what is in the library.
Pick(s, u, t) ==
    /\ t \in Videos
    /\ Sought(t) \cap shelf[u] \cap Records = {}
    /\ \/ /\ Seeds(u) \cap Records # {}
          /\ Begin(s, "create", u, t)
       \/ /\ age[u] = "fresh"
          /\ shelf[u] \cap Videos \cap Records # {}
          /\ Sought(t) \cap surprise[u] \cap Records = {}
          /\ Begin(s, "grow", u, t)
    /\ UNCHANGED <<library, files, lapsed>>

\* reserve_audio_metadata: a record of the video, or a new one.
Reserve(t, r) ==
    \/ r \in Sought(t) \cap Records /\ UNCHANGED audios
    \/ /\ Sought(t) \cap Records = {}
       /\ r \in Sought(t) \cap Reserved
       /\ audios' = [audios EXCEPT ![r] = "uncached"]

\* create_surprise_playlist replaces the one there was; a cleanup follows.
Create(s, r) ==
    /\ pc[s] = "create"
    /\ Reserve(track[s], r)
    /\ surprise' = [surprise EXCEPT ![user[s]] = {r}]
    /\ age' = [age EXCEPT ![user[s]] = "fresh"]
    /\ Clean(s)
    /\ UNCHANGED <<shelf, files, lapsed>>

\* The same when no video is found or something fails.
CreateFails(s) ==
    /\ pc[s] \in {"idle", "create"}
    /\ Clean(s)
    /\ UNCHANGED <<library, files, lapsed>>

\* _grow_surprise; nothing happens to a playlist that has gone or is stale.
Grow(s, r) ==
    /\ pc[s] = "grow"
    /\ \/ /\ age[user[s]] = "fresh"
          /\ Reserve(track[s], r)
          /\ surprise' = [surprise EXCEPT ![user[s]] = @ \cup {r}]
       \/ /\ age[user[s]] # "fresh"
          /\ UNCHANGED <<surprise, audios>>
    /\ Done(s)
    /\ UNCHANGED <<shelf, age, files, lapsed>>

\* Nobody has used it for long enough.
Age(u) ==
    /\ age[u] = "fresh"
    /\ age' = [age EXCEPT ![u] = "stale"]
    /\ UNCHANGED <<shelf, surprise, audios, files, work, lapsed>>

\* favourite_surprise_track
Favourite(u, t) ==
    /\ age[u] = "fresh"
    /\ t \in surprise[u] \cap Records
    /\ shelf' = [shelf EXCEPT ![u] = @ \cup {t}]
    /\ UNCHANGED <<surprise, age, audios, files, work, lapsed>>

\* save_surprise_playlist: kept as a regular playlist, or dropped when it grew
\* stale since the request began.
Save(u) ==
    /\ age[u] # "none"
    /\ shelf' = [shelf EXCEPT ![u] =
                   IF age[u] = "fresh" THEN @ \cup surprise[u] ELSE @]
    /\ surprise' = [surprise EXCEPT ![u] = {}]
    /\ age' = [age EXCEPT ![u] = "none"]
    /\ UNCHANGED <<audios, files, work, lapsed>>

-----------------------------------------------------------------------------
(* Deletion and cleanup.                                                   *)

\* delete_audio; a cleanup follows when no playlist has the track any more.
DeleteTrack(s, u, t) ==
    LET kept == \E v \in Users : t \in (IF v = u THEN {} ELSE shelf[v])
                                       \cup surprise[v]
    IN  /\ pc[s] = "idle"
        /\ t \in shelf[u]
        /\ shelf' = [shelf EXCEPT ![u] = @ \ {t}]
        /\ IF kept THEN UNCHANGED work
           ELSE Clean(s)
        /\ UNCHANGED <<surprise, age, audios, files, lapsed>>

\* delete_user_data
DeleteUser(s, u) ==
    /\ pc[s] = "idle"
    /\ shelf' = [shelf EXCEPT ![u] = {}]
    /\ surprise' = [surprise EXCEPT ![u] = {}]
    /\ age' = [age EXCEPT ![u] = "none"]
    /\ Clean(s)
    /\ UNCHANGED <<audios, files, lapsed>>

\* Faulty variant: surprise playlists keep nothing alive.
InUseOnShelves == UNION {shelf[u] : u \in Users}

\* The tracks that some playlist names, once stale ones are gone.
InUse == UNION {shelf[u] \cup (IF age[u] = "stale" THEN {} ELSE surprise[u]) :
                  u \in Users}

\* cleanup_unused_resources, the edit: stale surprise playlists go, and the
\* records no playlist names.
CleanRecords(s) ==
    LET unused == Records \ InUse
        stale == {u \in Users : age[u] = "stale"}
    IN  /\ pc[s] = "clean"
        /\ surprise' = [u \in Users |-> IF u \in stale THEN {} ELSE surprise[u]]
        /\ age' = [u \in Users |-> IF u \in stale THEN "none" ELSE age[u]]
        /\ audios' = [t \in Tracks |-> IF t \in unused THEN "absent" ELSE audios[t]]
        /\ doomed' = [doomed EXCEPT ![s] = unused]
        /\ pc' = [pc EXCEPT ![s] = IF unused = {} THEN "idle" ELSE "delete"]
        /\ lapsed' = lapsed \cup {track[r] : r \in {q \in Slots :
                        pc[q] = "shelve" /\ track[q] \in unused}}
        /\ torn' = torn \cup (unused \cap BesideOthers(s))
        /\ UNCHANGED <<shelf, files, user, track>>

\* Then, without the lock, their files.
DeleteFile(s, t) ==
    /\ pc[s] = "delete" /\ t \in doomed[s]
    /\ files' = files \ {t}
    /\ IF doomed[s] = {t} THEN Done(s)
       ELSE /\ doomed' = [doomed EXCEPT ![s] = @ \ {t}]
            /\ UNCHANGED <<pc, user, track, torn>>
    /\ UNCHANGED <<library, lapsed>>

-----------------------------------------------------------------------------
(* Failures.                                                               *)

\* Where an error or a death leaves files and records out of step.
Exposed(s) ==
    doomed[s] \cup (IF pc[s] \in {"write", "record", "unlinked"}
                      THEN {track[s]} ELSE {})

\* An error in a request, or in a conversion before its handler is in force.
Fail(s) ==
    /\ pc[s] \notin {"idle", "placed", "cache placed", "undo"}
    /\ torn' = torn \cup Exposed(s)
    /\ Free(s)
    /\ UNCHANGED <<library, files, lapsed>>

\* An error in a conversion, whose handler begins: the download fails, the file
\* cannot be put in its place, the record is not saved or is gone.
ConversionFails(s) ==
    /\ pc[s] \in {"convert", "placed", "cache", "cache placed"}
    /\ Go(s, "undo")
    /\ UNCHANGED <<library, files, lapsed>>

\* Faulty variant: a failed conversion leaves what it has placed.
UndoKeeping(s) ==
    /\ pc[s] = "undo"
    /\ Done(s)
    /\ UNCHANGED <<library, files, lapsed>>

\* The handler removes the file, whether it is the conversion's own or not.
Undo(s) ==
    /\ pc[s] = "undo"
    /\ files' = files \ {track[s]}
    /\ Done(s)
    /\ UNCHANGED <<library, lapsed>>

\* The handler fails before it does: its first line reports the error to Redis.
UndoFails(s) ==
    /\ pc[s] = "undo"
    /\ torn' = torn \cup {track[s]}
    /\ Free(s)
    /\ UNCHANGED <<library, files, lapsed>>

\* The worker dies, and what it has placed stays.
Crash(s) ==
    /\ WorkersDie
    /\ pc[s] # "idle"
    /\ torn' = torn \cup Exposed(s) \cup
                 (IF pc[s] \in {"placed", "cache placed", "undo"} THEN {track[s]} ELSE {})
    /\ Free(s)
    /\ UNCHANGED <<library, files, lapsed>>

Next ==
    \/ \E u \in Users :
        \/ Age(u) \/ Save(u)
        \/ \E t \in Tracks : Favourite(u, t)
        \/ \E s \in Slots :
            \/ \E t \in Uploaded : BeginUpload(s, u, t)
            \/ \E t \in Videos : BeginDownload(s, u, t)
            \/ \E t \in Tracks : \/ BeginResync(s, u, t) \/ BeginCache(s, u, t)
                                 \/ Pick(s, u, t) \/ DeleteTrack(s, u, t)
            \/ DeleteUser(s, u)
    \/ \E s \in Slots :
        \/ WriteUpload(s) \/ RecordUpload(s) \/ Shelve(s)
        \/ PlaceDownload(s) \/ SaveDownload(s) \/ Unlink(s) \/ MarkUncached(s)
        \/ CheckFile(s) \/ Repair(s) \/ PlaceCached(s) \/ SaveCached(s)
        \/ \E r \in Tracks : Create(s, r) \/ Grow(s, r)
        \/ CreateFails(s) \/ CleanRecords(s)
        \/ \E t \in Tracks : BeginServe(s, t) \/ DeleteFile(s, t)
        \/ Fail(s) \/ ConversionFails(s) \/ Undo(s) \/ UndoFails(s) \/ Crash(s)

Spec == Init /\ [][Next]_vars

-----------------------------------------------------------------------------
TypeOK ==
    /\ shelf \in [Users -> SUBSET Tracks] /\ surprise \in [Users -> SUBSET Videos]
    /\ age \in [Users -> {"none", "fresh", "stale"}]
    /\ audios \in [Tracks -> {"absent", "uncached", "cached"}]
    /\ files \subseteq Tracks
    /\ pc \in [Slots -> Steps]
    /\ user \in [Slots -> Users \cup {NoUser}]
    /\ track \in [Slots -> Tracks \cup {NoTrack}]
    /\ doomed \in [Slots -> SUBSET Tracks]
    /\ \A s \in Slots : pc[s] \in {"idle", "clean", "delete"} <=> track[s] = NoTrack
    /\ torn \subseteq Tracks /\ lapsed \subseteq Tracks

\* A playlist names no track without a record (add_to_playlist after
\* save_audio, media.py:100, and of an existing record, downloads.py:77),
\* unless a cleanup dropped the record when the request that adds the track
\* had seen it and not added it yet.
PlaylistsResolve ==
    \A u \in Users : \A t \in shelf[u] \cup surprise[u] : t \in Records \cup lapsed

\* The library that the players and the cleanup read.
LibrarySound == TypeOK /\ PlaylistsResolve

\* Between requests a record says it is cached exactly when the audio file is
\* there (cleanup_unused_resources, data_interface.py:258, and the conversions
\* of audio_downloader.py:597), unless two requests worked on that file at
\* once, one was cut short or its error handler failed (:639, :695), or the
\* record was saved although its lock was lost (redis_client.py:240): a failed
\* conversion, a cleanup and a conversion of what it dropped earlier leave both
\* in step.
FilesMatchRecords ==
    \A t \in Tracks :
        t \notin torn /\ (\A s \in Slots : t \notin WorksOn(s)) =>
            (t \in files <=> audios[t] = "cached")
=============================================================================
