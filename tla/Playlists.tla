------------------------------ MODULE Playlists ------------------------------
(***************************************************************************)
(* The named playlists of Tubio's users, their playback trims and the       *)
(* records they name: metadata.json, as the routes of                       *)
(* web_app/tubio/routes/{playlists,surprise,media}.py edit it.              *)
(*                                                                          *)
(* A playlist lies under its name; the surprise playlist lies among them,   *)
(* under a key of its own, and is told apart by its `last_active`.  Of what *)
(* a playlist lists, `tracks` says how often each track is in it: the       *)
(* order, which only says how the page shows it, is left out.  Requests     *)
(* follow one another here: module Tubio takes the ones that touch audio    *)
(* files apart, and has one shelf for all of a user's regular playlists.  A *)
(* track is of one video, and named like it.                                *)
(***************************************************************************)
EXTENDS Naturals, FiniteSets

CONSTANTS
    Owners,         \* users
    Songs,          \* tracks
    Names,          \* what a user may call a playlist
    Favourites,     \* default_playlist_name
    SurpriseKey     \* surprise_playlist_storage_key

ASSUME PlaylistsAssumption == Favourites # SurpriseKey

VARIABLES
    playlists,  \* of each user: name -> playlist
    trims,      \* tracks each user has set a playback trim for
    records     \* tracks with a record

metadata == <<playlists, trims, records>>

NoPlaylists == [n \in {} |-> <<>>]

LibraryInit ==
    /\ playlists = [u \in Owners |-> NoPlaylists]
    /\ trims = [u \in Owners |-> {}]
    /\ records = {}

Regular(list) == list.age = "regular"
RegularNames(p) == {n \in DOMAIN p : Regular(p[n])}

\* The tracks a playlist lists, and a playlist that lists each of them once.
Listed(list) == {t \in Songs : list.tracks[t] > 0}
ListOf(tracks, age) ==
    [tracks |-> [t \in Songs |-> IF t \in tracks THEN 1 ELSE 0], age |-> age]
NewPlaylist == ListOf({}, "regular")

In(p, t) == \E n \in DOMAIN p : t \in Listed(p[n])
InRegular(p, t) == \E n \in RegularNames(p) : t \in Listed(p[n])

\* get_surprise_playlist, and whether it has not been idle for too long.
Active(p) == SurpriseKey \in DOMAIN p /\ p[SurpriseKey].age = "fresh"

\* The playlists p with `list` under the name n.
With(p, n, list) == [m \in DOMAIN p \cup {n} |-> IF m = n THEN list ELSE p[m]]
Without(p, n) == [m \in DOMAIN p \ {n} |-> p[m]]

\* get_playlist, which makes an empty one.
Get(p, n) == IF n \in DOMAIN p THEN p[n] ELSE NewPlaylist

\* add_to_playlist, of one track after the other.
Add(p, n, tracks) ==
    LET list == Get(p, n)
        Once(t) == IF list.tracks[t] = 0 THEN 1 ELSE list.tracks[t]
    IN  IF tracks = {} THEN p
        ELSE With(p, n, [tracks |-> [t \in Songs |-> IF t \in tracks THEN Once(t)
                                                      ELSE list.tracks[t]],
                         age |-> list.age])

\* remove_from_regular_playlists, of one track after the other.
Drop(p, tracks) ==
    [n \in DOMAIN p |->
       IF Regular(p[n])
         THEN [tracks |-> [t \in Songs |-> IF t \in tracks THEN 0 ELSE p[n].tracks[t]],
               age |-> p[n].age]
         ELSE p[n]]

\* get_playlists_data: what the library page shows of a playlist.
Shown(u, n) == Listed(playlists[u][n]) \cap records

\* get_cached_yt_vid_ids: what a download finds in the user's library.
Library(u) ==
    UNION {Shown(u, n) : n \in RegularNames(playlists[u])}

-----------------------------------------------------------------------------
\* The playlists of all users without the expired ones.
Unexpired(p) ==
    [u \in Owners |->
       [n \in {m \in DOMAIN p[u] : p[u][m].age # "stale"} |-> p[u][n]]]

\* Faulty variant: trims are forgotten.
CleanedButTrims(p, tr, rec) ==
    LET kept == Unexpired(p)
    IN  /\ playlists' = kept
        /\ records' = {t \in rec : \E u \in Owners : In(kept[u], t)}
        /\ trims' = tr

\* cleanup_unused_resources, of the library p, tr, rec: expired surprise
\* playlists go, then the records no playlist names and their trims.
Cleaned(p, tr, rec) ==
    LET kept == Unexpired(p)
        used == {t \in rec : \E u \in Owners : In(kept[u], t)}
    IN  /\ playlists' = kept
        /\ records' = used
        /\ trims' = [u \in Owners |-> tr[u] \ (rec \ used)]

Set(u, p) == playlists' = [playlists EXCEPT ![u] = p]

\* youtube_download and upload_audio, as far as the library goes.
AddTrack(u, t) ==
    /\ t \notin Library(u)
    /\ records' = records \cup {t}
    /\ Set(u, Add(playlists[u], Favourites, {t}))
    /\ UNCHANGED trims

\* create_playlist
CreatePlaylist(u, n) ==
    /\ n \notin DOMAIN playlists[u]
    /\ Set(u, With(playlists[u], n, NewPlaylist))
    /\ UNCHANGED <<trims, records>>

\* _parse_track_crcs: each track once.
Moves == SUBSET Songs \ {{}}

\* Faulty variant: a surprise playlist may be the target.
MoveTracksAnywhere(u, n, moved) ==
    LET p == playlists[u]
    IN  /\ \A t \in moved : InRegular(p, t)
        /\ Set(u, Add(Drop(p, moved), n, moved))
        /\ UNCHANGED <<trims, records>>

\* move_tracks_to_playlist: out of every regular playlist and into the target.  A
\* move of one track does not touch the others, so that it is one move of all.
MoveTracks(u, n, moved) ==
    LET p == playlists[u]
    IN  /\ n \in DOMAIN p => Regular(p[n])
        /\ \A t \in moved : InRegular(p, t)
        /\ Set(u, Add(Drop(p, moved), n, moved))
        /\ UNCHANGED <<trims, records>>

\* delete_playlist: what is in it goes to the default playlist.
DeletePlaylist(u, n) ==
    LET p == playlists[u]
    IN  /\ n # Favourites
        /\ n \in RegularNames(p)
        /\ Set(u, Without(Add(p, Favourites, Listed(p[n])), n))
        /\ UNCHANGED <<trims, records>>

\* delete_audio; a cleanup follows when no playlist has the track any more.
DeleteAudio(u, t) ==
    LET dropped == [playlists EXCEPT ![u] = Drop(@, {t})]
        untrimmed == [trims EXCEPT ![u] = @ \ {t}]
    IN  /\ InRegular(playlists[u], t)
        /\ IF \E v \in Owners : In(dropped[v], t)
             THEN /\ playlists' = dropped /\ trims' = untrimmed
                  /\ UNCHANGED records
             ELSE Cleaned(dropped, untrimmed, records)

\* trim_audio: boundaries are set, or taken back.
TrimTrack(u, t) ==
    /\ t \in records /\ In(playlists[u], t)
    /\ \/ trims' = [trims EXCEPT ![u] = @ \cup {t}]
       \/ trims' = [trims EXCEPT ![u] = @ \ {t}]
    /\ UNCHANGED <<playlists, records>>

\* delete_user_data
DeleteUserData(u) ==
    Cleaned([playlists EXCEPT ![u] = NoPlaylists], [trims EXCEPT ![u] = {}],
            records)

-----------------------------------------------------------------------------
(* The surprise playlist.                                                  *)

\* create_surprise_playlist, of videos that are not in the user's library; a
\* cleanup follows.  With none of them it is all there is.
CreateSurprise(u, tracks) ==
    /\ tracks \subseteq Songs \ Library(u)
    /\ IF tracks = {} THEN Cleaned(playlists, trims, records)
       ELSE Cleaned([playlists EXCEPT ![u] =
                       With(@, SurpriseKey, ListOf(tracks, "fresh"))],
                    trims, records \cup tracks)

\* _grow_surprise
GrowSurprise(u, t) ==
    /\ Active(playlists[u])
    /\ t \notin Library(u)
    /\ records' = records \cup {t}
    /\ Set(u, Add(playlists[u], SurpriseKey, {t}))
    /\ UNCHANGED trims

\* favourite_surprise_track
FavouriteTrack(u, t) ==
    LET p == playlists[u]
    IN  /\ Active(p)
        /\ t \in records /\ t \in Listed(p[SurpriseKey])
        /\ Set(u, Add(p, Favourites, {t}))
        /\ UNCHANGED <<trims, records>>

\* save_surprise_playlist: it becomes a regular playlist.
SaveSurprise(u, n) ==
    LET p == playlists[u]
        saved == [tracks |-> p[SurpriseKey].tracks, age |-> "regular"]
    IN  /\ Active(p)
        /\ n \notin DOMAIN p
        /\ Set(u, With(Without(p, SurpriseKey), n, saved))
        /\ UNCHANGED <<trims, records>>

\* Nobody uses the surprise playlist for longer than it is kept.
AgeSurprise(u) ==
    /\ Active(playlists[u])
    /\ playlists' =
         [playlists EXCEPT ![u] = [@ EXCEPT ![SurpriseKey].age = "stale"]]
    /\ UNCHANGED <<trims, records>>

-----------------------------------------------------------------------------
LibraryNext ==
    \E u \in Owners :
        \/ DeleteUserData(u) \/ AgeSurprise(u)
        \/ \E n \in Names :
            \/ CreatePlaylist(u, n) \/ DeletePlaylist(u, n) \/ SaveSurprise(u, n)
            \/ \E moved \in Moves : MoveTracks(u, n, moved)
        \/ \E t \in Songs :
            \/ AddTrack(u, t) \/ DeleteAudio(u, t) \/ TrimTrack(u, t)
            \/ GrowSurprise(u, t) \/ FavouriteTrack(u, t)
        \/ \E tracks \in SUBSET Songs : CreateSurprise(u, tracks)

LibrarySpec == LibraryInit /\ [][LibraryNext]_metadata

-----------------------------------------------------------------------------
\* Condition: nobody calls a playlist of his own like the key under which the
\* surprise playlist is kept.
KeyNotTaken ==
    \A u \in Owners : SurpriseKey \in DOMAIN playlists[u] =>
        ~Regular(playlists[u][SurpriseKey])

\* Whatever a user does with playlists and whatever others delete, a track
\* that the library page shows him stays on it until he deletes that track or
\* his account: a playlist that is deleted or emptied by a move leaves its
\* tracks to another one (playlists.py:286 and :235), a cleanup takes no record
\* a playlist names (data_interface.py:244), and a regular playlist never
\* makes room for a surprise playlist (data_interface.py:22).
TracksKept ==
    [][\A u \in Owners :
         \/ Library(u) \subseteq Library(u)'
         \/ DeleteUserData(u)
         \/ \E t \in Songs : DeleteAudio(u, t) /\ Library(u) \ Library(u)' = {t}]_metadata

\* What a user has set for a track goes with its record: when the track comes
\* back under the same crc, of its video's id or its bytes, it is played from
\* beginning to end (data_interface.py:250).  And a playlist lists a track
\* once, so that deleting or moving it leaves none behind.
NothingLeftBehind ==
    \A u \in Owners :
        /\ trims[u] \subseteq records
        /\ \A n \in DOMAIN playlists[u] :
             /\ Listed(playlists[u][n]) \subseteq records
             /\ \A t \in Songs : playlists[u][n].tracks[t] =< 1
=============================================================================
