------------------------------ MODULE MCTubio ------------------------------
(* Instances of Tubio and Playlists for TLC: two views of metadata.json, of  *)
(* concurrent requests at its files and of requests one after another at its  *)
(* playlists.  Each runs on its own.                                          *)
EXTENDS Tubio, Playlists, TLC

\* Each crc is of a video of its own.
MCVideo(t) == t

\* Bound: a behaviour is followed until a cleanup has dropped a record that a
\* request was about to list, or until one track's file has come to harm and no
\* request is working on it any more.  The properties except that track only, and
\* no action reads more than one track's file.
OneHarmed ==
    /\ lapsed = {}
    /\ Cardinality(torn) =< 1
    /\ torn \subseteq UNION {WorksOn(s) : s \in Slots}

\* Bound: one user at a time has a surprise playlist.
OneSurprise == Cardinality({u \in Users : age[u] # "none"}) =< 1

\* Bound: the playlists of both users name two tracks altogether.
TwoNamed ==
    Cardinality({<<u, t>> \in Users \X Tracks : t \in shelf[u]})
      + Cardinality({<<u, t>> \in Users \X Tracks : t \in surprise[u]}) =< 2

\* Bound: the library has two records at a time.
TwoRecords == Cardinality(Records) =< 2

\* Bound: four entries in the named playlists of all users.
FewListed ==
    Cardinality(UNION {UNION {UNION {{<<u, n, t, i>> : i \in 1..playlists[u][n].tracks[t]} :
                  t \in Songs} : n \in DOMAIN playlists[u]} : u \in Owners}) =< 4

Symmetry == Permutations(Slots) \cup Permutations(Users)

-----------------------------------------------------------------------------
VARIABLE part

PartsInit == part \in {"files", "playlists"} /\ Init /\ LibraryInit

PartsNext ==
    /\ UNCHANGED part
    /\ \/ part = "files" /\ Next /\ UNCHANGED metadata
       \/ part = "playlists" /\ LibraryNext /\ UNCHANGED vars

PartsSpec == PartsInit /\ [][PartsNext]_<<part, vars, metadata>>
=============================================================================
