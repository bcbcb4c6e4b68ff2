----------------------------- MODULE TubioProofs -----------------------------
(***************************************************************************)
(* Proofs about Tubio, Playlists, Downloads and Search for every number of  *)
(* requests, users, tracks, playlists, workers, streams and videos, and     *)
(* without the bounds and the symmetry of the runs.  They share no          *)
(* variable; each part has the inductive invariant of one of them.          *)
(***************************************************************************)
EXTENDS Tubio, Playlists, Downloads, Search, CommonProofs, SequenceTheorems,
        FiniteSetTheorems, TLAPS

\* A request that cleans up has files to delete, and no other has.
Doomed == \A s \in Slots : pc[s] # "delete" => doomed[s] = {}

\* The track that a request is about to list has a record, or had.
Shelving == \A s \in Slots : pc[s] = "shelve" => track[s] \in Records \cup lapsed

\* What holds of the file of track t at each step of the request that works on it,
\* if it is the only one.
PhaseAt(step, t) ==
    /\ step \in {"write", "convert", "serve", "cache"} =>
          t \notin files /\ audios[t] # "cached"
    /\ step \in {"record", "placed", "cache placed"} =>
          t \in files /\ audios[t] # "cached"
    /\ step = "unlink" => (t \in files <=> audios[t] = "cached")
    /\ step = "unlinked" => t \notin files
    /\ step = "undo" => audios[t] # "cached"
    /\ step # "repair"

Phase(s, t) ==
    /\ t \in doomed[s] => audios[t] # "cached"
    /\ pc[s] \in FileSteps /\ track[s] = t => PhaseAt(pc[s], t)

\* One request at most works on the file of a track that has come to no harm, and
\* file and record agree when none does.
Unharmed(t) ==
    t \notin torn =>
        /\ \A q, r \in Slots : t \in WorksOn(q) /\ t \in WorksOn(r) => q = r
        /\ \A q \in Slots : t \in WorksOn(q) => Phase(q, t)
        /\ (\A q \in Slots : t \notin WorksOn(q)) => (t \in files <=> audios[t] = "cached")

TInv ==
    /\ TypeOK /\ PlaylistsResolve /\ Doomed /\ Shelving
    /\ \A t \in Tracks : Unharmed(t)

-----------------------------------------------------------------------------
(* What the steps of a request do to its slot.                             *)

Resting == {"idle", "clean", "delete"}

SlotsTyped ==
    /\ pc \in [Slots -> Steps] /\ user \in [Slots -> Users \cup {NoUser}]
    /\ track \in [Slots -> Tracks \cup {NoTrack}]
    /\ doomed \in [Slots -> SUBSET Tracks]
    /\ \A s \in Slots : pc[s] \in Resting <=> track[s] = NoTrack
    /\ torn \subseteq Tracks

LibraryTyped ==
    /\ shelf \in [Users -> SUBSET Tracks] /\ surprise \in [Users -> SUBSET Videos]
    /\ age \in [Users -> {"none", "fresh", "stale"}]
    /\ audios \in [Tracks -> {"absent", "uncached", "cached"}]
    /\ files \subseteq Tracks /\ lapsed \subseteq Tracks

\* The type invariant in two parts: what a request keeps, and the library.
LEMMA TypeParts == TypeOK <=> SlotsTyped /\ LibraryTyped
  BY DEF TypeOK, SlotsTyped, LibraryTyped, Resting

\* The other slots stay as they are.
Only(s) ==
    /\ \A q \in Slots \ {s} :
          pc'[q] = pc[q] /\ track'[q] = track[q] /\ doomed'[q] = doomed[q]
    /\ torn \subseteq torn'

\* Where the slot of request s is after its step.
Stands(s, step, t, dead) ==
    /\ Only(s) /\ SlotsTyped'
    /\ pc'[s] = step /\ track'[s] = t /\ doomed'[s] = dead

\* A request begins: its slot is at that step with the track, and a step at a file
\* that another request works on tears it.
LEMMA BeginStands ==
    ASSUME SlotsTyped, NEW s \in Slots, NEW what, NEW u \in Users \cup {NoUser},
           NEW t \in Tracks, what \in Steps, what \notin Resting, Begin(s, what, u, t)
    PROVE  /\ Stands(s, what, t, doomed[s])
           /\ pc[s] = "idle"
           /\ what \in FileSteps /\ t \in BesideOthers(s) => t \in torn'
           /\ what \notin FileSteps => torn' = torn
  <1>1. t # NoTrack
    BY TubioAssumption
  <1>2. torn' = IF what \in FileSteps THEN torn \cup ({t} \cap BesideOthers(s)) ELSE torn
    BY DEF Begin
  <1>3. torn \subseteq torn' /\ torn' \subseteq Tracks
    BY <1>2 DEF SlotsTyped
  <1>4. /\ pc' \in [Slots -> Steps] /\ user' \in [Slots -> Users \cup {NoUser}]
        /\ track' \in [Slots -> Tracks \cup {NoTrack}] /\ doomed' = doomed
        /\ pc[s] = "idle" /\ pc'[s] = what /\ track'[s] = t
        /\ \A q \in Slots \ {s} : pc'[q] = pc[q] /\ track'[q] = track[q]
    BY DEF Begin, SlotsTyped
  <1>5. \A q \in Slots : pc'[q] \in Resting <=> track'[q] = NoTrack
    BY <1>1, <1>4 DEF SlotsTyped
  <1> QED  BY <1>2, <1>3, <1>4, <1>5 DEF Stands, Only, SlotsTyped

\* A request goes to its next step with the same track.
LEMMA GoStands ==
    ASSUME SlotsTyped, NEW s \in Slots, NEW next, next \in Steps, next \notin Resting,
           pc[s] \notin Resting, Go(s, next)
    PROVE  Stands(s, next, track[s], doomed[s]) /\ torn' = torn
  <1>1. /\ pc' \in [Slots -> Steps] /\ pc'[s] = next
        /\ \A q \in Slots \ {s} : pc'[q] = pc[q]
        /\ UNCHANGED <<user, track, doomed, torn>>
    BY DEF Go, SlotsTyped
  <1> QED  BY <1>1 DEF Stands, Only, SlotsTyped

\* A conversion that has saved its record goes to its error handler.
LEMMA UndoStands ==
    ASSUME SlotsTyped, NEW s \in Slots, pc[s] \notin Resting,
           pc' = [pc EXCEPT ![s] = "undo"], torn' = torn \cup {track[s]},
           UNCHANGED <<user, track, doomed>>
    PROVE  Stands(s, "undo", track[s], doomed[s])
  <1>1. "undo" \in Steps /\ "undo" \notin Resting
    BY DEF Steps, Resting
  <1>2. /\ pc' \in [Slots -> Steps] /\ pc'[s] = "undo"
        /\ \A q \in Slots \ {s} : pc'[q] = pc[q]
    BY <1>1 DEF SlotsTyped
  <1>3. torn \subseteq torn' /\ torn' \subseteq Tracks
    BY DEF SlotsTyped
  <1> QED  BY <1>1, <1>2, <1>3 DEF Stands, Only, SlotsTyped

\* A request ends.
LEMMA FreeStands ==
    ASSUME SlotsTyped, NEW s \in Slots, Free(s), torn \subseteq torn', torn' \subseteq Tracks
    PROVE  Stands(s, "idle", NoTrack, {})
  <1>1. "idle" \in Steps /\ "idle" \in Resting
    BY DEF Steps, Resting
  <1>2. /\ pc' \in [Slots -> Steps] /\ user' \in [Slots -> Users \cup {NoUser}]
        /\ track' \in [Slots -> Tracks \cup {NoTrack}]
        /\ doomed' \in [Slots -> SUBSET Tracks]
        /\ pc'[s] = "idle" /\ track'[s] = NoTrack /\ doomed'[s] = {}
        /\ \A q \in Slots \ {s} :
              pc'[q] = pc[q] /\ track'[q] = track[q] /\ doomed'[q] = doomed[q]
    BY <1>1 DEF Free, SlotsTyped
  <1> QED  BY <1>1, <1>2 DEF Stands, Only, SlotsTyped

\* A request goes on to a cleanup.
LEMMA CleanStands ==
    ASSUME SlotsTyped, NEW s \in Slots, Clean(s)
    PROVE  Stands(s, "clean", NoTrack, doomed[s]) /\ torn' = torn
  <1>1. "clean" \in Steps /\ "clean" \in Resting
    BY DEF Steps, Resting
  <1>2. /\ pc' \in [Slots -> Steps] /\ user' \in [Slots -> Users \cup {NoUser}]
        /\ track' \in [Slots -> Tracks \cup {NoTrack}] /\ UNCHANGED <<doomed, torn>>
        /\ pc'[s] = "clean" /\ track'[s] = NoTrack
        /\ \A q \in Slots \ {s} : pc'[q] = pc[q] /\ track'[q] = track[q]
    BY <1>1 DEF Clean, SlotsTyped
  <1> QED  BY <1>1, <1>2 DEF Stands, Only, SlotsTyped

-----------------------------------------------------------------------------
(* What such a step may do to files and records.                           *)

Same(t) == (t \in files' <=> t \in files) /\ (audios'[t] = "cached" <=> audios[t] = "cached")
Agree(t) == t \in files <=> audios[t] = "cached"

\* A step of request s keeps every track unharmed if it does so to what s works on.
LEMMA StepKeeps ==
    ASSUME NEW s \in Slots, Only(s), \A t \in Tracks : Unharmed(t),
           \A t \in Tracks : t \notin WorksOn(s) /\ t \notin WorksOn(s)' => Same(t),
           \A t \in Tracks : /\ t \in WorksOn(s) /\ t \notin torn'
                             /\ Phase(s, t)
                             => IF t \in WorksOn(s)' THEN Phase(s, t)' ELSE Agree(t)',
           \A t \in Tracks : /\ t \notin WorksOn(s) /\ t \in WorksOn(s)'
                             /\ t \notin torn'
                             => t \notin BesideOthers(s) /\ (Agree(t) => Phase(s, t)')
    PROVE  \A t \in Tracks : Unharmed(t)'
  <1> SUFFICES ASSUME NEW t \in Tracks, t \notin torn'
               PROVE  /\ \A q, r \in Slots : t \in WorksOn(q)' /\ t \in WorksOn(r)' => q = r
                      /\ \A q \in Slots : t \in WorksOn(q)' => Phase(q, t)'
                      /\ (\A q \in Slots : t \notin WorksOn(q)') => Agree(t)'
    BY DEF Unharmed, Agree
  <1>1. t \notin torn
    BY DEF Only
  <1>2. \A q \in Slots \ {s} : WorksOn(q)' = WorksOn(q)
    BY DEF Only, WorksOn
  <1>3. /\ \A q, r \in Slots : t \in WorksOn(q) /\ t \in WorksOn(r) => q = r
        /\ \A q \in Slots : t \in WorksOn(q) => Phase(q, t)
        /\ (\A q \in Slots : t \notin WorksOn(q)) => Agree(t)
    BY <1>1 DEF Unharmed, Agree
  <1>4. t \notin BesideOthers(s) <=> \A q \in Slots \ {s} : t \notin WorksOn(q)
    BY DEF BesideOthers
  <1>5. CASE t \in WorksOn(s)
    <2>1. \A q \in Slots \ {s} : t \notin WorksOn(q)'
      BY <1>2, <1>3, <1>5
    <2>2. IF t \in WorksOn(s)' THEN Phase(s, t)' ELSE Agree(t)'
      BY <1>3, <1>5
    <2> QED  BY <2>1, <2>2
  <1>6. CASE t \notin WorksOn(s) /\ t \in WorksOn(s)'
    <2>1. \A q \in Slots \ {s} : t \notin WorksOn(q)'
      BY <1>2, <1>4, <1>6
    <2>2. Phase(s, t)'
      BY <1>2, <1>3, <1>6, <2>1
    <2> QED  BY <1>6, <2>1, <2>2
  <1>7. CASE t \notin WorksOn(s) /\ t \notin WorksOn(s)'
    <2>1. Same(t)
      BY <1>7
    <2>2. \A q \in Slots \ {s} : Phase(q, t) => Phase(q, t)'
      BY <2>1 DEF Same, Only, Phase, PhaseAt
    <2>3. Agree(t) => Agree(t)'
      BY <2>1 DEF Same, Agree
    <2> QED  BY <1>2, <1>3, <1>7, <2>2, <2>3
  <1> QED  BY <1>5, <1>6, <1>7

\* What a request that deletes no files works on.
LEMMA Works ==
    ASSUME TInv, NEW s \in Slots, pc[s] # "delete"
    PROVE  /\ doomed[s] = {}
           /\ pc[s] \in FileSteps => WorksOn(s) = {track[s]}
           /\ pc[s] \notin FileSteps => WorksOn(s) = {}
  BY DEF TInv, Doomed, WorksOn

\* The same after a step.
LEMMA WorksNext ==
    ASSUME NEW s \in Slots, NEW step, NEW t, Stands(s, step, t, {})
    PROVE  /\ step \in FileSteps => WorksOn(s)' = {t}
           /\ step \notin FileSteps => WorksOn(s)' = {}
  BY DEF Stands, WorksOn

\* A step beside the files.
LEMMA BesideFiles ==
    ASSUME TInv, NEW s \in Slots, NEW step, NEW t, Stands(s, step, t, {}),
           pc[s] \notin FileSteps, pc[s] # "delete", step \notin FileSteps,
           \A r \in Tracks : Same(r)
    PROVE  \A r \in Tracks : Unharmed(r)'
  <1>1. WorksOn(s) = {} /\ WorksOn(s)' = {} /\ Only(s)
    BY Works, WorksNext DEF Stands
  <1>2. \A r \in Tracks : Unharmed(r)
    BY DEF TInv
  <1> QED  BY <1>1, <1>2, StepKeeps

\* A request begins to work on a file.
LEMMA EntersFile ==
    ASSUME TInv, NEW s \in Slots, NEW step, NEW t \in Tracks, Stands(s, step, t, {}),
           pc[s] = "idle", step \in FileSteps, t \in BesideOthers(s) => t \in torn',
           files' = files, audios' = audios, Agree(t) => PhaseAt(step, t)
    PROVE  \A r \in Tracks : Unharmed(r)'
  <1>1. WorksOn(s) = {} /\ WorksOn(s)' = {t} /\ Only(s)
    <2>1. "idle" \notin FileSteps
      BY DEF FileSteps
    <2> QED  BY <2>1, Works, WorksNext DEF Stands
  <1>2. \A r \in Tracks : Unharmed(r)
    BY DEF TInv
  <1>3. Agree(t) => Phase(s, t)'
    BY DEF Phase, PhaseAt, Stands
  <1>4. \A r \in Tracks : Same(r)
    BY DEF Same
  <1> QED  BY <1>1, <1>2, <1>3, <1>4, StepKeeps

\* A request goes on working on its file.
LEMMA StaysAtFile ==
    ASSUME TInv, NEW s \in Slots, NEW step, NEW t \in Tracks, Stands(s, step, t, {}),
           t = track[s], pc[s] \in FileSteps, step \in FileSteps,
           \A r \in Tracks \ {t} : Same(r),
           t \notin torn' /\ PhaseAt(pc[s], t) => PhaseAt(step, t)'
    PROVE  \A r \in Tracks : Unharmed(r)'
  <1>1. WorksOn(s) = {t} /\ WorksOn(s)' = {t} /\ Only(s)
    <2>1. "delete" \notin FileSteps
      BY DEF FileSteps
    <2> QED  BY <2>1, Works, WorksNext DEF Stands
  <1>2. \A r \in Tracks : Unharmed(r)
    BY DEF TInv
  <1>3. t \notin torn' /\ Phase(s, t) => Phase(s, t)'
    <2>1. pc'[s] = step /\ doomed'[s] = {}
      BY DEF Stands
    <2> QED  BY <2>1 DEF Phase
  <1> QED  BY <1>1, <1>2, <1>3, StepKeeps

\* A request has done with its file.
LEMMA LeavesFile ==
    ASSUME TInv, NEW s \in Slots, NEW step, NEW x, NEW t \in Tracks,
           Stands(s, step, x, {}),
           t = track[s], pc[s] \in FileSteps, step \notin FileSteps,
           \A r \in Tracks \ {t} : Same(r),
           t \notin torn' /\ PhaseAt(pc[s], t) => Agree(t)'
    PROVE  \A r \in Tracks : Unharmed(r)'
  <1>1. WorksOn(s) = {t} /\ WorksOn(s)' = {} /\ Only(s)
    <2>1. "delete" \notin FileSteps
      BY DEF FileSteps
    <2> QED  BY <2>1, Works, WorksNext DEF Stands
  <1>2. \A r \in Tracks : Unharmed(r)
    BY DEF TInv
  <1>3. t \notin torn' /\ Phase(s, t) => Agree(t)'
    BY DEF Phase
  <1> QED  BY <1>1, <1>2, <1>3, StepKeeps

\* No step of request s takes a record away, and what it lists has one.
LEMMA ListsRight ==
    ASSUME TInv, NEW s \in Slots, NEW step, NEW t, NEW dead, Stands(s, step, t, dead),
           step = "delete" \/ dead = {}, LibraryTyped', lapsed' = lapsed,
           \A r \in Tracks : audios[r] # "absent" => audios'[r] # "absent",
           \A u \in Users : \A r \in shelf'[u] \cup surprise'[u] :
              r \in shelf[u] \cup surprise[u] \cup lapsed \/ audios'[r] # "absent",
           step = "shelve" => t \in lapsed \/ (t \in Tracks /\ audios'[t] # "absent"),
           \A r \in Tracks : Unharmed(r)'
    PROVE  TInv'
  <1>1. /\ Only(s) /\ SlotsTyped' /\ pc'[s] = step /\ track'[s] = t /\ doomed'[s] = dead
        /\ \A q \in Slots \ {s} :
              pc'[q] = pc[q] /\ track'[q] = track[q] /\ doomed'[q] = doomed[q]
    BY DEF Stands, Only
  <1>2. TypeOK'
    BY <1>1, TypeParts, PTL
  <1>3. Doomed'
    BY <1>1 DEF TInv, Doomed
  <1>4. Shelving'
    BY <1>1 DEF TInv, Shelving, Records
  <1>5. PlaylistsResolve'
    <2> SUFFICES ASSUME NEW u \in Users, NEW r \in shelf'[u] \cup surprise'[u]
                 PROVE  r \in Records' \cup lapsed'
      BY DEF PlaylistsResolve
    <2>1. r \in Tracks
      BY DEF LibraryTyped, Tracks
    <2> QED  BY <2>1 DEF TInv, PlaylistsResolve, Records
  <1> QED  BY <1>2, <1>3, <1>4, <1>5 DEF TInv

-----------------------------------------------------------------------------
(* The actions.                                                            *)

\* A record is marked.
LEMMA Marked ==
    ASSUME LibraryTyped, NEW t \in Tracks, NEW mark, mark = "cached" \/ mark = "uncached",
           audios' = [audios EXCEPT ![t] = mark]
    PROVE  /\ audios' \in [Tracks -> {"absent", "uncached", "cached"}]
           /\ audios'[t] = mark
           /\ \A r \in Tracks \ {t} : audios'[r] = audios[r]
           /\ \A r \in Tracks : audios[r] # "absent" => audios'[r] # "absent"
  BY DEF LibraryTyped

\* The track of a request that is at work on it.
LEMMA AtWork ==
    ASSUME TInv, NEW s \in Slots, pc[s] \notin Resting
    PROVE  track[s] \in Tracks /\ doomed[s] = {} /\ pc[s] # "delete"
  BY DEF TInv, TypeOK, Resting, Doomed

\* Which steps are at a file, and which at no track.
LEMMA StepNames ==
    /\ FileSteps \cap Resting = {} /\ FileSteps \subseteq Steps /\ Resting \subseteq Steps
    /\ "idle" \in Resting /\ "clean" \in Resting /\ "delete" \in Resting
    /\ \A step \in {"shelve", "create", "grow"} :
          step \in Steps /\ step \notin Resting /\ step \notin FileSteps
    /\ "shelve" # "delete" /\ "shelve" # "idle"
  BY DEF FileSteps, Resting, Steps

\* The actions that begin to work on a file.
LEMMA BeginsFile ==
    ASSUME TInv, NEW s \in Slots, NEW what \in FileSteps, NEW u \in Users \cup {NoUser},
           NEW t \in Tracks, Begin(s, what, u, t), Agree(t) => PhaseAt(what, t),
           UNCHANGED <<library, files, lapsed>>
    PROVE  TInv'
  <1>1. SlotsTyped /\ LibraryTyped /\ what \in Steps /\ what \notin Resting
    BY TypeParts, StepNames DEF TInv
  <1>2. /\ Stands(s, what, t, doomed[s]) /\ pc[s] = "idle"
        /\ t \in BesideOthers(s) => t \in torn'
    BY <1>1, BeginStands
  <1>3. doomed[s] = {}
    BY <1>2 DEF TInv, Doomed
  <1>4. \A r \in Tracks : Unharmed(r)'
    BY <1>2, <1>3, EntersFile DEF library
  <1>5. LibraryTyped' /\ what # "shelve"
    BY <1>1, StepNames DEF LibraryTyped, library
  <1> QED  BY <1>1, <1>2, <1>3, <1>4, <1>5, ListsRight DEF library

\* The actions that begin with something else.
LEMMA BeginsElse ==
    ASSUME TInv, NEW s \in Slots, NEW what, NEW u \in Users \cup {NoUser}, NEW t \in Tracks,
           what \in Steps, what \notin Resting, what \notin FileSteps,
           what = "shelve" => t \in Records,
           Begin(s, what, u, t), UNCHANGED <<library, files, lapsed>>
    PROVE  TInv'
  <1>1. SlotsTyped /\ LibraryTyped
    BY TypeParts DEF TInv
  <1>2. Stands(s, what, t, doomed[s]) /\ pc[s] = "idle"
    BY <1>1, BeginStands
  <1>3. doomed[s] = {} /\ pc[s] \notin FileSteps /\ pc[s] # "delete"
    BY <1>2, StepNames DEF TInv, Doomed
  <1>4. \A r \in Tracks : Unharmed(r)'
    BY <1>2, <1>3, BesideFiles DEF library, Same
  <1>5. LibraryTyped'
    BY <1>1 DEF LibraryTyped, library
  <1> QED  BY <1>1, <1>2, <1>3, <1>4, <1>5, ListsRight DEF library, Records

\* Every action that begins a request with a track.
LEMMA BeginActions ==
    ASSUME TInv, NEW s \in Slots, NEW u \in Users, NEW t \in Tracks,
           \/ t \in Uploaded /\ BeginUpload(s, u, t)
           \/ t \in Videos /\ BeginDownload(s, u, t)
           \/ BeginResync(s, u, t) \/ BeginCache(s, u, t) \/ BeginServe(s, t)
           \/ Pick(s, u, t)
    PROVE  TInv'
  <1>1. CASE BeginUpload(s, u, t)
    <2>1. CASE t \in Records
      <3>1. Begin(s, "shelve", u, t) /\ UNCHANGED <<library, files, lapsed>>
        BY <1>1, <2>1 DEF BeginUpload
      <3> QED  BY <2>1, <3>1, BeginsElse, StepNames
    <2>2. CASE t \notin Records
      <3>1. Begin(s, "write", u, t) /\ UNCHANGED <<library, files, lapsed>>
        BY <1>1, <2>2 DEF BeginUpload
      <3>2. "write" \in FileSteps
        BY DEF FileSteps
      <3>3. Agree(t) => PhaseAt("write", t)
        BY <2>2 DEF Agree, PhaseAt, Records
      <3> QED  BY <3>1, <3>2, <3>3, BeginsFile
    <2> QED  BY <2>1, <2>2
  <1>2. CASE t \in Videos /\ BeginDownload(s, u, t)
    <2>1. CASE Sought(t) \cap Records = {} /\ Begin(s, "convert", u, t)
      <3>1. "convert" \in FileSteps
        BY DEF FileSteps
      <3>2. t \notin Records
        BY <1>2, <2>1 DEF Sought
      <3>3. Agree(t) => PhaseAt("convert", t)
        BY <3>2 DEF Agree, PhaseAt, Records
      <3>4. UNCHANGED <<library, files, lapsed>>
        BY <1>2 DEF BeginDownload
      <3> QED  BY <2>1, <3>1, <3>3, <3>4, BeginsFile
    <2>2. ASSUME NEW r \in Sought(t) \cap Records, Begin(s, "shelve", u, r)
          PROVE  TInv'
      <3>1. UNCHANGED <<library, files, lapsed>> /\ r \in Tracks
        BY <1>2 DEF BeginDownload, Records
      <3> QED  BY <2>2, <3>1, BeginsElse, StepNames
    <2> QED  BY <1>2, <2>1, <2>2 DEF BeginDownload
  <1>3. CASE BeginResync(s, u, t)
    <2>1. /\ Begin(s, "unlink", u, t) /\ UNCHANGED <<library, files, lapsed>>
          /\ "unlink" \in FileSteps
      BY <1>3 DEF BeginResync, FileSteps
    <2>2. Agree(t) => PhaseAt("unlink", t)
      BY DEF Agree, PhaseAt
    <2> QED  BY <2>1, <2>2, BeginsFile
  <1>4. CASE BeginCache(s, u, t)
    <2>1. /\ Begin(s, "cache", NoUser, t) /\ UNCHANGED <<library, files, lapsed>>
          /\ ~(audios[t] = "cached" /\ t \in files) /\ "cache" \in FileSteps
      BY <1>4 DEF BeginCache, FileSteps
    <2>2. Agree(t) => PhaseAt("cache", t)
      BY <2>1 DEF Agree, PhaseAt
    <2> QED  BY <2>1, <2>2, BeginsFile
  <1>5. CASE BeginServe(s, t)
    <2>1. /\ Begin(s, "serve", NoUser, t) /\ UNCHANGED <<library, files, lapsed>>
          /\ audios[t] = "uncached" /\ "serve" \in FileSteps
      BY <1>5 DEF BeginServe, FileSteps
    <2>2. Agree(t) => PhaseAt("serve", t)
      BY <2>1 DEF Agree, PhaseAt
    <2> QED  BY <2>1, <2>2, BeginsFile
  <1>6. CASE Pick(s, u, t)
    <2>1. /\ UNCHANGED <<library, files, lapsed>>
          /\ Begin(s, "create", u, t) \/ Begin(s, "grow", u, t)
      BY <1>6 DEF Pick
    <2>2. "create" # "shelve" /\ "grow" # "shelve"
      OBVIOUS
    <2> QED  BY <2>1, <2>2, BeginsElse, StepNames
  <1> QED  BY <1>1, <1>2, <1>3, <1>4, <1>5, <1>6

-----------------------------------------------------------------------------
(* At a file.                                                              *)

\* A request goes on with its file.
LEMMA GoesOnAtFile ==
    ASSUME TInv, NEW s \in Slots, NEW t, t = track[s], NEW next \in FileSteps,
           pc[s] \in FileSteps, Go(s, next), lapsed' = lapsed, LibraryTyped',
           UNCHANGED <<shelf, surprise>>,
           \A r \in Tracks \ {t} : Same(r),
           \A r \in Tracks : audios[r] # "absent" => audios'[r] # "absent",
           PhaseAt(pc[s], t) => PhaseAt(next, t)'
    PROVE  TInv'
  <1>1. /\ SlotsTyped /\ t \in Tracks /\ doomed[s] = {}
        /\ pc[s] \notin Resting /\ next \in Steps /\ next \notin Resting
        /\ next # "shelve" /\ next # "delete"
    BY AtWork, TypeParts, StepNames DEF TInv
  <1>2. Stands(s, next, t, {})
    BY <1>1, GoStands
  <1>3. \A r \in Tracks : Unharmed(r)'
    BY <1>1, <1>2, StaysAtFile
  <1> QED  BY <1>1, <1>2, <1>3, ListsRight

\* A request has done with its file.
LEMMA DoneWithFile ==
    ASSUME TInv, NEW s \in Slots, NEW t, t = track[s], pc[s] \in FileSteps,
           Free(s), torn \subseteq torn', torn' \subseteq Tracks,
           lapsed' = lapsed, LibraryTyped',
           \A u \in Users : \A r \in shelf'[u] \cup surprise'[u] :
              r \in shelf[u] \cup surprise[u] \cup lapsed \/ audios'[r] # "absent",
           \A r \in Tracks \ {t} : Same(r),
           \A r \in Tracks : audios[r] # "absent" => audios'[r] # "absent",
           t \notin torn' /\ PhaseAt(pc[s], t) => Agree(t)'
    PROVE  TInv'
  <1>1. /\ SlotsTyped /\ t \in Tracks /\ "idle" # "shelve" /\ "idle" \notin FileSteps
    BY AtWork, TypeParts, StepNames DEF TInv
  <1>2. Stands(s, "idle", NoTrack, {})
    BY <1>1, FreeStands
  <1>3. \A r \in Tracks : Unharmed(r)'
    BY <1>1, <1>2, LeavesFile
  <1> QED  BY <1>1, <1>2, <1>3, ListsRight

\* A conversion saves the record of its track.
LEMMA SavesRecord ==
    ASSUME TInv, NEW s \in Slots, NEW t, t = track[s],
           pc[s] \in {"placed", "cache placed"}, Saved(s),
           lapsed' = lapsed, LibraryTyped',
           \A u \in Users : \A r \in shelf'[u] \cup surprise'[u] :
              r \in shelf[u] \cup surprise[u] \cup lapsed \/ audios'[r] # "absent",
           \A r \in Tracks \ {t} : Same(r),
           \A r \in Tracks : audios[r] # "absent" => audios'[r] # "absent",
           audios'[t] = "cached", files' = files
    PROVE  TInv'
  <1>1. /\ pc[s] \in FileSteps /\ "undo" \in FileSteps /\ "undo" # "shelve"
        /\ SlotsTyped /\ torn \subseteq Tracks
    BY TypeParts DEF FileSteps, TInv, SlotsTyped
  <1>2. t \in Tracks /\ doomed[s] = {} /\ pc[s] \notin Resting
    BY <1>1, AtWork, StepNames
  <1>3. CASE Done(s)
    <2>1. PhaseAt(pc[s], t) => Agree(t)'
      BY DEF PhaseAt, Agree
    <2> QED  BY <1>1, <1>3, <2>1, DoneWithFile DEF Done
  <1>4. CASE ~Done(s)
    <2>1. Stands(s, "undo", t, {}) /\ t \in torn'
      BY <1>1, <1>2, <1>4, UndoStands DEF Saved
    <2>2. \A r \in Tracks : Unharmed(r)'
      BY <1>1, <1>2, <2>1, StaysAtFile
    <2> QED  BY <1>1, <1>2, <2>1, <2>2, ListsRight
  <1> QED  BY <1>3, <1>4

\* Every action of a request at work on its file.
LEMMA FileActions ==
    ASSUME TInv, NEW s \in Slots,
           \/ WriteUpload(s) \/ RecordUpload(s) \/ PlaceDownload(s) \/ SaveDownload(s)
           \/ Unlink(s) \/ MarkUncached(s) \/ CheckFile(s) \/ Repair(s)
           \/ PlaceCached(s) \/ SaveCached(s)
    PROVE  TInv'
  <1>0. PICK t : t = track[s]
    OBVIOUS
  <1>1. /\ pc[s] \in FileSteps
        /\ lapsed' = lapsed /\ SlotsTyped /\ LibraryTyped
    BY TypeParts DEF WriteUpload, RecordUpload, PlaceDownload, SaveDownload, Unlink,
       MarkUncached, CheckFile, Repair, PlaceCached, SaveCached, FileSteps, TInv
  <1>2. t \in Tracks /\ torn \subseteq Tracks
    BY <1>0, <1>1, AtWork, StepNames DEF SlotsTyped
  <1>3. CASE WriteUpload(s)
    <2>1. /\ pc[s] = "write" /\ Go(s, "record") /\ "record" \in FileSteps
          /\ files' = files \cup {t} /\ UNCHANGED library
      BY <1>0, <1>3 DEF WriteUpload, FileSteps
    <2>2. LibraryTyped' /\ \A r \in Tracks \ {t} : Same(r)
      BY <1>1, <1>2, <2>1 DEF LibraryTyped, library, Same
    <2>3. PhaseAt(pc[s], t) => PhaseAt("record", t)'
      BY <2>1 DEF PhaseAt, library
    <2> QED  BY <1>0, <1>1, <2>1, <2>2, <2>3, GoesOnAtFile DEF library
  <1>4. CASE PlaceDownload(s)
    <2>1. /\ pc[s] = "convert" /\ Go(s, "placed") /\ "placed" \in FileSteps
          /\ files' = files \cup {t} /\ UNCHANGED library
      BY <1>0, <1>4 DEF PlaceDownload, FileSteps
    <2>2. LibraryTyped' /\ \A r \in Tracks \ {t} : Same(r)
      BY <1>1, <1>2, <2>1 DEF LibraryTyped, library, Same
    <2>3. PhaseAt(pc[s], t) => PhaseAt("placed", t)'
      BY <2>1 DEF PhaseAt, library
    <2> QED  BY <1>0, <1>1, <2>1, <2>2, <2>3, GoesOnAtFile DEF library
  <1>5. CASE Unlink(s)
    <2>1. /\ pc[s] = "unlink" /\ Go(s, "unlinked") /\ "unlinked" \in FileSteps
          /\ files' = files \ {t} /\ UNCHANGED library
      BY <1>0, <1>5 DEF Unlink, FileSteps
    <2>2. LibraryTyped' /\ \A r \in Tracks \ {t} : Same(r)
      BY <1>1, <1>2, <2>1 DEF LibraryTyped, library, Same
    <2>3. PhaseAt(pc[s], t) => PhaseAt("unlinked", t)'
      BY <2>1 DEF PhaseAt, library
    <2> QED  BY <1>0, <1>1, <2>1, <2>2, <2>3, GoesOnAtFile DEF library
  <1>6. CASE PlaceCached(s)
    <2>1. /\ pc[s] = "cache" /\ Go(s, "cache placed") /\ "cache placed" \in FileSteps
          /\ files' = files \cup {t} /\ UNCHANGED library
      BY <1>0, <1>6 DEF PlaceCached, FileSteps
    <2>2. LibraryTyped' /\ \A r \in Tracks \ {t} : Same(r)
      BY <1>1, <1>2, <2>1 DEF LibraryTyped, library, Same
    <2>3. PhaseAt(pc[s], t) => PhaseAt("cache placed", t)'
      BY <2>1 DEF PhaseAt, library
    <2> QED  BY <1>0, <1>1, <2>1, <2>2, <2>3, GoesOnAtFile DEF library
  <1>7. CASE CheckFile(s)
    <2>1. /\ pc[s] = "serve" /\ Go(s, IF t \in files THEN "repair" ELSE "cache")
          /\ "repair" \in FileSteps /\ "cache" \in FileSteps
          /\ UNCHANGED <<library, files>>
      BY <1>0, <1>7 DEF CheckFile, FileSteps
    <2>2. LibraryTyped' /\ \A r \in Tracks : Same(r)
      BY <1>1, <2>1 DEF LibraryTyped, library, Same
    <2>3. PhaseAt(pc[s], t) => t \notin files /\ PhaseAt("cache", t)'
      BY <2>1 DEF PhaseAt, library
    <2>4. CASE t \in files
      BY <1>0, <1>1, <2>1, <2>2, <2>3, <2>4, GoesOnAtFile DEF library
    <2>5. CASE t \notin files
      BY <1>0, <1>1, <2>1, <2>2, <2>3, <2>5, GoesOnAtFile DEF library
    <2> QED  BY <2>4, <2>5
  <1>8. CASE MarkUncached(s)
    <2>1. /\ pc[s] = "unlinked" /\ Go(s, "convert") /\ "convert" \in FileSteps
          /\ audios' = [audios EXCEPT ![t] = "uncached"]
          /\ UNCHANGED <<shelf, surprise, age, files>>
      BY <1>0, <1>8 DEF MarkUncached, FileSteps
    <2>2. /\ audios'[t] = "uncached" /\ LibraryTyped'
          /\ \A r \in Tracks \ {t} : Same(r)
          /\ \A r \in Tracks : audios[r] # "absent" => audios'[r] # "absent"
      BY <1>1, <1>2, <2>1, Marked DEF LibraryTyped, Same
    <2>3. PhaseAt(pc[s], t) => PhaseAt("convert", t)'
      BY <2>1, <2>2 DEF PhaseAt
    <2> QED  BY <1>0, <1>1, <2>1, <2>2, <2>3, GoesOnAtFile
  <1>9. CASE RecordUpload(s)
    <2>1. /\ pc[s] = "record" /\ Go(s, "shelve")
          /\ audios' = [audios EXCEPT ![t] = "cached"]
          /\ UNCHANGED <<shelf, surprise, age, files>>
      BY <1>0, <1>9 DEF RecordUpload
    <2>2. /\ audios'[t] = "cached" /\ LibraryTyped'
          /\ \A r \in Tracks \ {t} : Same(r)
          /\ \A r \in Tracks : audios[r] # "absent" => audios'[r] # "absent"
      BY <1>1, <1>2, <2>1, Marked DEF LibraryTyped, Same
    <2>3. Stands(s, "shelve", t, {})
      BY <1>0, <1>1, <2>1, GoStands, AtWork, StepNames
    <2>4. PhaseAt(pc[s], t) => Agree(t)'
      BY <2>1, <2>2 DEF PhaseAt, Agree
    <2>5. \A r \in Tracks : Unharmed(r)'
      BY <1>0, <1>1, <1>2, <2>1, <2>2, <2>3, <2>4, LeavesFile, StepNames
    <2> QED  BY <1>1, <1>2, <2>1, <2>2, <2>3, <2>5, ListsRight
  <1>10. CASE SaveDownload(s)
    <2>1. /\ pc[s] = "placed" /\ Saved(s)
          /\ audios' = [audios EXCEPT ![t] = "cached"]
          /\ shelf' = [shelf EXCEPT ![user[s]] = @ \cup {t}]
          /\ UNCHANGED <<surprise, age, files>>
      BY <1>0, <1>10 DEF SaveDownload
    <2>2. /\ audios'[t] = "cached" /\ LibraryTyped'
          /\ \A r \in Tracks \ {t} : Same(r)
          /\ \A r \in Tracks : audios[r] # "absent" => audios'[r] # "absent"
      <3>1. shelf' \in [Users -> SUBSET Tracks]
        BY <1>1, <1>2, <2>1 DEF LibraryTyped
      <3> QED  BY <1>1, <1>2, <2>1, <3>1, Marked DEF LibraryTyped, Same
    <2>3. \A u \in Users : \A r \in shelf'[u] : r \in shelf[u] \/ r = t
      BY <1>1, <2>1 DEF LibraryTyped
    <2> QED  BY <1>0, <1>1, <2>1, <2>2, <2>3, SavesRecord
  <1>11. CASE Repair(s)
    <2>1. /\ pc[s] = "repair" /\ Free(s) /\ torn' = torn
          /\ audios' = [audios EXCEPT ![t] = "cached"]
          /\ UNCHANGED <<shelf, surprise, age, files>>
      BY <1>0, <1>11 DEF Repair, Done
    <2>2. /\ LibraryTyped' /\ \A r \in Tracks \ {t} : Same(r)
          /\ \A r \in Tracks : audios[r] # "absent" => audios'[r] # "absent"
      BY <1>1, <1>2, <2>1, Marked DEF LibraryTyped, Same
    <2>3. ~PhaseAt(pc[s], t)
      BY <2>1 DEF PhaseAt
    <2> QED  BY <1>0, <1>1, <1>2, <2>1, <2>2, <2>3, DoneWithFile
  <1>12. CASE SaveCached(s)
    <2>1. /\ pc[s] = "cache placed" /\ Saved(s)
          /\ audios' = [audios EXCEPT ![t] = "cached"]
          /\ UNCHANGED <<shelf, surprise, age, files>>
      BY <1>0, <1>12 DEF SaveCached
    <2>2. /\ audios'[t] = "cached" /\ LibraryTyped'
          /\ \A r \in Tracks \ {t} : Same(r)
          /\ \A r \in Tracks : audios[r] # "absent" => audios'[r] # "absent"
      BY <1>1, <1>2, <2>1, Marked DEF LibraryTyped, Same
    <2> QED  BY <1>0, <1>1, <2>1, <2>2, SavesRecord
  <1> QED  BY <1>3, <1>4, <1>5, <1>6, <1>7, <1>8, <1>9, <1>10, <1>11, <1>12

-----------------------------------------------------------------------------
(* Playlists, cleanup and failures.                                        *)

\* What is reserved has a record afterwards, and no file's record changes.
LEMMA Reserves ==
    ASSUME LibraryTyped, NEW t, NEW r \in Tracks, Reserve(t, r)
    PROVE  /\ r \in Videos /\ audios'[r] # "absent"
           /\ audios' \in [Tracks -> {"absent", "uncached", "cached"}]
           /\ \A q \in Tracks : audios'[q] = "cached" <=> audios[q] = "cached"
           /\ \A q \in Tracks : audios[q] # "absent" => audios'[q] # "absent"
  <1>1. CASE r \in Sought(t) \cap Records /\ UNCHANGED audios
    BY <1>1 DEF Sought, Records, LibraryTyped
  <1>2. CASE /\ Sought(t) \cap Records = {} /\ r \in Sought(t) \cap Reserved
             /\ audios' = [audios EXCEPT ![r] = "uncached"]
    <2>1. audios[r] = "absent" /\ r \in Videos
      BY <1>2 DEF Records, Sought
    <2> QED  BY <1>2, <2>1, Marked
  <1> QED  BY <1>1, <1>2 DEF Reserve

\* The actions that change playlists and no file.
LEMMA PlaylistActions ==
    ASSUME TInv, NEW s \in Slots,
           \/ Shelve(s) \/ CreateFails(s)
           \/ \E r \in Tracks : Create(s, r) \/ Grow(s, r)
           \/ \E u \in Users : DeleteUser(s, u) \/ \E t \in Tracks : DeleteTrack(s, u, t)
    PROVE  TInv'
  <1>1. SlotsTyped /\ LibraryTyped /\ "clean" # "shelve" /\ "idle" # "shelve"
    BY TypeParts DEF TInv
  <1>2. ASSUME pc[s] \notin FileSteps, pc[s] # "delete", Clean(s),
               \A r \in Tracks : Same(r), LibraryTyped', lapsed' = lapsed,
               \A r \in Tracks : audios[r] # "absent" => audios'[r] # "absent",
               \A u \in Users : \A r \in shelf'[u] \cup surprise'[u] :
                 r \in shelf[u] \cup surprise[u] \cup lapsed \/ audios'[r] # "absent"
        PROVE  TInv'
    <2>1. Stands(s, "clean", NoTrack, {})
      BY <1>1, <1>2, CleanStands DEF TInv, Doomed
    <2>2. \A r \in Tracks : Unharmed(r)'
      BY <1>2, <2>1, BesideFiles, StepNames
    <2> QED  BY <1>1, <1>2, <2>1, <2>2, ListsRight
  <1>3. ASSUME pc[s] \notin FileSteps, pc[s] # "delete", Done(s),
               \A r \in Tracks : Same(r), LibraryTyped', lapsed' = lapsed,
               \A r \in Tracks : audios[r] # "absent" => audios'[r] # "absent",
               \A u \in Users : \A r \in shelf'[u] \cup surprise'[u] :
                 r \in shelf[u] \cup surprise[u] \cup lapsed \/ audios'[r] # "absent"
        PROVE  TInv'
    <2>1. Stands(s, "idle", NoTrack, {})
      BY <1>1, <1>3, FreeStands DEF Done, SlotsTyped
    <2>2. \A r \in Tracks : Unharmed(r)'
      BY <1>3, <2>1, BesideFiles, StepNames
    <2> QED  BY <1>1, <1>3, <2>1, <2>2, ListsRight
  <1>4. CASE Shelve(s)
    <2>0. PICK t : t = track[s]
      OBVIOUS
    <2>1. /\ pc[s] = "shelve" /\ Done(s)
          /\ shelf' = [shelf EXCEPT ![user[s]] = @ \cup {t}]
          /\ UNCHANGED <<surprise, age, audios, files, lapsed>>
      BY <1>4, <2>0 DEF Shelve
    <2>2. t \in Tracks /\ (t \in lapsed \/ audios[t] # "absent") /\ pc[s] \notin FileSteps
      BY <2>0, <2>1, AtWork, StepNames DEF TInv, Shelving, Records
    <2>3. /\ LibraryTyped'
          /\ \A u \in Users : \A r \in shelf'[u] : r \in shelf[u] \/ r = t
      BY <1>1, <2>1, <2>2 DEF LibraryTyped
    <2> QED  BY <1>3, <2>1, <2>2, <2>3 DEF Same
  <1>5. CASE CreateFails(s)
    <2>1. /\ pc[s] = "idle" \/ pc[s] = "create"
          /\ Clean(s) /\ UNCHANGED <<library, files, lapsed>>
      BY <1>5 DEF CreateFails
    <2>2. pc[s] \notin FileSteps /\ pc[s] # "delete"
      BY <2>1, StepNames
    <2>3. LibraryTyped'
      BY <1>1, <2>1 DEF LibraryTyped, library
    <2> QED  BY <1>2, <2>1, <2>2, <2>3 DEF Same, library
  <1>6. ASSUME NEW r \in Tracks, Create(s, r)
        PROVE  TInv'
    <2>1. /\ pc[s] = "create" /\ Reserve(track[s], r) /\ Clean(s)
          /\ surprise' = [surprise EXCEPT ![user[s]] = {r}]
          /\ age' = [age EXCEPT ![user[s]] = "fresh"]
          /\ UNCHANGED <<shelf, files, lapsed>>
      BY <1>6 DEF Create
    <2>2. /\ r \in Videos /\ audios'[r] # "absent"
          /\ audios' \in [Tracks -> {"absent", "uncached", "cached"}]
          /\ \A q \in Tracks : Same(q)
          /\ \A q \in Tracks : audios[q] # "absent" => audios'[q] # "absent"
      BY <1>1, <2>1, Reserves DEF Same
    <2>3. /\ surprise' \in [Users -> SUBSET Videos]
          /\ \A u \in Users : \A q \in surprise'[u] : q \in surprise[u] \/ q = r
      BY <1>1, <2>1, <2>2 DEF LibraryTyped
    <2>4. age' \in [Users -> {"none", "fresh", "stale"}]
      BY <1>1, <2>1 DEF LibraryTyped
    <2>5. LibraryTyped'
      BY <1>1, <2>1, <2>2, <2>3, <2>4 DEF LibraryTyped
    <2>6. pc[s] \notin FileSteps /\ pc[s] # "delete"
      BY <2>1, StepNames
    <2> QED  BY <1>2, <2>1, <2>2, <2>3, <2>5, <2>6
  <1>7. ASSUME NEW r \in Tracks, Grow(s, r)
        PROVE  TInv'
    <2>1. pc[s] = "grow" /\ Done(s) /\ UNCHANGED <<shelf, age, files, lapsed>>
      BY <1>7 DEF Grow
    <2>2. pc[s] \notin FileSteps /\ pc[s] # "delete"
      BY <2>1, StepNames
    <2>3. CASE UNCHANGED <<surprise, audios>>
      <3>1. LibraryTyped'
        BY <1>1, <2>1, <2>3 DEF LibraryTyped
      <3> QED  BY <1>3, <2>1, <2>2, <2>3, <3>1 DEF Same
    <2>4. CASE /\ Reserve(track[s], r)
               /\ surprise' = [surprise EXCEPT ![user[s]] = @ \cup {r}]
      <3>1. /\ r \in Videos /\ audios'[r] # "absent"
            /\ audios' \in [Tracks -> {"absent", "uncached", "cached"}]
            /\ \A q \in Tracks : Same(q)
            /\ \A q \in Tracks : audios[q] # "absent" => audios'[q] # "absent"
        BY <1>1, <2>1, <2>4, Reserves DEF Same
      <3>2. /\ surprise' \in [Users -> SUBSET Videos]
            /\ \A u \in Users : \A q \in surprise'[u] : q \in surprise[u] \/ q = r
        BY <1>1, <2>4, <3>1 DEF LibraryTyped
      <3>3. LibraryTyped'
        BY <1>1, <2>1, <3>1, <3>2 DEF LibraryTyped
      <3> QED  BY <1>3, <2>1, <2>2, <3>1, <3>2, <3>3
    <2> QED  BY <1>7, <2>3, <2>4 DEF Grow
  <1>8. ASSUME NEW u \in Users, DeleteUser(s, u)
        PROVE  TInv'
    <2>1. /\ pc[s] = "idle" /\ Clean(s) /\ UNCHANGED <<audios, files, lapsed>>
          /\ shelf' = [shelf EXCEPT ![u] = {}] /\ surprise' = [surprise EXCEPT ![u] = {}]
          /\ age' = [age EXCEPT ![u] = "none"]
      BY <1>8 DEF DeleteUser
    <2>2. pc[s] \notin FileSteps /\ pc[s] # "delete"
      BY <2>1, StepNames
    <2>3. /\ shelf' \in [Users -> SUBSET Tracks] /\ surprise' \in [Users -> SUBSET Videos]
          /\ \A v \in Users : shelf'[v] \subseteq shelf[v] /\ surprise'[v] \subseteq surprise[v]
      BY <1>1, <2>1 DEF LibraryTyped
    <2>4. age' \in [Users -> {"none", "fresh", "stale"}]
      BY <1>1, <2>1 DEF LibraryTyped
    <2>5. LibraryTyped'
      BY <1>1, <2>1, <2>3, <2>4 DEF LibraryTyped
    <2> QED  BY <1>2, <2>1, <2>2, <2>3, <2>5 DEF Same
  <1>9. ASSUME NEW u \in Users, NEW t \in Tracks, DeleteTrack(s, u, t)
        PROVE  TInv'
    <2>1. /\ pc[s] = "idle" /\ UNCHANGED <<surprise, age, audios, files, lapsed>>
          /\ shelf' = [shelf EXCEPT ![u] = @ \ {t}]
          /\ UNCHANGED work \/ Clean(s)
      BY <1>9 DEF DeleteTrack
    <2>2. pc[s] \notin FileSteps /\ pc[s] # "delete"
      BY <2>1, StepNames
    <2>3. /\ LibraryTyped'
          /\ \A v \in Users : shelf'[v] \subseteq shelf[v]
      BY <1>1, <2>1 DEF LibraryTyped
    <2>4. CASE Clean(s)
      BY <1>2, <2>1, <2>2, <2>3, <2>4 DEF Same
    <2>5. CASE UNCHANGED work
      <3>1. Stands(s, pc[s], track[s], doomed[s]) /\ doomed[s] = {}
        BY <1>1, <2>1, <2>5, StepNames
           DEF Stands, Only, work, SlotsTyped, TInv, Doomed
      <3>2. \A r \in Tracks : Unharmed(r)'
        BY <2>1, <2>2, <3>1, BesideFiles DEF Same
      <3> QED  BY <2>1, <2>3, <3>1, <3>2, ListsRight
    <2> QED  BY <2>1, <2>4, <2>5
  <1> QED  BY <1>4, <1>5, <1>6, <1>7, <1>8, <1>9
-----------------------------------------------------------------------------
(* Cleanup, failures and the whole.                                        *)

\* The edit of a cleanup: the records it drops are no playlist's.
LEMMA CleanupRecords ==
    ASSUME TInv, NEW s \in Slots, CleanRecords(s)
    PROVE  TInv'
  <1>0. PICK unused : unused = Records \ InUse
    OBVIOUS
  <1>1. /\ SlotsTyped /\ LibraryTyped /\ unused \subseteq Tracks
    BY <1>0, TypeParts DEF TInv, Records
  <1>2. PICK step : step = IF unused = {} THEN "idle" ELSE "delete"
    OBVIOUS
  <1>3. /\ pc[s] = "clean" /\ UNCHANGED <<shelf, files, user, track>>
        /\ pc' = [pc EXCEPT ![s] = step]
        /\ doomed' = [doomed EXCEPT ![s] = unused]
        /\ torn' = torn \cup (unused \cap BesideOthers(s))
        /\ audios' = [t \in Tracks |-> IF t \in unused THEN "absent" ELSE audios[t]]
    BY <1>0, <1>2 DEF CleanRecords
  <1>4. /\ surprise' = [u \in Users |-> IF age[u] = "stale" THEN {} ELSE surprise[u]]
        /\ age' = [u \in Users |-> IF age[u] = "stale" THEN "none" ELSE age[u]]
    BY DEF CleanRecords
  <1>5. lapsed' = lapsed \cup {track[r] : r \in {q \in Slots :
                                  pc[q] = "shelve" /\ track[q] \in unused}}
    BY <1>0 DEF CleanRecords
  <1>6. /\ step \in Resting /\ step \in Steps /\ step \notin FileSteps
        /\ step # "delete" => unused = {}
        /\ step # "shelve" /\ "clean" \in Resting /\ "clean" \notin FileSteps
    <2>1. step = "idle" \/ step = "delete"
      BY <1>2
    <2> QED  BY <1>2, <2>1, StepNames
  <1>7. Stands(s, step, track[s], unused)
    <2>1. /\ pc' \in [Slots -> Steps] /\ doomed' \in [Slots -> SUBSET Tracks]
          /\ pc'[s] = step /\ doomed'[s] = unused /\ track' = track /\ user' = user
          /\ \A q \in Slots \ {s} : pc'[q] = pc[q] /\ doomed'[q] = doomed[q]
          /\ torn \subseteq torn' /\ torn' \subseteq Tracks
      BY <1>1, <1>3, <1>6 DEF SlotsTyped
    <2>2. \A q \in Slots : pc'[q] \in Resting <=> track'[q] = NoTrack
      BY <1>1, <1>3, <1>6, <2>1 DEF SlotsTyped
    <2> QED  BY <1>1, <2>1, <2>2 DEF Stands, Only, SlotsTyped
  <1>8. LibraryTyped'
    <2>1. surprise' \in [Users -> SUBSET Videos] /\ age' \in [Users -> {"none", "fresh", "stale"}]
      BY <1>1, <1>4 DEF LibraryTyped
    <2>2. audios' \in [Tracks -> {"absent", "uncached", "cached"}]
      BY <1>1, <1>3 DEF LibraryTyped
    <2>3. lapsed' \subseteq Tracks
      BY <1>1, <1>5 DEF LibraryTyped
    <2> QED  BY <1>1, <1>3, <2>1, <2>2, <2>3 DEF LibraryTyped
  <1>9. \A t \in Tracks : Unharmed(t)'
    <2>1. WorksOn(s) = {} /\ WorksOn(s)' = unused /\ Only(s)
      BY <1>3, <1>6, <1>7 DEF TInv, Doomed, WorksOn, Stands
    <2>2. \A t \in Tracks \ unused : Same(t)
      BY <1>3 DEF Same
    <2>3. \A t \in unused : Phase(s, t)'
      BY <1>1, <1>3, <1>6, <1>7 DEF Phase, Stands
    <2>4. \A t \in unused : t \notin torn' => t \notin BesideOthers(s)
      BY <1>3
    <2>5. \A t \in Tracks : Unharmed(t)
      BY DEF TInv
    <2> QED  BY <2>1, <2>2, <2>3, <2>4, <2>5, StepKeeps
  <1>10. TypeOK'
    BY <1>7, <1>8, TypeParts, PTL DEF Stands
  <1>11. Doomed'
    BY <1>6, <1>7 DEF TInv, Doomed, Stands, Only
  <1>12. \A t \in Records \cup lapsed : t \notin unused => t \in Records' \cup lapsed'
    BY <1>3, <1>5 DEF Records
  <1>13. Shelving'
    <2> SUFFICES ASSUME NEW q \in Slots, pc'[q] = "shelve"
                 PROVE  track'[q] \in Records' \cup lapsed'
      BY DEF Shelving
    <2>1. pc[q] = "shelve" /\ track'[q] = track[q]
      BY <1>3, <1>6, <1>7 DEF Stands, Only
    <2>2. track[q] \in Records \cup lapsed
      BY <2>1 DEF TInv, Shelving
    <2> QED  BY <1>5, <1>12, <2>1, <2>2
  <1>14. PlaylistsResolve'
    <2> SUFFICES ASSUME NEW u \in Users, NEW t \in shelf'[u] \cup surprise'[u]
                 PROVE  t \in Records' \cup lapsed'
      BY DEF PlaylistsResolve
    <2>1. t \in shelf[u] \cup (IF age[u] = "stale" THEN {} ELSE surprise[u])
      BY <1>3, <1>4
    <2>2. t \in InUse /\ t \in shelf[u] \cup surprise[u]
      BY <2>1 DEF InUse
    <2> QED  BY <1>0, <1>12, <2>2 DEF TInv, PlaylistsResolve
  <1> QED  BY <1>9, <1>10, <1>11, <1>13, <1>14 DEF TInv

\* A cleanup deletes the file of a record it dropped.
LEMMA CleanupFiles ==
    ASSUME TInv, NEW s \in Slots, NEW t \in Tracks, DeleteFile(s, t)
    PROVE  TInv'
  <1>1. SlotsTyped /\ LibraryTyped
    BY TypeParts DEF TInv
  <1>2. /\ pc[s] = "delete" /\ t \in doomed[s] /\ files' = files \ {t}
        /\ UNCHANGED <<library, lapsed>>
    BY DEF DeleteFile
  <1>3. /\ "delete" \notin FileSteps /\ "idle" \notin FileSteps /\ "delete" \in Resting
        /\ "delete" # "shelve" /\ "idle" # "shelve" /\ "delete" \in Steps
    BY StepNames
  <1>4. PICK left : left = doomed[s] \ {t}
    OBVIOUS
  <1>5. PICK step : step = IF left = {} THEN "idle" ELSE "delete"
    OBVIOUS
  <1>6. step = "delete" \/ (step = "idle" /\ left = {})
    BY <1>5
  <1>7. Stands(s, step, track[s], left)
    <2>0. track[s] = NoTrack
      BY <1>1, <1>2, <1>3 DEF SlotsTyped
    <2>1. CASE doomed[s] = {t}
      <3>1. left = {} /\ step = "idle" /\ Free(s) /\ torn' = torn
        BY <1>4, <1>5, <2>1 DEF DeleteFile, Done
      <3> QED  BY <1>1, <2>0, <3>1, FreeStands DEF SlotsTyped
    <2>2. CASE doomed[s] # {t}
      <3>1. /\ step = "delete" /\ doomed' = [doomed EXCEPT ![s] = left]
            /\ UNCHANGED <<pc, user, track, torn>>
        BY <1>2, <1>4, <1>5, <2>2 DEF DeleteFile
      <3>2. left \subseteq Tracks
        BY <1>1, <1>4 DEF SlotsTyped
      <3> QED  BY <1>1, <1>2, <3>1, <3>2 DEF Stands, Only, SlotsTyped
    <2> QED  BY <2>1, <2>2
  <1>8. \A r \in Tracks : Unharmed(r)'
    <2>1. WorksOn(s) = doomed[s] /\ WorksOn(s)' = left /\ Only(s)
      BY <1>2, <1>3, <1>6, <1>7 DEF WorksOn, Stands
    <2>2. \A r \in Tracks \ {t} : Same(r)
      BY <1>2 DEF Same, library
    <2>3. Phase(s, t) => Agree(t)'
      BY <1>2 DEF Phase, Agree, library
    <2>4. \A r \in left : Phase(s, r) => Phase(s, r)'
      BY <1>2, <1>3, <1>4, <1>6, <1>7 DEF Phase, Stands, library
    <2>5. \A r \in Tracks : Unharmed(r)
      BY DEF TInv
    <2> QED  BY <1>2, <1>4, <2>1, <2>2, <2>3, <2>4, <2>5, StepKeeps
  <1>9. LibraryTyped'
    BY <1>1, <1>2 DEF LibraryTyped, library
  <1> QED  BY <1>1, <1>2, <1>3, <1>6, <1>7, <1>8, <1>9, ListsRight DEF library

\* A request that ends early.
LEMMA FailureActions ==
    ASSUME TInv, NEW s \in Slots, Fail(s) \/ UndoFails(s) \/ Crash(s)
    PROVE  TInv'
  <1>1. SlotsTyped /\ LibraryTyped
    BY TypeParts DEF TInv
  <1>2. /\ Free(s) /\ pc[s] # "idle" /\ UNCHANGED <<library, lapsed>>
        /\ files' = files
    BY DEF Fail, UndoFails, Crash
  <1>3. LibraryTyped'
    BY <1>1, <1>2 DEF LibraryTyped, library
  <1>4. torn \subseteq torn' /\ Exposed(s) \subseteq torn'
    <2>1. pc[s] = "undo" => Exposed(s) = {}
      BY StepNames, AtWork DEF Exposed, Resting
    <2> QED  BY <2>1 DEF Fail, UndoFails, Crash
  <1>5. torn' \subseteq Tracks
    <2>1. doomed[s] \subseteq Tracks /\ torn \subseteq Tracks
      BY <1>1 DEF SlotsTyped
    <2>2. "write" \notin Resting /\ "record" \notin Resting /\ "unlinked" \notin Resting
          /\ "placed" \notin Resting /\ "cache placed" \notin Resting
          /\ "undo" \notin Resting
      BY DEF Resting
    <2>3. pc[s] \notin Resting => track[s] \in Tracks
      BY AtWork
    <2>4. Exposed(s) \subseteq Tracks
      BY <2>1, <2>2, <2>3 DEF Exposed
    <2>5. CASE Fail(s)
      BY <2>1, <2>4, <2>5 DEF Fail
    <2>6. CASE Crash(s)
      BY <2>1, <2>2, <2>3, <2>4, <2>6 DEF Crash
    <2>7. CASE UndoFails(s)
      BY <2>1, <2>2, <2>3, <2>7 DEF UndoFails
    <2> QED  BY <2>5, <2>6, <2>7
  <1>6. Stands(s, "idle", NoTrack, {})
    BY <1>1, <1>2, <1>4, <1>5, FreeStands
  <1>7. "idle" \notin FileSteps /\ "delete" \notin FileSteps /\ "idle" # "shelve"
    BY StepNames
  <1>8. ASSUME \A r \in Tracks : Unharmed(r)'
        PROVE  TInv'
    BY <1>2, <1>3, <1>6, <1>7, <1>8, ListsRight DEF library
  <1>9. CASE pc[s] = "delete"
    <2>2. WorksOn(s) \subseteq torn' /\ WorksOn(s)' = {} /\ Only(s)
      BY <1>4, <1>6, <1>7, <1>9 DEF WorksOn, Stands, Exposed
    <2>3. \A r \in Tracks : Same(r)
      BY <1>2 DEF Same, library
    <2>4. \A r \in Tracks : Unharmed(r)
      BY DEF TInv
    <2>5. \A r \in Tracks : Unharmed(r)'
      BY <2>2, <2>3, <2>4, StepKeeps
    <2> QED  BY <1>8, <2>5
  <1>10. CASE pc[s] \in FileSteps
    <2>0. PICK t : t = track[s]
      OBVIOUS
    <2>1. \A r \in Tracks \ {t} : Same(r)
      BY <1>2 DEF Same, library
    <2>2. /\ audios' = audios
          /\ pc[s] \in {"write", "record", "unlinked"} => t \in torn'
      BY <1>2, <1>4, <2>0 DEF Exposed, library
    <2>3. ASSUME t \notin torn', PhaseAt(pc[s], t)
          PROVE  Agree(t)'
      <3>1. pc[s] \in {"convert", "placed", "unlink", "serve", "cache", "cache placed",
                       "undo"}
        BY <1>10, <2>2, <2>3 DEF FileSteps, PhaseAt
      <3>2. pc[s] \notin {"placed", "cache placed", "undo"}
        BY <2>0, <2>3 DEF Fail, UndoFails, Crash
      <3> QED  BY <1>2, <2>2, <2>3, <3>1, <3>2 DEF PhaseAt, Agree
    <2> QED  BY <1>2, <1>3, <1>4, <1>5, <1>10, <2>0, <2>1, <2>2, <2>3, DoneWithFile
             DEF library
  <1>11. CASE pc[s] \notin FileSteps /\ pc[s] # "delete"
    <2>2. \A r \in Tracks : Same(r)
      BY <1>2 DEF Same, library
    <2>3. \A r \in Tracks : Unharmed(r)'
      BY <1>6, <1>7, <1>11, <2>2, BesideFiles
    <2> QED  BY <1>8, <2>3
  <1> QED  BY <1>9, <1>10, <1>11

\* The error handler of a conversion begins, and removes the file.
LEMMA HandlerActions ==
    ASSUME TInv, NEW s \in Slots, ConversionFails(s) \/ Undo(s)
    PROVE  TInv'
  <1>0. PICK t : t = track[s]
    OBVIOUS
  <1>1. /\ SlotsTyped /\ LibraryTyped /\ UNCHANGED <<library, lapsed>>
        /\ pc[s] \in FileSteps /\ "undo" \in FileSteps
    BY TypeParts DEF TInv, ConversionFails, Undo, FileSteps
  <1>2. t \in Tracks /\ torn \subseteq Tracks
    BY <1>0, <1>1, AtWork, StepNames DEF SlotsTyped
  <1>3. CASE ConversionFails(s)
    <2>1. Go(s, "undo") /\ files' = files
          /\ pc[s] \in {"convert", "placed", "cache", "cache placed"}
      BY <1>3 DEF ConversionFails
    <2>2. LibraryTyped' /\ \A r \in Tracks : Same(r)
      BY <1>1, <2>1 DEF LibraryTyped, library, Same
    <2>3. PhaseAt(pc[s], t) => PhaseAt("undo", t)'
      BY <1>1, <2>1 DEF PhaseAt, library
    <2> QED  BY <1>0, <1>1, <2>1, <2>2, <2>3, GoesOnAtFile DEF library
  <1>4. CASE Undo(s)
    <2>1. /\ pc[s] = "undo" /\ Free(s) /\ torn' = torn /\ files' = files \ {t}
      BY <1>0, <1>4 DEF Undo, Done
    <2>2. LibraryTyped' /\ \A r \in Tracks \ {t} : Same(r)
      BY <1>1, <2>1 DEF LibraryTyped, library, Same
    <2>3. PhaseAt(pc[s], t) => Agree(t)'
      BY <1>1, <2>1 DEF PhaseAt, Agree, library
    <2> QED  BY <1>0, <1>1, <1>2, <2>1, <2>2, <2>3, DoneWithFile DEF library
  <1> QED  BY <1>1, <1>3, <1>4

\* The edits that are one step and no request's.
LEMMA Edits ==
    ASSUME TInv, NEW u \in Users,
           Age(u) \/ Save(u) \/ \E t \in Tracks : Favourite(u, t)
    PROVE  TInv'
  <1>1. SlotsTyped /\ LibraryTyped
    BY TypeParts DEF TInv
  <1>2. UNCHANGED <<audios, files, work, lapsed>>
    BY DEF Age, Save, Favourite
  <1>3. /\ SlotsTyped' /\ Doomed' /\ Shelving'
        /\ \A t \in Tracks : Unharmed(t)'
    <2>1. SlotsTyped' /\ Doomed' /\ Shelving'
      BY <1>1, <1>2 DEF SlotsTyped, TInv, Doomed, Shelving, Records, work
    <2>2. \A s \in Slots : WorksOn(s)' = WorksOn(s)
      BY <1>2 DEF WorksOn, work
    <2>3. \A s \in Slots, t \in Tracks : Phase(s, t) => Phase(s, t)'
      BY ZenonT(40), <1>2 DEF Phase, PhaseAt, work
    <2> QED  BY <1>2, <2>1, <2>2, <2>3 DEF TInv, Unharmed, work
  <1>4. LibraryTyped' /\ \A v \in Users : \A t \in shelf'[v] \cup surprise'[v] :
                            t \in shelf[v] \cup surprise[v]
    <2>1. CASE Age(u)
      BY <1>1, <2>1 DEF Age, LibraryTyped
    <2>2. ASSUME NEW t \in Tracks, Favourite(u, t)
          PROVE  LibraryTyped' /\ \A v \in Users : \A r \in shelf'[v] \cup surprise'[v] :
                                     r \in shelf[v] \cup surprise[v]
      <3>1. /\ t \in surprise[u] /\ shelf' = [shelf EXCEPT ![u] = @ \cup {t}]
            /\ UNCHANGED <<surprise, age, audios, files, lapsed>>
        BY <2>2 DEF Favourite
      <3> QED  BY <1>1, <3>1 DEF LibraryTyped
    <2>3. CASE Save(u)
      <3>0. PICK saved : saved = IF age[u] = "fresh" THEN shelf[u] \cup surprise[u] ELSE shelf[u]
        OBVIOUS
      <3>1. /\ shelf' = [shelf EXCEPT ![u] = saved]
            /\ surprise' = [surprise EXCEPT ![u] = {}] /\ age' = [age EXCEPT ![u] = "none"]
        BY <2>3, <3>0 DEF Save
      <3>2. saved \subseteq shelf[u] \cup surprise[u] /\ saved \subseteq Tracks
        BY <1>1, <3>0 DEF LibraryTyped, Tracks
      <3>3. shelf' \in [Users -> SUBSET Tracks]
        BY <1>1, <3>1, <3>2 DEF LibraryTyped
      <3>4. surprise' \in [Users -> SUBSET Videos]
        BY <1>1, <3>1 DEF LibraryTyped
      <3>5. age' \in [Users -> {"none", "fresh", "stale"}]
        BY <1>1, <3>1 DEF LibraryTyped
      <3>6. \A v \in Users : \A t \in shelf'[v] \cup surprise'[v] :
                            t \in shelf[v] \cup surprise[v]
        BY <1>1, <3>1, <3>2 DEF LibraryTyped
      <3> QED  BY <1>1, <1>2, <3>3, <3>4, <3>5, <3>6 DEF LibraryTyped
    <2> QED  BY <2>1, <2>2, <2>3
  <1>5. PlaylistsResolve'
    BY <1>2, <1>4 DEF TInv, PlaylistsResolve, Records
  <1>6. TypeOK'
    BY <1>3, <1>4, TypeParts, PTL
  <1> QED  BY <1>3, <1>5, <1>6 DEF TInv

\* The invariant of every behaviour of the library.
THEOREM TubioInvariant == Spec => []TInv
  <1>1. Init => TInv
    <2> SUFFICES ASSUME Init
                 PROVE  TInv
      OBVIOUS
    <2>1. /\ \A s \in Slots : pc[s] = "idle" /\ track[s] = NoTrack /\ doomed[s] = {}
          /\ \A t \in Tracks : audios[t] = "absent"
          /\ \A u \in Users : shelf[u] = {} /\ surprise[u] = {} /\ age[u] = "none"
          /\ files = {} /\ torn = {} /\ lapsed = {}
      BY DEF Init
    <2>2. "idle" \in Steps /\ "idle" \in Resting /\ "idle" \notin FileSteps
      BY StepNames
    <2>3. SlotsTyped /\ LibraryTyped
      BY <2>1, <2>2 DEF Init, SlotsTyped, LibraryTyped
    <2>4. Doomed /\ Shelving /\ PlaylistsResolve
      BY <2>1 DEF Doomed, Shelving, PlaylistsResolve
    <2>5. \A t \in Tracks : Unharmed(t)
      BY <2>1, <2>2 DEF Unharmed, WorksOn
    <2> QED  BY <2>3, <2>4, <2>5, TypeParts DEF TInv
  <1>2. TInv /\ [Next]_vars => TInv'
    <2> SUFFICES ASSUME TInv, [Next]_vars
                 PROVE  TInv'
      OBVIOUS
    <2>1. CASE UNCHANGED vars
      <3>1. SlotsTyped /\ LibraryTyped
        BY TypeParts DEF TInv
      <3>2. SlotsTyped' /\ LibraryTyped'
        BY <2>1, <3>1 DEF vars, library, work, SlotsTyped, LibraryTyped
      <3>3. Doomed' /\ Shelving' /\ PlaylistsResolve'
        BY <2>1 DEF vars, library, work, TInv, Doomed, Shelving, PlaylistsResolve, Records
      <3>4. \A t \in Tracks : Unharmed(t)'
        <4>1. \A s \in Slots : WorksOn(s)' = WorksOn(s)
          BY <2>1 DEF WorksOn, vars, work
        <4>2. \A s \in Slots, t \in Tracks : Phase(s, t) => Phase(s, t)'
          BY ZenonT(40), <2>1 DEF Phase, PhaseAt, vars, work, library
        <4> QED  BY <2>1, <4>1, <4>2 DEF TInv, Unharmed, vars, work, library
      <3>5. TypeOK'
        BY <3>2, TypeParts, PTL
      <3> QED  BY <3>3, <3>4, <3>5 DEF TInv
    <2>2. CASE Next
      <3>1. CASE \E u \in Users : Age(u) \/ Save(u) \/ \E t \in Tracks : Favourite(u, t)
        BY <3>1, Edits
      <3>2. CASE \E u \in Users, s \in Slots, t \in Tracks :
                    \/ t \in Uploaded /\ BeginUpload(s, u, t)
                    \/ t \in Videos /\ BeginDownload(s, u, t)
                    \/ BeginResync(s, u, t) \/ BeginCache(s, u, t) \/ Pick(s, u, t)
        BY <3>2, BeginActions
      <3>3. CASE \E s \in Slots, t \in Tracks : BeginServe(s, t)
        <4>1. PICK s \in Slots, t \in Tracks : BeginServe(s, t)
          BY <3>3
        <4>2. t \in Records /\ audios[t] = "uncached" /\ Begin(s, "serve", NoUser, t)
              /\ UNCHANGED <<library, files, lapsed>> /\ "serve" \in FileSteps
          BY <4>1 DEF BeginServe, FileSteps
        <4>3. Agree(t) => PhaseAt("serve", t)
          BY <4>2 DEF Agree, PhaseAt
        <4> QED  BY <4>2, <4>3, BeginsFile
      <3>4. CASE \E s \in Slots :
                    \/ \E u \in Users : DeleteUser(s, u) \/ \E t \in Tracks : DeleteTrack(s, u, t)
                    \/ Shelve(s) \/ CreateFails(s)
                    \/ \E r \in Tracks : Create(s, r) \/ Grow(s, r)
        BY <3>4, PlaylistActions
      <3>5. CASE \E s \in Slots :
                    \/ WriteUpload(s) \/ RecordUpload(s) \/ PlaceDownload(s)
                    \/ SaveDownload(s) \/ Unlink(s) \/ MarkUncached(s) \/ CheckFile(s)
                    \/ Repair(s) \/ PlaceCached(s) \/ SaveCached(s)
        BY <3>5, FileActions
      <3>6. CASE \E s \in Slots :
                    \/ CleanRecords(s) \/ \E t \in Tracks : DeleteFile(s, t)
                    \/ Fail(s) \/ UndoFails(s) \/ Crash(s)
                    \/ ConversionFails(s) \/ Undo(s)
        BY <3>6, CleanupRecords, CleanupFiles, FailureActions, HandlerActions
      <3> QED
        <4>1. \A t \in Uploaded \cup Videos : t \in Tracks
          BY DEF Tracks
        <4> QED  BY <2>2, <3>1, <3>2, <3>3, <3>4, <3>5, <3>6, <4>1 DEF Next
    <2> QED  BY <2>1, <2>2
  <1> QED  BY <1>1, <1>2, PTL DEF Spec

\* LibrarySound for every number of requests, users and tracks: no interleaving of
\* uploads, downloads, edits and cleanups leaves a playlist naming a track that
\* never had a record.
THEOREM LibraryIsSound == Spec => []LibrarySound
  <1>1. TInv => LibrarySound
    BY DEF TInv, LibrarySound
  <1> QED  BY <1>1, TubioInvariant, PTL

\* FilesMatchRecords for every number of requests, users and tracks: whatever the
\* order of conversions, repairs, cleanups, errors and deaths, file and record of a
\* track agree between requests, unless two worked on it, one was cut short or its
\* handler failed, or a record was saved by an edit that raised all the same.
THEOREM FilesMatchTheRecords == Spec => []FilesMatchRecords
  <1>1. TInv => FilesMatchRecords
    BY DEF TInv, FilesMatchRecords, Unharmed
  <1> QED  BY <1>1, TubioInvariant, PTL

-----------------------------------------------------------------------------
(* Downloads.                                                              *)

JobFields == {"step", "kind", "files", "saved", "wrong", "lapsed"}
StreamFields == {"at", "told", "watches"}

JobsTyped == DOMAIN job = Workers /\ \A w \in Workers : DOMAIN job[w] = JobFields
DownloadTyped ==
    /\ JobsTyped
    /\ DOMAIN stream = Streams /\ \A s \in Streams : DOMAIN stream[s] = StreamFields

Runs(step) == step \in {"fetch", "convert", "place", "save", "finish", "report"}

\* A claimed request holds its claim until it deletes it, unless the claim has
\* run out or was deleted in place of another; and whoever holds one is at work.
ClaimHeld ==
    \A w \in Workers :
        /\ /\ job[w].kind = "cache" /\ job[w].step # "idle" /\ job[w].step # "delete"
           /\ ~job[w].lapsed
           => claim = w \/ slipped
        /\ claim = w => job[w].kind = "cache" /\ job[w].step # "idle" /\ ~job[w].lapsed
        /\ job[w].step = "delete" => ~job[w].lapsed

Part == {"part"}
Intermediate == {"converted"}
Output == {"output"}

\* What files a request can have at each step.
FilesAt(step, left, wrong) ==
    /\ step = "begin" \/ step = "finish" => left = {}
    /\ step = "fetch" => left = {} \/ left = Part
    /\ step = "convert" => left = Part
    /\ step = "place" => left = Intermediate
    /\ step = "save" => left = Output
    /\ step = "report" \/ step = "clean up" =>
          left \in {{}, Intermediate, Output} \/ (wrong = "download" /\ left = Part)
    /\ step = "release" =>
          left = {} \/ wrong = "redis" \/ (wrong = "download" /\ left = Part)

\* At which steps the record of the track is saved.
SavedAt(step, saved, wrong) ==
    /\ step \in {"begin", "fetch", "convert", "place", "save"} => ~saved
    /\ step = "finish" => saved
    /\ step = "report" => ~saved \/ wrong = "finish"

JobsRight ==
    \A w \in Workers :
        /\ FilesAt(job[w].step, job[w].files, job[w].wrong)
        /\ SavedAt(job[w].step, job[w].saved, job[w].wrong)

\* The record that a running conversion wrote last does not say that it ended.
RecordOfRunning ==
    \A w \in Workers : progress.by = w /\ Runs(job[w].step) =>
        progress.status \notin {"none", "complete", "error"}

\* What the record, or a stream, may say of the end of a request.
EndTruly(said, j) ==
    /\ said = "complete" => j.saved
    /\ said = "error" => ~Runs(j.step) /\ (~j.saved \/ j.wrong = "finish")

\* The record is of the conversion that a stream follows, which is the only one.
FollowedRight ==
    \A s \in Streams : stream[s].watches # NoWorker =>
        \E w \in Workers :
            /\ stream[s].watches = w /\ progress.by = w /\ progress.status # "none"
            /\ \A v \in Workers : Runs(job[v].step) => v = w
            /\ EndTruly(progress.status, job[w])
            /\ EndTruly(stream[s].told, job[w])
            /\ stream[s].told # "not_found"

DInv == DownloadTyped /\ ClaimHeld /\ JobsRight /\ RecordOfRunning /\ FollowedRight

\* Strings that name different things are different.
LEMMA RunsAt ==
    /\ \A step : Runs(step) => step # "idle" /\ step # "begin" /\ step # "delete"
    /\ Runs("fetch") /\ Runs("convert") /\ Runs("place") /\ Runs("save")
    /\ Runs("finish") /\ Runs("report")
    /\ ~Runs("idle") /\ ~Runs("begin") /\ ~Runs("clean up")
    /\ ~Runs("release") /\ ~Runs("delete")
  BY DEF Runs

\* A step of w alone, and what it is after it.
Alone(w) == JobsTyped' /\ \A v \in Workers \ {w} : job'[v] = job[v]

Becomes(w, step, left, saved, wrong) ==
    /\ Alone(w)
    /\ job'[w].step = step /\ job'[w].files = left
    /\ job'[w].saved = saved /\ job'[w].wrong = wrong
    /\ job'[w].kind = job[w].kind /\ job'[w].lapsed = job[w].lapsed

\* The ways a job takes a step.
LEMMA JobSteps ==
    ASSUME JobsTyped, NEW w \in Workers, NEW step, NEW left, NEW wrong
    PROVE  /\ Step(w, step) => Becomes(w, step, job[w].files, job[w].saved, job[w].wrong)
           /\ GoWith(w, step, left) =>
                Becomes(w, step, left, job[w].saved, job[w].wrong)
           /\ job' = [job EXCEPT ![w].step = step, ![w].wrong = wrong] =>
                Becomes(w, step, job[w].files, job[w].saved, wrong)
           /\ SaveTrack(w) => Becomes(w, "finish", {}, TRUE, job[w].wrong)
  <1> USE DEF JobsTyped, JobFields, Becomes, Alone
  <1>1. Step(w, step) => Becomes(w, step, job[w].files, job[w].saved, job[w].wrong)
    BY DEF Step
  <1>2. GoWith(w, step, left) => Becomes(w, step, left, job[w].saved, job[w].wrong)
    BY DEF GoWith
  <1>3. job' = [job EXCEPT ![w].step = step, ![w].wrong = wrong] =>
          Becomes(w, step, job[w].files, job[w].saved, wrong)
    OBVIOUS
  <1>4. SaveTrack(w) => Becomes(w, "finish", {}, TRUE, job[w].wrong)
    BY DEF SaveTrack
  <1> QED  BY <1>1, <1>2, <1>3, <1>4

\* At its end a request keeps only what streams that follow it may be told.
LEMMA JobEnds ==
    ASSUME JobsTyped, NEW w \in Workers, End(w)
    PROVE  /\ Alone(w)
           /\ job'[w].step = "idle" /\ job'[w].kind = "none" /\ job'[w].files = {}
           /\ (\E s \in Streams : stream[s].watches = w) =>
                job'[w].saved = job[w].saved /\ job'[w].wrong = job[w].wrong
  BY DEF End, NoRequest, JobsTyped, JobFields, Alone

\* A step from one step of a claimed request to the next leaves its claim to it.
LEMMA OnwardKeeps ==
    ASSUME DInv, NEW w \in Workers, NEW step, NEW left, NEW saved, NEW wrong,
           Becomes(w, step, left, saved, wrong), UNCHANGED <<claim, slipped>>,
           job[w].step # "idle", job[w].step # "delete", step # "idle", step # "delete",
           FilesAt(step, left, wrong), SavedAt(step, saved, wrong)
    PROVE  JobsTyped' /\ ClaimHeld' /\ JobsRight'
  <1>1. /\ job'[w].step = step /\ job'[w].kind = job[w].kind /\ job'[w].lapsed = job[w].lapsed
        /\ job'[w].files = left /\ job'[w].saved = saved /\ job'[w].wrong = wrong
        /\ \A v \in Workers \ {w} : job'[v] = job[v]
        /\ JobsTyped'
    BY DEF Becomes, Alone
  <1>2. ClaimHeld'
    BY <1>1 DEF DInv, ClaimHeld
  <1>3. JobsRight'
    BY <1>1 DEF DInv, JobsRight
  <1> QED  BY <1>1, <1>2, <1>3

\* A step that writes no record does not change what streams may be told.
LEMMA QuietKeeps ==
    ASSUME DInv, NEW w \in Workers, Alone(w), UNCHANGED <<progress, stream>>,
           Runs(job'[w].step) => Runs(job[w].step),
           (\E s \in Streams : stream[s].watches = w) =>
              /\ job[w].saved => job'[w].saved
              /\ ~Runs(job[w].step) =>
                    job'[w].saved = job[w].saved /\ job'[w].wrong = job[w].wrong
    PROVE  RecordOfRunning' /\ FollowedRight'
  <1>1. \A v \in Workers \ {w} : job'[v] = job[v]
    BY DEF Alone
  <1>2. RecordOfRunning'
    BY <1>1 DEF DInv, RecordOfRunning
  <1>3. FollowedRight'
    BY <1>1 DEF DInv, FollowedRight, EndTruly
  <1> QED  BY <1>2, <1>3

\* A conversion that writes the record is the one that streams follow.
LEMMA PersistKeeps ==
    ASSUME DInv, NEW w \in Workers, Alone(w), NEW status, Persist(w, status),
           UNCHANGED stream, Runs(job[w].step), status # "none",
           job'[w].saved = job[w].saved, job'[w].wrong = job[w].wrong,
           Runs(job'[w].step) => status # "complete" /\ status # "error",
           EndTruly(status, job'[w])
    PROVE  RecordOfRunning' /\ FollowedRight'
  <1>1. /\ \A v \in Workers \ {w} : job'[v] = job[v]
        /\ progress'.by = w /\ progress'.status = status
    BY DEF Alone, Persist
  <1>2. RecordOfRunning'
    BY <1>1 DEF RecordOfRunning
  <1>3. FollowedRight'
    <2> SUFFICES ASSUME NEW s \in Streams, stream[s].watches # NoWorker
                 PROVE  /\ stream[s].watches = w
                        /\ \A v \in Workers : Runs(job'[v].step) => v = w
                        /\ EndTruly(stream[s].told, job'[w])
                        /\ stream[s].told # "not_found"
      BY <1>1 DEF FollowedRight
    <2>1. /\ stream[s].watches = w
          /\ \A v \in Workers : Runs(job[v].step) => v = w
          /\ EndTruly(stream[s].told, job[w])
          /\ stream[s].told # "not_found"
      BY DEF DInv, FollowedRight
    <2>2. EndTruly(stream[s].told, job'[w])
      BY <2>1 DEF EndTruly
    <2> QED  BY <1>1, <2>1, <2>2
  <1> QED  BY <1>2, <1>3

\* Streams that follow nothing are told nothing that could be wrong.
LEMMA DisturbedStreams ==
    ASSUME DownloadTyped, NEW S, stream' = Disturbed(S)
    PROVE  /\ DOMAIN stream' = Streams
           /\ \A s \in Streams : DOMAIN stream'[s] = StreamFields
           /\ \A s \in Streams \cap S : stream'[s].watches = NoWorker
           /\ \A s \in Streams \ S : stream'[s] = stream[s]
  BY DEF DownloadTyped, Disturbed, StreamFields


\* The steps of a request between its claim and the end of it.
LEMMA QuietStep ==
    ASSUME DInv, NEW w \in Workers,
           \/ StartFails(w) \/ Convert(w) \/ DownloadFails(w) \/ Place(w) \/ SaveTrack(w)
           \/ SaveFails(w) \/ FinishFails(w) \/ ReportFails(w) \/ CleanUp(w)
    PROVE  DInv'
  <1>0. /\ JobsTyped /\ UNCHANGED <<progress, stream, claim, slipped>>
        /\ FilesAt(job[w].step, job[w].files, job[w].wrong)
        /\ SavedAt(job[w].step, job[w].saved, job[w].wrong)
    BY DEF DInv, DownloadTyped, JobsRight, StartFails, Convert, DownloadFails, Place, SaveTrack,
           SaveFails, FinishFails, ReportFails, CleanUp
  <1> SUFFICES \E step, left, saved, wrong :
                  /\ Becomes(w, step, left, saved, wrong)
                  /\ job[w].step # "idle" /\ job[w].step # "delete"
                  /\ step # "idle" /\ step # "delete"
                  /\ FilesAt(step, left, wrong) /\ SavedAt(step, saved, wrong)
                  /\ Runs(step) => Runs(job[w].step)
                  /\ job[w].saved => saved
                  /\ Runs(job[w].step) \/ (saved = job[w].saved /\ wrong = job[w].wrong)
    <2>1. PICK step, left, saved, wrong :
              /\ Becomes(w, step, left, saved, wrong)
              /\ job[w].step # "idle" /\ job[w].step # "delete"
              /\ step # "idle" /\ step # "delete"
              /\ FilesAt(step, left, wrong) /\ SavedAt(step, saved, wrong)
              /\ Runs(step) => Runs(job[w].step)
              /\ job[w].saved => saved
              /\ Runs(job[w].step) \/ (saved = job[w].saved /\ wrong = job[w].wrong)
      OBVIOUS
    <2>2. JobsTyped' /\ ClaimHeld' /\ JobsRight'
      BY <1>0, <2>1, OnwardKeeps
    <2>3. RecordOfRunning' /\ FollowedRight'
      BY <1>0, <2>1, QuietKeeps DEF Becomes
    <2> QED  BY <1>0, <2>2, <2>3 DEF DInv, DownloadTyped
  <1>1. CASE StartFails(w)
    <2>1. /\ job[w].step = "begin"
          /\ Becomes(w, "release", job[w].files, job[w].saved, job[w].wrong)
      BY <1>0, <1>1, JobSteps DEF StartFails, At
    <2>2. FilesAt("release", job[w].files, job[w].wrong) /\ SavedAt("release", job[w].saved, job[w].wrong)
      BY <1>0, <2>1 DEF FilesAt, SavedAt
    <2> QED  BY <2>1, <2>2, RunsAt
  <1>2. CASE Convert(w)
    <2>1. /\ job[w].step = "convert"
          /\ Becomes(w, "place", Intermediate, job[w].saved, job[w].wrong)
      BY <1>0, <1>2, JobSteps DEF Convert, At, Intermediate
    <2>2. FilesAt("place", Intermediate, job[w].wrong) /\ SavedAt("place", job[w].saved, job[w].wrong)
      BY <1>0, <2>1 DEF FilesAt, SavedAt
    <2> QED  BY <2>1, <2>2, RunsAt
  <1>3. CASE DownloadFails(w)
    <2>1. /\ job[w].step = "fetch" \/ job[w].step = "convert"
          /\ Becomes(w, "report", job[w].files, job[w].saved, "download")
      BY <1>0, <1>3, JobSteps DEF DownloadFails, At
    <2>2. FilesAt("report", job[w].files, "download") /\ SavedAt("report", job[w].saved, "download")
      BY <1>0, <2>1 DEF FilesAt, SavedAt
    <2> QED  BY <2>1, <2>2, RunsAt
  <1>4. CASE Place(w)
    <2>1. /\ job[w].step = "place"
          /\ Becomes(w, "save", Output, job[w].saved, job[w].wrong)
      BY <1>0, <1>4, JobSteps DEF Place, At, Output
    <2>2. FilesAt("save", Output, job[w].wrong) /\ SavedAt("save", job[w].saved, job[w].wrong)
      BY <1>0, <2>1 DEF FilesAt, SavedAt
    <2> QED  BY <2>1, <2>2, RunsAt
  <1>5. CASE SaveTrack(w)
    <2>1. /\ job[w].step = "save"
          /\ Becomes(w, "finish", {}, TRUE, job[w].wrong)
      BY <1>0, <1>5, JobSteps DEF SaveTrack, At
    <2>2. FilesAt("finish", {}, job[w].wrong) /\ SavedAt("finish", TRUE, job[w].wrong)
      BY <1>0, <2>1 DEF FilesAt, SavedAt
    <2> QED  BY <2>1, <2>2, RunsAt
  <1>6. CASE SaveFails(w)
    <2>1. /\ job[w].step = "place" \/ job[w].step = "save"
          /\ Becomes(w, "report", job[w].files, job[w].saved, job[w].wrong)
      BY <1>0, <1>6, JobSteps DEF SaveFails, At
    <2>2. FilesAt("report", job[w].files, job[w].wrong) /\ SavedAt("report", job[w].saved, job[w].wrong)
      BY <1>0, <2>1 DEF FilesAt, SavedAt
    <2> QED  BY <2>1, <2>2, RunsAt
  <1>7. CASE FinishFails(w)
    <2>1. /\ job[w].step = "finish"
          /\ Becomes(w, "report", job[w].files, job[w].saved, "finish")
      BY <1>0, <1>7, JobSteps DEF FinishFails, At
    <2>2. FilesAt("report", job[w].files, "finish") /\ SavedAt("report", job[w].saved, "finish")
      BY <1>0, <2>1 DEF FilesAt, SavedAt
    <2> QED  BY <2>1, <2>2, RunsAt
  <1>8. CASE ReportFails(w)
    <2>1. /\ job[w].step = "report"
          /\ Becomes(w, "release", job[w].files, job[w].saved, "redis")
      BY <1>0, <1>8, JobSteps DEF ReportFails, At
    <2>2. FilesAt("release", job[w].files, "redis") /\ SavedAt("release", job[w].saved, "redis")
      BY <1>0, <2>1 DEF FilesAt, SavedAt
    <2> QED  BY <2>1, <2>2, RunsAt
  <1>9. CASE CleanUp(w)
    <2>1. /\ job[w].step = "clean up"
          /\ Becomes(w, "release", (job[w].files \ {"converted", "output"}), job[w].saved, job[w].wrong)
      BY <1>0, <1>9, JobSteps DEF CleanUp, At
    <2>2. FilesAt("release", (job[w].files \ {"converted", "output"}), job[w].wrong) /\ SavedAt("release", job[w].saved, job[w].wrong)
      BY <1>0, <2>1 DEF FilesAt, SavedAt, Part, Intermediate, Output
    <2> QED  BY <2>1, <2>2, RunsAt
  <1> QED  BY <1>1, <1>2, <1>3, <1>4, <1>5, <1>6, <1>7, <1>8, <1>9

\* The steps that write the record while the conversion runs, and at its end.
LEMMA PersistStep ==
    ASSUME DInv, NEW w \in Workers,
           Hook(w) \/ HookFinished(w) \/ Finish(w) \/ Report(w)
    PROVE  DInv'
  <1>0. /\ JobsTyped /\ UNCHANGED <<stream, claim, slipped>>
        /\ FilesAt(job[w].step, job[w].files, job[w].wrong)
        /\ SavedAt(job[w].step, job[w].saved, job[w].wrong)
    BY DEF DInv, DownloadTyped, JobsRight, Hook, HookFinished, Finish, Report
  <1> SUFFICES \E step, left, status :
                  /\ Becomes(w, step, left, job[w].saved, job[w].wrong)
                  /\ Persist(w, status)
                  /\ Runs(job[w].step)
                  /\ step # "idle" /\ step # "delete"
                  /\ FilesAt(step, left, job[w].wrong)
                  /\ SavedAt(step, job[w].saved, job[w].wrong)
                  /\ status # "none"
                  /\ Runs(step) => status # "complete" /\ status # "error"
                  /\ status = "complete" => job[w].saved
                  /\ status = "error" => ~job[w].saved \/ job[w].wrong = "finish"
    <2>1. PICK step, left, status :
              /\ Becomes(w, step, left, job[w].saved, job[w].wrong)
              /\ Persist(w, status)
              /\ Runs(job[w].step)
              /\ step # "idle" /\ step # "delete"
              /\ FilesAt(step, left, job[w].wrong)
              /\ SavedAt(step, job[w].saved, job[w].wrong)
              /\ status # "none"
              /\ Runs(step) => status # "complete" /\ status # "error"
              /\ status = "complete" => job[w].saved
              /\ status = "error" => ~job[w].saved \/ job[w].wrong = "finish"
      OBVIOUS
    <2>2. JobsTyped' /\ ClaimHeld' /\ JobsRight'
      BY <1>0, <2>1, OnwardKeeps, RunsAt
    <2>3. /\ Alone(w) /\ job'[w].step = step
          /\ job'[w].saved = job[w].saved /\ job'[w].wrong = job[w].wrong
      BY <2>1 DEF Becomes
    <2>4. EndTruly(status, job'[w])
      BY <2>1, <2>3 DEF EndTruly
    <2>5. RecordOfRunning' /\ FollowedRight'
      BY <1>0, <2>1, <2>3, <2>4, PersistKeeps
    <2> QED  BY <1>0, <2>2, <2>5 DEF DInv, DownloadTyped
  <1>1. CASE Hook(w)
    <2>1. /\ job[w].step = "fetch" /\ Persist(w, "downloading")
          /\ Becomes(w, "fetch", Part, job[w].saved, job[w].wrong)
      BY <1>0, <1>1, JobSteps DEF Hook, At, Part
    <2>2. /\ FilesAt("fetch", Part, job[w].wrong)
          /\ SavedAt("fetch", job[w].saved, job[w].wrong)
          /\ "downloading" = "complete" => job[w].saved
          /\ "downloading" = "error" => ~job[w].saved \/ job[w].wrong = "finish"
      BY <1>0, <1>1, <2>1 DEF FilesAt, SavedAt, Part, Hook
    <2> QED  BY <2>1, <2>2, RunsAt
  <1>2. CASE HookFinished(w)
    <2>1. /\ job[w].step = "fetch" /\ Persist(w, "processing")
          /\ Becomes(w, "convert", job[w].files, job[w].saved, job[w].wrong)
      BY <1>0, <1>2, JobSteps DEF HookFinished, At, Part
    <2>2. /\ FilesAt("convert", job[w].files, job[w].wrong)
          /\ SavedAt("convert", job[w].saved, job[w].wrong)
          /\ "processing" = "complete" => job[w].saved
          /\ "processing" = "error" => ~job[w].saved \/ job[w].wrong = "finish"
      BY <1>0, <1>2, <2>1 DEF FilesAt, SavedAt, Part, HookFinished
    <2> QED  BY <2>1, <2>2, RunsAt
  <1>3. CASE Finish(w)
    <2>1. /\ job[w].step = "finish" /\ Persist(w, "complete")
          /\ Becomes(w, "release", job[w].files, job[w].saved, job[w].wrong)
      BY <1>0, <1>3, JobSteps DEF Finish, At
    <2>2. /\ FilesAt("release", job[w].files, job[w].wrong)
          /\ SavedAt("release", job[w].saved, job[w].wrong)
          /\ "complete" = "complete" => job[w].saved
          /\ "complete" = "error" => ~job[w].saved \/ job[w].wrong = "finish"
      BY <1>0, <1>3, <2>1 DEF FilesAt, SavedAt, Finish
    <2> QED  BY <2>1, <2>2, RunsAt
  <1>4. CASE Report(w)
    <2>1. /\ job[w].step = "report" /\ Persist(w, "error")
          /\ Becomes(w, "clean up", job[w].files, job[w].saved, job[w].wrong)
      BY <1>0, <1>4, JobSteps DEF Report, At
    <2>2. /\ FilesAt("clean up", job[w].files, job[w].wrong)
          /\ SavedAt("clean up", job[w].saved, job[w].wrong)
          /\ "error" = "complete" => job[w].saved
          /\ "error" = "error" => ~job[w].saved \/ job[w].wrong = "finish"
      BY <1>0, <1>4, <2>1 DEF FilesAt, SavedAt, Report
    <2> QED  BY <2>1, <2>2, RunsAt
  <1> QED  BY <1>1, <1>2, <1>3, <1>4

\* A request ends, and its claim is nobody's or that of another.
LEMMA EndKeeps ==
    ASSUME DInv, NEW w \in Workers, End(w), UNCHANGED <<progress, stream>>, claim' # w,
           slipped => slipped',
           \A v \in Workers : claim' = v => claim = v,
           \A v \in Workers \ {w} : claim = v => claim' = v \/ slipped'
    PROVE  DInv'
  <1>1. /\ JobsTyped' /\ \A v \in Workers \ {w} : job'[v] = job[v]
        /\ Alone(w)
        /\ job'[w].step = "idle" /\ job'[w].kind = "none" /\ job'[w].files = {}
        /\ (\E s \in Streams : stream[s].watches = w) =>
              job'[w].saved = job[w].saved /\ job'[w].wrong = job[w].wrong
    BY JobEnds DEF DInv, DownloadTyped, Alone
  <1>2. ClaimHeld'
    BY <1>1 DEF DInv, ClaimHeld
  <1>3. FilesAt("idle", {}, job'[w].wrong) /\ SavedAt("idle", job'[w].saved, job'[w].wrong)
    BY DEF FilesAt, SavedAt
  <1>4. JobsRight'
    BY ZenonT(40), <1>1, <1>3 DEF DInv, JobsRight
  <1>5. RecordOfRunning' /\ FollowedRight'
    BY <1>1, QuietKeeps, RunsAt
  <1> QED  BY <1>1, <1>2, <1>4, <1>5 DEF DInv, DownloadTyped

\* The steps with which a request ends.
LEMMA EndStep ==
    ASSUME DInv, NEW w \in Workers,
           Release(w) \/ Delete(w) \/ ReleaseFails(w) \/ WorkerDies(w)
    PROVE  DInv'
  <1>0. /\ JobsTyped /\ NoWorker # w /\ Orphan # w
        /\ \A v \in Workers : NoWorker # v /\ Orphan # v
        /\ UNCHANGED <<progress, stream>>
    BY DownloadAssumption
       DEF DInv, DownloadTyped, Release, Delete, ReleaseFails, WorkerDies
  <1>1. CASE Release(w) /\ job[w].kind = "cache" /\ claim = w
    <2>1. /\ job[w].step = "release" /\ UNCHANGED <<claim, slipped>>
          /\ Becomes(w, "delete", job[w].files, job[w].saved, job[w].wrong)
      BY <1>0, <1>1, JobSteps DEF Release, At
    <2>2. /\ Alone(w) /\ job'[w].step = "delete" /\ job'[w].kind = job[w].kind
          /\ job'[w].lapsed = job[w].lapsed
          /\ job'[w].saved = job[w].saved /\ job'[w].wrong = job[w].wrong
          /\ job'[w].files = job[w].files
          /\ JobsTyped' /\ \A v \in Workers \ {w} : job'[v] = job[v]
      BY <2>1 DEF Becomes, Alone
    <2>3. ClaimHeld'
      BY <1>1, <2>1, <2>2 DEF DInv, ClaimHeld
    <2>4. JobsRight'
      <3>1. /\ FilesAt("delete", job[w].files, job[w].wrong)
            /\ SavedAt("delete", job[w].saved, job[w].wrong)
        BY DEF FilesAt, SavedAt
      <3> QED  BY <2>2, <3>1 DEF DInv, JobsRight
    <2>5. RecordOfRunning' /\ FollowedRight'
      BY <1>0, <2>2, QuietKeeps, RunsAt
    <2> QED  BY <1>0, <2>2, <2>3, <2>4, <2>5 DEF DInv, DownloadTyped
  <1>2. CASE Release(w) /\ ~(job[w].kind = "cache" /\ claim = w)
    <2>1. End(w) /\ UNCHANGED <<claim, slipped>>
      BY <1>2 DEF Release
    <2>2. claim # w
      BY <1>2 DEF DInv, ClaimHeld
    <2> QED  BY <1>0, <2>1, <2>2, EndKeeps
  <1>3. CASE Delete(w)
    <2>1. /\ End(w) /\ claim' = NoWorker /\ job[w].step = "delete"
          /\ slipped' = (slipped \/ (claim # w /\ ~job[w].lapsed))
      BY <1>3 DEF Delete, At
    <2>2. ~job[w].lapsed
      BY <2>1 DEF DInv, ClaimHeld
    <2>3. slipped' \/ claim = w
      BY <2>1, <2>2
    <2>4. CASE claim = w
      BY <1>0, <2>1, <2>4, EndKeeps
    <2>5. CASE slipped'
      BY <1>0, <2>1, <2>5, EndKeeps
    <2> QED  BY <2>3, <2>4, <2>5
  <1>4. CASE ReleaseFails(w) \/ WorkerDies(w)
    <2>1. End(w) /\ claim' = (IF claim = w THEN Orphan ELSE claim) /\ UNCHANGED slipped
      BY <1>4 DEF ReleaseFails, WorkerDies
    <2> QED  BY <1>0, <2>1, EndKeeps
  <1> QED  BY <1>1, <1>2, <1>3, <1>4

\* A request begins, with the claim if it asks for one.
LEMMA RequestStep ==
    ASSUME DInv, NEW w \in Workers, NEW kind, Request(w, kind)
    PROVE  DInv'
  <1>1. /\ job[w].step = "idle"
        /\ kind = "cache" => claim = NoWorker
        /\ claim' = IF kind = "cache" THEN w ELSE claim
        /\ stream' = Disturbed({s \in Streams : stream[s].watches = w})
        /\ UNCHANGED <<progress, slipped>>
    BY DEF Request, At
  <1>2. /\ JobsTyped' /\ \A v \in Workers \ {w} : job'[v] = job[v]
        /\ job'[w].step = "begin" /\ job'[w].kind = kind /\ job'[w].files = {}
        /\ ~job'[w].saved /\ ~job'[w].lapsed
    BY DEF Request, DInv, DownloadTyped, JobsTyped, JobFields, NoRequest
  <1>3. DownloadTyped'
    BY <1>1, <1>2, DisturbedStreams DEF DInv, DownloadTyped
  <1>4. ClaimHeld'
    <2>1. claim # w /\ NoWorker \notin Workers
      BY <1>1, DownloadAssumption DEF DInv, ClaimHeld
    <2> QED  BY <1>1, <1>2, <2>1 DEF DInv, ClaimHeld
  <1>5. JobsRight'
    <2>1. FilesAt("begin", {}, job'[w].wrong) /\ SavedAt("begin", job'[w].saved, job'[w].wrong)
      BY <1>2 DEF FilesAt, SavedAt
    <2> QED  BY <1>2, <2>1 DEF DInv, JobsRight
  <1>6. RecordOfRunning'
    BY <1>1, <1>2, RunsAt DEF DInv, RecordOfRunning
  <1>7. FollowedRight'
    <2> SUFFICES ASSUME NEW s \in Streams, stream'[s].watches # NoWorker
                 PROVE  \E v \in Workers :
                          /\ stream'[s].watches = v /\ progress'.by = v
                          /\ progress'.status # "none"
                          /\ \A u \in Workers : Runs(job'[u].step) => u = v
                          /\ EndTruly(progress'.status, job'[v])
                          /\ EndTruly(stream'[s].told, job'[v])
                          /\ stream'[s].told # "not_found"
      BY DEF FollowedRight
    <2>1. stream'[s] = stream[s] /\ stream[s].watches # w
      BY <1>1, DisturbedStreams DEF DInv
    <2> QED  BY ZenonT(40), <1>1, <1>2, <2>1, RunsAt DEF DInv, FollowedRight
  <1> QED  BY <1>3, <1>4, <1>5, <1>6, <1>7 DEF DInv

\* The first record of a conversion, which disturbs every stream.
LEMMA StartStep ==
    ASSUME DInv, NEW w \in Workers, Start(w)
    PROVE  DInv'
  <1>1. /\ job[w].step = "begin" /\ Persist(w, "starting")
        /\ Becomes(w, "fetch", job[w].files, job[w].saved, job[w].wrong)
        /\ stream' = Disturbed(Streams) /\ UNCHANGED <<claim, slipped>>
    BY JobSteps DEF Start, At, DInv, DownloadTyped
  <1>2. /\ FilesAt("fetch", job[w].files, job[w].wrong)
        /\ SavedAt("fetch", job[w].saved, job[w].wrong)
    <2>1. /\ FilesAt("begin", job[w].files, job[w].wrong)
          /\ SavedAt("begin", job[w].saved, job[w].wrong)
      BY <1>1 DEF DInv, JobsRight
    <2> QED  BY <2>1 DEF FilesAt, SavedAt
  <1>3. JobsTyped' /\ ClaimHeld' /\ JobsRight'
    BY <1>1, <1>2, OnwardKeeps
  <1>4. DownloadTyped' /\ \A s \in Streams : stream'[s].watches = NoWorker
    BY <1>1, <1>3, DisturbedStreams DEF DInv, DownloadTyped
  <1>5. RecordOfRunning'
    BY <1>1 DEF RecordOfRunning, Persist
  <1>6. FollowedRight'
    BY <1>4 DEF FollowedRight
  <1> QED  BY <1>3, <1>4, <1>5, <1>6 DEF DInv

\* The claim runs out, and whoever held it has outlived it.
LEMMA ExpireClaimStep ==
    ASSUME DInv, ExpireClaim
    PROVE  DInv'
  <1>1. /\ claim' = NoWorker /\ UNCHANGED <<progress, stream, slipped>>
        /\ NoWorker \notin Workers
    BY DownloadAssumption DEF ExpireClaim
  <1>2. /\ JobsTyped'
        /\ \A w \in Workers :
              /\ job'[w].step = job[w].step /\ job'[w].kind = job[w].kind
              /\ job'[w].files = job[w].files /\ job'[w].saved = job[w].saved
              /\ job'[w].wrong = job[w].wrong
              /\ job'[w].lapsed = (job[w].lapsed \/ (claim = w /\ job[w].step # "delete"))
    BY DEF ExpireClaim, At, DInv, DownloadTyped, JobsTyped, JobFields
  <1>3. ClaimHeld'
    BY ZenonT(40), <1>1, <1>2 DEF DInv, ClaimHeld
  <1>4. JobsRight'
    BY <1>2 DEF DInv, JobsRight
  <1>5. RecordOfRunning'
    BY <1>1, <1>2 DEF DInv, RecordOfRunning
  <1>6. FollowedRight'
    <2>1. \A w \in Workers : \A said : EndTruly(said, job[w]) => EndTruly(said, job'[w])
      BY <1>2 DEF EndTruly
    <2> QED  BY <1>1, <1>2, <2>1 DEF DInv, FollowedRight
  <1> QED  BY <1>1, <1>2, <1>3, <1>4, <1>5, <1>6 DEF DInv, DownloadTyped

\* What a stream does, and the end of the record's lifetime.
LEMMA StreamStep ==
    ASSUME DInv,
           ExpireProgress \/ \E s \in Streams : Open(s) \/ Poll(s) \/ Clear(s) \/ Leave(s)
    PROVE  DInv'
  <1>0. UNCHANGED conversion
    BY DEF ExpireProgress, Open, Poll, Clear, Leave
  <1>1. JobsTyped' /\ ClaimHeld' /\ JobsRight'
    BY <1>0 DEF conversion, DInv, DownloadTyped, JobsTyped, ClaimHeld, JobsRight
  <1> SUFFICES /\ DOMAIN stream' = Streams
               /\ \A s \in Streams : DOMAIN stream'[s] = StreamFields
               /\ RecordOfRunning' /\ FollowedRight'
    BY <1>1 DEF DInv, DownloadTyped
  <1>2. NoWorker \notin Workers /\ job' = job
    BY <1>0, DownloadAssumption DEF conversion
  <1>3. CASE ExpireProgress
    <2>1. stream' = Disturbed(Streams) /\ progress'.by = NoWorker
      BY <1>3 DEF ExpireProgress, NoProgress
    <2> QED  BY <1>2, <2>1, DisturbedStreams DEF DInv, RecordOfRunning, FollowedRight
  <1>4. ASSUME NEW s \in Streams, Clear(s)
        PROVE  /\ DOMAIN stream' = Streams
               /\ \A t \in Streams : DOMAIN stream'[t] = StreamFields
               /\ RecordOfRunning' /\ FollowedRight'
    <2>1. /\ progress' = NoProgress /\ progress'.by = NoWorker
          /\ NoProgress.by = NoWorker
      BY <1>4 DEF Clear, NoProgress
    <2>2. RecordOfRunning'
      BY <1>2, <2>1 DEF RecordOfRunning
    <2> DEFINE others == IF progress = NoProgress THEN stream ELSE Disturbed(Streams \ {s})
    <2>3. stream' = [others EXCEPT ![s] = Closed]
      BY <1>4 DEF Clear
    <2>4. DOMAIN others = Streams /\ \A t \in Streams : DOMAIN others[t] = StreamFields
      BY DEF DInv, DownloadTyped, Disturbed, StreamFields
    <2>5. \A t \in Streams \ {s} : others[t].watches = NoWorker
      BY <1>2, <2>1 DEF DInv, DownloadTyped, Disturbed, FollowedRight, StreamFields
    <2>6. /\ DOMAIN stream' = Streams
          /\ \A t \in Streams : DOMAIN stream'[t] = StreamFields
          /\ \A t \in Streams : stream'[t].watches = NoWorker
      <3> HIDE DEF others
      <3> QED  BY <2>3, <2>4, <2>5 DEF Closed, StreamFields
    <2>7. FollowedRight'
      BY <2>6 DEF FollowedRight
    <2> QED  BY <2>2, <2>6, <2>7
  <1>5. ASSUME NEW s \in Streams, Open(s) \/ Poll(s) \/ Leave(s)
        PROVE  /\ DOMAIN stream' = Streams
               /\ \A t \in Streams : DOMAIN stream'[t] = StreamFields
               /\ RecordOfRunning' /\ FollowedRight'
    <2>1. /\ DOMAIN stream' = Streams
          /\ \A t \in Streams : DOMAIN stream'[t] = StreamFields
          /\ \A t \in Streams \ {s} : stream'[t] = stream[t]
          /\ UNCHANGED progress
      BY <1>5 DEF Open, Poll, Leave, Closed, DInv, DownloadTyped, StreamFields
    <2>2. RecordOfRunning'
      BY <1>2, <2>1 DEF DInv, RecordOfRunning
    <2>3. stream'[s].watches # NoWorker =>
            \E w \in Workers :
              /\ stream'[s].watches = w /\ progress.by = w /\ progress.status # "none"
              /\ \A v \in Workers : Runs(job[v].step) => v = w
              /\ EndTruly(progress.status, job[w])
              /\ EndTruly(stream'[s].told, job[w])
              /\ stream'[s].told # "not_found"
      <3>1. CASE Open(s)
        <4>1. /\ stream'[s].told = "nothing"
              /\ stream'[s].watches # NoWorker =>
                    stream'[s].watches = progress.by /\ Running = {progress.by}
          BY <3>1 DEF Open, DInv, DownloadTyped
        <4>2. \A w \in Workers : w \in Running <=> Runs(job[w].step)
          BY DEF Running, Runs
        <4>3. Running \subseteq Workers
          BY DEF Running
        <4> SUFFICES ASSUME Running = {progress.by}
                     PROVE  /\ progress.by \in Workers /\ progress.status # "none"
                            /\ \A v \in Workers : Runs(job[v].step) => v = progress.by
                            /\ EndTruly(progress.status, job[progress.by])
                            /\ EndTruly("nothing", job[progress.by])
          BY <4>1
        <4>4. progress.by \in Workers /\ Runs(job[progress.by].step)
          BY <4>2, <4>3
        <4>5. /\ progress.status # "none" /\ progress.status # "complete"
              /\ progress.status # "error"
          BY <4>4 DEF DInv, RecordOfRunning
        <4> QED  BY <4>2, <4>4, <4>5 DEF EndTruly
      <3>2. CASE Poll(s)
        <4>1. /\ stream'[s].watches = stream[s].watches
              /\ \/ progress.status = "none" /\ stream'[s].told = "not_found"
                 \/ stream'[s].told = progress.status
          BY <3>2 DEF Poll, DInv, DownloadTyped, StreamFields
        <4>2. progress.status # "not_found" \/ progress.status = "none"
          BY <3>2 DEF Poll
        <4> QED  BY <4>1, <4>2 DEF DInv, FollowedRight
      <3>3. CASE Leave(s)
        BY <3>3 DEF Leave, Closed, DInv, DownloadTyped
      <3> QED  BY <1>5, <3>1, <3>2, <3>3
    <2>4. FollowedRight'
      BY <1>2, <2>1, <2>3 DEF DInv, FollowedRight
    <2> QED  BY <2>1, <2>2, <2>4
  <1> QED  BY <1>3, <1>4, <1>5

\* Every state keeps the invariant.
LEMMA DownloadInvariant == DownloadSpec => []DInv
  <1>1. DownloadInit => DInv
    <2> SUFFICES ASSUME DownloadInit PROVE DInv
      OBVIOUS
    <2>1. /\ DOMAIN job = Workers /\ DOMAIN stream = Streams
          /\ \A w \in Workers : job[w] = NoRequest
          /\ \A s \in Streams : stream[s] = Closed
          /\ claim = NoWorker /\ progress = NoProgress
      BY DEF DownloadInit
    <2>2. DOMAIN NoRequest = JobFields /\ DOMAIN Closed = StreamFields
      BY DEF NoRequest, JobFields, Closed, StreamFields
    <2>3. /\ NoRequest.step = "idle" /\ NoRequest.kind = "none"
          /\ Closed.watches = NoWorker /\ NoProgress.by = NoWorker
      BY DEF NoRequest, Closed, NoProgress
    <2>4. DownloadTyped
      BY <2>1, <2>2 DEF DownloadTyped, JobsTyped
    <2>5. ClaimHeld /\ RecordOfRunning /\ FollowedRight
      BY <2>1, <2>3, DownloadAssumption DEF ClaimHeld, RecordOfRunning, FollowedRight
    <2>6. JobsRight
      BY <2>1, <2>3 DEF JobsRight, FilesAt, SavedAt
    <2> QED  BY <2>4, <2>5, <2>6 DEF DInv
  <1>2. DInv /\ [DownloadNext]_downloadVars => DInv'
    <2> SUFFICES ASSUME DInv, [DownloadNext]_downloadVars PROVE DInv'
      OBVIOUS
    <2>1. CASE UNCHANGED downloadVars
      BY <2>1 DEF downloadVars, conversion, DInv, DownloadTyped, JobsTyped, ClaimHeld,
                  JobsRight, RecordOfRunning, FollowedRight
    <2>2. ASSUME NEW w \in Workers,
                 \/ Request(w, "cache") \/ Request(w, "download") \/ Hook(w) \/ Work(w)
                 \/ StartFails(w) \/ DownloadFails(w) \/ SaveFails(w) \/ FinishFails(w)
                 \/ ReportFails(w) \/ ReleaseFails(w) \/ WorkerDies(w)
          PROVE  DInv'
      BY <2>2, RequestStep, StartStep, QuietStep, PersistStep, EndStep DEF Work
    <2>3. CASE ExpireClaim
      BY <2>3, ExpireClaimStep
    <2>4. CASE ExpireProgress \/ \E s \in Streams : Open(s) \/ Poll(s) \/ Clear(s) \/ Leave(s)
      BY <2>4, StreamStep
    <2> QED  BY <2>1, <2>2, <2>3, <2>4 DEF DownloadNext
  <1> QED  BY <1>1, <1>2, PTL DEF DownloadSpec

\* Two claimed conversions run at once only when one has outlived its claim, or a
\* claim was deleted in place of the one before it (media.py:429 and :454).
THEOREM ClaimsAreExclusive == DownloadSpec => []ClaimsExclusive
  <1>1. DInv => ClaimsExclusive
    BY RunsAt DEF DInv, ClaimHeld, ClaimsExclusive, Running, Runs
  <1> QED  BY <1>1, DownloadInvariant, PTL

\* A stream that follows one conversion undisturbed is told how it went
\* (audio_downloader.py:638).
THEOREM StreamsAreToldTruly == DownloadSpec => []ToldTruly
  <1>1. DInv => ToldTruly
    BY DEF DInv, FollowedRight, EndTruly, ToldTruly
  <1> QED  BY <1>1, DownloadInvariant, PTL

\* A request that fails leaves no file behind, with the two exceptions that the
\* property names (audio_downloader.py:640 and :695).
THEOREM NoLitterIsLeft == DownloadSpec => []NoLitter
  <1>1. DInv => NoLitter
    BY DEF DInv, JobsRight, FilesAt, Part, NoLitter, At
  <1> QED  BY <1>1, DownloadInvariant, PTL

-----------------------------------------------------------------------------
(* Playlists: its invariant PInv.  A regular playlist lies anywhere, the     *)
(* surprise playlist only under its key, so that a deleted playlist finds a  *)
(* regular one to leave its tracks to; and every listed track has a record,  *)
(* so that it is shown.                                                      *)

PlaylistType == [tracks : [Songs -> 0..1], age : {"regular", "fresh", "stale"}]

\* Playlists of a user that name tracks with a record in rec, each once; a regular
\* one lies anywhere, another only under the key.
GoodFor(p, rec) ==
    \A n \in DOMAIN p :
        /\ p[n] \in PlaylistType
        /\ Listed(p[n]) \subseteq rec
        /\ n # SurpriseKey => Regular(p[n])

PInv ==
    /\ DOMAIN playlists = Owners
    /\ trims \in [Owners -> SUBSET Songs] /\ records \subseteq Songs
    /\ \A u \in Owners : GoodFor(playlists[u], records) /\ trims[u] \subseteq records

LEMMA ListOfGood ==
    ASSUME NEW tracks, NEW a \in {"regular", "fresh", "stale"}
    PROVE  /\ ListOf(tracks, a) \in PlaylistType
           /\ Listed(ListOf(tracks, a)) = tracks \cap Songs
           /\ ListOf(tracks, a).age = a
<1>1. ListOf(tracks, a).tracks = [t \in Songs |-> IF t \in tracks THEN 1 ELSE 0]
  BY DEF ListOf
<1>2. [t \in Songs |-> IF t \in tracks THEN 1 ELSE 0] \in [Songs -> 0..1]
  OBVIOUS
<1> QED
  BY <1>1, <1>2 DEF ListOf, PlaylistType, Listed

LEMMA WithGood ==
    ASSUME NEW p, NEW rec, GoodFor(p, rec), NEW n, NEW list \in PlaylistType,
           Listed(list) \subseteq rec, n # SurpriseKey => Regular(list)
    PROVE  GoodFor(With(p, n, list), rec)
BY DEF GoodFor, With

LEMMA WithoutGood ==
    ASSUME NEW p, NEW rec, GoodFor(p, rec), NEW n
    PROVE  GoodFor(Without(p, n), rec)
BY DEF GoodFor, Without

LEMMA GetGood ==
    ASSUME NEW p, NEW rec, GoodFor(p, rec), NEW n
    PROVE  /\ Get(p, n) \in PlaylistType
           /\ Listed(Get(p, n)) \subseteq rec
           /\ n # SurpriseKey => Regular(Get(p, n))
           /\ n \notin DOMAIN p => Regular(Get(p, n))
<1>1. CASE n \in DOMAIN p
  BY <1>1 DEF Get, GoodFor
<1>2. CASE n \notin DOMAIN p
  BY <1>2, ListOfGood DEF Get, NewPlaylist, Regular
<1> QED
  BY <1>1, <1>2

\* What add_to_playlist makes of the playlist.
LEMMA AddedList ==
    ASSUME NEW p, NEW rec, GoodFor(p, rec), NEW n, NEW tracks \in SUBSET Songs,
           tracks # {}
    PROVE  \E list \in PlaylistType :
              /\ Add(p, n, tracks) = With(p, n, list)
              /\ Listed(list) = Listed(Get(p, n)) \cup tracks
              /\ Regular(list) <=> Regular(Get(p, n))
<1> DEFINE old == Get(p, n)
           now == [t \in Songs |->
                     IF t \in tracks THEN IF old.tracks[t] = 0 THEN 1 ELSE old.tracks[t]
                     ELSE old.tracks[t]]
           list == [tracks |-> now, age |-> old.age]
<1>1. old \in PlaylistType
  BY GetGood
<1>2. Add(p, n, tracks) = With(p, n, list)
  BY DEF Add
<1>3. \A t \in Songs : old.tracks[t] \in 0..1
  BY <1>1 DEF PlaylistType
<1> HIDE DEF old
<1>4. now \in [Songs -> 0..1]
  BY <1>3
<1>5. list \in PlaylistType
  BY <1>1, <1>4 DEF PlaylistType
<1>6. \A t \in Songs : now[t] > 0 <=> old.tracks[t] > 0 \/ t \in tracks
  BY <1>3
<1>7. list.tracks = now /\ list.age = old.age
  OBVIOUS
<1> HIDE DEF now, list
<1>8. Listed(list) = Listed(old) \cup tracks
  BY <1>6, <1>7 DEF Listed
<1>9. Regular(list) <=> Regular(old)
  BY <1>7 DEF Regular
<1> QED
  BY <1>2, <1>5, <1>8, <1>9 DEF old

LEMMA AddGood ==
    ASSUME NEW p, NEW rec, GoodFor(p, rec), NEW n, NEW tracks \in SUBSET Songs,
           tracks \subseteq rec
    PROVE  GoodFor(Add(p, n, tracks), rec)
<1>1. CASE tracks = {}
  BY <1>1 DEF Add
<1>2. CASE tracks # {}
  <2>1. PICK list \in PlaylistType :
              /\ Add(p, n, tracks) = With(p, n, list)
              /\ Listed(list) = Listed(Get(p, n)) \cup tracks
              /\ Regular(list) <=> Regular(Get(p, n))
    BY <1>2, AddedList
  <2> QED
    BY <2>1, GetGood, WithGood
<1> QED
  BY <1>1, <1>2

\* What remove_from_regular_playlists makes of a playlist.
LEMMA DroppedList ==
    ASSUME NEW p, NEW rec, GoodFor(p, rec), NEW tracks, NEW n \in DOMAIN p
    PROVE  /\ DOMAIN Drop(p, tracks) = DOMAIN p
           /\ Drop(p, tracks)[n] \in PlaylistType
           /\ Regular(Drop(p, tracks)[n]) <=> Regular(p[n])
           /\ Listed(Drop(p, tracks)[n]) =
                IF Regular(p[n]) THEN Listed(p[n]) \ tracks ELSE Listed(p[n])
<1> DEFINE now == [t \in Songs |-> IF t \in tracks THEN 0 ELSE p[n].tracks[t]]
           list == [tracks |-> now, age |-> p[n].age]
<1>1. p[n] \in PlaylistType
  BY DEF GoodFor
<1>2. \A t \in Songs : p[n].tracks[t] \in 0..1
  BY <1>1 DEF PlaylistType
<1>3. DOMAIN Drop(p, tracks) = DOMAIN p
  BY DEF Drop
<1>4. CASE Regular(p[n])
  <2>1. Drop(p, tracks)[n] = list
    BY <1>4 DEF Drop
  <2>2. now \in [Songs -> 0..1] /\ \A t \in Songs : now[t] > 0 <=> p[n].tracks[t] > 0 /\ t \notin tracks
    BY <1>2
  <2>3. list \in PlaylistType
    BY <1>1, <2>2 DEF PlaylistType
  <2>4. list.tracks = now /\ list.age = p[n].age
    OBVIOUS
  <2> HIDE DEF now, list
  <2>5. Listed(list) = Listed(p[n]) \ tracks
    BY <2>2, <2>4 DEF Listed
  <2> QED
    BY <1>3, <1>4, <2>1, <2>3, <2>4, <2>5 DEF Regular
<1>5. CASE ~Regular(p[n])
  BY <1>1, <1>3, <1>5 DEF Drop
<1> QED
  BY <1>4, <1>5

LEMMA DropGood ==
    ASSUME NEW p, NEW rec, GoodFor(p, rec), NEW tracks
    PROVE  GoodFor(Drop(p, tracks), rec)
<1>1. DOMAIN Drop(p, tracks) = DOMAIN p
  BY DEF Drop
<1> SUFFICES ASSUME NEW n \in DOMAIN p
             PROVE  /\ Drop(p, tracks)[n] \in PlaylistType
                    /\ Listed(Drop(p, tracks)[n]) \subseteq rec
                    /\ n # SurpriseKey => Regular(Drop(p, tracks)[n])
  BY <1>1 DEF GoodFor
<1>2. Listed(p[n]) \subseteq rec /\ (n # SurpriseKey => Regular(p[n]))
  BY DEF GoodFor
<1>3. /\ Drop(p, tracks)[n] \in PlaylistType
      /\ Regular(Drop(p, tracks)[n]) <=> Regular(p[n])
      /\ Listed(Drop(p, tracks)[n]) =
           IF Regular(p[n]) THEN Listed(p[n]) \ tracks ELSE Listed(p[n])
  BY DroppedList
<1> QED
  BY <1>2, <1>3

\* The cleanup, of a library in which what is listed has a record.
LEMMA CleanedGood ==
    ASSUME NEW p, DOMAIN p = Owners, NEW tr \in [Owners -> SUBSET Songs],
           NEW rec \in SUBSET Songs,
           \A u \in Owners : GoodFor(p[u], rec) /\ tr[u] \subseteq rec,
           Cleaned(p, tr, rec)
    PROVE  /\ PInv'
           /\ \A u \in Owners, t \in rec :
                 InRegular(p[u], t) => t \in records' /\ InRegular(playlists'[u], t)
           /\ \A u \in Owners, t \in Songs :
                 InRegular(playlists'[u], t) => InRegular(p[u], t)
<1> DEFINE left == Unexpired(p)
           used == {t \in rec : \E u \in Owners : In(left[u], t)}
<1>1. /\ playlists' = left /\ records' = used
      /\ trims' = [u \in Owners |-> tr[u] \ (rec \ used)]
  BY DEF Cleaned
<1>2. DOMAIN left = Owners
  BY DEF Unexpired
<1>3. ASSUME NEW u \in Owners
      PROVE  /\ DOMAIN left[u] = {m \in DOMAIN p[u] : p[u][m].age # "stale"}
             /\ \A n \in DOMAIN left[u] : n \in DOMAIN p[u] /\ left[u][n] = p[u][n]
  BY DEF Unexpired
<1> HIDE DEF left
<1>4. ASSUME NEW u \in Owners
      PROVE  GoodFor(left[u], used)
  <2> SUFFICES ASSUME NEW n \in DOMAIN left[u]
               PROVE  /\ left[u][n] \in PlaylistType
                      /\ Listed(left[u][n]) \subseteq used
                      /\ n # SurpriseKey => Regular(left[u][n])
    BY DEF GoodFor
  <2>1. n \in DOMAIN p[u] /\ left[u][n] = p[u][n]
    BY <1>3
  <2>2. p[u][n] \in PlaylistType /\ Listed(p[u][n]) \subseteq rec
        /\ (n # SurpriseKey => Regular(p[u][n]))
    BY <2>1 DEF GoodFor
  <2>3. \A t \in Listed(left[u][n]) : In(left[u], t)
    BY DEF In
  <2> QED
    BY <2>1, <2>2, <2>3
<1>5. PInv'
  <2>1. trims' \in [Owners -> SUBSET Songs] /\ \A u \in Owners : trims'[u] \subseteq used
    BY <1>1
  <2> QED
    BY <1>1, <1>2, <1>4, <2>1 DEF PInv
<1>6. ASSUME NEW u \in Owners, NEW t \in rec, InRegular(p[u], t)
      PROVE  t \in records' /\ InRegular(playlists'[u], t)
  <2>1. PICK n \in DOMAIN p[u] : Regular(p[u][n]) /\ t \in Listed(p[u][n])
    BY <1>6 DEF InRegular, RegularNames
  <2>2. n \in DOMAIN left[u] /\ left[u][n] = p[u][n]
    BY <1>3, <2>1 DEF Regular
  <2> QED
    BY <1>1, <2>1, <2>2 DEF InRegular, RegularNames, In
<1>7. ASSUME NEW u \in Owners, NEW t \in Songs, InRegular(playlists'[u], t)
      PROVE  InRegular(p[u], t)
  BY <1>1, <1>3, <1>7 DEF InRegular, RegularNames
<1> QED
  BY <1>5, <1>6, <1>7

-----------------------------------------------------------------------------
(* What stays listed in a regular playlist.                                *)

LEMMA AddKeeps ==
    ASSUME NEW p, NEW rec, GoodFor(p, rec), NEW n, NEW tracks \in SUBSET Songs
    PROVE  /\ \A t : InRegular(p, t) => InRegular(Add(p, n, tracks), t)
           /\ Regular(Get(p, n)) =>
                \A t \in tracks : InRegular(Add(p, n, tracks), t)
           /\ \A t : InRegular(Add(p, n, tracks), t) => InRegular(p, t) \/ t \in tracks
<1>1. CASE tracks = {}
  BY <1>1 DEF Add
<1>2. CASE tracks # {}
  <2>1. PICK list \in PlaylistType :
              /\ Add(p, n, tracks) = With(p, n, list)
              /\ Listed(list) = Listed(Get(p, n)) \cup tracks
              /\ Regular(list) <=> Regular(Get(p, n))
    BY <1>2, AddedList
  <2> DEFINE q == Add(p, n, tracks)
  <2>2. DOMAIN q = DOMAIN p \cup {n} /\ \A m \in DOMAIN q : q[m] = IF m = n THEN list ELSE p[m]
    BY <2>1 DEF With
  <2> HIDE DEF q
  <2>3. ASSUME NEW t, InRegular(p, t) PROVE InRegular(q, t)
    <3>1. PICK m \in DOMAIN p : Regular(p[m]) /\ t \in Listed(p[m])
      BY <2>3 DEF InRegular, RegularNames
    <3>2. CASE m = n
      BY <2>1, <2>2, <3>1, <3>2 DEF InRegular, RegularNames, Get
    <3>3. CASE m # n
      BY <2>2, <3>1, <3>3 DEF InRegular, RegularNames
    <3> QED
      BY <3>2, <3>3
  <2>4. ASSUME Regular(Get(p, n)), NEW t \in tracks PROVE InRegular(q, t)
    BY <2>1, <2>2, <2>4 DEF InRegular, RegularNames
  <2>5. ASSUME NEW t, InRegular(q, t), t \notin tracks PROVE InRegular(p, t)
    <3>1. PICK m \in DOMAIN q : Regular(q[m]) /\ t \in Listed(q[m])
      BY <2>5 DEF InRegular, RegularNames
    <3>2. CASE m # n
      BY <2>2, <3>1, <3>2 DEF InRegular, RegularNames
    <3>3. CASE m = n
      <4>1. Regular(Get(p, n)) /\ t \in Listed(Get(p, n))
        BY <2>1, <2>2, <2>5, <3>1, <3>3
      <4>2. n \in DOMAIN p
        BY <4>1, ListOfGood DEF Get, NewPlaylist
      <4> QED
        BY <4>1, <4>2 DEF InRegular, RegularNames, Get
    <3> QED
      BY <3>2, <3>3
  <2> QED
    BY <2>3, <2>4, <2>5 DEF q
<1> QED
  BY <1>1, <1>2

LEMMA DropLeaves ==
    ASSUME NEW p, NEW rec, GoodFor(p, rec), NEW tracks
    PROVE  \A t : InRegular(Drop(p, tracks), t) <=> InRegular(p, t) /\ t \notin tracks
<1>1. DOMAIN Drop(p, tracks) = DOMAIN p
  BY DEF Drop
<1>2. \A n \in DOMAIN p :
         /\ Regular(Drop(p, tracks)[n]) <=> Regular(p[n])
         /\ Regular(p[n]) => Listed(Drop(p, tracks)[n]) = Listed(p[n]) \ tracks
  BY DroppedList
<1> QED
  BY <1>1, <1>2 DEF InRegular, RegularNames

LEMMA LibraryIs ==
    \A u : Library(u) = {t \in records : InRegular(playlists[u], t)}
BY DEF Library, Shown, InRegular

LEMMA LibraryIsNext ==
    \A u : Library(u)' = {t \in records' : InRegular(playlists'[u], t)}
BY DEF Library, Shown, InRegular

\* Everything a user sees stays in his library.
Keeps == \A u \in Owners : Library(u) \subseteq Library(u)'

\* An edit of one user's playlists that takes no record.
LEMMA SetGood ==
    ASSUME PInv, NEW u \in Owners, NEW p, Set(u, p), GoodFor(p, records'),
           records \subseteq records', records' \subseteq Songs,
           trims' \in [Owners -> SUBSET Songs], \A v \in Owners : trims'[v] \subseteq records'
    PROVE  PInv'
<1>1. DOMAIN playlists' = Owners /\ \A v \in Owners : playlists'[v] = IF v = u THEN p ELSE playlists[v]
  BY DEF PInv, Set
<1>2. ASSUME NEW v \in Owners PROVE GoodFor(playlists'[v], records')
  <2>1. CASE v = u
    BY <1>1, <2>1
  <2>2. CASE v # u
    <3>1. GoodFor(playlists[v], records')
      BY DEF PInv, GoodFor
    <3> QED
      BY <1>1, <2>2, <3>1
  <2> QED
    BY <2>1, <2>2
<1> QED
  BY <1>1, <1>2 DEF PInv

LEMMA SetKeeps ==
    ASSUME PInv, NEW u \in Owners, NEW p, Set(u, p), records \subseteq records',
           \A t \in records : InRegular(playlists[u], t) => InRegular(p, t)
    PROVE  Keeps
<1>1. \A v \in Owners : playlists'[v] = IF v = u THEN p ELSE playlists[v]
  BY DEF PInv, Set
<1>2. ASSUME NEW v \in Owners, NEW t \in records, InRegular(playlists[v], t)
      PROVE  InRegular(playlists'[v], t)
  <2>1. CASE v = u
    BY <1>1, <1>2, <2>1
  <2>2. CASE v # u
    BY <1>1, <1>2, <2>2
  <2> QED
    BY <2>1, <2>2
<1> QED
  BY <1>2, LibraryIs, LibraryIsNext DEF Keeps

-----------------------------------------------------------------------------
(* The requests.                                                           *)

LEMMA AddTrackPreserves ==
    ASSUME PInv, NEW u \in Owners, NEW t \in Songs, AddTrack(u, t)
    PROVE  PInv' /\ Keeps
<1> DEFINE q == Add(playlists[u], Favourites, {t})
<1>1. /\ records' = records \cup {t} /\ Set(u, q) /\ trims' = trims
      /\ GoodFor(playlists[u], records) /\ records \subseteq Songs
  BY DEF AddTrack, PInv
<1>2. GoodFor(playlists[u], records')
  BY <1>1 DEF GoodFor
<1>3. GoodFor(q, records')
  BY <1>1, <1>2, AddGood
<1>4. \A s : InRegular(playlists[u], s) => InRegular(q, s)
  BY <1>1, AddKeeps
<1> HIDE DEF q
<1>5. PInv'
  BY <1>1, <1>3, SetGood DEF PInv
<1> QED
  BY <1>1, <1>4, <1>5, SetKeeps

LEMMA CreatePlaylistPreserves ==
    ASSUME PInv, NEW u \in Owners, NEW n, CreatePlaylist(u, n)
    PROVE  PInv' /\ Keeps
<1> DEFINE q == With(playlists[u], n, NewPlaylist)
<1>1. /\ records' = records /\ Set(u, q) /\ trims' = trims
      /\ GoodFor(playlists[u], records) /\ n \notin DOMAIN playlists[u]
  BY DEF CreatePlaylist, PInv
<1>2. GoodFor(q, records)
  BY <1>1, ListOfGood, WithGood DEF NewPlaylist, Regular
<1>3. \A s : InRegular(playlists[u], s) => InRegular(q, s)
  BY <1>1 DEF With, InRegular, RegularNames
<1> HIDE DEF q
<1>4. PInv'
  BY <1>1, <1>2, SetGood DEF PInv
<1> QED
  BY <1>1, <1>3, <1>4, SetKeeps

LEMMA MoveTracksPreserves ==
    ASSUME PInv, NEW u \in Owners, NEW n, NEW moved \in Moves, MoveTracks(u, n, moved)
    PROVE  PInv' /\ Keeps
<1> DEFINE p == playlists[u]
           d == Drop(p, moved)
           q == Add(d, n, moved)
<1>1. /\ records' = records /\ Set(u, q) /\ trims' = trims /\ GoodFor(p, records)
      /\ n \in DOMAIN p => Regular(p[n])
      /\ \A t \in moved : InRegular(p, t)
      /\ moved \in SUBSET Songs
  BY DEF MoveTracks, PInv, Moves
<1>2. moved \subseteq records
  BY <1>1 DEF InRegular, RegularNames, GoodFor
<1>3. GoodFor(d, records) /\ DOMAIN d = DOMAIN p
  BY <1>1, DropGood DEF Drop
<1>4. Regular(Get(d, n))
  <2>1. CASE n \in DOMAIN p
    BY <1>1, <1>3, <2>1, DroppedList DEF Get
  <2>2. CASE n \notin DOMAIN p
    BY <1>3, <2>2, GetGood
  <2> QED
    BY <2>1, <2>2
<1>5. \A t : InRegular(d, t) <=> InRegular(p, t) /\ t \notin moved
  BY <1>1, DropLeaves
<1>6. GoodFor(q, records)
  BY <1>1, <1>2, <1>3, AddGood
<1>7. /\ \A t : InRegular(d, t) => InRegular(q, t)
      /\ \A t \in moved : InRegular(q, t)
  BY <1>1, <1>3, <1>4, AddKeeps
<1> HIDE DEF q, d
<1>8. PInv'
  BY <1>1, <1>6, SetGood DEF PInv
<1> QED
  BY <1>1, <1>5, <1>7, <1>8, SetKeeps

LEMMA DeletePlaylistPreserves ==
    ASSUME PInv, NEW u \in Owners, NEW n, DeletePlaylist(u, n)
    PROVE  PInv' /\ Keeps
<1> DEFINE p == playlists[u]
           a == Add(p, Favourites, Listed(p[n]))
           q == Without(a, n)
<1>1. /\ records' = records /\ Set(u, q) /\ trims' = trims /\ GoodFor(p, records)
      /\ n # Favourites /\ n \in DOMAIN p /\ Regular(p[n])
  BY DEF DeletePlaylist, PInv, RegularNames
<1>2. Listed(p[n]) \in SUBSET Songs /\ Listed(p[n]) \subseteq records
  BY <1>1 DEF GoodFor, Listed
<1>3. Regular(Get(p, Favourites))
  BY <1>1, GetGood, PlaylistsAssumption
<1>4. GoodFor(a, records)
  BY <1>1, <1>2, AddGood
<1>5. GoodFor(q, records)
  BY <1>4, WithoutGood
<1>6. \A t \in Listed(p[n]) : \E m \in DOMAIN a \ {n} : Regular(a[m]) /\ t \in Listed(a[m])
  <2>1. CASE Listed(p[n]) = {}
    BY <2>1
  <2>2. CASE Listed(p[n]) # {}
    <3>1. PICK list \in PlaylistType :
              /\ a = With(p, Favourites, list)
              /\ Listed(list) = Listed(Get(p, Favourites)) \cup Listed(p[n])
              /\ Regular(list) <=> Regular(Get(p, Favourites))
      BY <1>1, <1>2, <2>2, AddedList
    <3> QED
      BY <1>1, <1>3, <3>1 DEF With
  <2> QED
    BY <2>1, <2>2
<1>7. \A t : InRegular(p, t) => InRegular(a, t)
  BY <1>1, <1>2, AddKeeps
<1>8. \A t \in Listed(a[n]) : n \in DOMAIN a => t \in Listed(p[n])
  <2>1. CASE Listed(p[n]) = {}
    BY <2>1 DEF Add
  <2>2. CASE Listed(p[n]) # {}
    <3>1. PICK list \in PlaylistType : a = With(p, Favourites, list)
      BY <1>1, <1>2, <2>2, AddedList
    <3> QED
      BY <1>1, <3>1 DEF With
  <2> QED
    BY <2>1, <2>2
<1> HIDE DEF a
<1>9. ASSUME NEW t, InRegular(p, t) PROVE InRegular(q, t)
  <2>1. PICK m \in DOMAIN a : Regular(a[m]) /\ t \in Listed(a[m])
    BY <1>7, <1>9 DEF InRegular, RegularNames
  <2>2. \E k \in DOMAIN a \ {n} : Regular(a[k]) /\ t \in Listed(a[k])
    BY <1>6, <1>8, <2>1
  <2> QED
    BY <2>2 DEF InRegular, RegularNames, Without
<1> HIDE DEF q
<1>10. PInv'
  BY <1>1, <1>5, SetGood DEF PInv
<1> QED
  BY <1>1, <1>9, <1>10, SetKeeps

\* What a cleanup after an edit of one user's playlists leaves of the libraries.
LEMMA CleanedKeeps ==
    ASSUME PInv, NEW u \in Owners, NEW q, NEW tr \in [Owners -> SUBSET Songs],
           NEW rec \in SUBSET Songs, records \subseteq rec, GoodFor(q, rec),
           \A v \in Owners : tr[v] \subseteq rec,
           Cleaned([playlists EXCEPT ![u] = q], tr, rec)
    PROVE  /\ PInv'
           /\ \A v \in Owners \ {u} : Library(v) \subseteq Library(v)'
           /\ \A t \in records : InRegular(q, t) => t \in Library(u)'
           /\ \A t \in Library(u)' : InRegular(q, t)
<1> DEFINE p == [playlists EXCEPT ![u] = q]
<1>1. DOMAIN p = Owners /\ p[u] = q /\ \A v \in Owners \ {u} : p[v] = playlists[v]
  BY DEF PInv
<1>2. \A v \in Owners : GoodFor(p[v], rec)
  <2> SUFFICES ASSUME NEW v \in Owners PROVE GoodFor(p[v], rec)
    OBVIOUS
  <2>1. CASE v = u
    BY <1>1, <2>1
  <2>2. CASE v # u
    <3>1. GoodFor(playlists[v], rec)
      BY DEF PInv, GoodFor
    <3> QED
      BY <1>1, <2>2, <3>1
  <2> QED
    BY <2>1, <2>2
<1>3. Cleaned(p, tr, rec)
  OBVIOUS
<1> HIDE DEF p
<1>4. /\ PInv'
      /\ \A v \in Owners, t \in rec :
            InRegular(p[v], t) => t \in records' /\ InRegular(playlists'[v], t)
      /\ \A v \in Owners, t \in Songs :
            InRegular(playlists'[v], t) => InRegular(p[v], t)
  BY <1>1, <1>2, <1>3, CleanedGood
<1>5. records' \subseteq Songs
  BY <1>4 DEF PInv
<1>6. ASSUME NEW v \in Owners \ {u} PROVE Library(v) \subseteq Library(v)'
  BY <1>1, <1>4, LibraryIs, LibraryIsNext
<1> QED
  BY <1>1, <1>4, <1>5, <1>6, LibraryIsNext

LEMMA DeleteAudioPreserves ==
    ASSUME PInv, NEW u \in Owners, NEW t \in Songs, DeleteAudio(u, t)
    PROVE  /\ PInv'
           /\ \A v \in Owners \ {u} : Library(v) \subseteq Library(v)'
           /\ Library(u) \ Library(u)' = {t}
<1> DEFINE q == Drop(playlists[u], {t})
           dropped == [playlists EXCEPT ![u] = q]
           untrimmed == [trims EXCEPT ![u] = @ \ {t}]
<1>1. /\ GoodFor(playlists[u], records) /\ records \subseteq Songs
      /\ trims \in [Owners -> SUBSET Songs]
      /\ \A v \in Owners : trims[v] \subseteq records
      /\ InRegular(playlists[u], t)
  BY DEF PInv, DeleteAudio
<1>2. GoodFor(q, records)
  BY <1>1, DropGood
<1>3. \A s : InRegular(q, s) <=> InRegular(playlists[u], s) /\ s # t
  BY <1>1, DropLeaves
<1>4. /\ untrimmed \in [Owners -> SUBSET Songs]
      /\ \A v \in Owners : untrimmed[v] \subseteq records
  BY <1>1
<1>5. t \in Library(u)
  <2>1. t \in records
    BY <1>1 DEF InRegular, RegularNames, GoodFor
  <2> QED
    BY <1>1, <2>1, LibraryIs
<1>6. \/ playlists' = dropped /\ trims' = untrimmed /\ records' = records
      \/ Cleaned(dropped, untrimmed, records)
  BY DEF DeleteAudio
<1>7. CASE playlists' = dropped /\ trims' = untrimmed /\ records' = records
  <2>1. Set(u, q)
    BY <1>7 DEF Set
  <2>2. \A v \in Owners : playlists'[v] = IF v = u THEN q ELSE playlists[v]
    BY <1>7 DEF PInv
  <2> HIDE DEF q, dropped, untrimmed
  <2>3. PInv'
    BY <1>1, <1>2, <1>4, <1>7, <2>1, SetGood
  <2>4. ASSUME NEW v \in Owners \ {u} PROVE Library(v) \subseteq Library(v)'
    BY <1>7, <2>2, LibraryIs, LibraryIsNext
  <2>5. Library(u)' = Library(u) \ {t}
    BY <1>3, <1>7, <2>2, LibraryIs, LibraryIsNext
  <2> QED
    BY <1>5, <2>3, <2>4, <2>5
<1>8. CASE Cleaned(dropped, untrimmed, records)
  <2> HIDE DEF q, untrimmed
  <2>1. /\ PInv'
        /\ \A v \in Owners \ {u} : Library(v) \subseteq Library(v)'
        /\ \A s \in records : InRegular(q, s) => s \in Library(u)'
        /\ \A s \in Library(u)' : InRegular(q, s)
    BY <1>1, <1>2, <1>4, <1>8, CleanedKeeps
  <2> QED
    BY <1>3, <1>5, <2>1, LibraryIs
<1> QED
  BY <1>6, <1>7, <1>8

LEMMA TrimTrackPreserves ==
    ASSUME PInv, NEW u \in Owners, NEW t \in Songs, TrimTrack(u, t)
    PROVE  PInv' /\ Keeps
<1>1. trims' \in [Owners -> SUBSET Songs] /\ \A v \in Owners : trims'[v] \subseteq records
  BY DEF PInv, TrimTrack
<1>2. playlists' = playlists /\ records' = records
  BY DEF TrimTrack
<1>3. PInv'
  BY <1>1, <1>2 DEF PInv
<1>4. Keeps
  BY <1>2, LibraryIs, LibraryIsNext DEF Keeps
<1> QED
  BY <1>3, <1>4

LEMMA DeleteUserDataPreserves ==
    ASSUME PInv, NEW u \in Owners, DeleteUserData(u)
    PROVE  /\ PInv'
           /\ \A v \in Owners \ {u} : Library(v) \subseteq Library(v)'
<1> DEFINE cut == [trims EXCEPT ![u] = {}]
<1>1. /\ records \in SUBSET Songs /\ cut \in [Owners -> SUBSET Songs]
      /\ \A v \in Owners : cut[v] \subseteq records
  BY DEF PInv
<1>2. GoodFor(NoPlaylists, records)
  BY DEF GoodFor, NoPlaylists
<1>3. Cleaned([playlists EXCEPT ![u] = NoPlaylists], cut, records)
  BY DEF DeleteUserData
<1> HIDE DEF cut
<1> QED
  BY <1>1, <1>2, <1>3, CleanedKeeps

LEMMA CreateSurprisePreserves ==
    ASSUME PInv, NEW u \in Owners, NEW tracks \in SUBSET Songs, CreateSurprise(u, tracks)
    PROVE  PInv' /\ (KeyNotTaken => Keeps)
<1> DEFINE rec == records \cup tracks
<1>1. /\ records \subseteq Songs /\ rec \in SUBSET Songs
      /\ trims \in [Owners -> SUBSET Songs]
      /\ \A v \in Owners : GoodFor(playlists[v], records) /\ trims[v] \subseteq records
      /\ DOMAIN playlists = Owners
  BY DEF PInv
<1>2. CASE tracks = {}
  <2>1. Cleaned(playlists, trims, records)
    BY <1>2 DEF CreateSurprise
  <2>2. /\ PInv'
        /\ \A v \in Owners, t \in records :
             InRegular(playlists[v], t) => t \in records' /\ InRegular(playlists'[v], t)
    BY <1>1, <2>1, CleanedGood
  <2> QED
    BY <2>2, LibraryIs, LibraryIsNext DEF Keeps
<1>3. CASE tracks # {}
  <2> DEFINE list == ListOf(tracks, "fresh")
             q == With(playlists[u], SurpriseKey, list)
  <2>1. Cleaned([playlists EXCEPT ![u] = q], trims, rec)
    BY <1>3 DEF CreateSurprise
  <2>2. list \in PlaylistType /\ Listed(list) \subseteq rec
    BY ListOfGood
  <2>3. GoodFor(playlists[u], rec)
    BY <1>1 DEF GoodFor
  <2> HIDE DEF list
  <2>4. GoodFor(q, rec)
    BY <2>2, <2>3, WithGood
  <2>5. ASSUME KeyNotTaken, NEW t, InRegular(playlists[u], t) PROVE InRegular(q, t)
    <3>1. PICK m \in DOMAIN playlists[u] :
             Regular(playlists[u][m]) /\ t \in Listed(playlists[u][m])
      BY <2>5 DEF InRegular, RegularNames
    <3>2. m # SurpriseKey
      BY <2>5, <3>1 DEF KeyNotTaken
    <3> QED
      BY <3>1, <3>2 DEF With, InRegular, RegularNames
  <2> HIDE DEF q
  <2>6. \A v \in Owners : trims[v] \subseteq rec
    BY <1>1
  <2> HIDE DEF rec
  <2>7. /\ PInv'
        /\ \A v \in Owners \ {u} : Library(v) \subseteq Library(v)'
        /\ \A t \in records : InRegular(q, t) => t \in Library(u)'
    <3>1. records \subseteq rec
      BY DEF rec
    <3> QED
      BY ZenonT(40), <1>1, <2>1, <2>4, <2>6, <3>1, CleanedKeeps
  <2> QED
    BY <2>5, <2>7, LibraryIs DEF Keeps
<1> QED
  BY <1>2, <1>3

LEMMA GrowSurprisePreserves ==
    ASSUME PInv, NEW u \in Owners, NEW t \in Songs, GrowSurprise(u, t)
    PROVE  PInv' /\ Keeps
<1> DEFINE q == Add(playlists[u], SurpriseKey, {t})
<1>1. /\ records' = records \cup {t} /\ Set(u, q) /\ trims' = trims
      /\ GoodFor(playlists[u], records) /\ records \subseteq Songs
  BY DEF GrowSurprise, PInv
<1>2. GoodFor(playlists[u], records')
  BY <1>1 DEF GoodFor
<1>3. GoodFor(q, records')
  BY <1>1, <1>2, AddGood
<1>4. \A s : InRegular(playlists[u], s) => InRegular(q, s)
  BY <1>1, AddKeeps
<1> HIDE DEF q
<1>5. PInv'
  BY <1>1, <1>3, SetGood DEF PInv
<1> QED
  BY <1>1, <1>4, <1>5, SetKeeps

LEMMA FavouriteTrackPreserves ==
    ASSUME PInv, NEW u \in Owners, NEW t \in Songs, FavouriteTrack(u, t)
    PROVE  PInv' /\ Keeps
<1> DEFINE q == Add(playlists[u], Favourites, {t})
<1>1. /\ records' = records /\ Set(u, q) /\ trims' = trims /\ t \in records
      /\ GoodFor(playlists[u], records)
  BY DEF FavouriteTrack, PInv
<1>2. GoodFor(q, records)
  BY <1>1, AddGood
<1>3. \A s : InRegular(playlists[u], s) => InRegular(q, s)
  BY <1>1, AddKeeps
<1> HIDE DEF q
<1>4. PInv'
  BY <1>1, <1>2, SetGood DEF PInv
<1> QED
  BY <1>1, <1>3, <1>4, SetKeeps

LEMMA SaveSurprisePreserves ==
    ASSUME PInv, NEW u \in Owners, NEW n, SaveSurprise(u, n)
    PROVE  PInv' /\ Keeps
<1> DEFINE p == playlists[u]
           saved == [tracks |-> p[SurpriseKey].tracks, age |-> "regular"]
           q == With(Without(p, SurpriseKey), n, saved)
<1>1. /\ records' = records /\ Set(u, q) /\ trims' = trims /\ GoodFor(p, records)
      /\ SurpriseKey \in DOMAIN p /\ p[SurpriseKey].age = "fresh" /\ n \notin DOMAIN p
  BY DEF SaveSurprise, PInv, Active
<1>2. p[SurpriseKey] \in PlaylistType /\ Listed(p[SurpriseKey]) \subseteq records
  BY <1>1 DEF GoodFor
<1>3. saved \in PlaylistType /\ Listed(saved) \subseteq records /\ Regular(saved)
  BY <1>2 DEF PlaylistType, Listed, Regular
<1> HIDE DEF saved
<1>4. GoodFor(q, records)
  BY <1>1, <1>3, WithGood, WithoutGood
<1>5. \A t : InRegular(p, t) => InRegular(q, t)
  <2> SUFFICES ASSUME NEW m \in DOMAIN p, Regular(p[m]), NEW t \in Listed(p[m])
               PROVE  InRegular(q, t)
    BY DEF InRegular, RegularNames
  <2>1. m # SurpriseKey /\ m # n
    BY <1>1 DEF Regular
  <2> QED
    BY <2>1 DEF With, Without, InRegular, RegularNames
<1> HIDE DEF q
<1>6. PInv'
  BY <1>1, <1>4, SetGood DEF PInv
<1> QED
  BY <1>1, <1>5, <1>6, SetKeeps

LEMMA AgeSurprisePreserves ==
    ASSUME PInv, NEW u \in Owners, AgeSurprise(u)
    PROVE  PInv' /\ Keeps
<1> DEFINE p == playlists[u]
           q == [p EXCEPT ![SurpriseKey].age = "stale"]
<1>1. /\ records' = records /\ Set(u, q) /\ trims' = trims /\ GoodFor(p, records)
      /\ SurpriseKey \in DOMAIN p /\ p[SurpriseKey].age = "fresh"
  BY DEF AgeSurprise, PInv, Active, Set
<1>2. PICK aged \in PlaylistType :
         /\ q = [p EXCEPT ![SurpriseKey] = aged]
         /\ Listed(aged) = Listed(p[SurpriseKey])
  <2> DEFINE old == p[SurpriseKey]
             aged == [old EXCEPT !.age = "stale"]
  <2>1. old \in PlaylistType
    BY <1>1 DEF GoodFor
  <2>2. aged \in PlaylistType /\ aged.tracks = old.tracks
    BY <2>1 DEF PlaylistType
  <2>3. q = [p EXCEPT ![SurpriseKey] = aged]
    OBVIOUS
  <2> QED
    BY <2>2, <2>3 DEF Listed
<1>3. DOMAIN q = DOMAIN p /\ \A m \in DOMAIN q : q[m] = IF m = SurpriseKey THEN aged ELSE p[m]
  BY <1>2
<1> HIDE DEF q
<1>4. GoodFor(q, records)
  BY <1>1, <1>2, <1>3 DEF GoodFor
<1>5. \A t : InRegular(p, t) => InRegular(q, t)
  <2> SUFFICES ASSUME NEW m \in DOMAIN p, Regular(p[m]), NEW t \in Listed(p[m])
               PROVE  InRegular(q, t)
    BY DEF InRegular, RegularNames
  <2>1. m # SurpriseKey
    BY <1>1 DEF Regular
  <2> QED
    BY <1>3, <2>1 DEF InRegular, RegularNames
<1>6. PInv'
  BY <1>1, <1>4, SetGood DEF PInv
<1> QED
  BY <1>1, <1>5, <1>6, SetKeeps

-----------------------------------------------------------------------------
LEMMA LibraryInitial == LibraryInit => PInv
BY DEF LibraryInit, PInv, GoodFor, NoPlaylists

LEMMA LibraryStep ==
    ASSUME PInv, LibraryNext
    PROVE  /\ PInv'
           /\ KeyNotTaken =>
                \A u \in Owners :
                   \/ Library(u) \subseteq Library(u)'
                   \/ DeleteUserData(u)
                   \/ \E t \in Songs : DeleteAudio(u, t) /\ Library(u) \ Library(u)' = {t}
<1> PICK u \in Owners :
        \/ DeleteUserData(u) \/ AgeSurprise(u)
        \/ \E n \in Names :
            \/ CreatePlaylist(u, n) \/ DeletePlaylist(u, n) \/ SaveSurprise(u, n)
            \/ \E moved \in Moves : MoveTracks(u, n, moved)
        \/ \E t \in Songs :
            \/ AddTrack(u, t) \/ DeleteAudio(u, t) \/ TrimTrack(u, t)
            \/ GrowSurprise(u, t) \/ FavouriteTrack(u, t)
        \/ \E tracks \in SUBSET Songs : CreateSurprise(u, tracks)
  BY DEF LibraryNext
<1>1. CASE DeleteUserData(u)
  BY <1>1, DeleteUserDataPreserves
<1>2. CASE AgeSurprise(u)
  BY <1>2, AgeSurprisePreserves DEF Keeps
<1>3. ASSUME NEW n \in Names, CreatePlaylist(u, n) PROVE PInv' /\ Keeps
  BY <1>3, CreatePlaylistPreserves
<1>4. ASSUME NEW n \in Names, DeletePlaylist(u, n) PROVE PInv' /\ Keeps
  BY <1>4, DeletePlaylistPreserves
<1>5. ASSUME NEW n \in Names, SaveSurprise(u, n) PROVE PInv' /\ Keeps
  BY <1>5, SaveSurprisePreserves
<1>6. ASSUME NEW n \in Names, NEW moved \in Moves, MoveTracks(u, n, moved)
      PROVE  PInv' /\ Keeps
  BY <1>6, MoveTracksPreserves
<1>7. ASSUME NEW t \in Songs, AddTrack(u, t) PROVE PInv' /\ Keeps
  BY <1>7, AddTrackPreserves
<1>8. CASE \E t \in Songs : DeleteAudio(u, t)
  BY <1>8, DeleteAudioPreserves
<1>9. ASSUME NEW t \in Songs, TrimTrack(u, t) PROVE PInv' /\ Keeps
  BY <1>9, TrimTrackPreserves
<1>10. ASSUME NEW t \in Songs, GrowSurprise(u, t) PROVE PInv' /\ Keeps
  BY <1>10, GrowSurprisePreserves
<1>11. ASSUME NEW t \in Songs, FavouriteTrack(u, t) PROVE PInv' /\ Keeps
  BY <1>11, FavouriteTrackPreserves
<1>12. ASSUME NEW tracks \in SUBSET Songs, CreateSurprise(u, tracks)
       PROVE  PInv' /\ (KeyNotTaken => Keeps)
  BY <1>12, CreateSurprisePreserves
<1> QED
  BY <1>1, <1>2, <1>3, <1>4, <1>5, <1>6, <1>7, <1>8, <1>9, <1>10, <1>11, <1>12 DEF Keeps

-----------------------------------------------------------------------------
\* The invariant of every behaviour of the playlists.
LEMMA LibraryInvariant == LibrarySpec => []PInv
<1>1. PInv /\ [LibraryNext]_metadata => PInv'
  BY LibraryStep DEF PInv, GoodFor, metadata
<1> QED
  BY <1>1, LibraryInitial, PTL DEF LibrarySpec

\* A trim goes with its record, a listed track has one, and no playlist lists a
\* track twice.
THEOREM NothingIsLeftBehind == LibrarySpec => []NothingLeftBehind
<1>1. PInv => NothingLeftBehind
  BY DEF PInv, GoodFor, NothingLeftBehind, PlaylistType
<1> QED
  BY <1>1, LibraryInvariant, PTL

\* As long as no playlist of a user's own lies under the key of the surprise
\* playlist, nothing but deleting it takes a track from a user's library.
THEOREM TracksAreKept == LibrarySpec /\ []KeyNotTaken => TracksKept
<1> DEFINE Change ==
      \A u \in Owners :
         \/ Library(u) \subseteq Library(u)'
         \/ DeleteUserData(u)
         \/ \E t \in Songs : DeleteAudio(u, t) /\ Library(u) \ Library(u)' = {t}
<1>1. PInv /\ KeyNotTaken /\ [LibraryNext]_metadata => [Change]_metadata
  BY LibraryStep
<1> QED
  BY <1>1, LibraryInvariant, PTL DEF LibrarySpec, TracksKept

-----------------------------------------------------------------------------
(* Search: the listing, whatever the site answers.                         *)

\* What a filter adds: the videos it found that are short enough, each once.
LEMMA NewOfIs ==
    ASSUME NEW S, NEW list \in Seq(S), IsInjective(list), NEW found \in Seq(S)
    PROVE  /\ NewOf(list, found) \in Seq(S) /\ IsInjective(NewOf(list, found))
           /\ ToSet(NewOf(list, found)) = ToSet(list) \cup (ToSet(found) \ TooLong)
  <1>1. Len(found) \in Nat /\ DOMAIN found = 1..Len(found)
    OBVIOUS
  <1>2. PICK step : step = [n \in Nat |-> [z \in Seq(S) |->
           IF n + 1 \in 1..Len(found) /\ ~(found[n + 1] \in TooLong \/ Contains(z, found[n + 1]))
             THEN Append(z, found[n + 1]) ELSE z]]
    OBVIOUS
  <1>3. step \in [Nat -> [Seq(S) -> Seq(S)]]
    <2>1. ASSUME NEW n \in Nat, NEW z \in Seq(S)
          PROVE  (IF n + 1 \in 1..Len(found)
                       /\ ~(found[n + 1] \in TooLong \/ Contains(z, found[n + 1]))
                    THEN Append(z, found[n + 1]) ELSE z) \in Seq(S)
      <3>1. n + 1 \in 1..Len(found) => found[n + 1] \in S
        BY <1>1, ElementOfSeq
      <3>2. found[n + 1] \in S => Append(z, found[n + 1]) \in Seq(S)
        BY AppendProperties
      <3> QED  BY <3>1, <3>2
    <2> QED  BY <1>2, <2>1
  <1>4. PICK f \in [Nat -> Seq(S)] : f[0] = list /\ \A n \in Nat : f[n + 1] = step[n][f[n]]
    <2>1. \E f : Iterates(f, Seq(S), list, step)
      BY <1>3, Recursion
    <2> QED  BY <2>1 DEF Iterates
  <1>5. PICK K : K = CHOOSE F : F = [n \in 0..Len(found) |->
           IF n = 0 THEN list
           ELSE IF found[n] \in TooLong \/ Contains(F[n - 1], found[n]) THEN F[n - 1]
           ELSE Append(F[n - 1], found[n])]
    OBVIOUS
  <1>6. K = [n \in 0..Len(found) |->
           IF n = 0 THEN list
           ELSE IF found[n] \in TooLong \/ Contains(K[n - 1], found[n]) THEN K[n - 1]
           ELSE Append(K[n - 1], found[n])]
    <2>1. PICK h : h = [n \in 0..Len(found) |-> f[n]]
      OBVIOUS
    <2>2. ASSUME NEW n \in 0..Len(found)
          PROVE  h[n] = IF n = 0 THEN list
                        ELSE IF found[n] \in TooLong \/ Contains(h[n - 1], found[n]) THEN h[n - 1]
                        ELSE Append(h[n - 1], found[n])
      <3>1. CASE n = 0
        BY <1>4, <2>1, <3>1
      <3>2. CASE n # 0
        <4>1. n - 1 \in Nat /\ n - 1 \in 0..Len(found) /\ (n - 1) + 1 = n /\ n \in 1..Len(found)
          BY <1>1, <3>2
        <4>2. f[n] = step[n - 1][f[n - 1]] /\ f[n - 1] \in Seq(S)
          BY <1>4, <4>1
        <4>3. f[n] = IF ~(found[n] \in TooLong \/ Contains(f[n - 1], found[n]))
                       THEN Append(f[n - 1], found[n]) ELSE f[n - 1]
          BY <1>2, <4>1, <4>2
        <4> QED  BY <2>1, <3>2, <4>1, <4>3
      <3> QED  BY <3>1, <3>2
    <2>3. h = [n \in 0..Len(found) |->
           IF n = 0 THEN list
           ELSE IF found[n] \in TooLong \/ Contains(h[n - 1], found[n]) THEN h[n - 1]
           ELSE Append(h[n - 1], found[n])]
      BY <2>1, <2>2
    <2> QED  BY <1>5, <2>3
  <1>7. NewOf(list, found) = K[Len(found)]
    BY <1>5 DEF NewOf
  <1>8. PICK G : G = {n \in Nat : n =< Len(found) =>
                        /\ K[n] \in Seq(S) /\ IsInjective(K[n])
                        /\ ToSet(K[n]) = ToSet(list) \cup (UpTo(found, n) \ TooLong)}
    OBVIOUS
  <1>9. 0 \in G
    <2>1. K[0] = list
      BY <1>1, <1>6
    <2>2. UpTo(found, 0) = {}
      BY DEF UpTo
    <2> QED  BY <1>8, <2>1, <2>2
  <1>10. ASSUME NEW n \in Nat, n \in G
         PROVE  n + 1 \in G
    <2> SUFFICES ASSUME n + 1 =< Len(found)
                 PROVE  /\ K[n + 1] \in Seq(S) /\ IsInjective(K[n + 1])
                        /\ ToSet(K[n + 1]) = ToSet(list) \cup (UpTo(found, n + 1) \ TooLong)
      BY <1>8
    <2>1. /\ K[n] \in Seq(S) /\ IsInjective(K[n])
          /\ ToSet(K[n]) = ToSet(list) \cup (UpTo(found, n) \ TooLong)
      <3>1. n =< Len(found)
        BY <1>1
      <3> QED  BY <1>8, <1>10, <3>1
    <2>2. n + 1 \in 0..Len(found) /\ n + 1 # 0 /\ (n + 1) - 1 = n /\ n + 1 \in 1..Len(found)
      BY <1>1
    <2>3. PICK x : x = found[n + 1]
      OBVIOUS
    <2>4. x \in S
      BY <1>1, <2>2, <2>3, ElementOfSeq
    <2>5. K[n + 1] = IF x \in TooLong \/ Contains(K[n], x) THEN K[n] ELSE Append(K[n], x)
      BY <1>6, <2>2, <2>3
    <2>6. UpTo(found, n + 1) = UpTo(found, n) \cup {x}
      <3>1. \A i : i \in 1..(n + 1) <=> i \in 1..n \/ i = n + 1
        BY NextRange
      <3> QED  BY <2>3, <3>1 DEF UpTo
    <2>7. Contains(K[n], x) <=> x \in ToSet(K[n])
      <3>1. PICK t : t = K[n]
        OBVIOUS
      <3>2. DOMAIN t = 1..Len(t)
        BY <2>1, <3>1, LenProperties
      <3> QED  BY <3>1, <3>2 DEF Contains, ToSet
    <2>8. CASE x \in TooLong \/ Contains(K[n], x)
      <3>1. ToSet(K[n]) = ToSet(list) \cup (UpTo(found, n + 1) \ TooLong)
        BY <2>1, <2>6, <2>7, <2>8
      <3> QED  BY <2>1, <2>5, <2>8, <3>1
    <2>9. CASE ~(x \in TooLong \/ Contains(K[n], x))
      <3>1. /\ Append(K[n], x) \in Seq(S) /\ ToSet(Append(K[n], x)) = ToSet(K[n]) \cup {x}
            /\ IsInjective(Append(K[n], x))
        BY <2>1, <2>4, <2>7, <2>9, Appending
      <3>2. ToSet(Append(K[n], x)) = ToSet(list) \cup (UpTo(found, n + 1) \ TooLong)
        BY <2>1, <2>6, <2>9, <3>1
      <3> QED  BY <2>5, <2>9, <3>1, <3>2
    <2> QED  BY <2>8, <2>9
  <1>11. Len(found) \in G
    BY <1>1, <1>9, <1>10, Induct
  <1>12. UpTo(found, Len(found)) = ToSet(found)
    BY <1>1 DEF UpTo, ToSet
  <1> QED  BY <1>1, <1>7, <1>8, <1>11, <1>12

\* What the filters found together, and what the first n did.
Found == UNION {ToSet(site[k]) : k \in Filters}
FoundBy(n) == UNION {ToSet(site[k]) : k \in 1..n}

\* The listing holds every video that was found and is short enough, once.
LEMMA CombinedIs ==
    ASSUME site \in [Filters -> Seq(Hits)]
    PROVE  /\ Combined({}) \in Seq(Hits) /\ IsInjective(Combined({}))
           /\ ToSet(Combined({})) = Found \ TooLong
  <1>1. PICK m : m = Cardinality(Filters)
    OBVIOUS
  <1>2. m \in Nat /\ Filters = 1..m /\ \A n : n \in {0} \cup Filters <=> n \in 0..m
    <2>1. m \in Nat /\ Filters = 1..m
      BY <1>1, SearchAssumption, FS_CardinalityType
    <2> QED  BY <2>1
  <1>3. PICK step : step = [n \in Nat |-> [z \in Seq(Hits) |->
           IF n + 1 \in Filters /\ NewOf(z, site[n + 1]) \in Seq(Hits)
             THEN NewOf(z, site[n + 1]) ELSE z]]
    OBVIOUS
  <1>4. step \in [Nat -> [Seq(Hits) -> Seq(Hits)]]
    BY <1>3
  <1>5. <<>> \in Seq(Hits) /\ IsInjective(<<>>) /\ ToSet(<<>>) = {}
    BY DEF IsInjective, ToSet
  <1>6. PICK f \in [Nat -> Seq(Hits)] : f[0] = <<>> /\ \A n \in Nat : f[n + 1] = step[n][f[n]]
    <2>1. \E f : Iterates(f, Seq(Hits), <<>>, step)
      BY <1>4, <1>5, Recursion
    <2> QED  BY <2>1 DEF Iterates
  <1>7. PICK G : G = {n \in Nat : n =< m =>
                        /\ f[n] \in Seq(Hits) /\ IsInjective(f[n])
                        /\ ToSet(f[n]) = FoundBy(n) \ TooLong}
    OBVIOUS
  <1>8. 0 \in G
    <2>1. FoundBy(0) = {}
      BY DEF FoundBy
    <2> QED  BY <1>5, <1>6, <1>7, <2>1
  <1>9. ASSUME NEW n \in Nat, n + 1 =< m, f[n] \in Seq(Hits), IsInjective(f[n])
        PROVE  /\ f[n + 1] \in Seq(Hits) /\ IsInjective(f[n + 1])
               /\ ToSet(f[n + 1]) = ToSet(f[n]) \cup (ToSet(site[n + 1]) \ TooLong)
               /\ f[n + 1] = NewOf(f[n], site[n + 1])
    <2>1. n + 1 \in Filters
      BY <1>2, <1>9
    <2>2. PICK z, x : z = f[n] /\ x = site[n + 1]
      OBVIOUS
    <2>3. x \in Seq(Hits) /\ z \in Seq(Hits) /\ IsInjective(z)
      BY <1>9, <2>1, <2>2
    <2>4. /\ NewOf(z, x) \in Seq(Hits) /\ IsInjective(NewOf(z, x))
          /\ ToSet(NewOf(z, x)) = ToSet(z) \cup (ToSet(x) \ TooLong)
      BY SMTT(30), <2>3, NewOfIs
    <2>5. f[n + 1] = step[n][z]
      BY <1>6, <2>2
    <2>6. f[n + 1] = NewOf(z, x)
      BY <1>3, <2>1, <2>2, <2>3, <2>4, <2>5
    <2> QED  BY <2>2, <2>4, <2>6
  <1>10. ASSUME NEW n \in Nat, n \in G
         PROVE  n + 1 \in G
    <2> SUFFICES ASSUME n + 1 =< m
                 PROVE  /\ f[n + 1] \in Seq(Hits) /\ IsInjective(f[n + 1])
                        /\ ToSet(f[n + 1]) = FoundBy(n + 1) \ TooLong
      BY <1>7
    <2>1. n =< m
      BY <1>2
    <2>2. /\ f[n] \in Seq(Hits) /\ IsInjective(f[n])
          /\ ToSet(f[n]) = FoundBy(n) \ TooLong
      BY <1>7, <1>10, <2>1
    <2>3. FoundBy(n + 1) = FoundBy(n) \cup ToSet(site[n + 1])
      <3>1. \A i : i \in 1..(n + 1) <=> i \in 1..n \/ i = n + 1
        BY NextRange
      <3> QED  BY <3>1 DEF FoundBy
    <2>4. f[n + 1] \in Seq(Hits) /\ IsInjective(f[n + 1])
      BY <1>9, <2>2
    <2>5. ToSet(f[n + 1]) = ToSet(f[n]) \cup (ToSet(site[n + 1]) \ TooLong)
      BY <1>9, <2>2
    <2>6. ToSet(f[n + 1]) = FoundBy(n + 1) \ TooLong
      BY <2>2, <2>3, <2>5
    <2> QED  BY <2>4, <2>6
  <1>11. \A n \in Nat : n =< m =>
            /\ f[n] \in Seq(Hits) /\ IsInjective(f[n])
            /\ ToSet(f[n]) = FoundBy(n) \ TooLong
            /\ n # 0 => f[n] = NewOf(f[n - 1], site[n])
    <2>1. Nat \subseteq G
      BY <1>8, <1>10, Induct
    <2>2. ASSUME NEW n \in Nat, n =< m, n # 0
          PROVE  f[n] = NewOf(f[n - 1], site[n])
      <3>1. PICK k \in Nat : n = k + 1
        <4>1. n - 1 \in Nat /\ n = (n - 1) + 1
          BY <2>2
        <4> QED  BY <4>1
      <3>2. k =< m /\ k + 1 =< m /\ n - 1 = k
        BY <1>2, <2>2, <3>1
      <3>3. f[k] \in Seq(Hits) /\ IsInjective(f[k])
        BY <1>7, <2>1, <3>2
      <3>4. f[k + 1] = NewOf(f[k], site[k + 1])
        BY <1>9, <3>2, <3>3
      <3> QED  BY <3>1, <3>2, <3>4
    <2> QED  BY <1>7, <2>1, <2>2
  <1>12. PICK K : K = CHOOSE F : F = [k \in {0} \cup Filters |->
            IF k = 0 THEN <<>> ELSE NewOf(F[k - 1], IF k \in {} THEN <<>> ELSE site[k])]
    OBVIOUS
  <1>13. K = [k \in {0} \cup Filters |->
            IF k = 0 THEN <<>> ELSE NewOf(K[k - 1], IF k \in {} THEN <<>> ELSE site[k])]
    <2>1. PICK h : h = [k \in {0} \cup Filters |-> f[k]]
      OBVIOUS
    <2>2. ASSUME NEW k \in {0} \cup Filters
          PROVE  h[k] = IF k = 0 THEN <<>> ELSE NewOf(h[k - 1], IF k \in {} THEN <<>> ELSE site[k])
      <3>1. CASE k = 0
        BY <1>6, <2>1, <3>1
      <3>2. CASE k # 0
        <4>1. k \in Nat /\ k =< m /\ k - 1 \in {0} \cup Filters
          BY <1>2, <3>2
        <4>2. f[k] = NewOf(f[k - 1], site[k])
          BY <3>2, <4>1, <1>11
        <4> QED  BY <2>1, <3>2, <4>1, <4>2
      <3> QED  BY <3>1, <3>2
    <2>3. h = [k \in {0} \cup Filters |->
            IF k = 0 THEN <<>> ELSE NewOf(h[k - 1], IF k \in {} THEN <<>> ELSE site[k])]
      BY <2>1, <2>2
    <2> QED  BY <1>12, <2>3
  <1>14. Combined({}) = K[m]
    BY <1>1, <1>12, Zenon DEF Combined
  <1>15. PICK E : E = {n \in Nat : n =< m => K[n] = f[n]}
    OBVIOUS
  <1>16. 0 \in E
    BY <1>6, <1>13, <1>15
  <1>17. ASSUME NEW n \in Nat, n \in E
         PROVE  n + 1 \in E
    <2> SUFFICES ASSUME n + 1 =< m
                 PROVE  K[n + 1] = f[n + 1]
      BY <1>15
    <2>1. n + 1 \in {0} \cup Filters /\ n + 1 # 0 /\ (n + 1) - 1 = n /\ n =< m
      BY <1>2
    <2>2. K[n + 1] = NewOf(K[n], site[n + 1])
      BY <1>13, <2>1
    <2>3. K[n] = f[n]
      BY <1>15, <1>17, <2>1
    <2>4. f[n + 1] = NewOf(f[n], site[n + 1])
      BY <1>9, <1>11, <2>1
    <2> QED  BY <2>2, <2>3, <2>4
  <1>18. K[m] = f[m]
    <2>1. Nat \subseteq E
      BY <1>16, <1>17, Induct
    <2>2. m \in E /\ m =< m
      BY <1>2, <2>1
    <2> QED  BY <1>15, <2>2
  <1>19. /\ f[m] \in Seq(Hits) /\ IsInjective(f[m])
         /\ ToSet(f[m]) = FoundBy(m) \ TooLong
    <2>1. m =< m
      BY <1>2
    <2> QED  BY <1>2, <1>11, <2>1
  <1>20. FoundBy(m) = Found
    BY <1>2 DEF FoundBy, Found
  <1> QED  BY <1>14, <1>18, <1>19, <1>20

-----------------------------------------------------------------------------
(* Search: the pages.                                                      *)

\* How many pages a listing has, and how much of it they hold.
LEMMA PagesNeeded ==
    ASSUME NEW n \in Nat
    PROVE  \E t \in Nat \ {0} :
              /\ TotalPages(n) = t /\ t =< MaxPages
              /\ t > 1 => \A p \in 0..(t - 1) : p * PageSize < n
              /\ n =< t * PageSize \/ t = MaxPages
  <1>1. PageSize \in Nat /\ PageSize > 0 /\ MaxPages \in Nat /\ MaxPages > 0
    BY SearchAssumption
  <1>2. PICK q, w, r : /\ q = (n + PageSize - 1) \div PageSize /\ w = PageSize * q
                       /\ r = (n + PageSize - 1) % PageSize
    OBVIOUS
  <1>3. q \in Int /\ r \in 0..(PageSize - 1) /\ n + PageSize - 1 = w + r
    <2>1. PICK x : x = n + PageSize - 1
      OBVIOUS
    <2>2. x \in Nat
      BY <1>1, <2>1
    <2>3. /\ x = PageSize * (x \div PageSize) + (x % PageSize)
          /\ x % PageSize \in 0..(PageSize - 1) /\ x \div PageSize \in Int
      BY <1>1, <2>2
    <2> QED  BY <1>2, <2>1, <2>3
  <1>4. w \in Int /\ n =< w /\ w < n + PageSize
    <2>1. w \in Int
      BY <1>1, <1>2, <1>3
    <2> QED  BY <1>1, <1>3, <2>1
  <1>5. PICK t : t = TotalPages(n)
    OBVIOUS
  <1>6. t = IF MaxPages =< (IF 1 >= q THEN 1 ELSE q) THEN MaxPages ELSE (IF 1 >= q THEN 1 ELSE q)
    <2>1. Max({1, q}) = IF 1 >= q THEN 1 ELSE q
      BY <1>3, MaxOf
    <2>2. PICK x : x = Max({1, q})
      OBVIOUS
    <2>3. x \in Int
      BY <1>3, <2>1, <2>2
    <2>4. Min({MaxPages, x}) = IF MaxPages =< x THEN MaxPages ELSE x
      BY <1>1, <2>3, MinOf
    <2>5. t = Min({MaxPages, x})
      BY <1>2, <1>5, <2>2 DEF TotalPages
    <2> QED  BY <2>1, <2>2, <2>4, <2>5
  <1>7. t \in Nat \ {0} /\ t =< MaxPages /\ (t = MaxPages \/ t >= q) /\ (t > 1 => t =< q)
    BY <1>1, <1>3, <1>6
  <1>8. ASSUME t > 1, NEW p \in 0..(t - 1)
        PROVE  p * PageSize < n
    <2>1. p + 1 =< q /\ p \in Nat
      BY <1>3, <1>7, <1>8
    <2>2. PageSize * (p + 1) =< PageSize * q
      BY <1>1, <1>3, <2>1
    <2>3. PageSize * (p + 1) = p * PageSize + PageSize /\ p * PageSize \in Nat
      BY <1>1, <2>1
    <2> QED  BY <1>1, <1>2, <1>4, <2>2, <2>3
  <1>9. ASSUME t # MaxPages
        PROVE  n =< t * PageSize
    <2>1. t >= q /\ t \in Nat
      BY <1>7, <1>9
    <2>2. PageSize * q =< t * PageSize /\ t * PageSize \in Nat
      BY <1>1, <1>3, <2>1
    <2> QED  BY <1>2, <1>4, <2>2
  <1> QED  BY <1>5, <1>7, <1>8, <1>9

\* The places of a listing that its page p shows.
Places(n, p) == {i \in 1..n : p * PageSize < i /\ i =< (p + 1) * PageSize}

\* A page shows its places in order.
LEMMA PageIs ==
    ASSUME NEW S, NEW c \in Seq(S), NEW p \in Nat
    PROVE  /\ PageOf(c, p) \in Seq(S)
           /\ ToSet(PageOf(c, p)) = {c[i] : i \in Places(Len(c), p)}
           /\ IsInjective(c) => IsInjective(PageOf(c, p))
           /\ p * PageSize < Len(c) => PageOf(c, p) # <<>>
  <1>1. PageSize \in Nat /\ PageSize > 0 /\ Len(c) \in Nat /\ DOMAIN c = 1..Len(c)
    BY SearchAssumption
  <1>2. PICK n, a, b : n = Len(c) /\ a = p * PageSize /\ b = (p + 1) * PageSize
    OBVIOUS
  <1>3. n \in Nat /\ a \in Nat /\ b \in Nat /\ a < b
    <2>1. n \in Nat /\ a \in Nat /\ b \in Nat
      BY <1>1, <1>2
    <2>2. b = a + PageSize
      BY <1>1, <1>2
    <2> QED  BY <1>1, <2>1, <2>2
  <1>4. PICK m : m = IF b =< n THEN b ELSE n
    OBVIOUS
  <1>5. m \in Nat /\ m =< n /\ m =< b
    BY <1>3, <1>4
  <1>6. Min({b, n}) = m
    BY <1>3, <1>4, MinOf
  <1>7. PICK page : page = PageOf(c, p)
    OBVIOUS
  <1>8. page = SubSeq(c, a + 1, m)
    BY <1>2, <1>6, <1>7 DEF PageOf
  <1>9. /\ page \in Seq(S) /\ Len(page) = IF a + 1 =< m THEN m - (a + 1) + 1 ELSE 0
        /\ \A i \in 1..(m - (a + 1) + 1) : page[i] = c[(a + 1) + i - 1]
    <2>1. \A i \in (a + 1)..m : c[i] \in S
      <3>1. \A i \in (a + 1)..m : i \in 1..Len(c)
        BY <1>2, <1>3, <1>5
      <3> QED  BY <3>1, ElementOfSeq
    <2>2. a + 1 \in Int /\ m \in Int
      BY <1>3, <1>5
    <2> QED  BY SMTT(30), <1>8, <2>1, <2>2, SubSeqProperties
  <1>10. PICK k : k = Len(page)
    OBVIOUS
  <1>11. /\ k \in Nat /\ ((k = 0 /\ m =< a) \/ k = m - a)
         /\ DOMAIN page = 1..k
    BY <1>3, <1>5, <1>9, <1>10
  <1>12. \A i \in 1..k : a + i \in 1..n /\ a + i > a /\ a + i =< m /\ page[i] = c[a + i]
    <2>1. ASSUME NEW i \in 1..k
          PROVE  a + i \in 1..n /\ a + i > a /\ a + i =< m /\ i \in 1..(m - (a + 1) + 1)
                 /\ (a + 1) + i - 1 = a + i
      BY <1>3, <1>5, <1>11
    <2> QED  BY <1>9, <2>1
  <1>13. Places(n, p) = {i \in 1..n : a < i /\ i =< m}
    BY <1>2, <1>3, <1>4 DEF Places
  <1>14. \A j \in Places(n, p) : j - a \in 1..k /\ a + (j - a) = j
    BY <1>3, <1>5, <1>11, <1>13
  <1>15. ToSet(page) = {c[i] : i \in Places(n, p)}
    <2>1. \A i \in 1..k : a + i \in Places(n, p)
      BY <1>12, <1>13
    <2>2. \A i \in 1..k : page[i] \in {c[j] : j \in Places(n, p)}
      BY <1>12, <2>1
    <2>3. \A j \in Places(n, p) : page[j - a] = c[j] /\ j - a \in 1..k
      BY <1>12, <1>14
    <2> QED  BY <1>11, <2>2, <2>3 DEF ToSet
  <1>16. ASSUME IsInjective(c), NEW i \in 1..k, NEW j \in 1..k, page[i] = page[j]
         PROVE  i = j
    <2>1. a + i \in DOMAIN c /\ a + j \in DOMAIN c /\ c[a + i] = c[a + j]
      BY <1>1, <1>2, <1>12, <1>16
    <2>2. a + i = a + j
      BY <1>16, <2>1 DEF IsInjective
    <2> QED  BY <1>3, <2>2
  <1>17. ASSUME a < n
         PROVE  page # <<>>
    <2>1. k # 0
      BY <1>3, <1>4, <1>11, <1>17
    <2> QED  BY <1>10, <2>1
  <1> QED  BY <1>2, <1>7, <1>9, <1>11, <1>15, <1>16, <1>17 DEF IsInjective

\* As many elements of a list without repetitions as places.
LEMMA CountOf ==
    ASSUME NEW c, IsInjective(c), NEW m \in Nat, 1..m \subseteq DOMAIN c
    PROVE  Cardinality({c[i] : i \in 1..m}) = m
  <1>1. PICK T : T = {c[i] : i \in 1..m}
    OBVIOUS
  <1>2. PICK f : f = [i \in 1..m |-> c[i]]
    OBVIOUS
  <1>3. f \in Bijection(1..m, T)
    <2>1. f \in [1..m -> T] /\ \A x \in T : \E i \in 1..m : f[i] = x
      BY <1>1, <1>2
    <2>2. \A i, j \in 1..m : f[i] = f[j] => i = j
      BY <1>2 DEF IsInjective
    <2> QED  BY <2>1, <2>2 DEF Bijection, Injection, Surjection, IsInjective
  <1>4. IsFiniteSet(1..m) /\ Cardinality(1..m) = m
    <2>1. 1 \in Int /\ m \in Int
      OBVIOUS
    <2>2. IsFiniteSet(1..m) /\ Cardinality(1..m) = IF 1 > m THEN 0 ELSE m - 1 + 1
      BY <2>1, FS_Interval
    <2> QED  BY <2>2
  <1> QED  BY <1>1, <1>3, <1>4, FS_Bijection DEF ExistsBijection

\* The first so many places of a listing, page by page.
LEMMA PlacesCover ==
    ASSUME NEW n \in Nat, NEW t \in Nat
    PROVE  \A i : (\E p \in 0..(t - 1) : i \in Places(n, p)) <=>
                  i \in 1..n /\ i =< t * PageSize
  <1>1. PageSize \in Nat /\ PageSize > 0
    BY SearchAssumption
  <1>2. ASSUME NEW p \in 0..(t - 1), NEW i \in Places(n, p)
        PROVE  i \in 1..n /\ i =< t * PageSize
    <2>1. i \in 1..n /\ i =< (p + 1) * PageSize
      BY DEF Places
    <2>2. (p + 1) * PageSize =< t * PageSize /\ t * PageSize \in Nat /\ (p + 1) * PageSize \in Nat
      <3>1. p + 1 =< t /\ p + 1 \in Nat
        OBVIOUS
      <3> QED  BY <1>1, <3>1
    <2> QED  BY <2>1, <2>2
  <1>3. ASSUME NEW i \in 1..n, i =< t * PageSize
        PROVE  \E p \in 0..(t - 1) : i \in Places(n, p)
    <2>1. PICK x, p, r : x = i - 1 /\ p = x \div PageSize /\ r = x % PageSize
      OBVIOUS
    <2>2. x \in Nat /\ i = x + 1
      BY <2>1
    <2>3. p \in Nat /\ r \in 0..(PageSize - 1) /\ x = PageSize * p + r
      <3>1. x = PageSize * (x \div PageSize) + (x % PageSize) /\ x % PageSize \in 0..(PageSize - 1)
        BY <1>1, <2>2
      <3>2. x \div PageSize \in Nat
        BY <1>1, <2>2, Division
      <3> QED  BY <2>1, <3>1, <3>2
    <2>4. p * PageSize \in Nat /\ PageSize * p = p * PageSize
          /\ (p + 1) * PageSize = p * PageSize + PageSize
      BY <1>1, <2>3
    <2>5. p * PageSize < i /\ i =< (p + 1) * PageSize
      BY <1>1, <2>2, <2>3, <2>4
    <2>6. p < t
      <3> SUFFICES ASSUME t =< p
                   PROVE  FALSE
        BY <2>3
      <3>1. t * PageSize =< p * PageSize /\ t * PageSize \in Nat
        BY <1>1, <2>3
      <3> QED  BY <1>3, <2>2, <2>4, <2>5, <3>1
    <2>7. p \in 0..(t - 1)
      BY <2>3, <2>6
    <2> QED  BY <2>5, <2>7 DEF Places
  <1> QED  BY <1>2, <1>3

\* No place is on two pages.
LEMMA PlacesApart ==
    ASSUME NEW n \in Nat, NEW p \in Nat, NEW q \in Nat, p # q
    PROVE  Places(n, p) \cap Places(n, q) = {}
  <1>1. PageSize \in Nat /\ PageSize > 0
    BY SearchAssumption
  <1>2. ASSUME NEW a \in Nat, NEW b \in Nat, a < b
        PROVE  Places(n, a) \cap Places(n, b) = {}
    <2>1. (a + 1) * PageSize =< b * PageSize
      BY <1>1, <1>2
    <2>2. PICK x, y : x = (a + 1) * PageSize /\ y = b * PageSize
      OBVIOUS
    <2>3. x \in Nat /\ y \in Nat /\ x =< y
      BY <1>1, <2>1, <2>2
    <2>4. \A i \in 1..n : ~(i =< x /\ y < i)
      BY <2>3
    <2> QED  BY <2>2, <2>4 DEF Places
  <1>3. p < q \/ q < p
    OBVIOUS
  <1> QED  BY <1>2, <1>3

-----------------------------------------------------------------------------
(* Search: its invariant SearchInv.  What a client has got while the site     *)
(* answered the same are pages of the listing made from that answer.         *)

Fetched(D) ==
    LET c == Combined({})
    IN  search = [total |-> TotalPages(Len(c)), pages |-> [p \in D |-> PageOf(c, p)],
                  tooLong |-> Cardinality(Found \cap TooLong), same |-> TRUE]

SearchInv ==
    /\ DOMAIN search = DOMAIN NoSearch
    /\ site \in [Filters -> Seq(Hits)]
    /\ search.same =>
         \/ search = NoSearch
         \/ \E D \in SUBSET (0..(TotalPages(Len(Combined({}))) - 1)) : D # {} /\ Fetched(D)

\* The listing and what was found depend on the site alone.
LEMMA SameSite ==
    ASSUME UNCHANGED site
    PROVE  Combined({})' = Combined({}) /\ Found' = Found
  BY DEF Combined, Found

LEMMA SearchInvInit == SearchInit => SearchInv
  BY SearchAssumption DEF SearchInit, SearchInv

\* A page that is fetched is one of the listing's.
LEMMA SearchPageKeeps ==
    ASSUME SearchInv, NEW asked \in Nat, NEW unread \in SUBSET Filters, SearchPage(asked, unread)
    PROVE  SearchInv'
  <1>1. site' = site
    BY DEF SearchPage
  <1>2. PICK c, t, page, old, sum :
           /\ c = Combined(unread) /\ t = TotalPages(Len(c)) /\ page = Min({asked, t - 1})
           /\ old = IF asked = 0 THEN {} ELSE DOMAIN search.pages
           /\ sum = Cardinality(UNION {Filtered(site[k]) : k \in Filters \ unread})
    OBVIOUS
  <1>3. /\ asked \in Offered
        /\ search' = [total |-> t,
                      pages |-> [p \in old \cup {page} |->
                                   IF p = page THEN PageOf(c, page) ELSE search.pages[p]],
                      tooLong |-> sum,
                      same |-> unread = {} /\ (asked = 0 \/ search.same)]
    BY <1>2, Zenon DEF SearchPage
  <1>4. DOMAIN search' = DOMAIN NoSearch
    BY <1>3 DEF NoSearch
  <1>5. CASE ~(unread = {} /\ (asked = 0 \/ search.same))
    <2>1. ~search'.same
      BY <1>3, <1>5
    <2> QED  BY <1>1, <1>4, <2>1 DEF SearchInv
  <1>6. CASE unread = {} /\ (asked = 0 \/ search.same)
    <2>1. /\ c = Combined({}) /\ c \in Seq(Hits)
      BY <1>2, <1>6, CombinedIs DEF SearchInv
    <2>2. t \in Nat \ {0}
      <3>1. Len(c) \in Nat
        BY <2>1
      <3>2. TotalPages(Len(c)) \in Nat \ {0}
        BY <3>1, PagesNeeded
      <3> QED  BY <1>2, <3>2
    <2>3. page \in 0..(t - 1)
      <3>1. page = IF asked =< t - 1 THEN asked ELSE t - 1
        BY <1>2, <2>2, MinOf
      <3> QED  BY <2>2, <3>1
    <2>4. sum = Cardinality(Found \cap TooLong)
      <3>1. UNION {Filtered(site[k]) : k \in Filters \ unread} = Found \cap TooLong
        BY <1>6 DEF Found, Filtered
      <3> QED  BY <1>2, <3>1
    <2>5. /\ old \subseteq 0..(t - 1)
          /\ \A p \in old : search.pages[p] = PageOf(c, p)
      <3>1. CASE asked = 0
        BY <1>2, <3>1
      <3>2. CASE asked # 0
        <4>1. search # NoSearch
          <5>1. ASSUME search = NoSearch
                PROVE  FALSE
            <6>1. Offered = {0}
              BY <5>1 DEF Offered, NoSearch
            <6> QED  BY <1>3, <3>2, <6>1
          <5> QED  BY <5>1
        <4>2. PICK D \in SUBSET (0..(TotalPages(Len(Combined({}))) - 1)) : Fetched(D)
          BY <1>6, <3>2, <4>1 DEF SearchInv
        <4>3. D \subseteq 0..(t - 1)
          BY <1>2, <2>1, <4>2
        <4>4. search.pages = [p \in D |-> PageOf(c, p)]
          BY <2>1, <4>2 DEF Fetched
        <4> QED  BY <1>2, <3>2, <4>3, <4>4
      <3> QED  BY <3>1, <3>2
    <2>6. PICK D : D = old \cup {page}
      OBVIOUS
    <2>7. [p \in D |-> IF p = page THEN PageOf(c, page) ELSE search.pages[p]]
            = [p \in D |-> PageOf(c, p)]
      BY <2>5, <2>6
    <2>8. search' = [total |-> t, pages |-> [p \in D |-> PageOf(c, p)],
                     tooLong |-> Cardinality(Found \cap TooLong), same |-> TRUE]
      BY <1>3, <1>6, <2>4, <2>6, <2>7
    <2>9. Combined({})' = c /\ Found' = Found
      BY <1>1, <2>1, SameSite
    <2>10. Fetched(D)'
      BY <1>2, <2>8, <2>9 DEF Fetched
    <2>11. D \in SUBSET (0..(TotalPages(Len(Combined({}))') - 1)) /\ D # {}
      BY <1>2, <2>3, <2>5, <2>6, <2>9
    <2> QED  BY <1>1, <1>4, <2>10, <2>11 DEF SearchInv
  <1> QED  BY <1>5, <1>6

LEMMA SearchInvStep == SearchInv /\ [SearchNext]_searchVars => SearchInv'
  <1> SUFFICES ASSUME SearchInv, [SearchNext]_searchVars
               PROVE  SearchInv'
    OBVIOUS
  <1>1. CASE UNCHANGED searchVars
    <2>1. site' = site /\ search' = search
      BY <1>1 DEF searchVars
    <2>2. Combined({})' = Combined({}) /\ Found' = Found
      BY <2>1, SameSite
    <2> QED  BY <2>1, <2>2 DEF SearchInv, Fetched
  <1>2. ASSUME NEW v \in Hits, SearchDirectly(v)
        PROVE  SearchInv'
    <2>1. site' = site /\ ~search'.same /\ DOMAIN search' = DOMAIN NoSearch
      BY <1>2 DEF SearchDirectly, NoSearch
    <2> QED  BY <2>1 DEF SearchInv
  <1>3. CASE SiteChanges
    <2>1. PICK k \in Filters : /\ site[k] # <<>>
                               /\ site' = [site EXCEPT ![k] = Tail(@)]
                               /\ search' = [search EXCEPT !.same = FALSE]
      BY <1>3 DEF SiteChanges
    <2>2. Tail(site[k]) \in Seq(Hits)
      BY <2>1, HeadTailProperties DEF SearchInv
    <2>3. site' \in [Filters -> Seq(Hits)]
      BY <2>1, <2>2 DEF SearchInv
    <2>4. ~search'.same /\ DOMAIN search' = DOMAIN NoSearch
      BY <2>1 DEF SearchInv, NoSearch
    <2> QED  BY <2>3, <2>4 DEF SearchInv
  <1>4. ASSUME NEW asked \in 0..MaxPages, NEW unread \in SUBSET Filters,
               SearchPage(asked, unread)
        PROVE  SearchInv'
    BY <1>4, SearchPageKeeps, SearchAssumption
  <1> QED  BY <1>1, <1>2, <1>3, <1>4 DEF SearchNext

\* What has been got of a listing complements one another.
LEMMA FetchedIsComplete ==
    ASSUME SearchInv, NEW D \in SUBSET (0..(TotalPages(Len(Combined({}))) - 1)), D # {}, Fetched(D)
    PROVE  PagesComplete
  <1>1. PICK c, n : c = Combined({}) /\ n = Len(c)
    OBVIOUS
  <1>2. /\ c \in Seq(Hits) /\ IsInjective(c) /\ ToSet(c) = Found \ TooLong
        /\ n \in Nat /\ DOMAIN c = 1..n
    <2>1. /\ c \in Seq(Hits) /\ IsInjective(c) /\ ToSet(c) = Found \ TooLong
      BY <1>1, CombinedIs DEF SearchInv
    <2> QED  BY <1>1, <2>1
  <1>3. PICK t \in Nat \ {0} :
           /\ TotalPages(n) = t /\ t =< MaxPages
           /\ t > 1 => \A p \in 0..(t - 1) : p * PageSize < n
           /\ n =< t * PageSize \/ t = MaxPages
    BY <1>2, PagesNeeded
  <1>4. /\ search.total = t /\ search.pages = [p \in D |-> PageOf(c, p)]
        /\ search.tooLong = Cardinality(Found \cap TooLong)
        /\ D \subseteq 0..(t - 1)
    BY <1>1, <1>3 DEF Fetched
  <1>5. DOMAIN search.pages = D /\ \A p \in D : search.pages[p] = PageOf(c, p)
    BY <1>4
  <1>6. ASSUME NEW p \in D
        PROVE  /\ search.total > 1 => search.pages[p] # <<>>
               /\ IsInjective(search.pages[p])
               /\ ToSet(search.pages[p]) = {c[i] : i \in Places(n, p)}
    <2>1. p \in Nat /\ p \in 0..(t - 1)
      BY <1>4
    <2>2. /\ ToSet(PageOf(c, p)) = {c[i] : i \in Places(n, p)}
          /\ IsInjective(PageOf(c, p))
          /\ p * PageSize < n => PageOf(c, p) # <<>>
      <3>1. /\ ToSet(PageOf(c, p)) = {c[i] : i \in Places(Len(c), p)}
            /\ IsInjective(c) => IsInjective(PageOf(c, p))
            /\ p * PageSize < Len(c) => PageOf(c, p) # <<>>
        BY ZenonT(40), <1>2, <2>1, PageIs
      <3>2. n = Len(c)
        BY <1>1
      <3> QED  BY <1>2, <3>1, <3>2
    <2> QED  BY <1>3, <1>4, <1>5, <2>1, <2>2
  <1>7. ASSUME NEW p \in D, NEW q \in D \ {p}
        PROVE  ToSet(search.pages[p]) \cap ToSet(search.pages[q]) = {}
    <2>1. Places(n, p) \cap Places(n, q) = {}
      <3>1. p \in Nat /\ q \in Nat /\ p # q
        BY <1>4
      <3> QED  BY <1>2, <3>1, PlacesApart
    <2>2. \A i \in Places(n, p), j \in Places(n, q) : c[i] # c[j]
      <3>1. \A i \in Places(n, p), j \in Places(n, q) : i \in DOMAIN c /\ j \in DOMAIN c /\ i # j
        BY <1>2, <2>1 DEF Places
      <3> QED  BY <1>2, <3>1 DEF IsInjective
    <2>3. /\ ToSet(search.pages[p]) = {c[i] : i \in Places(n, p)}
          /\ ToSet(search.pages[q]) = {c[i] : i \in Places(n, q)}
      BY <1>6
    <2> QED  BY <2>2, <2>3
  <1>8. PICK shown : shown = UNION {ToSet(search.pages[p]) : p \in DOMAIN search.pages}
    OBVIOUS
  <1>9. Cardinality(Found \ TooLong) = n
    <2>1. ToSet(c) = {c[i] : i \in 1..n}
      BY <1>2 DEF ToSet
    <2>2. Cardinality({c[i] : i \in 1..n}) = n
      BY <1>2, CountOf
    <2> QED  BY <1>2, <2>1, <2>2
  <1>10. ASSUME D = 0..(t - 1)
         PROVE  Cardinality(shown) = Min({n, MaxPages * PageSize})
    <2>1. MaxPages \in Nat /\ PageSize \in Nat
      BY SearchAssumption
    <2>2. PICK x, y : x = t * PageSize /\ y = MaxPages * PageSize
      OBVIOUS
    <2>3. x \in Nat /\ y \in Nat /\ x =< y /\ (n =< x \/ x = y)
      BY <1>3, <2>1, <2>2
    <2>4. PICK m : m = IF n =< y THEN n ELSE y
      OBVIOUS
    <2>5. m \in Nat /\ m =< n /\ \A i \in 1..n : i =< m <=> i =< x
      BY <1>2, <2>3, <2>4
    <2>6. Min({n, y}) = m
      BY <1>2, <2>3, <2>4, MinOf
    <2>7. shown = {c[i] : i \in 1..m}
      <3>1. \A i : (\E p \in 0..(t - 1) : i \in Places(n, p)) <=> i \in 1..m
        <4>1. \A i : (\E p \in 0..(t - 1) : i \in Places(n, p)) <=> i \in 1..n /\ i =< x
          BY <1>2, <1>3, <2>2, PlacesCover
        <4>2. \A i : i \in 1..n /\ i =< x <=> i \in 1..m
          BY <1>2, <2>5
        <4> QED  BY <4>1, <4>2
      <3>2. \A v : v \in shown <=> \E p \in D : v \in ToSet(search.pages[p])
        BY <1>5, <1>8
      <3>3. \A v : v \in shown <=> \E p \in 0..(t - 1) : \E i \in Places(n, p) : v = c[i]
        <4>1. \A p \in D : \A v : v \in ToSet(search.pages[p]) <=>
                                    \E i \in Places(n, p) : v = c[i]
          <5> SUFFICES ASSUME NEW p \in D
                       PROVE  \A v : v \in ToSet(search.pages[p]) <=>
                                      \E i \in Places(n, p) : v = c[i]
            OBVIOUS
          <5>1. ToSet(search.pages[p]) = {c[i] : i \in Places(n, p)}
            BY <1>6
          <5> QED  BY <5>1
        <4>2. \A v : v \in shown <=> \E p \in D : \E i \in Places(n, p) : v = c[i]
          <5> SUFFICES ASSUME NEW v
                       PROVE  v \in shown <=> \E p \in D : \E i \in Places(n, p) : v = c[i]
            OBVIOUS
          <5>1. v \in shown <=> \E p \in D : v \in ToSet(search.pages[p])
            BY <3>2
          <5>2. \A p \in D : v \in ToSet(search.pages[p]) <=> \E i \in Places(n, p) : v = c[i]
            BY <4>1
          <5> QED  BY <5>1, <5>2, Zenon
        <4> QED  BY ONLY <1>10, <4>2
      <3> QED  BY <3>1, <3>3
    <2>8. Cardinality({c[i] : i \in 1..m}) = m
      <3>1. 1..m \subseteq DOMAIN c
        BY <1>2, <2>5
      <3> QED  BY <1>2, <2>5, <3>1, CountOf
    <2> QED  BY <2>2, <2>6, <2>7, <2>8
  <1>11. search.pages # <<>>
    BY <1>5
  <1>12. DOMAIN search.pages \subseteq 0..(search.total - 1)
    BY ONLY <1>4, <1>5
  <1>13. \A p \in DOMAIN search.pages :
            /\ search.total > 1 => search.pages[p] # <<>>
            /\ IsInjective(search.pages[p])
            /\ \A q \in DOMAIN search.pages \ {p} :
                 ToSet(search.pages[p]) \cap ToSet(search.pages[q]) = {}
    BY ONLY <1>5, <1>6, <1>7
  <1>14. DOMAIN search.pages = 0..(search.total - 1) =>
            Cardinality(shown) = Min({Cardinality(Found \ TooLong), MaxPages * PageSize})
    BY ONLY <1>4, <1>5, <1>9, <1>10
  <1>15. search.tooLong = Cardinality(Found \cap TooLong)
    BY <1>4
  <1> QED  BY <1>8, <1>11, <1>12, <1>13, <1>14, <1>15 DEF PagesComplete, Found

\* While the site answers the same, the pages a client gets hold every video that was found
\* and is short enough, once, as far as the pages go; for every site, page size and number
\* of filters.
THEOREM PagesAreComplete == SearchSpec => []PagesComplete
  <1>1. SearchInv => PagesComplete
    <2>1. CASE search = NoSearch
      <3>1. search.pages = <<>> /\ search.total = 0 /\ DOMAIN search.pages = {}
        BY <2>1 DEF NoSearch
      <3>2. UNION {ToSet(search.pages[p]) : p \in DOMAIN search.pages} = {}
        BY <3>1
      <3> QED  BY <3>1, <3>2, FS_EmptySet DEF PagesComplete, NoSearch
    <2>2. CASE ~search.same
      BY <2>2 DEF PagesComplete
    <2> QED  BY <2>1, <2>2, FetchedIsComplete DEF SearchInv
  <1> QED  BY <1>1, SearchInvInit, SearchInvStep, PTL DEF SearchSpec
=============================================================================
