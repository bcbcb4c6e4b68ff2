------------------------------ MODULE Downloads ------------------------------
(***************************************************************************)
(* The conversions of one video (web_app/tubio/audio_downloader.py), what   *)
(* they share through Redis, and the event streams that report on them      *)
(* (web_app/tubio/routes/downloads.py).                                     *)
(*                                                                          *)
(* cache_audio converts under a claim: a key set if absent, with a lifetime *)
(* and a token, which is read and deleted in two commands.  youtube_download *)
(* and resync_audio convert without one.  Every conversion of the video     *)
(* writes the same progress record, and every stream that has reported the  *)
(* end of one deletes it.  Redis commands are the steps.  What conversions  *)
(* do to records and audio files is module Tubio's subject; here it is the  *)
(* files that each leaves behind.                                           *)
(***************************************************************************)
EXTENDS Naturals, FiniteSets

CONSTANTS
    Workers,        \* request threads that convert the video
    Streams,        \* clients that follow the conversion
    MaxRequests,    \* bound: requests to convert
    MaxErrors       \* bound: Redis errors and deaths of workers

NoWorker == "nobody"
Orphan == "token of a request that is gone"

\* Tokens are of requests, so neither of the two is a worker.
ASSUME DownloadAssumption == NoWorker \notin Workers /\ Orphan \notin Workers

VARIABLES
    job,        \* of each worker: the request it is in
    claim,      \* the owner of the claim's token, if there is a claim
    progress,   \* the progress record, if there is one
    stream,     \* of each stream: where it is, what it told, and which
                \* conversion it follows
    requests, errors,
    slipped     \* whether a claim ran out between its reading and deletion

conversion == <<job, claim, requests, errors, slipped>>
downloadVars == <<conversion, progress, stream>>

NoRequest == [step |-> "idle", kind |-> "none", files |-> {}, saved |-> FALSE,
              wrong |-> "nothing", lapsed |-> FALSE]
Closed == [at |-> "closed", told |-> "nothing", watches |-> NoWorker]
NoProgress == [status |-> "none", by |-> NoWorker, lasts |-> FALSE]

DownloadInit ==
    /\ job = [w \in Workers |-> NoRequest]
    /\ claim = NoWorker
    /\ progress = NoProgress
    /\ stream = [s \in Streams |-> Closed]
    /\ requests = 0 /\ errors = 0
    /\ slipped = FALSE

Running == {w \in Workers :
              job[w].step \in {"fetch", "convert", "place", "save", "finish", "report"}}

\* Bookkeeping: streams no longer follow one conversion undisturbed.
Disturbed(S) ==
    [s \in Streams |-> IF s \in S THEN [stream[s] EXCEPT !.watches = NoWorker]
                       ELSE stream[s]]

At(w, step) == job[w].step = step
Step(w, step) == job' = [job EXCEPT ![w].step = step]
GoWith(w, step, files) ==
    job' = [job EXCEPT ![w].step = step, ![w].files = files]

RedisFails == errors < MaxErrors /\ errors' = errors + 1

\* Faulty variant: the record has no lifetime.
PersistForever(w, status) ==
    progress' = [status |-> status, by |-> w, lasts |-> TRUE]

\* DownloadProgress._persist
Persist(w, status) ==
    progress' = [status |-> status, by |-> w, lasts |-> FALSE]

-----------------------------------------------------------------------------
(* A request.                                                              *)

\* cache_audio claims the conversion, or finds it in progress; the others
\* do not ask.
Request(w, kind) ==
    /\ At(w, "idle") /\ requests < MaxRequests
    /\ kind = "cache" => claim = NoWorker
    /\ claim' = IF kind = "cache" THEN w ELSE claim
    /\ job' = [job EXCEPT ![w] =
                 [NoRequest EXCEPT !.step = "begin", !.kind = kind]]
    /\ requests' = requests + 1
    /\ stream' = Disturbed({s \in Streams : stream[s].watches = w})
    /\ UNCHANGED <<progress, errors, slipped>>

\* DownloadProgress.start
Start(w) ==
    /\ At(w, "begin")
    /\ Persist(w, "starting")
    /\ Step(w, "fetch")
    /\ stream' = Disturbed(Streams)
    /\ UNCHANGED <<claim, requests, errors, slipped>>

\* It raises, before the handler that cleans up is in place.
StartFails(w) ==
    /\ At(w, "begin")
    /\ RedisFails
    /\ Step(w, "release")
    /\ UNCHANGED <<claim, progress, stream, requests, slipped>>

\* The hook of a download, or of its second attempt as another player client.
Hook(w) ==
    /\ At(w, "fetch")
    /\ Persist(w, "downloading")
    /\ GoWith(w, "fetch", {"part"})
    /\ UNCHANGED <<claim, stream, requests, errors, slipped>>

HookFinished(w) ==
    /\ At(w, "fetch") /\ job[w].files = {"part"}
    /\ Persist(w, "processing")
    /\ Step(w, "convert")
    /\ UNCHANGED <<claim, stream, requests, errors, slipped>>

\* The postprocessor of yt-dlp leaves the converted file only.
Convert(w) ==
    /\ At(w, "convert")
    /\ GoWith(w, "place", {"converted"})
    /\ UNCHANGED <<claim, progress, stream, requests, errors, slipped>>

\* _download_to_temp raises: not even its caller knows what there is.
DownloadFails(w) ==
    /\ At(w, "fetch") \/ At(w, "convert")
    /\ job' = [job EXCEPT ![w].step = "report", ![w].wrong = "download"]
    /\ UNCHANGED <<claim, progress, stream, requests, errors, slipped>>

Place(w) ==
    /\ At(w, "place")
    /\ GoWith(w, "save", {"output"})
    /\ UNCHANGED <<claim, progress, stream, requests, errors, slipped>>

\* Faulty variant: the end is reported before the record is saved.
SaveAndTell(w) ==
    /\ At(w, "save")
    /\ Persist(w, "complete")
    /\ Step(w, "save")
    /\ UNCHANGED <<claim, stream, requests, errors, slipped>>

\* The record is saved, and the output is the library's.
SaveTrack(w) ==
    /\ At(w, "save")
    /\ job' = [job EXCEPT ![w].step = "finish", ![w].files = {}, ![w].saved = TRUE]
    /\ UNCHANGED <<claim, progress, stream, requests, errors, slipped>>

\* The move, the lock of the metadata or the record's absence raises.
SaveFails(w) ==
    /\ At(w, "place") \/ At(w, "save")
    /\ Step(w, "report")
    /\ UNCHANGED <<claim, progress, stream, requests, errors, slipped>>

Finish(w) ==
    /\ At(w, "finish")
    /\ Persist(w, "complete")
    /\ Step(w, "release")
    /\ UNCHANGED <<claim, stream, requests, errors, slipped>>

\* What is saved is reported as an error.
FinishFails(w) ==
    /\ At(w, "finish")
    /\ RedisFails
    /\ job' = [job EXCEPT ![w].step = "report", ![w].wrong = "finish"]
    /\ UNCHANGED <<claim, progress, stream, requests, slipped>>

\* The handler reports first.
Report(w) ==
    /\ At(w, "report")
    /\ Persist(w, "error")
    /\ Step(w, "clean up")
    /\ UNCHANGED <<claim, stream, requests, errors, slipped>>

\* And if it cannot, does nothing else.
ReportFails(w) ==
    /\ At(w, "report")
    /\ RedisFails
    /\ job' = [job EXCEPT ![w].step = "release", ![w].wrong = "redis"]
    /\ UNCHANGED <<claim, progress, stream, requests, slipped>>

\* Faulty variant: only the converted file is removed.
CleanUpConverted(w) ==
    /\ At(w, "clean up")
    /\ GoWith(w, "release", job[w].files \ {"converted"})
    /\ UNCHANGED <<claim, progress, stream, requests, errors, slipped>>

CleanUp(w) ==
    /\ At(w, "clean up")
    /\ GoWith(w, "release", job[w].files \ {"converted", "output"})
    /\ UNCHANGED <<claim, progress, stream, requests, errors, slipped>>

\* The request is over; how it went is remembered for the streams that follow it.
End(w) ==
    job' = [job EXCEPT ![w] =
              IF \E s \in Streams : stream[s].watches = w
                THEN [NoRequest EXCEPT !.saved = job[w].saved, !.wrong = job[w].wrong]
                ELSE NoRequest]

\* Faulty variant: the claim is deleted whoever holds it.
ReleaseAny(w) ==
    /\ At(w, "release")
    /\ IF job[w].kind = "cache"
         THEN Step(w, "delete")
         ELSE End(w)
    /\ UNCHANGED <<claim, progress, stream, requests, errors, slipped>>

\* cache_audio: the token is compared.
Release(w) ==
    /\ At(w, "release")
    /\ IF job[w].kind = "cache" /\ claim = w
         THEN Step(w, "delete")
         ELSE End(w)
    /\ UNCHANGED <<claim, progress, stream, requests, errors, slipped>>

\* And the claim is deleted, which is somebody else's if it ran out meanwhile.
Delete(w) ==
    /\ At(w, "delete")
    /\ claim' = NoWorker
    /\ slipped' = (slipped \/ (claim # w /\ ~job[w].lapsed))
    /\ End(w)
    /\ UNCHANGED <<progress, stream, requests, errors>>

ReleaseFails(w) ==
    /\ At(w, "release") \/ At(w, "delete")
    /\ RedisFails
    /\ claim' = IF claim = w THEN Orphan ELSE claim
    /\ End(w)
    /\ UNCHANGED <<progress, stream, requests, slipped>>

\* The worker dies: claim and record stay.
WorkerDies(w) ==
    /\ ~At(w, "idle")
    /\ RedisFails
    /\ End(w)
    /\ claim' = IF claim = w THEN Orphan ELSE claim
    /\ UNCHANGED <<progress, stream, requests, slipped>>

\* The claim's lifetime ends; its owner may still convert, or be about to
\* delete it.
ExpireClaim ==
    /\ claim # NoWorker
    /\ claim' = NoWorker
    /\ job' = [w \in Workers |->
                 [job[w] EXCEPT !.lapsed = @ \/ (claim = w /\ ~At(w, "delete"))]]
    /\ UNCHANGED <<progress, stream, requests, errors, slipped>>

-----------------------------------------------------------------------------
(* The streams.                                                            *)

\* Bookkeeping: a stream follows the conversion that the record is of, when
\* that is the only one.
Open(s) ==
    /\ stream[s].at = "closed"
    /\ stream' = [stream EXCEPT ![s] =
                    [at |-> "polling", told |-> "nothing",
                     watches |-> IF Running = {progress.by} THEN progress.by
                                 ELSE NoWorker]]
    /\ UNCHANGED <<conversion, progress>>

\* download_progress: no record, or the end of the conversion.
Poll(s) ==
    /\ stream[s].at = "polling"
    /\ \/ /\ progress.status = "none"
          /\ stream' = [stream EXCEPT ![s].at = "closed", ![s].told = "not_found"]
       \/ /\ progress.status \in {"complete", "error"}
          /\ stream' = [stream EXCEPT ![s].at = "told",
                                      ![s].told = progress.status]
    /\ UNCHANGED <<conversion, progress>>

\* clear_download_progress, of whatever the record says by now.
Clear(s) ==
    /\ stream[s].at = "told"
    /\ progress' = NoProgress
    /\ stream' = [(IF progress = NoProgress THEN stream ELSE Disturbed(Streams \ {s}))
                    EXCEPT ![s] = Closed]
    /\ UNCHANGED conversion

\* The client goes away.
Leave(s) ==
    /\ stream[s].at \in {"polling", "told"}
    /\ stream' = [stream EXCEPT ![s] = Closed]
    /\ UNCHANGED <<conversion, progress>>

\* The record has not been written for as long as it lives.
ExpireProgress ==
    /\ progress # NoProgress /\ ~progress.lasts
    /\ progress' = NoProgress
    /\ stream' = Disturbed(Streams)
    /\ UNCHANGED conversion

-----------------------------------------------------------------------------
\* A step of a request that works.
Work(w) ==
    \/ Start(w) \/ HookFinished(w) \/ Convert(w) \/ Place(w)
    \/ SaveTrack(w) \/ Finish(w) \/ Report(w) \/ CleanUp(w) \/ Release(w) \/ Delete(w)

DownloadNext ==
    \/ \E w \in Workers :
        \/ Request(w, "cache") \/ Request(w, "download") \/ Hook(w) \/ Work(w)
        \/ StartFails(w) \/ DownloadFails(w) \/ SaveFails(w) \/ FinishFails(w)
        \/ ReportFails(w) \/ ReleaseFails(w) \/ WorkerDies(w)
    \/ \E s \in Streams : Open(s) \/ Poll(s) \/ Clear(s) \/ Leave(s)
    \/ ExpireClaim \/ ExpireProgress

\* Streams poll, requests get on, a download included, and what is not
\* written runs out.
DownloadFairness ==
    /\ \A s \in Streams : WF_downloadVars(Poll(s))
    /\ \A w \in Workers : WF_downloadVars(Work(w) \/ DownloadFails(w))
    /\ WF_downloadVars(ExpireProgress)

DownloadSpec == DownloadInit /\ [][DownloadNext]_downloadVars /\ DownloadFairness

-----------------------------------------------------------------------------
\* Two claimed conversions of a track run at once (media.py:429) only while
\* one of them has outlived its claim, or after a claim ran out between the
\* comparison of its token and its deletion (media.py:454) and the next one
\* was deleted in its place.
ClaimsExclusive ==
    \A v, w \in {r \in Running : job[r].kind = "cache"} :
        v # w => job[v].lapsed \/ job[w].lapsed \/ slipped

\* A stream that follows one conversion, undisturbed by another conversion of
\* the video, by the end of another stream or by the record's lifetime, is told
\* how that conversion went (audio_downloader.py:638): complete if its record
\* was saved; error if not, or if it was the report of completion that failed;
\* and never that there is none.
ToldTruly ==
    \A s \in Streams :
        LET of == job[stream[s].watches]
        IN  stream[s].watches # NoWorker =>
              /\ stream[s].told = "complete" => of.saved
              /\ stream[s].told = "error" => ~of.saved \/ of.wrong = "finish"
              /\ stream[s].told # "not_found"

\* A request that fails leaves no file behind (audio_downloader.py:640 and
\* :695), but what yt-dlp had when it failed, and what it had when Redis failed
\* the handler in its first line.
NoLitter ==
    \A w \in Workers : At(w, "release") /\ job[w].files # {} =>
        \/ job[w].wrong = "redis"
        \/ job[w].wrong = "download" /\ job[w].files = {"part"}

\* A stream ends, even when the worker whose conversion it follows has died:
\* the record it waits for has a lifetime (audio_downloader.py:67).
StreamsEnd ==
    \A s \in Streams : stream[s].at = "polling" ~> stream[s].at # "polling"
=============================================================================
