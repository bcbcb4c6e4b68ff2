----------------------------- MODULE MCStreams -----------------------------
(* Instances of Downloads, Archive, Search and Thumbnails for TLC: what       *)
(* requests do to answer while others run.  Each runs on its own, and         *)
(* Downloads twice: three requests that nobody follows, and two requests      *)
(* without a claim that two streams follow.                                   *)
EXTENDS Downloads, Archive, Search, Thumbnails, TLC

\* The first filter brings back 1, 2 and the long video 3, or nothing; the second
\* any three videos at most.
MCSites == {[k \in {1, 2} |-> IF k = 1 THEN SubSeq(<<1, 2, 3>>, 1, n) ELSE more] :
              n \in {0, 3}, more \in BoundedSeq(1..6, 3)}

VARIABLE part

PartsInit ==
    /\ part \in {"claims", "streams", "archive", "search", "thumbnails"}
    /\ DownloadInit /\ ArchiveInit /\ SearchInit /\ ThumbnailInit
    /\ part # "search" => \A k \in Filters : site[k] = <<>>

Downloading(only) ==
    /\ DownloadNext /\ only
    /\ UNCHANGED <<archiveVars, searchVars, thumbnailVars>>

PartsNext ==
    /\ UNCHANGED part
    /\ \/ /\ part = "claims"
          /\ Downloading(\A s \in Streams : stream'[s].at = "closed")
       \/ /\ part = "streams"
          /\ Downloading(requests' =< 2 /\ claim' = NoWorker)
       \/ /\ part = "archive"
          /\ ArchiveNext
          /\ UNCHANGED <<downloadVars, searchVars, thumbnailVars>>
       \/ /\ part = "search"
          /\ SearchNext
          /\ UNCHANGED <<downloadVars, archiveVars, thumbnailVars>>
       \/ /\ part = "thumbnails"
          /\ ThumbnailNext
          /\ UNCHANGED <<downloadVars, archiveVars, searchVars>>

PartsSpec ==
    /\ PartsInit
    /\ [][PartsNext]_<<part, downloadVars, archiveVars, searchVars, thumbnailVars>>
    /\ DownloadFairness /\ ArchiveFairness
=============================================================================
