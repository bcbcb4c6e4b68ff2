------------------------------- MODULE Archive -------------------------------
(***************************************************************************)
(* The streamed archive of a folder (web_app/file_store/__init__.py,        *)
(* download_folder): a thread writes the archive into a bounded queue and   *)
(* the response takes it out.  A file is one chunk; the archive's directory *)
(* is the last.  zipfile is modelled as download_folder relies on it: it    *)
(* writes the directory of what it has when it is closed, after an error    *)
(* too.                                                                     *)
(***************************************************************************)
EXTENDS Naturals, Sequences

CONSTANTS
    FileCount,      \* number of files in the folder
    QueueChunks     \* archive_stream_queue_chunks

ASSUME ArchiveAssumption == FileCount \in Nat /\ QueueChunks \in Nat \ {0}

\* The files below the folder when it is listed, by their places in the list.
Folder == 1..FileCount
Directory == FileCount + 1
Nothing == 0        \* None, which ends the stream

VARIABLES
    queue,      \* output
    writer,     \* what the writer does: the file it is at, or what remains
    lost,       \* whether a file of the list was gone when its turn came
    response    \* what the response does, and what it has sent

archiveVars == <<queue, writer, lost, response>>

ArchiveInit ==
    /\ queue = <<>>
    /\ writer = [does |-> "nothing", next |-> 1]
    /\ lost = FALSE
    /\ response = [does |-> "nothing", sent |-> <<>>]

\* The folder is listed, and the thread is started with the response.
BeginArchive ==
    /\ response.does = "nothing"
    /\ writer' = [writer EXCEPT !.does = "files"]
    /\ response' = [response EXCEPT !.does = "take"]
    /\ UNCHANGED <<queue, lost>>

\* Faulty variant: what does not fit is dropped.
PutOrDrop(chunk) ==
    queue' = IF Len(queue) < QueueChunks THEN Append(queue, chunk) ELSE queue

\* Queue.put waits for room.
Put(chunk) ==
    /\ Len(queue) < QueueChunks
    /\ queue' = Append(queue, chunk)

\* archive.write; the file is opened when it is its turn.
WriteFile ==
    /\ writer.does = "files" /\ writer.next \in Folder
    /\ Put(writer.next)
    /\ writer' = [writer EXCEPT !.next = @ + 1]
    /\ UNCHANGED <<lost, response>>

FileGone ==
    /\ writer.does = "files" /\ writer.next \in Folder
    /\ writer' = [writer EXCEPT !.does = "directory"]
    /\ lost' = TRUE
    /\ UNCHANGED <<queue, response>>

\* The archive is closed, with the files that were written.
WriteDirectory ==
    /\ \/ writer.does = "directory"
       \/ writer.does = "files" /\ writer.next \notin Folder
    /\ Put(Directory)
    /\ writer' = [writer EXCEPT !.does = "end"]
    /\ UNCHANGED <<lost, response>>

\* Faulty variant: not in a finally clause.
EndIfWhole ==
    /\ writer.does = "end" /\ ~lost
    /\ Put(Nothing)
    /\ writer' = [writer EXCEPT !.does = "over"]
    /\ UNCHANGED <<lost, response>>

EndArchive ==
    /\ writer.does = "end"
    /\ Put(Nothing)
    /\ writer' = [writer EXCEPT !.does = "over"]
    /\ UNCHANGED <<lost, response>>

\* The response ends with the end of the archive.
Take ==
    /\ response.does = "take" /\ queue # <<>>
    /\ queue' = Tail(queue)
    /\ response' = IF Head(queue) = Nothing THEN [response EXCEPT !.does = "over"]
                   ELSE [response EXCEPT !.sent = Append(@, Head(queue))]
    /\ UNCHANGED <<writer, lost>>

\* The client goes away and the response's generator is closed.
ClientLeaves ==
    /\ response.does = "take"
    /\ response' = [response EXCEPT !.does = "gone"]
    /\ UNCHANGED <<queue, writer, lost>>

ArchiveNext ==
    \/ BeginArchive \/ Take \/ ClientLeaves
    \/ WriteFile \/ FileGone \/ WriteDirectory \/ EndArchive

\* The thread runs when there is room, and the server sends what there is.
ArchiveFairness ==
    /\ WF_archiveVars(WriteFile \/ WriteDirectory \/ EndArchive)
    /\ WF_archiveVars(Take)

ArchiveSpec == ArchiveInit /\ [][ArchiveNext]_archiveVars /\ ArchiveFairness

-----------------------------------------------------------------------------
\* A response that ended has sent every file in order and the directory last,
\* unless a file had gone after the folder was listed (__init__.py:218 and
\* :233): then the response ends just the same, with an archive that is well
\* formed and lacks that file and all the later ones.
ArchiveWhole ==
    response.does = "over" =>
        \E n \in 0..FileCount :
            /\ response.sent = Append([i \in 1..n |-> i], Directory)
            /\ n = FileCount \/ lost

\* The response ends, or its client leaves; and unless that happens the writer
\* ends as well.  A client that leaves strands the writer at a full queue
\* (__init__.py:40), and nothing takes it away from there.
ArchiveEnds ==
    /\ response.does = "take" ~> response.does # "take"
    /\ writer.does = "files" ~> writer.does = "over" \/ response.does = "gone"
=============================================================================
