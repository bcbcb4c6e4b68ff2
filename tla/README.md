# A TLA+ model of NabiCat

NabiCat is a Flask web application: a shell of accounts and sessions around a dozen
small apps (a to-do tree, a file store, a music library, photo posts and others),
served by several gunicorn worker processes. Its state is JSON files and media files
on one disk, and Redis. There is no database. Whatever is consistent is consistent
because a Python process took a Redis lock, replaced a file atomically, or did things
in the right order.

This directory models the parts where that can go wrong, checks them with TLC on small
instances, and proves with TLAPS, for instances of every size, each invariant, each
action property and the refinement that those runs check: everything but liveness.

    tlc -config RmwLock.cfg MCRmwLock.tla      # any run of the table below
    tlapm OperationsProofs.tla                 # and the other *Proofs.tla

Paths below are under `src/web_app/` unless they say otherwise. `PROJECT.json` maps
each definition to its source lines and lists every run, property, mutant (a plausible
bug in the code that the property catches), finding and hazard.

## 1. The system

| Component | State | Operations | What is hard |
|---|---|---|---|
| Read-modify-write lock (`redis_client.py`) | one Redis key per JSON file, with a lease; per thread a depth and a renewal thread | take, renew, nest, release | leases that run out under their holder, lost Redis, dead workers |
| Document transactions (`edit_model`, of the `nabicat_app_sdk` package) | JSON files | lock, load, change, save if changed, release; an exception discards | the save is not fenced by the lock |
| File store (`file_store/`) | `metadata.json`: entries and folders of each user; contents by checksum, shared by all users; thumbnails | upload (single, batch, archive), create folder, move, delete, download, stream a folder as an archive, make thumbnails, quota | contents change outside what the metadata's atomic save covers; readers and thumbnails take no lock |
| Todoist goals (`todoist/goals.py`, `api.py`) | a tree of goals kept twice: parent fields and children lists | create, edit, toggle, fail, reparent, delete, list by pages | long sequences that let the two disagree; pages cut from a list that changes |
| Idempotent writes (`todoist/api.py`) | a Redis record per client key | claim, apply, record, replay | overlapping retries, deaths between the steps, lifetimes |
| OAuth server (`oauth.py`) | codes, tokens, consents, an index per user, all in Redis with lifetimes | authorize, exchange, refresh, revoke | no lock: requests interleave between single commands |
| Accounts (`account_api.py`, `data_interface.py`) | `users.json`; every app's data of the user | register, log in, delete | a deletion spans all apps and two locked edits |
| Tubio (`tubio/`) | `metadata.json`: track records, playlists, surprise playlists, trims; audio files; claims and progress records in Redis | upload, search, download, follow a download, play, resync, surprise, save, move, trim, delete, clean up | audio files are touched outside the lock by five kinds of request; one claim and one progress record for all conversions of a video |
| Loft (`loft/`) | `meta.json`: posts and their media; a directory for each, with staging directories and publication journals | create, upload to a gallery, unpack an archive, reorder, delete, recover | files move before the entry is saved and a directory goes file by file; a death or a failure anywhere; limits on images and videos that must agree with what ffmpeg is told |
| Developer terminal (`dev/terminal.py`) | a table of sessions in one process; a pseudo-terminal, a buffer and a reader thread for each | start, read, write, reap, close | file descriptors are numbers that are used again |
| Deployment (`src/update_server.sh`) | the checked-out release, its requirements, unit files, timers | deploy, roll back | a step of several failing; two releases that name different units |
| Backups (`scheduled_jobs.py`) | copies of directories | copy, prune | |
| Ephemeral request keys, metrics, crosswords, proxy, installed apps, simulations, browser scripts | small or none | | see section 7 |

**How they interact.** Every data interface edits its JSON files through `edit_model`,
that is under the lock; so the lock's guarantee is what allows the other modules to
take an edit as one step. Requests read JSON files without the lock and may act on
what they read later. The OAuth server, the idempotency records, Tubio's claims and
its progress records use Redis directly. Deleting an account calls `delete_user_data`
of each app in turn, then OAuth's revocation. A request handler runs in a thread of a
worker process, and a process may be killed at any moment; nothing restarts what it
was doing. The deployment stops the application and starts it again, and takes part in
nothing else.

## 2. Modules

    SerialEdits        what a transaction promises (abstract)
      ^ implemented by
    RmwLock            the lock and the transaction under it                  <- OperationsProofs

    FileTree           one user's paths and folders (an edit is one step)     <- StoreProofs
    FileContent        contents on disk, edits opened up into their steps     <- StoreProofs
    Thumbnails         the thumbnail of one content beside its deletion       <- StoreProofs
    Archive            the streamed archive of a folder                       <- StoreProofs
    Goals              the goal tree (an edit is one step)                    <- TodoistProofs
      ^ extended by
    GoalPages          a client that reads a listing page by page             <- TodoistProofs
    Idempotency        the record of one keyed write                          <- TodoistProofs
    OAuth              codes, tokens, the index                               <- OAuthProofs
    Accounts           users.json and the apps' data                          <- AccountsProofs
    Tubio              records and audio files, requests beside each other    <- TubioProofs
    Playlists          named playlists and trims, request after request       <- TubioProofs
    Downloads          claim, progress record and event streams of one video  <- TubioProofs
    Search             the pages of a search                                  <- TubioProofs
    Loft               posts, from staging to publication and deletion        <- LoftProofs
    LoftMedia          the preparation of one upload's images and videos      <- LoftProofs
    Terminal           the terminals                                          <- OperationsProofs
    Deployment         a deployment and its rollback                          <- OperationsProofs

    CommonProofs       numbers, lists, induction and recursion, for the other proofs
    MC<name>           constants, symmetry and bounds for TLC

Several modules share one `MC` module and one run when they are of one application:
`MCStore`, `MCTodoist`, `MCTubio`, `MCLoft`, `MCStreams` (what answers requests while
others run) and `MCOperations` (what an administrator does). A variable `part` says
which of them runs; the others keep their initial state, which one conjunct fixes
where there are several. The parts share no variable: where two modules show one file
from two sides (`Tubio` and `Playlists`, `FileTree` and `FileContent`), each states
what it takes as one step and what it leaves to the other.

**SerialEdits** is three actions: an edit takes effect at once and keeps all earlier
ones, its caller is told, and the promise may become void.

**RmwLock** is `rmw_lock` and `edit_model` for one lock name. One action per Redis
command: `Acquire` is `SET NX PX`; `RenewRead` and `RenewWrite` are the WATCH/GET and
the MULTI/EXEC of `_renew_if_token_owned`; `ReleaseRead` and `ReleaseDelete` those of
`_delete_if_token_owned`. `Load`, `EndBody` are the load and the save of the
transaction; `Reenter`/`ExitNested` the reentrant path. `Tick` is time: it ages the
lease, and drops the key at zero. `Crash` kills a worker with its renewal thread and
leaves the key. Two history variables carry the properties: `breached` (edits during
whose span another worker took the lock) and `late` (some lease was left to age past
renewal interval plus slack).

**FileTree** keeps a user's `files` (path, checksum) and `folders`; a path is a
sequence of names. Each operation of the data interface is one action, with the checks
of the code in the code's order; an operation that raises leaves the metadata alone
and is no step.

**FileContent** keeps what FileTree abstracts: contents on disk (`blobs`), the index,
who holds the metadata lock, and requests that are checking the limit, streaming,
waiting, applying, cleaning or opening. The check of the limit is two steps, since
`validate_batch_quota` loads the metadata twice without the lock (`BeginUpload`, what is
replaced; `CheckQuota`, the total). A move (`EnterMove`) takes entries to any paths
where no entry stays, which covers what FileTree says of its targets. A batch is applied
one file at a time (`ApplyOne`), a cleanup deletes one content at a time (`CleanOne`),
and the metadata is replaced in the end (`Save`) or not at all. `Faults` switches on
failing streams, renames, deletions, saves, and deaths.

**Thumbnails** follows `get_thumbnail_for_file` and `create_thumbnail` (look up,
check, open, write, in place and without a lock) beside `_cleanup_unreferenced`, which
deletes the content and then the thumbnail, and an upload of the content again.

**Archive** is `download_folder`: the thread that writes an archive into a bounded
queue, the response that takes it out, files that go meanwhile, a client that leaves.

**Goals** is a function from ids to goals with `parent` and `children`, one action per
function of `goals.py` and per API mutation, including the API's own orders of
assignment. **GoalPages** adds a client that asks `list_goals` for page after page;
every page sorts and cuts the goals anew. The order is a relation, which of two goals
was modified later; a goal's place is the number of those before it.

**Idempotency** follows `_idempotent` for several attempts of one key: `Claim` (`SET
NX EX`), `Lookup` (the `GET` of a failed claim), `Mutate`, `Record`, `Withdraw`, with
failures before and after the mutation, deaths, slow workers and expiry.

**OAuth** has one action per Redis command of `authorize`, `token`, `_issue_tokens`,
`revoke_user_tokens` and `revoke`. Tokens are pairs (issuance, kind); `grantOf`
remembers what each issuance consumed, and `void` the issuances that were cut short or
ran beside a revocation of their user.

**Accounts** keeps `users` and `data`, what each app stores under the user's folder or
the user's name. A deletion is `BeginDelete` (the first locked part), one `Purge` per
app, and `RemoveUser` (the second locked part with its repeated checks). An app may
fail half way: it raises, which ends the deletion (`PurgeFails`), or, in the apps that
call `shutil.rmtree` with `ignore_errors`, says nothing and the deletion goes on
(`PurgeLeaves`).
`BeginWrite`/`Write` is any request that runs with the user record it loaded when it
began.

**Tubio** keeps the record of each track (absent, uncached, cached), the audio files,
each user's regular playlists as one set, the surprise playlist and its age. Edits are
one step. Writing, replacing and deleting audio files are steps of their own, as in
the code. It lets any conversions overlap, because `serve_audio`, `resync_audio` and
downloads ignore the claim and the claim may expire. An edit that finds at its release
that its lock is lost has saved and raises all the same (`Saved`), so the error handler
of a conversion, a step of its own (`ConversionFails`, `Undo`), may take the file of a
saved record; and the handler itself may fail before it removes anything (`UndoFails`).

**Playlists** opens that set up: playlists under their names, each with how often it
lists a track and without their order, the surprise playlist among them under its fixed
key, moves between playlists, trims, the cleanup
that each edit ends with. One request follows another.

**Downloads** is what the conversions of one video share in Redis: the claim of
`cache_audio` (set if absent, read, deleted), the progress record that every
conversion writes and every stream that saw an end deletes, and the streams that poll
it. The steps of a conversion are those at which it writes files or talks to Redis;
each may fail, and the handlers of the failure with it.

**Search** is `search_youtube`: a listing from several filters, put together again for
every page.

**Loft** keeps the entries of `meta.json`, the directories with their media and
journals, the lock of `meta.json`, the quota lock of each owner, and requests at any
step of a creation, an upload, a deletion or the deletion of an account's data. An
upload is staged without a lock; then, under the owner's quota lock, earlier journals
are recovered, the bytes counted, the journal written, the files moved in, the entry
saved, the journal deleted. Any of these, and the saves of a creation or a deletion, may
fail. `rmtree` takes the files of a directory one by one in any order, and may stop
between two; a purge ignores that, a deletion ends with it. An administrator's archive
is refused after the directory was made, or unpacked, wholly or in part, over whatever
is there, and then registered. **LoftMedia** is what comes before: spooling within the
limits, recognising, probing (which streams are chosen), the command that scales, the
validation of what comes out, the scan for the order of atoms.

**Terminal** has the descriptors of one process: `close` frees a number, the next
terminal gets the lowest free one, and a request or a reader that looked its number up
before goes on using it. Shells write numbered bytes, some of which go on with the
character of the byte before; each answer to the page is decoded by itself, and the
model keeps what comes out of that as U+FFFD (`Torn`).

**Deployment** is `update_server.sh`, one action per step and one for each way a step
may fail; then `rollback`, whose commands run with `set +e`. A unit file is of some
release or absent; the script remembers which release's names its variables hold
(`names`) and which units it has backed up (`saved`).

## 3. Runs

| Run | Instance | What it shows |
|---|---|---|
| `lock` | 2 workers, 2 edits, lease 3, interval 1, slack 1, nesting 2 | `LeaseCoversSpan`; `AckMeansExclusive`; `ImplementsSerialEdits`; `LocksEnd`: waiting ends and abandoned locks are freed |
| `store` | tree: 2 names, 3 levels, 2 files, 3 folders, 2 contents; content: 2 requests, 2 users, 3 paths, a small and a large content, all faults | `TreeSound`: paths unique, ancestors listed; `MoveKeepsFiles`; `ContentSound`: content in use is never deleted, lookups go stale only by their own entry; `NothingOrphaned`; `UploadAloneKeepsQuota` |
| `tree_clash` (violation) | the tree | a path can become a file and a folder |
| `content_stray` (violation) | the contents, failing streams only | a failed batch leaves temporary files |
| `todoist` | ids 0..3, a reader with pages of one and two writes; 3 attempts, 2 payloads, lifetimes 2 and 3, all faults | `GoalsSound`: the two records of the tree agree; `NoCycle`; `NothingMissed`; `RetrySound`: at most one effect while nobody dies, true answers always; `ClaimsEnd` |
| `oauth` | 2 requests, 2 users, 2 codes, 2 issuances, deaths | `TokensSound`: a grant yields one pair of tokens and the index covers the tokens; `RevocationComplete` |
| `accounts` | 2 requests, 2 names, 3 folders, 3 accounts ever, 2 apps (by folder and ignoring errors; by name and raising) | `AdminRemains`; `NothingLeftBehind`; `OnlyConfirmedDataDeleted` |
| `tubio` | files: 2 requests, 2 users, a reserved, a converted and an uploaded track; playlists: 2 users, 3 names, 2 tracks | `LibrarySound`: playlists resolve; `FilesMatchRecords`; `TracksKept`; `NothingLeftBehind`: trims and entries go with their record |
| `playlist_key` (violation) | the same, and users may choose the surprise playlist's key as a name | a user's playlist is replaced |
| `loft` | posts: 2 requests, 2 users, one an administrator, 2 posts (interchangeable), uploads of 2 media, an archive of one, quota 3, all faults; media: one file of every kind, or up to three of a few | `MediaIntact`; `PublicationSound`: what is not listed is journaled, and cleared before more is published, and nothing half done stays unaccounted for; `GalleriesWithinQuota`; `SpoolBounded`; `ScanRight`; `VideosSound`: the right streams are chosen, and a video that was accepted and transcoded as asked is published |
| `streams` | 2 workers with 3 conversions and one error, 2 streams; an archive of 3 files, queue of 2; a search of 2 filters and 2 pages; 2 requests for a thumbnail | `ClaimsExclusive`; `ToldTruly`; `NoLitter`; `StreamsEnd`; `ArchiveWhole`; `ArchiveEnds`; `PagesComplete`; `ThumbnailFollows` |
| `operations` | 2 requests, 2 terminals that share descriptors, 3 bytes of output, a buffer of 2; 3 releases that name different timers and units | `OwnTerminal`; `OutputKept`; `DeploymentsWhole`: a deployment that succeeds is whole, one that is rolled back leaves the system as found, and an idle system serves what is checked out |

Each property is stated, with the code it is about, above its definition, and each has
a mutant of the code that breaks it. A property that combines several (`LocksEnd`,
`TreeSound`, `ContentSound`, `GoalsSound`, `RetrySound`, `TokensSound`,
`LibrarySound`, `PublicationSound`, `VideosSound`, `DeploymentsWhole`) is a
conjunction of definitions that stand right before it, each with its own comment; the
type invariants are among them.

**Why these bounds.** Almost every race here needs two actors, so two workers or
requests; retries need a third attempt, to come after one that died and one that
overlapped it, and so does a claim that is deleted in another's place. The lock's lease
of 3 with interval and slack of 1 is the smallest in which a renewal can be punctual,
late and too late; two edits suffice to lose one. Three path levels give a moved folder
a folder and a file below it, and an ancestor above it. In the contents two users share
a content, one of them at two paths, and the quota of 3 fits one large and one small
content and not two large ones. Four goals allow a chain of three and a stranger to be
moved below it; pages of one goal have the most boundaries. Three accounts allow a name
to be registered again while its old account is still being deleted twice. In `oauth`
two codes and two issuances let one exchange be disturbed by, and be independent of,
another. In `loft` the two uploads of two media to galleries of one owner exceed the
quota together and not alone, and two media can be moved, saved and removed half; the
archive holds a name that a gallery's medium has. The sizes of videos lie below, at and
above each limit, odd and even. Two terminals suffice to take each other's descriptor; a
buffer of two bytes drops the first of three, and an answer may hold a character of two
bytes whole, or begin or end within one. An archive of three files overfills a queue of
two. Two releases are enough for a candidate and a previous one and for what a cut-short
deployment leaves to the next one; the third meets what a retired timer leaves, and may
be a patch that is pushed while it is deployed.

**Bounds beyond constants** are constraints of the configurations, each defined and
commented in its `MC` module. `MCTubio`: one surprise playlist at a time
(`OneSurprise`), two entries (`TwoNamed`) and two records (`TwoRecords`), four entries
in the named playlists (`FewListed`); a behaviour is followed until a cleanup drops a
record that a request was about to list, or until one track has come to harm (two
requests overlapped on its file, or one was cut short) and nobody works on it any more
(`OneHarmed`), a track that the properties except; and nobody calls a playlist like
the surprise playlist's key (`KeyNotTaken`), which `playlist_key` leaves out.
`MCLoft`: behaviours are followed until two requests have passed each other on a post
(`NobodyPassed`), which the properties except; administrators write raw posts only
(`AdminsOnlyHelp`); layouts of atoms vary for one upload (`FewLayouts`). `MCTodoist`:
a client reads while there are three goals at most (`MaxGoals`), of two states
(`FewWhileRead`). `MCOperations`: one shell talks (`OneTalks`), more than one byte only
if no other terminal was started (`LongAlone`), and the last release
is pushed while no deployment has been left half done (`LastWhenWhole`). `MCStreams`:
`MCSites` are the answers of the site, and the conversions are run twice, three
without streams and two with streams and without a claim. `Store.cfg` hides (VIEW)
`served`, which only `MoveKeepsFiles` reads, in the step it happens, and `stray`,
which no action reads.

**Stops.** Deadlock is checked except in `todoist`, `loft` and `streams`: all attempts
of a key may have been answered, all uploads of a bounded number made, a search, an
archive or a number of conversions be over, and that is the end of them.

**Fairness.** `lock`, `todoist` and `streams` check liveness. Time passes (the lock's
`Tick`, the retries' `Tick`, the expiry of a progress record), because Redis counts
it; and a thread that can take its next step takes it sometime: the operating system
schedules gunicorn's threads, and no code path of the lock, of `_idempotent`, of a
conversion, of a stream's polling or of the archive's two ends waits for another but
for what the property is about. A conversion takes its next step or fails; which of
the two is left open. Nothing is assumed about how soon, and no fairness is assumed of
deaths, of new requests, or of waiting clients.

## 4. What conditions the guarantees carry

Several properties hold only under a condition, kept in a history variable; the
condition is the content of the result:

- The lock excludes while renewals are punctual (`~late`). Without that,
  `AckMeansExclusive` remains (an overlapped edit is reported as failed), but the
  overlapped edit may already have overwritten another's.
- An upload that is alone keeps its user within the limit unless an entry that it
  replaces was deleted between the two loads of the check, and so deducted twice, or
  was moved to another path after the check (`alone` in FileContent).
- A deletion cut short by a death damages only the contents it was deleting (`damaged`
  in FileContent).
- A thumbnail stays without its content when the deletion passed a request that had
  the content in memory and had not begun to write, or was cut short (`late`); and
  stays half written when the request that wrote it stopped (`broken`): nothing makes
  it again then.
- A write is applied once while no worker dies or outlives its claim between the
  mutation and the record; after such a death a retry applies it again.
- A client that reads by pages is shown every goal but those modified or joining the
  listing after its first page (`excused`), unless a goal left the listing, which
  moves the ones behind it to a page already read (`left`).
- A revocation misses a token that is being issued beside it; a token stored before
  the index is deleted and indexed before that deletion stays alive, and no later
  revocation finds it (`void` in OAuth).
- A deletion of an account leaves behind what the account's own requests write beside it
  (`raced` in Accounts), and what the goals, the metrics, the API keys or Loft fail to
  remove, since they ignore the error and the account goes all the same (`spared`). The
  next user whose folder gets that name finds it. Of two overlapping deletions of one
  account, the later one may delete by name what a new account of that name has stored
  meanwhile (the second disjunct of `OnlyConfirmedDataDeleted`).
- A Tubio playlist may name a track without a record when a cleanup runs between
  finding a record and adding it (`lapsed`); record and file may disagree for good
  when two requests overlap on one file (`torn`): a failed conversion deletes the file
  whoever put it there. So may they after one request alone: the handler of a failed
  conversion reports to Redis before it removes the file, and keeps it if that fails; and
  an edit that saved the record and then found its lock lost makes the handler delete the
  file of a saved record.
- Two claimed conversions run at once after one has outlived its claim (`lapsed` in
  Downloads), or after a claim ran out between the comparison of its token and its
  deletion (`slipped`).
- A stream is told the truth about the one conversion it follows; not when other
  conversions or streams of the same video, or the record's lifetime, come between.
- Posts of the loft are whole unless two requests passed each other on them, or an
  archive was unpacked over a gallery, where it may overwrite a listed medium
  (`raced`). A deletion may take a journal before the stray it names, and if it ends
  there nothing names that stray any more (`littered`). At rest a post may also be half
  done where a request died or failed, or was refused (`cut`): a refused archive and a
  failed save leave a directory without an entry, which `new_post` does not undo as it
  handles `APIError` only; a failed removal leaves some of the files; a purge that cannot
  remove a directory drops its entry all the same. A deletion that was asked for may take
  a medium before its entry (`taken`).
- A video whose container claims to be longer than its chosen streams may be accepted,
  transcoded and then refused (`FaithfulPasses`).
- A terminal that gets a descriptor number while a request or reader of the former
  owner still uses it (`reused`) may hear or show what is not its own.
- A release serves as it was checked out unless the script or its rollback was cut
  short or failed (`cut` in Deployment).

## 5. Findings

The three violation runs are disagreements between the code and what its comments or
messages say; `PROJECT.json` quotes both.

1. `tree_clash`: the check that keeps files and folders apart does not look at the
   ancestors of a directory that an archive names, nor do `create_folder` and
   `move_path` look at all cases.
2. `content_stray`: the temporary files of a batch are created before the `try` whose
   `finally` sweeps them.
3. `playlist_key`: a playlist named like the key of the surprise playlist is replaced
   by the next surprise playlist.

The conditions of section 4 hold others, which the models reach and their properties
name as exceptions:

- The save of a transaction is not fenced: the docstring of `rmw_lock`
  (`redis_client.py:150`) promises that no update is lost, and a lease that lapses
  inside the block loses one before the release reports it (`:222`).
- A death between the mutation and the completed record (`todoist/api.py:121-131`)
  lets a retry apply the write again, which the documentation in the same file
  (`:406`) excludes.
- A page that opens its event stream before the conversion has written its first
  record is told `not_found` and closes the stream.
- A write of input to a terminal that takes only part of it loses the rest.
- Each answer of a terminal is decoded by itself with `errors='replace'`
  (`terminal.py:169`), so a character that the shell had written by half when the page
  asked reaches the page as replacement characters (`Split` in `OwnTerminal`); so does
  the rest of one whose beginning fell out of the buffer.
- An archive of a folder from which a file went is well formed and lacks that file and
  all later ones; and a client that leaves strands the archive's writer at a full
  queue.
- A deployment does not disable the timers that its release no longer declares: it
  stops those of the release before it, and the next restart of the machine starts
  them again (`enabled` is only ever added to by `EnableTimers`; `DeployedWhole`
  speaks of what is active when the deployment ends).
- A deployment over what a killed one left may enable a timer that its rollback then
  keeps, because only timers whose file was missing are disabled
  (`update_server.sh:138`).

## 6. Proofs

TLAPS checks the 42 theorems of this table in seven modules (and an eighth with the
lemmas about numbers and lists that they share), for every value of the constants; the
bounds of section 3 are not in them, nor the constraints, the symmetry or the views of
the configurations. What is assumed of constants is an `ASSUME` of the module that
declares them, and TLC evaluates it: that bounds are naturals, that a value which
stands for nobody is not somebody (`DownloadAssumption`, `TubioAssumption`,
`NoneAssumption` of Loft, and parts of `FileContentAssumption` and
`TerminalAssumption`), and what is named below.

| Module | Theorem | States, for every instance |
|---|---|---|
| `OperationsProofs` | `TypeCorrect` | `TypeOK` of RmwLock |
| | `LockCoversSpan` | while renewals are punctual, whoever is in its span is named by the key |
| | `AcknowledgedAlone` | an edit reported as done was never overlapped, however late anybody is |
| | `PunctualUpdatesKept` | while renewals are punctual, every edit reported as done is in the file |
| | `Refinement` | the lock and the transaction implement SerialEdits |
| | `DeploymentsAreWhole` | `DeploymentsWhole`, for any number of releases, whatever timers and units each names |
| | `TerminalsAreOwn` | `OwnTerminal`, for any number of terminals, threads and bytes |
| | `OutputIsKept` | `OutputKept` |
| `AccountsProofs` | `TypeCorrect` | `TypeOK` |
| | `AdministratorRemains` | an administrator remains, however many delete their accounts at once |
| | `DistinctAccounts` | no two accounts share a name or a folder |
| | `NothingLeft` | a deleted account leaves only what was written beside its deletion, or what an app failed to remove and ignored |
| | `ConfirmedOnly` | `OnlyConfirmedDataDeleted` |
| `OAuthProofs` | `TokensAreSound` | `TokensSound` |
| | `RevocationIsComplete` | `RevocationComplete` |
| `TodoistProofs` | `GoalsAreSound` | parent fields and children lists agree |
| | `GoalsHaveNoCycle` | no goal is its own ancestor |
| | `ReadersOnlyWatch` | reading by pages changes no goal (`PagesSpec => Spec`), so the two above hold beside it |
| | `ReadersMissNothing` | `NothingMissed`, for any number of goals, pages of any size and any writes meanwhile |
| | `RetriesAreSound` | `RetrySound` |
| `StoreProofs` | `TreeIsSound` | `TreeSound` |
| | `MovesKeepFiles` | `MoveKeepsFiles`, an action property |
| | `ContentIsSound` | `ContentSound` |
| | `NothingIsOrphaned` | `NothingOrphaned` |
| | `LoneUploadsFit` | `UploadAloneKeepsQuota`, an action property |
| | `ThumbnailsFollow` | `ThumbnailFollows` |
| | `ArchivesAreWhole` | `ArchiveWhole`, for any number of files and places in the queue |
| `TubioProofs` | `LibraryIsSound` | `LibrarySound` |
| | `FilesMatchTheRecords` | `FilesMatchRecords` |
| | `ClaimsAreExclusive` | `ClaimsExclusive` |
| | `StreamsAreToldTruly` | `ToldTruly` |
| | `NoLitterIsLeft` | `NoLitter` |
| | `NothingIsLeftBehind` | `NothingLeftBehind` of Playlists |
| | `TracksAreKept` | `TracksKept`, an action property, while no playlist of a user's own has the surprise playlist's key |
| | `PagesAreComplete` | `PagesComplete`, for any number of filters and videos, and pages of any size |
| `LoftProofs` | `LoftInvariant` | the inductive invariant of the posts, from which the next three follow |
| | `PublicationsSound` | `PublicationSound` |
| | `MediaStayIntact` | `MediaIntact` |
| | `QuotaIsKept` | `GalleriesWithinQuota` |
| | `SpoolIsBounded` | `SpoolBounded` |
| | `VideosAreSound` | `VideosSound`, for files with any streams and for any limits |
| | `ScanIsRight` | `ScanRight`, for layouts of any length |

Most properties are not inductive: each says what holds between requests, or of what
one request has done, and says nothing of requests half done. What the invariants add:

**The lock** (`IInv`). Assumptions: `NumbersAssumption` and `LeaseAssumption`
(`Interval + Slack < TTL`; the code renews at a third of the lease at the latest).
*Identity*: tokens are fresh and belong to one worker each. *Exclusion*: the key never
names a breached edit, so a worker that finds its own token at release was never
overlapped, which carries `AcknowledgedAlone` without any assumption on time.
*Punctual*: until a lease is overdue, a worker in its span is named by a live key, its
snapshot is the file, and what it saved is in the file. The refinement maps `EndBody`
that saves to `Commit`, a clean release to `Acknowledge`, a late `Tick` to `Void`, and
everything else to a stutter.

**Accounts** (`IInv`). The assumption `AccountsAssumption` is that every application is
purged (in some order, in `Purges`), that each files by folder or by name and not by
both, that the two accounts `Init` needs are within `MaxAccounts`, and that those which
ignore errors are among them. *Known*: a birth is given once, so the record a request
still works with is the only account of its birth. *Owned*: data that is not excused
(`raced`, `spared`) has an account and lies under that account's key. *Cleared*: what a
deletion has been through holds none of its account's data but excused data.
`RemoveUser` keeps *Owned* because *Cleared* then covers every application; `Purge`
keeps *Cleared* because by *Owned* and *Known* the data it should find is under the key
it was told.

**OAuth** (`IInv`). *Spent*: a grant that was consumed is gone from Redis and no
request is about to store it again; a token that an issuance has still to store is not
there. With *Apart* (two requests never issue under one number) this is why a grant
yields one pair. *Overlapped*: an issuance that has run beside a revocation of its
user is void, and any other live token of that user is among those the revocation
listed and has yet to delete. So at its end none is left, though it reads the index
once and deletes one key at a time.

**Goals** (`GInv`) is what the run checks: `TypeOK`, `LinksAgree` and `NoCycle` are
inductive together. `ReparentGoal` keeps `NoCycle` because it
walks down the *children lists* and refuses a parent found there; by `LinksAgree` these
lists reach everybody whose *parent fields* lead up to the goal. Both need to
know what the recursive functions compute for every tree: that `Subtree(g)` is the least
set with g in it and the children of what it holds, although it stops after `MaxId + 1`
rounds (the set grows in every round until it stops growing, and has no more than
`MaxId + 1` members), and that `Without` removes one goal and keeps the order of the
rest. The library's induction theorems take an operator as parameter and cannot be
used here; the lemmas `Least` and `Induct` of CommonProofs are induction over a *set* of
numbers, from the well-foundedness of `<`, and `Recursion` is the existence of a
recursive function by the same means, of which a table of functions describes the steps.

**Reading by pages** (`PageInv`). What the client has been shown are the listed goals at
a place before its offset, each with everything below it, but those excused
(`ReadSoFar`); and once a goal left the listing nothing is claimed. A write moves a goal
to the front of the order, so others only move back, to places not yet read; the
modified goal is excused. At the last page every place is before the offset. It rests on
`GInv`, since what is below a listed goal is found by walking down, and a listed goal is
one that no other listed goal lies above.

**Idempotent writes** (`RInv`). *OneWorker*: while nothing has gone wrong (no death or
stall), one attempt at most works under the key, the record is its pending one, and a
mutation in the file is that attempt's or the record is complete. *Reported*: an
answer that is recorded or sent is of an attempt that is over, and agrees with the
file and with what that attempt asked for.

**The tree of files** (`TreeIInv`). That paths stay unique needs that every directory
above a path is listed (`Closed`), and both need that a move maps different paths to
different ones: within one selection no entry lies in another and no two have the same
target (`Moved`), and outside it nothing is where they go. `MoveKeepsFiles` then
follows from a bijection between the entries of a content before and after.

**Contents** (`StoreInv`). *OnDisk* says for each moment of an edit what is there: for
the holder of the lock the contents that its own copy of the metadata lists, half
applied, and the old ones that no cleanup has yet deleted. *UploadRight* says which of
an upload's paths are dealt with, and *ReaderRight* that a request which opens a file
looks for a content. Assumption: `FileContentAssumption`.

**The limit** (`QuotaInv`). *Roomy* has two halves for an upload that is alone: between
the two loads of the check, what it found to replace is at most what it would still
replace; after the check, it fits in what the metadata lists now without the paths it
replaces. Other requests of its user only delete, which makes room, or move, which by an
injection of bytes keeps the total (`MovedBytes`), so that what lies beside the batch
grows only if an entry of the batch's paths left them; those of other users have other
paths. *Edited*: the copy of the metadata that it will save has its own contents at the
paths it has applied and is the saved one elsewhere; that of a move is *Moved*: each entry
at one path. Usage is the number of bytes that the entries have, as a set, so
that usages of disjoint sets of paths add up. `FileContentAssumption` says that there
are finitely many paths (nginx limits a request, and with it a name).

**Streams.** Thumbnails (`TInv`): once the deletion has passed and was not late, no
request has the content in memory. The archive (`AInv`): what is sent and what is in
the queue make up, in order, what the writer has been through. Downloads (`DInv`):
which files a conversion may have at each of its steps (`JobsRight`), who holds the
claim (`ClaimHeld`), and that the record and its only stream speak of the conversion
that it follows while that runs alone (`FollowedRight`).

**Tubio** (`TInv`). For a track that has come to no harm, one request at most is at
work on its file, and the file and the record relate as that request's step says
(`Phase`): before, between and after writing, saving, or deleting. *Shelving*: the
track that a request is about to list has a record, or is `lapsed`.

**Playlists** (`PInv`). Under any key but the surprise playlist's lies a regular
playlist, so one that is deleted finds a regular one to leave its tracks to. Each
lists a track once at most, and only tracks with a record, which is why a cleanup takes
nothing that is shown; trims have a record. `TracksKept` is an action property, proved
per operation from `PInv` and `KeyNotTaken`, which `playlist_key` shows to be needed.

**Search** (`SearchInv`). While the site has answered the same, what the client has is
the listing that the site's answers make, cut into pages, for some set of page numbers.
The listing holds what was found and is short enough, each once (by recursion over the
filters and over what each finds), and the places of the pages are disjoint and, all
together, the first `total * PageSize`. `SearchAssumption`: the filters are numbered from
1, and the site answers each with a list.

**The loft** (`LInv`), of each request: what it knows of itself (*Known*), that it has
the locks its step needs (*Locked*), that an entry it saw under the lock of `meta.json`
is still so (*Seen*), that galleries it cleared stay clear until it gives the owner's
lock up, because only the holder of that lock publishes there (*Cleared*), and that
what it counted plus what it has still to move fits (*Fits*); while it publishes to a
post that is not `raced`, that its journal is on disk and its names are nobody else's,
and that no purge has done with the post (*Relies*). Of each post: no directory, nothing
in it (*Bare*); no entry, no media, but what a deletion begun or an archive left
(*Gone*); and what is not listed is journaled until a deletion begins (*Strays*), what is
listed is there (*Intact*); and whatever is not as it should be is explained by a request
at the step that leaves it so, where none ended half way and none met (*Explained*).
A deletion is the hard case: from its first file to its last the post explains itself by
the request alone, and a creation there must not find what it left; so an entry is
written only where nothing has littered (*Relies* again), or by an archive, for which
media mean nothing. TLC, too, finds `LInv` to hold, on instances smaller than the `loft`
run. The theorems are without that run's constraints: after two
requests have passed each other on a post the others must still be sound. Posts are
finitely many (`LoftAssumption`: their names are directories'), for the sum of bytes.

**The preparation of an upload** (`MInv`). The files still to come, what they have
added up to, that each staged video was accepted, and that while an output is probed it
is one that `Transcode` may have written for that video. `VideosSound` is then
arithmetic: scaling keeps within the limits, to even numbers, whatever the side that
binds. The scan looks ahead only, so its recursion from the end is compared with the
layout offset by offset, and the offsets of atoms are shown to grow. Assumptions: limits
are naturals and the target has two pixels at least (`MediaAssumption`), streams of a
file have different numbers and last for some time (`UploadsAssumption`), and an atom
that takes the rest of a file is its last (`LayoutsAssumption`).

**Terminals** (`TermInv`). *NumbersHeld*: from `Create` to `Close` a descriptor's number
stands for one terminal. *Alone*: whoever uses the number of a terminal that is not
`reused` is that terminal's own. Then a byte is counted from the shell to the page:
taken by the reader, in the buffer from `dropped + 1` on, in the page up to `since`. A
byte whose character is not all in its answer has the beginning or the end of the answer
between itself and what is missing, so that the answer cut the character (`CutInside`);
what was cut stays cut (`StaysSplit`). That a free number exists (so that the lowest is
one) is a pigeonhole argument, and needs that the terminals ever started are finitely
many (`TerminalAssumption`). The proof found an error of the model: a reader that left
because its shell had gone used to stand in a state of its loop, and its terminal was
wrongly excepted from both properties as still in use.

**Deployment** (`DInv`). For each step of the script: which units are backed up
(`Covered`), that only those may have changed (`FilesAccounted`), which timers may run
(`TimersAccounted`), and what is checked out, installed and serving
(`ReleaseAccounted`). Nothing about the names is assumed: two releases may share
timers and units or not.

**Only model-checked**: liveness under fairness, which is out of the prover's reach,
that is `LocksEnd`, `ClaimsEnd`, `StreamsEnd` and `ArchiveEnds`; and, being false, the
properties of the three violation runs (`TracksKept` there without `KeyNotTaken`).

`TypeCorrect`, `DistinctAccounts`, `PunctualUpdatesKept`, `ReadersOnlyWatch` and
`LoftInvariant` are not properties of a run: they are parts of the invariants that the
other proofs rest on, or follow from them. No module declares a recursive operator, so
all of them remain open to proof.

Beside the error in Terminal named above, the proofs found none that the runs had not;
they left their mark on the form of the models: orders are relations (GoalPages), usage
is a cardinality (FileContent), and lists are cut and built by comprehension and by
recursive functions (Search, LoftMedia).

## 7. Not modelled

- Thumbnails and backups of Tubio's tracks; the web player's queue in the browser.
- Login, logout, password hashing, registration checks other than uniqueness.
- Rendering of the loft, its thumbnails, posts of older formats (without an owner, or
  found by scanning directories).
- Ephemeral request keys: a private key is stored by one Redis command, read by
  another and deleted by a third after a decryption that succeeded; nothing else
  depends on it.
- `setup_server.sh`, which prepares a new machine once; backups.
- Metrics: independent records under the same lock, nothing beyond RmwLock.
- Crosswords: a randomised layout search within one request.
- The web proxy, pinned targets, log viewer, visitor map, simulations, static pages:
  I/O, text and browser display without shared state.
- The installed-app registry and wiring: built once, then read.
- Infrastructure files and helper scripts: declarative or run by hand.

## 8. What is left

Done: the lock; the file store with thumbnails and archives; goals and their pages;
idempotent writes; OAuth; accounts; Tubio's files, playlists, downloads and search;
the loft; terminals; deployments; and the proofs of section 6.

Models worth adding: the queue of the web player; a composition of FileContent with
RmwLock's failures, for what a lost lease does to contents; the old formats of the
loft's posts.
