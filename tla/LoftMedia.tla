------------------------------ MODULE LoftMedia ------------------------------
(***************************************************************************)
(* Preparing one upload to a gallery: _prepare_gallery_uploads of           *)
(* web_app/loft/data_interface.py and what it calls, before any lock is     *)
(* taken (module Loft goes on from there).                                  *)
(*                                                                          *)
(* The files of the request are spooled chunk by chunk, identified by their *)
(* content, and held against the limits; then each is normalised, an image  *)
(* by Pillow and a video by ffmpeg, whose output is probed again and must   *)
(* pass a validation of its own.  Every refusal refuses the whole upload.   *)
(* Pillow, ffprobe and ffmpeg are external: what they report is part of the *)
(* file's description, and what ffmpeg writes is chosen from Outputs.       *)
(*                                                                          *)
(* A stream's `usable` stands for its codec, its positive dimensions or     *)
(* rates and its dispositions; `states` says whether it states its length   *)
(* (a container that does not has length 0), `turned` whether ffmpeg will   *)
(* rotate it.  Lengths are in seconds.                                      *)
(***************************************************************************)
EXTENDS Integers, Sequences, FiniteSets, FiniteSetsExt

CONSTANTS
    Uploads,        \* requests: sequences of files
    Layouts,        \* arrangements of atoms an output file may have
    Chunk,          \* gallery_upload_stream_chunk_bytes
    ImageBytes,     \* gallery_image_max_upload_bytes
    VideoBytes,     \* gallery_video_max_upload_bytes
    TotalBytes,     \* gallery_upload_max_total_bytes
    BatchPixels,    \* gallery_image_max_batch_pixels
    ImagePixels,    \* max_image_pixels
    MaxVideos,      \* gallery_max_videos_per_upload
    MaxLength,      \* gallery_video_max_duration_s
    Tolerance,      \* gallery_video_duration_tolerance_s
    InputSide,      \* gallery_video_max_input_width_px and _height_px
    InputPixels,    \* gallery_video_max_input_pixels
    InputRate,      \* gallery_video_max_input_fps
    Width, Height,  \* gallery_video_max_width_px and _height_px
    Rate,           \* gallery_video_max_output_fps
    OutputBytes     \* gallery_video_max_output_bytes

ASSUME MediaAssumption ==
    /\ {Chunk, ImageBytes, VideoBytes, TotalBytes, BatchPixels, ImagePixels, MaxVideos,
        MaxLength, Tolerance, InputSide, InputPixels, InputRate, Width, Height, Rate,
        OutputBytes} \subseteq Nat
    /\ Chunk > 0 /\ Width >= 2 /\ Height >= 2

StreamType ==
    [index : Nat, type : STRING, usable : BOOLEAN, default : BOOLEAN, w : Nat, h : Nat,
     turned : BOOLEAN, rate : Nat, length : Nat, states : BOOLEAN]
VideoType == [container : BOOLEAN, length : Nat, streams : SUBSET StreamType]
FileType ==
    [bytes : Nat, format : {"allowed", "other", "none"}, pixels : Nat, decodes : BOOLEAN,
     video : VideoType]

AtomType == [type : {"moov", "mdat", "free"}, form : {"short", "long", "rest"}, size : Nat]

\* An atom that takes the rest of a file is its last.
ASSUME LayoutsAssumption ==
    \A layout \in Layouts :
        /\ layout \in Seq(AtomType)
        /\ \A i \in DOMAIN layout : layout[i].form = "rest" => i = Len(layout)

\* The streams of a file are numbered, each lasts for some time, and a usable picture
\* has a size.  A request without a file is not prepared.
ASSUME UploadsAssumption ==
    \A files \in Uploads :
        /\ files \in Seq(FileType) /\ files # <<>>
        /\ \A i \in DOMAIN files : \A s \in files[i].video.streams :
             /\ s.length > 0
             /\ s.usable /\ s.type = "video" => s.w > 0 /\ s.h > 0
             /\ \A t \in files[i].video.streams : s.index = t.index => s = t

VARIABLES
    upload,     \* the request's files
    at,         \* spooling, identifying, normalising, probing, ready or refused
    next,       \* the file it is at
    written,    \* bytes of that file on disk
    total,      \* bytes of the files before it
    pixels,     \* pixels of the images so far
    sources,    \* files staged, and how
    output,     \* what ffmpeg wrote
    prepared    \* files normalised

counts == <<written, total, pixels>>
mediaVars == <<upload, at, next, counts, sources, output, prepared>>

NoOutput == [faithful |-> FALSE]

MediaInit ==
    /\ upload \in Uploads
    /\ at = "spooling" /\ next = 1
    /\ written = 0 /\ total = 0 /\ pixels = 0
    /\ sources = <<>> /\ output = NoOutput /\ prepared = <<>>

File == upload[next]
Refuse == at' = "refused"

\* The next file, or the normalisation of the first staged one.
Advance ==
    IF next < Len(upload)
      THEN at' = "spooling" /\ next' = next + 1
      ELSE at' = "normalising" /\ next' = 1

-----------------------------------------------------------------------------
(* Spooling: _spool_gallery_upload.                                        *)

\* Faulty variant: the total is looked at when a file is complete.
RoomAfterwards(more) ==
    written + more =< (IF ImageBytes > VideoBytes THEN ImageBytes ELSE VideoBytes)

\* A chunk fits the limit of any one file and of the upload.
Room(more) ==
    /\ written + more =< (IF ImageBytes > VideoBytes THEN ImageBytes ELSE VideoBytes)
    /\ total + written + more =< TotalBytes

\* A chunk is read and, if it fits, written.
Spool ==
    LET rest == File.bytes - written
        more == IF rest < Chunk THEN rest ELSE Chunk
    IN  /\ at = "spooling" /\ rest > 0
        /\ IF Room(more) THEN written' = written + more /\ UNCHANGED at
                         ELSE Refuse /\ UNCHANGED written
        /\ UNCHANGED <<upload, next, total, pixels, sources, output, prepared>>

\* The end of the file; an empty one is passed over.
Spooled ==
    /\ at = "spooling" /\ written = File.bytes
    /\ IF File.bytes = 0 THEN Advance /\ UNCHANGED <<written, total>>
         ELSE /\ at' = "identifying"
              /\ total' = total + written
              /\ written' = 0
              /\ UNCHANGED next
    /\ UNCHANGED <<upload, pixels, sources, output, prepared>>

-----------------------------------------------------------------------------
(* Probing a video: _probe_video_info.                                      *)

Of(v, type) == {s \in v.streams : s.type = type /\ s.usable}

\* Faulty variant: the largest picture, cover art included.
LargestPicture(v) ==
    LET pictures == {s \in v.streams : s.type = "video"}
    IN  {s \in pictures : \A t \in pictures : t.w * t.h =< s.w * s.h}

\* The picture: default before others, then the larger, then the earlier.
Before(s, t) ==
    \/ s.default /\ ~t.default
    \/ s.default = t.default /\ s.w * s.h > t.w * t.h
    \/ s.default = t.default /\ s.w * s.h = t.w * t.h /\ s.index < t.index

Picture(v) == {s \in Of(v, "video") : \A t \in Of(v, "video") \ {s} : Before(s, t)}

\* The sound: default before others, then the earlier.
Sound(v) ==
    {s \in Of(v, "audio") : \A t \in Of(v, "audio") \ {s} :
        \/ s.default /\ ~t.default
        \/ s.default = t.default /\ s.index < t.index}

Kept(v) == Picture(v) \cup Sound(v)

\* The longest of what the container and the chosen streams say; 0 when none says.
Length(v) == Max({v.length, 0} \cup {s.length : s \in {k \in Kept(v) : k.states}})

\* _validate_video.
Acceptable(v) ==
    /\ v.container /\ Picture(v) # {}
    /\ Length(v) > 0 /\ Length(v) =< MaxLength
    /\ \A s \in Picture(v) :
         /\ s.w =< InputSide /\ s.h =< InputSide /\ s.w * s.h =< InputPixels
         /\ s.rate =< InputRate

-----------------------------------------------------------------------------
(* Identifying.                                                            *)

Staged(kind) == sources' = Append(sources, [file |-> File, kind |-> kind])

\* An image by its content: format, size and pixels.
IdentifyImage ==
    /\ at = "identifying" /\ File.format # "none"
    /\ IF File.format = "allowed" /\ File.bytes =< ImageBytes
            /\ pixels + File.pixels =< BatchPixels
         THEN Staged("image") /\ pixels' = pixels + File.pixels /\ Advance
         ELSE Refuse /\ UNCHANGED <<pixels, sources, next>>
    /\ UNCHANGED <<upload, written, total, output, prepared>>

Videos == {i \in DOMAIN sources : sources[i].kind = "video"}

\* Anything else has to be a video.
IdentifyVideo ==
    /\ at = "identifying" /\ File.format = "none"
    /\ IF File.bytes =< VideoBytes /\ Acceptable(File.video)
            /\ Cardinality(Videos) < MaxVideos
         THEN Staged("video") /\ Advance
         ELSE Refuse /\ UNCHANGED <<sources, next>>
    /\ UNCHANGED <<upload, counts, output, prepared>>

-----------------------------------------------------------------------------
(* Normalising.                                                            *)

Source == sources[next]
Keep == prepared' = Append(prepared, Source.file)
More == at = "normalising" /\ next =< Len(sources)

\* normalize_image_to_webp decodes one image at a time.
NormaliseImage ==
    /\ More /\ Source.kind = "image"
    /\ IF Source.file.pixels =< ImagePixels /\ Source.file.decodes
         THEN Keep /\ next' = next + 1 /\ UNCHANGED at
         ELSE Refuse /\ UNCHANGED <<prepared, next>>
    /\ UNCHANGED <<upload, counts, sources, output>>

\* Faulty variant: rounded, and not to even numbers.
Whole(n, p, q) == Max({2, (n * p) \div q})

\* The scale filter: max(2, trunc(n * p / q / 2) * 2).
Even(n, p, q) == Max({2, 2 * ((n * p) \div (2 * q))})

\* The factor min(1, Width / w, Height / h), as a fraction.
Factor(w, h) ==
    IF w =< Width /\ h =< Height THEN <<1, 1>>
    ELSE IF Width * h =< Height * w THEN <<Width, w>> ELSE <<Height, h>>

Scaled(w, h) ==
    LET f == Factor(w, h) IN <<Even(w, f[1], f[2]), Even(h, f[1], f[2])>>

\* How long the chosen streams really are.
Lasts(v) == Max({x.length : x \in Kept(v)})

\* What _transcode_video's command asks for, from the chosen streams alone: without other
\* streams, chapters and metadata, limited to the length, the rate and the size.
Asked(v) ==
    LET s == CHOOSE x \in Picture(v) : TRUE
        size == IF s.turned THEN Scaled(s.h, s.w) ELSE Scaled(s.w, s.h)
        length == Lasts(v)
    IN  [w |-> size[1], h |-> size[2],
         length |-> IF length < MaxLength THEN length ELSE MaxLength,
         rate |-> IF s.rate < Rate THEN s.rate ELSE Rate,
         sound |-> Sound(v) # {}]

\* ffmpeg fails or runs out of time...
TranscodeFails ==
    /\ More /\ Source.kind = "video"
    /\ Refuse
    /\ UNCHANGED <<upload, next, counts, sources, output, prepared>>

\* ... or writes a file: the one asked for, or one that is cut at OutputBytes, or in some
\* respect not what was asked for, and with its atoms in some order.
Transcode ==
    /\ More /\ Source.kind = "video"
    /\ at' = "probing"
    /\ \E layout \in Layouts, cut \in 0..1, conforms \in BOOLEAN :
         LET o == Asked(Source.file.video)
         IN  output' = [size |-> <<o.w, o.h>>, rate |-> o.rate, sound |-> o.sound,
                        length |-> Max({0, o.length - cut * (Tolerance + 1)}),
                        bytes |-> OutputBytes, conforms |-> conforms, layout |-> layout,
                        faithful |-> cut = 0 /\ conforms]
    /\ UNCHANGED <<upload, next, counts, sources, prepared>>

-----------------------------------------------------------------------------
(* The order of atoms in an MP4: _mp4_has_faststart.                        *)
(* An atom has a type, a form (a short header of one unit, a long one of    *)
(* two, or a short one that means the rest of the file) and the size its    *)
(* header states, in units; a size below the header's is malformed.         *)

Header(a) == IF a.form = "long" THEN 2 ELSE 1
\* The units an atom takes.
Extent(a) == IF a.size < Header(a) THEN Header(a) ELSE a.size
Start(layout) ==
    LET f[i \in 1..Len(layout) + 1] ==
          IF i = 1 THEN 0 ELSE f[i - 1] + Extent(layout[i - 1])
    IN  f
Total(layout) == Start(layout)[Len(layout) + 1]

\* Faulty variant: a long header's size counts from behind the header.
AfterSizeAndHeader(a, layout, offset) == Header(a) + a.size

\* How far the scan seeks.
AfterAtom(a, layout, offset) == IF a.form = "rest" THEN Total(layout) - offset ELSE a.size

Malformed(a) == a.form # "rest" /\ a.size < Header(a)

\* Which of the two atoms has been seen.
Marks == {"none", "moov", "mdat"}

HasFaststart(layout) ==
    LET start == Start(layout)
        Here(o) == {i \in DOMAIN layout : start[i] = o}
        \* what may have been seen before an offset for the scan to succeed from there
        scan[o \in 0..Total(layout)] ==
          {seen \in Marks : \E i \in Here(o) :
             LET a == layout[i]
                 to == o + AfterAtom(a, layout, o)
             IN  /\ ~Malformed(a)
                 /\ IF {a.type, seen} = {"moov", "mdat"} THEN seen = "moov"
                    ELSE /\ to =< Total(layout)
                         /\ (IF a.type = "free" THEN seen ELSE a.type) \in scan[to]}
    IN  "none" \in scan[0]

-----------------------------------------------------------------------------
(* Validating what ffmpeg wrote: _validate_normalized_video.                *)

Valid(o) ==
    /\ o.bytes =< OutputBytes
    /\ o.length > 0 /\ o.length =< MaxLength + Tolerance
    /\ \A side \in {1, 2} : o.size[side] % 2 = 0 /\ o.size[side] > 0
    /\ o.size[1] =< Width /\ o.size[2] =< Height
    /\ o.rate =< Rate
    /\ o.conforms
    /\ HasFaststart(o.layout)

\* Nor may it be shorter than the source by more than the tolerance.
Complete(o, v) == o.length + Tolerance >= Length(v)

Probe ==
    /\ at = "probing"
    /\ IF Valid(output) /\ Complete(output, Source.file.video)
         THEN Keep /\ next' = next + 1 /\ at' = "normalising"
         ELSE Refuse /\ UNCHANGED <<prepared, next>>
    /\ output' = NoOutput
    /\ UNCHANGED <<upload, counts, sources>>

\* All are prepared, and add_gallery_media goes on to publish them.
Ready ==
    /\ at = "normalising" /\ next > Len(sources)
    /\ at' = "ready"
    /\ UNCHANGED <<upload, next, counts, sources, output, prepared>>

MediaNext ==
    \/ Spool \/ Spooled \/ IdentifyImage \/ IdentifyVideo
    \/ NormaliseImage \/ TranscodeFails \/ Transcode \/ Probe \/ Ready

MediaSpec == MediaInit /\ [][MediaNext]_mediaVars

-----------------------------------------------------------------------------

\* However its files are divided, an upload never takes more of the disk than the limit,
\* not even while the file that exceeds it is being read.
SpoolBounded == total + written =< TotalBytes

\* What the scan of atoms says is right: among the atoms before the first malformed one, a
\* moov precedes every mdat, and there is an mdat; whatever the forms of their headers.
ScanRight ==
    at = "probing" =>
        LET l == output.layout
            good == {i \in DOMAIN l : \A j \in 1..i : ~Malformed(l[j])}
            First(type) == {i \in good : l[i].type = type /\
                              \A j \in good : l[j].type = type => i =< j}
        IN  HasFaststart(l) <=>
              \E i \in First("moov"), j \in First("mdat") : i < j

\* A video that was accepted, and that ffmpeg transcoded as it was asked to, is not refused
\* afterwards: the limits on the way in, the command and the limits on the way out agree;
\* unless the container is longer than the streams that were chosen.
FaithfulPasses ==
    at = "probing" /\ output.faithful /\ HasFaststart(output.layout) =>
        \/ Valid(output) /\ Complete(output, Source.file.video)
        \/ Source.file.video.length > Lasts(Source.file.video) + Tolerance

\* Cover art, thumbnails and metadata tracks are never what is published, and a video with
\* a usable sound keeps it.
RightStreams ==
    at = "probing" =>
        LET v == Source.file.video
        IN  /\ Cardinality(Picture(v)) = 1
            /\ \A s \in Kept(v) : s.usable
            /\ output.sound <=> \E s \in v.streams : s.type = "audio" /\ s.usable

\* A video that is published is the right one, and one that can be published is.
VideosSound == FaithfulPasses /\ RightStreams

=============================================================================
