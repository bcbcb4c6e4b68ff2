-------------------------------- MODULE MCLoft --------------------------------
(* Instances of Loft and LoftMedia for TLC.  An upload is prepared before it *)
(* takes a lock or reads a gallery, so each module runs on its own.          *)
EXTENDS Loft, LoftMedia, TLC

\* Bound: a behaviour is followed until two requests have passed each other on a
\* post.  The properties except such a post.
NobodyPassed == raced = {}

\* Bound: administrators write no posts of their own but raw ones.
AdminsOnlyHelp == \A r \in Requests : At(r, "mkdir") => req[r].user \notin Admins

LoftSymmetry == Permutations(Requests) \cup Permutations(Posts)

-----------------------------------------------------------------------------
(* Uploads to prepare.                                                      *)

NoVideo == [container |-> FALSE, length |-> 0, streams |-> {}]

Image(bytes, format, px, decodes) ==
    [bytes |-> bytes, format |-> format, pixels |-> px, decodes |-> decodes,
     video |-> NoVideo]

Images == {Image(b, f, px, d) : b \in {0, 2, 3}, f \in {"allowed", "other"},
                                px \in {2, 4}, d \in BOOLEAN}

Stream(i, type, usable, default, w, h, rate, length) ==
    [index |-> i, type |-> type, usable |-> usable, default |-> default, w |-> w, h |-> h,
     turned |-> i = 1 /\ w = 5, rate |-> rate, length |-> length, states |-> length # 2]

\* A picture of some size, perhaps a larger cover or a second picture, perhaps sound.
Streams(w, h, rate, length) ==
    LET picture == Stream(1, "video", TRUE, FALSE, w, h, rate, length)
        cover == Stream(0, "video", FALSE, TRUE, 6, 6, 1, 1)
        second == Stream(2, "video", TRUE, w = 3, 3, 3, 1, 1)
        sound == Stream(3, "audio", TRUE, FALSE, 0, 0, 0, length + 1)
        broken == Stream(4, "audio", FALSE, TRUE, 0, 0, 0, 1)
    IN  {{picture} \cup more : more \in {{}, {cover}, {second, sound}, {cover, second}, {sound, broken}, {broken}}}

Clip(bytes, container, length, streams) ==
    [bytes |-> bytes, format |-> "none", pixels |-> 0, decodes |-> FALSE,
     video |-> [container |-> container, length |-> length, streams |-> streams]]

\* The streams of one file are varied, and the rest for one choice of streams.
Clips ==
    {Clip(3, TRUE, 2, s) : s \in UNION {Streams(w, h, rate, 2) : w \in {1, 3, 5, 6, 7},
                                                            h \in {2, 5, 7}, rate \in {1, 3}}}
    \cup {Clip(b, c, length, s) :
            b \in {3, 4, 5}, c \in BOOLEAN, length \in {0, 2, 6},
            s \in UNION {Streams(4, 4, 1, l) : l \in 1..3}}

One == Image(2, "allowed", 2, TRUE)
AClip == Clip(3, TRUE, 2, CHOOSE s \in Streams(4, 4, 1, 2) : Cardinality(s) = 2)

\* One file of every kind, or up to three of a few.
SomeUploads ==
    {<<f>> : f \in Images \cup Clips}
    \cup {<<a, b>> : a \in Images \cup {AClip}, b \in Images \cup {AClip}}
    \cup {<<a, One, b>> : a, b \in {One, AClip, Image(0, "other", 2, FALSE)}}

Atom(type, form, size) == [type |-> type, form |-> form, size |-> size]

Atoms ==
    {Atom(t, "short", n) : t \in {"moov", "mdat", "free"}, n \in {0, 2}}
    \cup {Atom(t, "long", n) : t \in {"mdat", "free"}, n \in {1, 3}}

\* The rest of a file can only be its last atom.
SomeLayouts ==
    LET front == UNION {[1..n -> Atoms] : n \in 1..2}
    IN  front \cup {Append(l, Atom(t, "rest", 2)) : l \in [1..1 -> Atoms] \cup [1..2 -> Atoms],
                                                t \in {"moov", "mdat"}}

\* Bound: layouts of atoms are varied for the first uploads only.
OneGoodLayout == <<Atom("moov", "short", 2), Atom("mdat", "rest", 3)>>
FewLayouts ==
    at = "probing" => output.layout = OneGoodLayout \/ (upload = <<AClip>>)

-----------------------------------------------------------------------------
VARIABLE part

PartsInit ==
    /\ part \in {"media", "posts"}
    /\ MediaInit /\ Init
    /\ part = "posts" => upload = <<One>>

PartsNext ==
    /\ UNCHANGED part
    /\ \/ part = "media" /\ MediaNext /\ UNCHANGED vars
       \/ part = "posts" /\ Next /\ UNCHANGED mediaVars

PartsSpec == PartsInit /\ [][PartsNext]_<<part, vars, mediaVars>>
=============================================================================
