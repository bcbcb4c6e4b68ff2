------------------------------ MODULE LoftProofs ------------------------------
(***************************************************************************)
(* Proofs about Loft for every number of requests, users, posts, names and  *)
(* uploads, every quota, every set of faults, and without the bounds and    *)
(* the symmetry of the run: two requests may pass each other on a post and  *)
(* go on there.                                                             *)
(*                                                                          *)
(* The inductive invariant says, beside the types: who works under a lock   *)
(* has it, and what was seen of an entry under the lock of meta.json is     *)
(* still so (Locked, Seen); a post without an entry, or that a purge has    *)
(* done with, has no media and no journals, unless a deletion left some of  *)
(* its files or an archive was unpacked there (Gone); a publication under   *)
(* way has its journal, and its names are nobody else's (Relies); whatever  *)
(* is not as it should be is explained by a request at work on the post,    *)
(* where none died, failed or was refused half way (Explained); galleries   *)
(* that were cleared stay clear until their owner's lock is given up        *)
(* (Cleared); what was counted still fits (Fits).                           *)
(*                                                                          *)
(* And about LoftMedia, for every request, every limit and every layout of  *)
(* atoms that satisfy its assumptions, in the second part of the module.    *)
(***************************************************************************)
EXTENDS Loft, LoftMedia, CommonProofs, FiniteSetTheorems, SequenceTheorems, TLAPS

InPost == Steps \ {"idle", "purging"}
Numbered == {"mkdir", "entry", "body", "unpack", "register", "look", "stage", "wait",
             "recover", "recovering", "quota", "publish", "journal", "move", "finish",
             "rollback", "withdraw"}
HoldsMeta == {"recovering", "journal", "move", "unlist", "purging"}
HoldsQuota == {"recover", "recovering", "quota", "publish", "journal", "move", "finish",
               "rollback", "withdraw"}
Journaling == {"move", "finish", "rollback", "withdraw"}
Counting == {"recovering", "quota", "publish"}

\* What a request at some step knows of its own.
Known(q) ==
    /\ q.at \in InPost => q.post \in Posts
    /\ q.at \in Numbered => q.op \in Ops
    /\ q.at \in {"mkdir", "entry", "unpack", "register"} => q.user \in Users
    /\ q.at \in {"stage", "wait"} \cup HoldsQuota => q.owner \in Users
    /\ q.at \in {"look", "stage", "wait"} \cup HoldsQuota => q.files \in Batches
    /\ q.at \in {"quota", "publish"} => q.todo = {}
    /\ q.at = "purging" => q.user \in Users /\ q.todo \subseteq OwnedBy(q.user)
    /\ q.moved \subseteq q.names
    /\ q.at \in {"mkdir", "entry", "look", "stage", "wait", "recover", "recovering", "quota",
                "publish", "journal"} => q.moved = {}

\* Who works on what is under a lock has the lock.
Locked(r) ==
    /\ req[r].at \in HoldsMeta => metaLock = r
    /\ req[r].at \in HoldsQuota => quotaLock[req[r].owner] = r

GalleryOf(p, u) == IsGallery(p) /\ meta[p].owner = u

\* What a request saw of an entry under the lock is still so.
Seen(q) ==
    /\ q.at = "recovering" => \A p \in q.todo : GalleryOf(p, q.owner)
    /\ q.at \in {"journal", "move"} => GalleryOf(q.post, q.owner)
    /\ q.at = "unlist" => IsGallery(q.post)

Bare(p) == ~dirs[p].made => dirs[p] = NoDir /\ p \notin littered

Empty(p) == OnDisk(p) = {} /\ dirs[p].journals = {}
Clear(p) == OnDisk(p) \subseteq Listed(p) /\ dirs[p].journals = {}

\* A directory that a purge has removed, or could not, though not yet the entry.
PurgedBy(q, p) == q.at = "purging" /\ p \in OwnedBy(q.user) \ q.todo
Purged(p) == \E r \in Requests : PurgedBy(req[r], p)
Purging(p) == \E r \in Requests : req[r].at = "purging" /\ p \in OwnedBy(req[r].user)

Gone(p) == meta[p] = None \/ Purged(p) => p \in littered \/ Empty(p)

\* StraysJournaled and MediaIntact, of one post.
Strays(p) == IsGallery(p) /\ p \notin littered => OnDisk(p) \subseteq Listed(p) \cup Journaled(p)
Intact(p) == IsGallery(p) =>
    /\ \A i \in meta[p].items : dirs[p].media[i.name] = i.id \/ i \in taken
    /\ \A i, j \in meta[p].items : i.name = j.name => i = j

\* What a creation, a publication or the deletion of a medium, under way, relies on.
Relies(q) ==
    /\ q.at \in {"mkdir", "entry"} => q.post \notin littered
    /\ q.at = "rmdir" => q.post \in littered
    /\ q.at \in Journaling =>
         /\ GalleryOf(q.post, q.owner) /\ ~Purged(q.post)
         /\ q.names \in dirs[q.post].journals
    /\ q.at \in {"journal", "move", "rollback"} =>
         /\ q.names \cap Listed(q.post) = {}
         /\ q.names \cap OnDisk(q.post) \subseteq q.moved
    /\ q.at = "move" => \A n \in q.moved : dirs[q.post].media[n] = q.op
    /\ q.at = "finish" => q.names \cap OnDisk(q.post) \subseteq Listed(q.post)
    /\ q.at \in {"withdraw", "unlist"} => q.names \cap OnDisk(q.post) = {}

\* Why a post is not as it should be.
On(p, steps) == \E r \in Requests : req[r].post = p /\ req[r].at \in steps
Unentered(p) == On(p, {"entry", "unpack", "register", "rmdir"})
Homeless(p) == On(p, {"pop"}) \/ Purging(p)
JournalOf(p, names) ==
    \E r \in Requests : req[r].post = p /\ req[r].at \in Journaling /\ req[r].names = names
Unlisted(p, n) ==
    \E r \in Requests : req[r].post = p /\ req[r].at \in {"move", "rollback"}
                        /\ n \in req[r].moved
Lost(p, n) ==
    \/ On(p, {"rmdir", "pop"}) \/ Purging(p)
    \/ \E r \in Requests : req[r].post = p /\ req[r].at = "unlist" /\ n \in req[r].names

Explained(p) ==
    /\ dirs[p].made /\ meta[p] = None => Unentered(p)
    /\ Purged(p) /\ (dirs[p].made \/ On(p, {"unpack"})) => On(p, {"entry"})
    /\ ~dirs[p].made /\ meta[p] # None => Homeless(p)
    /\ \A names \in dirs[p].journals : JournalOf(p, names)
    /\ IsGallery(p) => \A n \in OnDisk(p) \ Listed(p) : Unlisted(p, n)
    /\ \A n \in Listed(p) \ OnDisk(p) : Lost(p, n)

\* The steps at which a request explains something.
Explaining == {"entry", "unpack", "register", "rmdir", "pop", "unlist"} \cup Journaling

ClearedOf(q, p) ==
    q.at \in Counting /\ q.clean /\ p \in Galleries(q.owner) \ (raced \cup littered \cup q.todo)
        => Clear(p)
Cleared(q) == \A p \in Posts : ClearedOf(q, p)

\* The galleries that the quota is about.
Counted(u) == {p \in OwnedBy(u) \ raced : IsGallery(p)}
Assets(u) == Stored(Counted(u))
Fits(q) ==
    \A u \in Users : u = q.owner =>
        /\ q.at = "publish" => Cardinality(Assets(u)) + q.files =< Quota
        /\ q.at \in {"journal", "move"} =>
             Cardinality(Assets(u) \cup ({q.post} \X q.names)) =< Quota

Mine(r) == Known(req[r]) /\ Locked(r) /\ Seen(req[r]) /\ Cleared(req[r]) /\ Fits(req[r])
InOrder(p) == Gone(p) /\ Strays(p) /\ Intact(p)

LInv ==
    /\ TypeOK
    /\ \A r \in Requests : Mine(r)
    /\ \A p \in Posts : Bare(p)
    /\ \A p \in Posts \ raced : InOrder(p)
    /\ \A r \in Requests : req[r].post \in Posts \ raced => Relies(req[r])
    /\ \A p \in Posts \ (raced \cup cut) : Explained(p)
    /\ \A u \in Users : Cardinality(Assets(u)) =< Quota
-----------------------------------------------------------------------------
(* What a step leaves alone.                                               *)

\* A request goes on as it was; what it staged may have been removed.
Same(q) ==
    /\ req'[q].at = req[q].at /\ req'[q].post = req[q].post /\ req'[q].op = req[q].op
    /\ req'[q].user = req[q].user /\ req'[q].owner = req[q].owner
    /\ req'[q].files = req[q].files /\ req'[q].names = req[q].names
    /\ req'[q].moved = req[q].moved /\ req'[q].todo = req[q].todo
    /\ req'[q].clean = req[q].clean

\* A step of r leaves the other requests and their locks alone, and changes meta.json
\* when nobody else has its lock.
Alone(r) ==
    /\ \A q \in Requests \ {r} : Same(q)
    /\ \A q \in Requests \ {r} : metaLock = q => metaLock' = q /\ meta' = meta
    /\ \A q \in Requests \ {r} : \A u \in Users : quotaLock[u] = q => quotaLock'[u] = q

\* It forgets nothing.
Remembers == raced \subseteq raced' /\ cut \subseteq cut' /\ taken \subseteq taken'

SamePost(x) ==
    meta'[x] = meta[x] /\ dirs'[x] = dirs[x] /\ (x \in littered' <=> x \in littered)

\* The parts of the invariant about p that a step on p has to keep.
KeptOn(p, r) ==
    /\ Bare(p)'
    /\ p \notin raced' => InOrder(p)'
    /\ p \notin raced' => \A q \in Requests \ {r} : req[q].post = p => Relies(req[q])'
    /\ p \notin raced' \cup cut' => Explained(p)'
    /\ \A q \in Requests \ {r} : ClearedOf(req[q], p)'

\* What r has to see to for itself.
KeptBy(r) == Mine(r)' /\ (req'[r].post \in Posts \ raced' => Relies(req[r])')

\* The quota.
KeptQuota(r) ==
    /\ \A q \in Requests \ {r} : Fits(req[q])'
    /\ \A u \in Users : Cardinality(Assets(u))' =< Quota

\* A post is not purged but by who purges already, and those go on.
PurgesOn(x) == (Purged(x)' => Purged(x)) /\ (Purging(x) => Purging(x)')

LEMMA SameSound ==
    ASSUME NEW x \in Posts, SamePost(x), Remembers, InOrder(x), Purged(x)' => Purged(x)
    PROVE  InOrder(x)'
  <1>1. Listed(x)' = Listed(x) /\ OnDisk(x)' = OnDisk(x) /\ Journaled(x)' = Journaled(x)
        /\ IsGallery(x)' = IsGallery(x)
    BY DEF SamePost, Listed, OnDisk, Journaled, IsGallery
  <1>2. Gone(x)'
    BY <1>1 DEF SamePost, InOrder, Gone, Empty
  <1>3. Strays(x)'
    BY <1>1 DEF SamePost, InOrder, Strays
  <1>4. Intact(x)'
    BY <1>1 DEF SamePost, InOrder, Intact, Remembers
  <1> QED  BY SMTT(30), <1>2, <1>3, <1>4 DEF InOrder

LEMMA SameRelies ==
    ASSUME NEW q, Same(q), SamePost(req[q].post), Relies(req[q]),
           Purged(req[q].post)' => Purged(req[q].post)
    PROVE  Relies(req[q])'
  <1>1. req'[q].at = req[q].at /\ req'[q].post = req[q].post
    BY DEF Same
  <1>2. req[q].at \in Journaling => ~Purged(req[q].post)'
    BY DEF Relies
  <1> QED  BY SMTT(30), <1>1, <1>2
           DEF Same, SamePost, Relies, GalleryOf, IsGallery, Listed, OnDisk

\* A request goes on to explain what it explained.
Continues(q) ==
    /\ req'[q].post = req[q].post
    /\ req'[q].names = req[q].names /\ req'[q].moved = req[q].moved
    /\ req'[q].at = req[q].at \/ (req[q].at = "move" /\ req'[q].at = "rollback")

\* What explains the state of a post still does, if those go on who explain it.
LEMMA SameReasons ==
    ASSUME NEW x, Purging(x) => Purging(x)',
           \A q \in Requests : req[q].post = x /\ req[q].at \in Explaining =>
             Continues(q) \/ req[q].at = "unpack"
    PROVE  /\ (\A q \in Requests : req[q].post = x /\ req[q].at = "unpack" => Continues(q))
                => (Unentered(x) => Unentered(x)')
           /\ On(x, {"entry"}) => On(x, {"entry"})'
           /\ Homeless(x) => Homeless(x)'
           /\ \A names : JournalOf(x, names) => JournalOf(x, names)'
           /\ \A n : Unlisted(x, n) => Unlisted(x, n)'
           /\ \A n : Lost(x, n) => Lost(x, n)'
  <1>1. On(x, {"entry"}) => On(x, {"entry"})'
    BY DEF Continues, On, Explaining
  <1>2. (\A q \in Requests : req[q].post = x /\ req[q].at = "unpack" => Continues(q))
          => (Unentered(x) => Unentered(x)')
    BY DEF Continues, Unentered, On, Explaining
  <1>3. On(x, {"pop"}) => On(x, {"pop"})'
    BY DEF Continues, On, Explaining
  <1>4. On(x, {"rmdir", "pop"}) => On(x, {"rmdir", "pop"})'
    BY DEF Continues, On, Explaining
  <1>5. \A names : JournalOf(x, names) => JournalOf(x, names)'
    BY DEF Continues, JournalOf, Explaining, Journaling
  <1>6. \A n : Unlisted(x, n) => Unlisted(x, n)'
    BY DEF Continues, Unlisted, Explaining, Journaling
  <1>7. \A n : Lost(x, n) => Lost(x, n)'
    BY <1>4 DEF Continues, Lost, Explaining
  <1> QED  BY <1>1, <1>2, <1>3, <1>5, <1>6, <1>7 DEF Homeless

\* Who gives up an unpacking leaves nothing to explain if there is an entry.
LEMMA SameExplained ==
    ASSUME NEW x, SamePost(x), Explained(x), PurgesOn(x),
           On(x, {"unpack"})' => On(x, {"unpack"}),
           \A q \in Requests : req[q].post = x /\ req[q].at \in Explaining =>
             Continues(q) \/ (req[q].at = "unpack" /\ meta[x] # None)
    PROVE  Explained(x)'
  <1>1. /\ Listed(x)' = Listed(x) /\ OnDisk(x)' = OnDisk(x)
        /\ dirs'[x] = dirs[x] /\ meta'[x] = meta[x] /\ IsGallery(x)' = IsGallery(x)
    BY DEF SamePost, Listed, OnDisk, IsGallery
  <1>2. /\ meta[x] = None => (Unentered(x) => Unentered(x)')
        /\ On(x, {"entry"}) => On(x, {"entry"})'
        /\ Homeless(x) => Homeless(x)'
        /\ \A names : JournalOf(x, names) => JournalOf(x, names)'
        /\ \A n : Unlisted(x, n) => Unlisted(x, n)'
        /\ \A n : Lost(x, n) => Lost(x, n)'
    BY SameReasons DEF PurgesOn, Explaining
  <1> QED  BY <1>1, <1>2 DEF Explained, PurgesOn

\* A post is purged or not as before if those go on who purge.
LEMMA SamePurged ==
    ASSUME NEW r, NEW x \in Posts, \A q \in Requests \ {r} : Same(q), meta'[x] = meta[x],
           r \in Requests => (PurgedBy(req[r], x)' => PurgedBy(req[r], x)),
           r \in Requests /\ req[r].at = "purging" /\ x \in OwnedBy(req[r].user) =>
             req'[r].at = "purging" /\ req'[r].user = req[r].user
    PROVE  PurgesOn(x)
  <1>1. \A q \in Requests \ {r} : PurgedBy(req[q], x)' <=> PurgedBy(req[q], x)
    BY DEF PurgedBy, Same, OwnedBy
  <1>2. Purged(x)' => Purged(x)
    BY <1>1 DEF Purged
  <1>3. \A u : x \in OwnedBy(u) => x \in OwnedBy(u)'
    BY DEF OwnedBy
  <1>4. Purging(x) => Purging(x)'
    BY <1>3 DEF Purging, Same
  <1> QED  BY <1>2, <1>4 DEF PurgesOn

\* For the parts about what r neither works on nor owns, that is all there is to show.
LEMMA Assemble ==
    ASSUME LInv, NEW r, NEW P, TypeOK', Alone(r), Remembers,
           \A x \in Posts : x \notin P => SamePost(x) /\ (Purged(x)' => Purged(x)),
           \A x \in Posts \ cut' : x \notin P => PurgesOn(x),
           r \in Requests => /\ KeptBy(r)
                             /\ req[r].at \in Explaining => req[r].post \in P
                             /\ req'[r].at = "unpack" => req'[r].post \in P,
           \A p \in Posts \cap P : KeptOn(p, r), KeptQuota(r)
    PROVE  LInv'
  <1>1. ASSUME NEW q \in Requests \ {r} PROVE Mine(q)'
    <2>1. Same(q) /\ Mine(q)
      BY <1>1 DEF Alone, LInv
    <2>2. req[q].at \in HoldsMeta => metaLock = q /\ metaLock' = q /\ meta' = meta
      BY <1>1, <2>1 DEF Mine, Locked, Alone
    <2>3. Known(req[q])'
      BY <2>1, <2>2 DEF Mine, Known, Same, OwnedBy, HoldsMeta, HoldsQuota
    <2>4. Locked(q)'
      <3>1. req[q].at \in HoldsQuota => req[q].owner \in Users
        BY <2>1 DEF Mine, Known
      <3>2. req[q].at \in HoldsQuota => quotaLock'[req[q].owner] = q
        BY <1>1, <2>1, <3>1 DEF Mine, Locked, Alone
      <3> QED  BY <2>1, <2>2, <3>2 DEF Same, Locked
    <2>5. Seen(req[q])'
      BY <2>1, <2>2 DEF Mine, Seen, Same, GalleryOf, IsGallery, HoldsMeta
    <2>6. Cleared(req[q])'
      <3> SUFFICES ASSUME NEW x \in Posts PROVE ClearedOf(req[q], x)'
        BY DEF Cleared
      <3>1. CASE x \in P
        BY <1>1, <3>1 DEF KeptOn
      <3>2. CASE x \notin P
        <4>1. ClearedOf(req[q], x) /\ SamePost(x)
          BY <2>1, <3>2 DEF Mine, Cleared
        <4>2. Clear(x) => Clear(x)'
          BY <4>1 DEF Clear, SamePost, OnDisk, Listed, IsGallery
        <4> QED  BY <2>1, <4>1, <4>2
                 DEF ClearedOf, Same, SamePost, Galleries, OwnedBy, Remembers
      <3> QED  BY <3>1, <3>2
    <2> QED  BY <1>1, <2>3, <2>4, <2>5, <2>6 DEF Mine, KeptQuota
  <1>2. \A x \in Posts : Bare(x)'
    <2> SUFFICES ASSUME NEW x \in Posts PROVE Bare(x)'
      OBVIOUS
    <2>1. CASE x \in P
      BY <2>1 DEF KeptOn
    <2>2. CASE x \notin P
      BY <2>2 DEF LInv, Bare, SamePost
    <2> QED  BY <2>1, <2>2
  <1>3. ASSUME NEW x \in Posts \ raced' PROVE InOrder(x)'
    <2>1. CASE x \in P
      BY <1>3, <2>1 DEF KeptOn
    <2>2. CASE x \notin P
      <3>1. InOrder(x) /\ SamePost(x) /\ (Purged(x)' => Purged(x))
        BY <1>3, <2>2 DEF LInv, Remembers
      <3> QED  BY <1>3, <3>1, SameSound
    <2> QED  BY <2>1, <2>2
  <1>4. ASSUME NEW q \in Requests, req'[q].post \in Posts \ raced' PROVE Relies(req[q])'
    <2>1. CASE q = r
      BY <1>4, <2>1 DEF KeptBy
    <2>2. CASE q # r
      <3>1. Same(q) /\ req'[q].post = req[q].post /\ req[q].post \in Posts
        BY <1>4, <2>2 DEF Alone, Same
      <3>2. Relies(req[q])
        BY <1>4, <3>1 DEF LInv, Remembers
      <3>3. CASE req[q].post \in P
        BY <1>4, <2>2, <3>1, <3>3 DEF KeptOn
      <3>4. CASE req[q].post \notin P
        BY <1>4, <3>1, <3>2, <3>4, SameRelies
      <3> QED  BY <3>3, <3>4
    <2> QED  BY <2>1, <2>2
  <1>5. ASSUME NEW x \in Posts \ (raced' \cup cut') PROVE Explained(x)'
    <2>1. CASE x \in P
      BY <1>5, <2>1 DEF KeptOn
    <2>2. CASE x \notin P
      <3>1. Explained(x) /\ SamePost(x) /\ PurgesOn(x)
        BY <1>5, <2>2 DEF LInv, Remembers
      <3>2. \A q \in Requests : req[q].post = x /\ req[q].at \in Explaining => Continues(q)
        BY <2>2 DEF Alone, Same, Continues
      <3>3. On(x, {"unpack"})' => On(x, {"unpack"})
        BY <2>2 DEF Alone, Same, On
      <3> QED  BY <3>1, <3>2, <3>3, SameExplained
    <2> QED  BY <2>1, <2>2
  <1>6. \A q \in Requests : Mine(q)'
    BY <1>1 DEF KeptBy
  <1> QED  BY <1>2, <1>3, <1>4, <1>5, <1>6 DEF LInv, KeptQuota

LEMMA StoredFinite == \A P \in SUBSET Posts : IsFiniteSet(Stored(P))
  <1> SUFFICES ASSUME NEW P \in SUBSET Posts PROVE IsFiniteSet(Stored(P))
    OBVIOUS
  <1>1. IsFiniteSet(P) /\ IsFiniteSet(Names)
    BY LoftAssumption, FS_Subset, FS_Interval DEF Names
  <1>2. IsFiniteSet(P \X Names)
    BY <1>1, FS_Product
  <1> QED  BY <1>2, FS_Subset DEF Stored

LEMMA AssetsFinite == \A u : IsFiniteSet(Assets(u)) /\ Cardinality(Assets(u)) \in Nat
  <1> TAKE u
  <1>1. Counted(u) \in SUBSET Posts
    BY DEF Counted, OwnedBy
  <1> QED  BY <1>1, StoredFinite, FS_CardinalityType DEF Assets

\* What the names of an upload take, if all of them are to be stored.
LEMMA NamesFinite ==
    ASSUME NEW names \in SUBSET Names, NEW p
    PROVE  /\ IsFiniteSet({p} \X names)
           /\ Cardinality({p} \X names) = Cardinality(names) /\ Cardinality(names) \in Nat
  <1>1. IsFiniteSet(names)
    <2>1. IsFiniteSet(Names)
      BY LoftAssumption, FS_Interval DEF Names
    <2> QED  BY <2>1, FS_Subset
  <1>2. IsFiniteSet({p}) /\ Cardinality({p}) = 1
    BY FS_Singleton
  <1>3. Cardinality({p} \X names) = 1 * Cardinality(names) /\ Cardinality(names) \in Nat
    BY <1>1, <1>2, FS_Product, FS_CardinalityType
  <1> QED  BY <1>1, <1>2, <1>3, FS_Product

\* A step after which nobody stores more.
LEMMA StoresNoMore ==
    ASSUME LInv, NEW r, Alone(r), TypeOK', \A u \in Users : Assets(u)' \subseteq Assets(u)
    PROVE  KeptQuota(r)
  <1>1. ASSUME NEW u \in Users, NEW T, IsFiniteSet(T)
        PROVE  /\ Cardinality(Assets(u)') =< Cardinality(Assets(u))
               /\ Cardinality(Assets(u)') \in Nat /\ Cardinality(Assets(u)) \in Nat
               /\ Cardinality(Assets(u)' \cup T) =< Cardinality(Assets(u) \cup T)
               /\ Cardinality(Assets(u)' \cup T) \in Nat
               /\ Cardinality(Assets(u) \cup T) \in Nat
    <2>1. IsFiniteSet(Assets(u)) /\ Assets(u)' \in SUBSET Assets(u)
      BY AssetsFinite
    <2>2. IsFiniteSet(Assets(u) \cup T) /\ Assets(u)' \cup T \in SUBSET (Assets(u) \cup T)
      BY <1>1, <2>1, FS_Union
    <2>3. IsFiniteSet(Assets(u)') /\ Cardinality(Assets(u)') =< Cardinality(Assets(u))
      BY <2>1, FS_Subset
    <2>4. /\ IsFiniteSet(Assets(u)' \cup T)
          /\ Cardinality(Assets(u)' \cup T) =< Cardinality(Assets(u) \cup T)
      BY <2>2, FS_Subset
    <2> QED  BY <2>1, <2>2, <2>3, <2>4, FS_CardinalityType
  <1>2. ASSUME NEW q \in Requests \ {r} PROVE Fits(req[q])'
    <2> SUFFICES ASSUME NEW u \in Users, u = req'[q].owner
                 PROVE  /\ req'[q].at = "publish" =>
                             Cardinality(Assets(u)') + req'[q].files =< Quota
                        /\ req'[q].at \in {"journal", "move"} =>
                             Cardinality(Assets(u)' \cup ({req'[q].post} \X req'[q].names)) =< Quota
      BY DEF Fits
    <2>1. Same(q) /\ Fits(req[q]) /\ Known(req[q]) /\ req[q] \in Request
      BY <1>2 DEF Alone, LInv, Mine, TypeOK
    <2>2. /\ req[q].at = "publish" => Cardinality(Assets(u)) + req[q].files =< Quota
          /\ req[q].at \in {"journal", "move"} =>
               Cardinality(Assets(u) \cup ({req[q].post} \X req[q].names)) =< Quota
      BY <2>1 DEF Fits, Same
    <2>3. CASE req[q].at = "publish"
      <3>1. req[q].files \in Nat /\ Quota \in Nat
        BY <2>1, <2>3, LoftAssumption DEF Known, HoldsQuota
      <3>2. /\ Cardinality(Assets(u)) + req[q].files =< Quota
            /\ Cardinality(Assets(u)') =< Cardinality(Assets(u))
            /\ Cardinality(Assets(u)') \in Nat /\ Cardinality(Assets(u)) \in Nat
        BY <1>1, <2>2, <2>3, FS_EmptySet
      <3>3. Cardinality(Assets(u)') + req[q].files =< Quota
        BY ONLY <3>1, <3>2
      <3> QED  BY <2>1, <2>3, <3>3 DEF Same
    <2>4. CASE req[q].at \in {"journal", "move"}
      <3> DEFINE T == {req[q].post} \X req[q].names
      <3>1. IsFiniteSet(T)
        BY <2>1, NamesFinite DEF Request
      <3>2. /\ Cardinality(Assets(u) \cup T) =< Quota /\ Quota \in Nat
            /\ Cardinality(Assets(u)' \cup T) =< Cardinality(Assets(u) \cup T)
            /\ Cardinality(Assets(u)' \cup T) \in Nat /\ Cardinality(Assets(u) \cup T) \in Nat
        BY <1>1, <2>2, <2>4, <3>1, LoftAssumption
      <3>3. Cardinality(Assets(u)' \cup T) =< Quota
        BY ONLY <3>2
      <3> QED  BY <2>1, <2>4, <3>3 DEF Same
    <2> QED  BY <2>1, <2>3, <2>4 DEF Same
  <1>3. ASSUME NEW u \in Users PROVE Cardinality(Assets(u)') =< Quota
    <2>1. /\ Cardinality(Assets(u)) =< Quota /\ Quota \in Nat
          /\ Cardinality(Assets(u)') =< Cardinality(Assets(u))
          /\ Cardinality(Assets(u)') \in Nat /\ Cardinality(Assets(u)) \in Nat
      BY <1>1, FS_EmptySet, LoftAssumption DEF LInv
    <2> QED  BY ONLY <2>1
  <1> QED  BY <1>2, <1>3 DEF KeptQuota

-----------------------------------------------------------------------------
(* Steps that change neither meta.json nor a directory.                    *)

Quiet == /\ UNCHANGED <<meta, dirs, taken, raced, littered>> /\ cut \subseteq cut'

\* What r explains, it goes on to explain, or the post is one where something was cut.
GoesOn(r) ==
    /\ req[r].at \in Explaining =>
         \/ req[r].post \in cut' \/ Continues(r)
         \/ req[r].at = "unpack" /\ meta[req[r].post] # None
    /\ req'[r].at # "unpack"
    /\ req[r].at = "purging" => OwnedBy(req[r].user) \subseteq cut'
    /\ req'[r].at = "purging" => OwnedBy(req'[r].user) \subseteq req'[r].todo

LEMMA QuietStep ==
    ASSUME LInv, NEW r \in Requests, TypeOK', Alone(r), Quiet, KeptBy(r), GoesOn(r)
    PROVE  LInv'
  <1>1. Remembers /\ \A x \in Posts : SamePost(x)
    BY DEF Quiet, Remembers, SamePost
  <1>2. ASSUME NEW x \in Posts PROVE Purged(x)' => Purged(x)
    <2>1. \A q \in Requests \ {r} : PurgedBy(req[q], x)' <=> PurgedBy(req[q], x)
      BY DEF PurgedBy, Alone, Same, OwnedBy, Quiet
    <2>2. ~PurgedBy(req[r], x)'
      BY DEF GoesOn, PurgedBy, OwnedBy, Quiet
    <2> QED  BY <2>1, <2>2 DEF Purged
  <1>3. ASSUME NEW x \in Posts \ cut' PROVE PurgesOn(x)
    <2>1. \A u : OwnedBy(u)' = OwnedBy(u)
      BY DEF OwnedBy, Quiet
    <2>2. Purging(x) => Purging(x)'
      BY <1>3, <2>1 DEF GoesOn, Purging, Alone, Same
    <2> QED  BY <1>2, <1>3, <2>2 DEF PurgesOn
  <1>4. ASSUME NEW p \in Posts, p = req[r].post PROVE KeptOn(p, r)
    <2>1. SamePost(p) /\ Bare(p)'
      BY <1>1, <1>4 DEF LInv, Bare, SamePost
    <2>2. p \notin raced' => InOrder(p)'
      BY <1>1, <1>2, <1>4, SameSound DEF LInv, Quiet
    <2>3. ASSUME p \notin raced', NEW q \in Requests \ {r}, req[q].post = p
          PROVE  Relies(req[q])'
      <3>1. Same(q) /\ SamePost(req[q].post) /\ Relies(req[q]) /\ req'[q].post = p
        BY <1>1, <1>4, <2>3 DEF Alone, LInv, Quiet, Same
      <3> QED  BY <1>2, <1>4, <2>3, <3>1, SameRelies
    <2>4. p \notin raced' \cup cut' => Explained(p)'
      <3> SUFFICES ASSUME p \notin raced' \cup cut' PROVE Explained(p)'
        OBVIOUS
      <3>1. Explained(p) /\ SamePost(p) /\ PurgesOn(p)
        BY <1>1, <1>3, <1>4 DEF LInv, Quiet
      <3>2. \A q \in Requests : req[q].post = p /\ req[q].at \in Explaining =>
              Continues(q) \/ (req[q].at = "unpack" /\ meta[p] # None)
        BY <1>4 DEF Alone, Same, Continues, GoesOn
      <3>3. On(p, {"unpack"})' => On(p, {"unpack"})
        BY <1>4 DEF Alone, Same, On, GoesOn
      <3> QED  BY <3>1, <3>2, <3>3, SameExplained
    <2>5. ASSUME NEW q \in Requests \ {r} PROVE ClearedOf(req[q], p)'
      <3>1. ClearedOf(req[q], p) /\ Same(q)
        BY <1>4, <2>5 DEF LInv, Mine, Cleared, Alone
      <3>2. Clear(p)' <=> Clear(p)
        BY DEF Clear, Quiet, OnDisk, Listed, IsGallery
      <3> QED  BY <3>1, <3>2 DEF ClearedOf, Same, Galleries, OwnedBy, Quiet
    <2> QED  BY <2>1, <2>2, <2>3, <2>4, <2>5 DEF KeptOn
  <1>5. \A u \in Users : Assets(u)' \subseteq Assets(u)
    BY DEF Quiet, Assets, Stored, Counted, OwnedBy, IsGallery
  <1>6. KeptQuota(r)
    BY <1>5, StoresNoMore
  <1>7. PICK P : P = {req[r].post}
    OBVIOUS
  <1> QED  BY <1>1, <1>2, <1>3, <1>4, <1>6, <1>7, Assemble DEF GoesOn

\* A request becomes what k is; the locks of the others stay.
Becomes(r, k) ==
    /\ req' \in [Requests -> Request] /\ req'[r] = k
    /\ \A q \in Requests \ {r} : Same(q)
Releases(r) ==
    /\ metaLock' \in Requests \cup {None} /\ quotaLock' \in [Users -> Requests \cup {None}]
    /\ \A q \in Requests \ {r} : metaLock = q => metaLock' = q
    /\ \A q \in Requests \ {r} : \A u \in Users : quotaLock[u] = q => quotaLock'[u] = q
HasLocks(r, k) ==
    /\ k.at \in HoldsMeta => metaLock' = r
    /\ k.at \in HoldsQuota => quotaLock'[k.owner] = r

\* What is to be shown of k.
Holds(k) == /\ Known(k) /\ Seen(k) /\ Cleared(k) /\ Fits(k)
            /\ k.post \in Posts \ raced => Relies(k)

LEMMA QuietTo ==
    ASSUME LInv, NEW r \in Requests, NEW k \in Request, Becomes(r, k), Releases(r), Quiet,
           ops' \in 0..MaxOps, cut' \subseteq Posts, Holds(k), HasLocks(r, k),
           k.at # "unpack",
           req[r].at \in Explaining =>
             \/ req[r].post \in cut'
             \/ req[r].at = "unpack" /\ meta[req[r].post] # None
             \/ /\ req[r].at = "move" /\ k.at = "rollback"
                /\ k.post = req[r].post /\ k.names = req[r].names /\ k.moved = req[r].moved,
           req[r].at = "purging" => OwnedBy(req[r].user) \subseteq cut',
           k.at = "purging" => OwnedBy(k.user) \subseteq k.todo
    PROVE  LInv'
  <1>1. TypeOK'
    BY DEF LInv, TypeOK, Becomes, Releases, Quiet
  <1>2. Alone(r)
    BY DEF Alone, Becomes, Releases, Quiet
  <1>3. Known(req[r])' /\ Seen(req[r])'
    BY DEF Holds, Becomes, Known, Seen, Quiet, OwnedBy, GalleryOf, IsGallery
  <1>4. Locked(r)'
    BY DEF Locked, HasLocks, Becomes
  <1>5. Cleared(req[r])'
    <2> SUFFICES ASSUME NEW x \in Posts PROVE ClearedOf(req[r], x)'
      BY DEF Cleared
    <2>1. Clear(x)' <=> Clear(x)
      BY DEF Clear, Quiet, OnDisk, Listed, IsGallery
    <2> QED  BY <2>1 DEF Holds, Becomes, Cleared, ClearedOf, Quiet, Galleries, OwnedBy
  <1>6. Fits(req[r])'
    <2>1. \A u : Assets(u)' = Assets(u)
      BY DEF Quiet, Assets, Stored, Counted, OwnedBy, IsGallery
    <2> QED  BY <2>1 DEF Holds, Becomes, Fits
  <1>7. req'[r].post \in Posts \ raced' => Relies(req[r])'
    <2> SUFFICES ASSUME k.post \in Posts \ raced' PROVE Relies(req[r])'
      BY DEF Becomes
    <2>1. Relies(k) /\ req'[r] = k
      BY DEF Holds, Becomes, Quiet
    <2>2. Purged(k.post)' => Purged(k.post)
      <3>1. \A u : OwnedBy(u)' = OwnedBy(u)
        BY DEF OwnedBy, Quiet
      <3>2. ASSUME NEW q \in Requests, PurgedBy(req[q], k.post)' PROVE PurgedBy(req[q], k.post)
        BY <2>1, <3>1, <3>2 DEF PurgedBy, Becomes, Same
      <3> QED  BY <3>2 DEF Purged
    <2>3. k.at \in Journaling => ~Purged(k.post)'
      BY <2>1, <2>2 DEF Relies
    <2> QED  BY <2>1, <2>3 DEF Quiet, Relies, GalleryOf, IsGallery, Listed, OnDisk
  <1>8. GoesOn(r)
    BY DEF GoesOn, Continues, Becomes, Quiet, OwnedBy
  <1> QED  BY <1>1, <1>2, <1>3, <1>4, <1>5, <1>6, <1>7, <1>8, QuietStep DEF KeptBy, Mine

LEMMA ReqStep ==
    ASSUME LInv, NEW r \in Requests, NEW k \in Request, req' = [req EXCEPT ![r] = k]
    PROVE  Becomes(r, k)
  BY DEF LInv, TypeOK, Becomes, Same

\* At most steps a request relies on nothing.
Plain == {"idle", "body", "unpack", "register", "look", "stage", "wait", "recover",
          "rmtree", "pop"}

LEMMA PlainHolds ==
    ASSUME NEW k, k.at \in Plain, Known(k)
    PROVE  Holds(k) /\ k.at \notin HoldsMeta
  BY DEF Plain, Holds, Seen, Cleared, ClearedOf, Fits, Relies, Counting, Journaling, HoldsMeta

LEMMA IdleIs == /\ Idle \in Request /\ Known(Idle) /\ Idle.at = "idle" /\ Idle.post = None
                /\ Idle.names = {} /\ Idle.todo = {} /\ Idle.clean = TRUE
  BY DEF Idle, Request, Known, InPost, Numbered, HoldsQuota, Steps, Kinds

\* A request that goes to another step.
LEMMA GoIs ==
    ASSUME LInv, NEW r \in Requests, NEW step \in Steps, Go(r, step)
    PROVE  \E k \in Request :
             /\ req' = [req EXCEPT ![r] = k] /\ Becomes(r, k) /\ k.at = step
             /\ k.post = req[r].post /\ k.op = req[r].op /\ k.user = req[r].user
             /\ k.owner = req[r].owner /\ k.files = req[r].files /\ k.names = req[r].names
             /\ k.moved = req[r].moved /\ k.todo = req[r].todo /\ k.clean = req[r].clean
  <1>1. req[r] \in Request /\ req \in [Requests -> Request]
    BY DEF LInv, TypeOK
  <1>2. PICK k : k = [req[r] EXCEPT !.at = step]
    OBVIOUS
  <1>3. k \in Request /\ req' = [req EXCEPT ![r] = k]
    BY <1>1, <1>2 DEF Go, Request
  <1>4. Becomes(r, k)
    BY <1>3, ReqStep
  <1> QED  BY <1>1, <1>2, <1>3, <1>4 DEF Request

LEMMA DoneIs ==
    ASSUME LInv, NEW r \in Requests, Done(r)
    PROVE  Becomes(r, Idle)
  BY IdleIs, ReqStep DEF Done

LEMMA GiveUpIs ==
    ASSUME LInv, NEW r \in Requests, req[r].at \in InPost, GiveUp(r)
    PROVE  \E k \in Request : Becomes(r, k) /\ Known(k) /\ k.at \in {"idle", "rmtree"}
  <1>1. /\ req[r] \in Request /\ req \in [Requests -> Request] /\ Known(req[r])
        /\ req[r].post \in Posts
    BY DEF LInv, TypeOK, Mine, Known
  <1>2. CASE req[r].creating
    <2>1. PICK k : k = [Idle EXCEPT !.at = "rmtree", !.post = req[r].post, !.saw = req[r].saw]
      OBVIOUS
    <2>2. k \in Request /\ k.at = "rmtree" /\ k.post \in Posts /\ k.names = {} /\ k.moved = {}
      BY ZenonT(40), <1>1, <2>1 DEF Idle, Request, Steps, Kinds
    <2>3. Known(k)
      BY <2>2 DEF Known, InPost, Numbered, HoldsQuota
    <2>4. req' = [req EXCEPT ![r] = k]
      BY <1>1, <1>2, <2>1 DEF GiveUp
    <2> QED  BY <2>2, <2>3, <2>4, ReqStep
  <1>3. CASE ~req[r].creating
    <2>1. req' = [req EXCEPT ![r] = Idle]
      BY <1>1, <1>3 DEF GiveUp
    <2> QED  BY <2>1, IdleIs, ReqStep
  <1> QED  BY <1>2, <1>3

LEMMA DropsOwn ==
    ASSUME LInv, NEW r \in Requests, DropQuota(r)
    PROVE  /\ quotaLock' \in [Users -> Requests \cup {None}]
           /\ \A q \in Requests \ {r} : \A u \in Users : quotaLock[u] = q => quotaLock'[u] = q
  BY DEF LInv, TypeOK, DropQuota

LEMMA SameLocks ==
    ASSUME LInv, NEW r, UNCHANGED locks
    PROVE  Releases(r)
  BY DEF LInv, TypeOK, Releases, locks

-----------------------------------------------------------------------------
(* The quiet steps, one by one.                                            *)

\* A request that begins takes the next number.
LEMMA BeginIs ==
    ASSUME LInv, NEW r \in Requests, NEW b \in Request, Begin(r, b), b.at \in InPost,
           b.post \in Posts, b.at \in {"mkdir", "unpack"} => b.user \in Users,
           b.at = "look" => b.files \in Batches,
           b.at \in {"mkdir", "unpack", "look"}, b.moved = {}
    PROVE  \E k \in Request :
             Becomes(r, k) /\ Known(k) /\ k.at = b.at /\ k.post = b.post /\ k.op = ops + 1
  <1>1. ops + 1 \in Ops
    BY LoftAssumption DEF LInv, TypeOK, Begin, Ops
  <1>2. PICK k : k = [b EXCEPT !.op = ops + 1]
    OBVIOUS
  <1>3. /\ k \in Request /\ k.at = b.at /\ k.post = b.post /\ k.op = ops + 1
        /\ k.user = b.user /\ k.files = b.files /\ k.moved = {}
    BY <1>1, <1>2 DEF Request
  <1>4. Known(k)
    BY <1>1, <1>3 DEF Known, HoldsQuota
  <1>5. Becomes(r, k)
    BY <1>2, <1>3, ReqStep DEF Begin
  <1> QED  BY <1>3, <1>4, <1>5

LEMMA OpsNext == LInv /\ (\E r, b : Begin(r, b)) => ops' \in 0..MaxOps
  BY LoftAssumption DEF LInv, TypeOK, Begin

LEMMA BeginCreateStep ==
    ASSUME LInv, NEW r \in Requests, NEW u \in Users, NEW p \in Posts,
           NEW kind \in Kinds \ {"raw"}, NEW n \in Batches \cup {0}, BeginCreate(r, u, p, kind, n)
    PROVE  LInv'
  <1>1. PICK b : b = [Idle EXCEPT !.at = "mkdir", !.user = u, !.post = p, !.saw = ops + 1,
                                  !.kind = kind, !.files = n, !.creating = n > 0]
    OBVIOUS
  <1>2. ops + 1 \in Ops /\ n \in Int
    <2>1. ops < MaxOps /\ ops \in 0..MaxOps /\ MaxOps \in Nat
      BY LoftAssumption DEF LInv, TypeOK, BeginCreate, Begin
    <2>2. ops + 1 \in Ops
      BY <2>1 DEF Ops
    <2> QED  BY <2>2, LoftAssumption
  <1>3. b \in Request
    <2>1. (n > 0) \in BOOLEAN
      BY <1>2
    <2> QED  BY ZenonT(40), <1>1, <1>2, <2>1 DEF Idle, Request, Steps
  <1>4. b.at = "mkdir" /\ b.post = p /\ b.user = u /\ b.moved = {}
    BY <1>1 DEF Idle
  <1>5. Begin(r, b)
    BY <1>1 DEF BeginCreate
  <1>6. PICK k \in Request : Becomes(r, k) /\ Known(k) /\ k.at = "mkdir" /\ k.post = p
    BY <1>3, <1>4, <1>5, BeginIs DEF InPost, Steps
  <1>7. Holds(k) /\ HasLocks(r, k)
    <2>1. p \notin littered
      BY DEF BeginCreate, LInv, Bare
    <2> QED  BY <1>6, <2>1 DEF Holds, Seen, Cleared, ClearedOf, Fits, Relies, Counting,
                               Journaling, HasLocks, HoldsMeta, HoldsQuota
  <1>8. Quiet /\ UNCHANGED locks /\ cut' \subseteq Posts
    BY DEF BeginCreate, Quiet, history, LInv, TypeOK
  <1>9. req[r].at = "idle"
    BY <1>5 DEF Begin, At
  <1> QED  BY <1>5, <1>6, <1>7, <1>8, <1>9, OpsNext, SameLocks, QuietTo
           DEF Explaining, Journaling

\* With exactly the listed media kept, the entry stays as it is.
LEMMA BeginAddStep ==
    ASSUME LInv, NEW r \in Requests, NEW u \in Users, NEW p \in Posts,
           NEW order \in SUBSET Names, NEW n \in Batches, BeginAdd(r, u, p, order, n)
    PROVE  LInv'
  <1>1. PICK b : b = [Idle EXCEPT !.at = "look", !.user = u, !.post = p, !.files = n]
    OBVIOUS
  <1>2. b \in Request
    BY ZenonT(40), <1>1 DEF Idle, Request, Steps, Kinds
  <1>3. b.at = "look" /\ b.post = p /\ b.files = n /\ b.moved = {}
    BY <1>1 DEF Idle
  <1>4. Begin(r, b)
    BY <1>1 DEF BeginAdd
  <1>5. PICK k \in Request : Becomes(r, k) /\ Known(k) /\ k.at = "look"
    BY <1>2, <1>3, <1>4, BeginIs DEF InPost, Steps
  <1>6. Holds(k) /\ HasLocks(r, k)
    BY <1>5, PlainHolds DEF Plain, HasLocks, HoldsQuota
  <1>7. meta' = meta
    <2>1. meta \in [Posts -> Entry \cup {None}] /\ meta[p] \in Entry
      BY DEF LInv, TypeOK, BeginAdd, IsGallery
    <2>2. {i \in meta[p].items : i.name \in order} = meta[p].items
      BY DEF BeginAdd, OrderMatches, Listed, NamesIn
    <2>3. meta' = [meta EXCEPT ![p].items = meta[p].items]
      BY <2>2 DEF BeginAdd
    <2> QED  BY <2>1, <2>3 DEF Entry
  <1>8. Quiet /\ UNCHANGED locks /\ cut' \subseteq Posts
    BY <1>7 DEF BeginAdd, Quiet, history, LInv, TypeOK
  <1>9. req[r].at = "idle"
    BY <1>4 DEF Begin, At
  <1> QED  BY <1>4, <1>5, <1>6, <1>8, <1>9, OpsNext, SameLocks, QuietTo
           DEF Explaining, Journaling

\* What stays the same when a step names it so.
LEMMA Unchanged ==
    ASSUME LInv, UNCHANGED <<meta, dirs, ops, history>>
    PROVE  Quiet /\ ops' \in 0..MaxOps /\ cut' \subseteq Posts
  BY DEF LInv, TypeOK, Quiet, history

\* A quiet step to where the request relies on nothing, from where it explained nothing.
LEMMA ToPlain ==
    ASSUME LInv, NEW r \in Requests, NEW k \in Request, Becomes(r, k), Known(k),
           k.at \in Plain \ {"unpack"}, Releases(r), UNCHANGED <<meta, dirs, ops, history>>,
           k.at = "recover" => quotaLock'[k.owner] = r,
           req[r].at \notin Explaining \cup {"purging"}
    PROVE  LInv'
  <1>1. Holds(k) /\ k.at # "purging"
    BY PlainHolds DEF HoldsMeta
  <1>2. HasLocks(r, k)
    BY PlainHolds DEF HasLocks, HoldsQuota, Plain
  <1> QED  BY <1>1, <1>2, Unchanged, QuietTo

LEMMA GivesUp ==
    ASSUME LInv, NEW r \in Requests, req[r].at \in InPost, GiveUp(r), Releases(r),
           UNCHANGED <<meta, dirs, ops, history>>, req[r].at \notin Explaining
    PROVE  LInv'
  <1>1. PICK k \in Request : Becomes(r, k) /\ Known(k) /\ k.at \in {"idle", "rmtree"}
    BY GiveUpIs
  <1> QED  BY <1>1, ToPlain DEF Plain, InPost

LEMMA LookStep ==
    ASSUME LInv, NEW r \in Requests, Look(r)
    PROVE  LInv'
  <1>1. /\ req[r].at = "look" /\ req[r] \in Request /\ Known(req[r])
        /\ req \in [Requests -> Request] /\ req[r].post \in Posts
    BY DEF Look, At, LInv, TypeOK, Mine, Known, InPost, Steps
  <1>2. Releases(r) /\ UNCHANGED <<meta, dirs, ops, history>>
    BY SameLocks DEF Look
  <1>3. CASE IsGallery(req[r].post)
    <2>1. PICK k : k = [req[r] EXCEPT !.at = "stage", !.owner = meta[req[r].post].owner]
      OBVIOUS
    <2>2. meta[req[r].post].owner \in Users
      BY <1>1, <1>3 DEF LInv, TypeOK, IsGallery, Entry
    <2>3. /\ k \in Request /\ k.at = "stage" /\ k.post = req[r].post /\ k.op = req[r].op
          /\ k.owner \in Users /\ k.files = req[r].files /\ k.names = req[r].names
          /\ k.moved = req[r].moved
      BY ZenonT(40), <1>1, <2>1, <2>2 DEF Request, Steps
    <2>4. req' = [req EXCEPT ![r] = k]
      BY <1>1, <1>3, <2>1 DEF Look
    <2>5. Known(k)
      BY <1>1, <2>3 DEF Known, InPost, Numbered, HoldsQuota
    <2>6. Becomes(r, k)
      BY <2>3, <2>4, ReqStep
    <2> QED  BY <1>1, <1>2, <2>3, <2>5, <2>6, ToPlain DEF Plain, Explaining, Journaling
  <1>4. CASE ~IsGallery(req[r].post)
    BY <1>1, <1>2, <1>4, GivesUp DEF Look, InPost, Steps, Explaining, Journaling
  <1> QED  BY <1>3, <1>4

LEMMA StageStep ==
    ASSUME LInv, NEW r \in Requests, Stage(r)
    PROVE  LInv'
  <1>1. /\ req[r].at = "stage" /\ req[r] \in Request /\ Known(req[r])
        /\ req \in [Requests -> Request]
    BY DEF Stage, At, LInv, TypeOK, Mine
  <1>2. PICK old \in SUBSET {q \in Requests \ {r} : req[q].staged} :
          req' = [q \in Requests |->
                    IF q = r THEN [req[q] EXCEPT !.at = "wait", !.staged = TRUE]
                    ELSE IF q \in old THEN [req[q] EXCEPT !.staged = FALSE]
                    ELSE req[q]]
    BY DEF Stage
  <1>3. PICK k : k = [req[r] EXCEPT !.at = "wait", !.staged = TRUE]
    OBVIOUS
  <1>4. /\ k \in Request /\ k.at = "wait" /\ k.post = req[r].post /\ k.op = req[r].op
        /\ k.owner = req[r].owner /\ k.files = req[r].files /\ k.names = req[r].names
        /\ k.moved = req[r].moved
    BY <1>1, <1>3 DEF Request, Steps
  <1>5. ASSUME NEW q \in Requests \ {r} PROVE Same(q) /\ req'[q] \in Request
    <2>1. req[q] \in Request
      BY <1>1
    <2>2. req'[q] = [req[q] EXCEPT !.staged = FALSE] \/ req'[q] = req[q]
      BY <1>2, <1>5
    <2> QED  BY ZenonT(40), <2>1, <2>2 DEF Same, Request
  <1>6. Becomes(r, k)
    BY <1>2, <1>3, <1>4, <1>5 DEF Becomes
  <1>7. Known(k)
    BY <1>1, <1>4 DEF Known, InPost, Numbered, HoldsQuota, Steps
  <1>8. Releases(r) /\ UNCHANGED <<meta, dirs, ops, history>>
    BY SameLocks DEF Stage
  <1> QED  BY <1>1, <1>4, <1>6, <1>7, <1>8, ToPlain DEF Plain, Explaining, Journaling

LEMMA RefusalSteps ==
    ASSUME LInv, NEW r \in Requests, StageFails(r) \/ Busy(r)
    PROVE  LInv'
  BY SameLocks, GivesUp
     DEF StageFails, Busy, At, InPost, Steps, Explaining, Journaling

LEMMA TakeQuotaStep ==
    ASSUME LInv, NEW r \in Requests, TakeQuota(r)
    PROVE  LInv'
  <1>1. /\ req[r].at = "wait" /\ Known(req[r]) /\ Go(r, "recover")
        /\ req[r].owner \in Users /\ quotaLock[req[r].owner] = None
        /\ quotaLock' = [quotaLock EXCEPT ![req[r].owner] = r]
    BY DEF TakeQuota, LockOf, At, LInv, Mine, Known
  <1>2. PICK k \in Request :
          /\ Becomes(r, k) /\ k.at = "recover" /\ k.post = req[r].post
          /\ k.op = req[r].op /\ k.owner = req[r].owner /\ k.files = req[r].files
          /\ k.names = req[r].names /\ k.moved = req[r].moved
    BY <1>1, GoIs DEF Steps
  <1>3. Known(k)
    BY <1>1, <1>2 DEF Known, InPost, Numbered, HoldsQuota, Steps
  <1>4. Releases(r)
    BY <1>1, LoftAssumption DEF TakeQuota, Releases, LInv, TypeOK
  <1>5. quotaLock'[k.owner] = r
    BY <1>1, <1>2 DEF LInv, TypeOK
  <1>6. UNCHANGED <<meta, dirs, ops, history>>
    BY DEF TakeQuota
  <1> QED  BY <1>1, <1>2, <1>3, <1>4, <1>5, <1>6, ToPlain DEF Plain, Explaining, Journaling

LEMMA BeginDeleteStep ==
    ASSUME LInv, NEW r \in Requests, NEW u \in Users, NEW p \in Posts, BeginDelete(r, u, p)
    PROVE  LInv'
  <1>1. req[r].at = "idle" /\ meta[p] # None /\ req \in [Requests -> Request]
    BY DEF BeginDelete, At, MayEdit, LInv, TypeOK
  <1>2. PICK k : k = [Idle EXCEPT !.at = "rmtree", !.post = p, !.saw = meta[p].born]
    OBVIOUS
  <1>3. meta[p].born \in Ops
    BY <1>1 DEF LInv, TypeOK, Entry
  <1>4. k \in Request /\ k.at = "rmtree" /\ k.post = p /\ k.moved = {}
    BY ZenonT(40), <1>2, <1>3 DEF Idle, Request, Steps, Kinds
  <1>5. Known(k)
    BY <1>4 DEF Known, InPost, Numbered, HoldsQuota
  <1>6. Becomes(r, k)
    BY <1>2, <1>4, ReqStep DEF BeginDelete
  <1>7. Releases(r) /\ UNCHANGED <<meta, dirs, ops, history>>
    BY SameLocks DEF BeginDelete
  <1> QED  BY <1>1, <1>4, <1>5, <1>6, <1>7, ToPlain DEF Plain, Explaining, Journaling

LEMMA BeginPurgeStep ==
    ASSUME LInv, NEW r \in Requests, NEW u \in Users, BeginPurge(r, u)
    PROVE  LInv'
  <1>1. req[r].at = "idle" /\ metaLock = None /\ req \in [Requests -> Request]
    BY DEF BeginPurge, At, MetaFree, LInv, TypeOK
  <1>2. PICK k : k = [Idle EXCEPT !.at = "purging", !.user = u, !.todo = OwnedBy(u)]
    OBVIOUS
  <1>3. OwnedBy(u) \subseteq Posts
    BY DEF OwnedBy
  <1>4. /\ k \in Request /\ k.at = "purging" /\ k.user = u /\ k.todo = OwnedBy(u)
        /\ k.moved = {} /\ k.post = None
    BY ZenonT(40), <1>2, <1>3 DEF Idle, Request, Steps, Kinds
  <1>5. Known(k)
    BY <1>4 DEF Known, InPost, Numbered, HoldsQuota
  <1>6. Holds(k)
    BY <1>4, <1>5, LoftAssumption
       DEF Holds, Seen, Cleared, ClearedOf, Counting, Fits
  <1>7. Becomes(r, k)
    BY <1>2, <1>4, ReqStep DEF BeginPurge
  <1>8. metaLock' = r /\ UNCHANGED <<meta, dirs, quotaLock, ops, history>>
    BY DEF BeginPurge
  <1>9. Releases(r) /\ HasLocks(r, k)
    BY <1>1, <1>4, <1>8, LoftAssumption DEF Releases, HasLocks, HoldsQuota, LInv, TypeOK
  <1> QED  BY <1>1, <1>4, <1>6, <1>7, <1>8, <1>9, Unchanged, QuietTo DEF Explaining, Journaling

LEMMA CrashStep ==
    ASSUME LInv, NEW r \in Requests, Crash(r)
    PROVE  LInv'
  <1>1. /\ Becomes(r, Idle) /\ Known(req[r]) /\ req[r].at # "idle"
        /\ req[r].at \in InPost => req[r].post \in Posts
    BY DoneIs DEF Crash, LInv, Mine, Known, At
  <1>2. Holds(Idle)
    BY IdleIs, PlainHolds DEF Plain
  <1>3. HasLocks(r, Idle)
    BY IdleIs DEF HasLocks, HoldsMeta, HoldsQuota
  <1>4. Releases(r)
    BY DropsOwn, LoftAssumption DEF Crash, Releases, LInv, TypeOK
  <1>5. cut' = cut \cup HalfDone(r)
    BY DEF Crash
  <1>6. HalfDone(r) \subseteq Posts
    BY DEF HalfDone
  <1>7. req[r].at = "purging" => OwnedBy(req[r].user) \subseteq cut'
    BY <1>5 DEF HalfDone, At, OwnedBy
  <1>8. req[r].at \in Explaining => req[r].post \in cut'
    BY <1>1, <1>5 DEF HalfDone, Explaining, Journaling, InPost, Steps
  <1>9. Quiet /\ ops' \in 0..MaxOps /\ cut' \subseteq Posts
    BY <1>5, <1>6 DEF Crash, Quiet, LInv, TypeOK
  <1> QED  BY <1>1, <1>2, <1>3, <1>4, <1>7, <1>8, <1>9, IdleIs, QuietTo

\* A step within a publication: what does not change, and whose the locks are.
LEMMA InPublication ==
    ASSUME LInv, NEW r \in Requests, req[r].at \in HoldsQuota
    PROVE  /\ req[r] \in Request /\ Known(req[r]) /\ Seen(req[r]) /\ Cleared(req[r])
           /\ Fits(req[r]) /\ req \in [Requests -> Request]
           /\ req[r].at \in InPost /\ req[r].post \in Posts /\ req[r].owner \in Users
           /\ req[r].op \in Ops /\ req[r].files \in Batches
           /\ quotaLock[req[r].owner] = r
           /\ req[r].at \in HoldsMeta => metaLock = r
           /\ req[r].post \in Posts \ raced => Relies(req[r])
  <1>1. req[r] \in Request /\ Mine(r) /\ req \in [Requests -> Request]
    BY DEF LInv, TypeOK
  <1>2. req[r].at \in InPost /\ req[r].at \in Numbered
    BY DEF InPost, Steps, Numbered, HoldsQuota
  <1>3. req[r].post \in Posts /\ req[r].owner \in Users /\ req[r].op \in Ops
        /\ req[r].files \in Batches
    BY <1>1, <1>2 DEF Mine, Known
  <1>4. quotaLock[req[r].owner] = r /\ (req[r].at \in HoldsMeta => metaLock = r)
    BY <1>1 DEF Mine, Locked
  <1>5. req[r].post \in Posts \ raced => Relies(req[r])
    BY DEF LInv
  <1> QED  BY <1>1, <1>2, <1>3, <1>4, <1>5 DEF Mine

\* The lock of meta.json is taken when it is free, and given up by who has it.
LEMMA TakesMeta ==
    ASSUME LInv, NEW r \in Requests, metaLock = None, metaLock' = r, UNCHANGED quotaLock
    PROVE  Releases(r)
  BY LoftAssumption DEF LInv, TypeOK, Releases

LEMMA DropsMeta ==
    ASSUME LInv, NEW r \in Requests, metaLock = r, metaLock' = None, UNCHANGED quotaLock
    PROVE  Releases(r)
  BY LoftAssumption DEF LInv, TypeOK, Releases

LEMMA DropsQuota ==
    ASSUME LInv, NEW r \in Requests, DropQuota(r), UNCHANGED metaLock
    PROVE  Releases(r)
  BY DropsOwn DEF LInv, TypeOK, Releases

LEMMA BeginRecoveryStep ==
    ASSUME LInv, NEW r \in Requests, BeginRecovery(r)
    PROVE  LInv'
  <1>1. req[r].at = "recover" /\ metaLock = None /\ metaLock' = r
        /\ UNCHANGED quotaLock /\ UNCHANGED <<meta, dirs, ops, history>>
    BY DEF BeginRecovery, At, MetaFree
  <1>2. /\ req[r] \in Request /\ Known(req[r]) /\ req \in [Requests -> Request]
        /\ req[r].owner \in Users /\ quotaLock[req[r].owner] = r
    BY <1>1, InPublication DEF HoldsQuota
  <1>3. PICK k : k = [req[r] EXCEPT !.at = "recovering", !.todo = Galleries(req[r].owner)]
    OBVIOUS
  <1>4. Galleries(req[r].owner) \subseteq Posts
    BY DEF Galleries, OwnedBy
  <1>5. /\ k \in Request /\ k.at = "recovering" /\ k.post = req[r].post /\ k.op = req[r].op
        /\ k.owner = req[r].owner /\ k.files = req[r].files /\ k.names = req[r].names
        /\ k.moved = req[r].moved /\ k.todo = Galleries(k.owner)
    BY ZenonT(40), <1>2, <1>3, <1>4 DEF Request, Steps
  <1>6. Known(k)
    BY <1>1, <1>2, <1>5 DEF Known, InPost, Numbered, HoldsQuota, Steps
  <1>7. Seen(k)
    BY <1>5 DEF Seen, Galleries, OwnedBy, GalleryOf, IsGallery
  <1>8. Holds(k)
    BY <1>5, <1>6, <1>7
       DEF Holds, Cleared, ClearedOf, Fits, Relies, Journaling
  <1>9. Becomes(r, k)
    BY ZenonT(40), <1>2, <1>3, <1>5, ReqStep DEF BeginRecovery
  <1>10. HasLocks(r, k)
    BY <1>1, <1>2, <1>5 DEF HasLocks
  <1> QED  BY <1>1, <1>5, <1>8, <1>9, <1>10, TakesMeta, Unchanged, QuietTo
           DEF Explaining, Journaling

LEMMA RecoveryFailsStep ==
    ASSUME LInv, NEW r \in Requests, NEW p \in Posts, RecoveryFails(r, p)
    PROVE  LInv'
  <1>1. req[r].at = "recovering" /\ UNCHANGED locks /\ UNCHANGED <<meta, dirs, ops, history>>
    BY DEF RecoveryFails, At
  <1>2. /\ req[r] \in Request /\ Known(req[r]) /\ Seen(req[r]) /\ req \in [Requests -> Request]
        /\ quotaLock[req[r].owner] = r /\ metaLock = r
    BY <1>1, InPublication DEF HoldsQuota, HoldsMeta
  <1>3. PICK k : k = [req[r] EXCEPT !.todo = req[r].todo \ {p}, !.clean = FALSE]
    OBVIOUS
  <1>4. /\ k \in Request /\ k.at = "recovering" /\ k.post = req[r].post /\ k.op = req[r].op
        /\ k.owner = req[r].owner /\ k.files = req[r].files /\ k.names = req[r].names
        /\ k.moved = req[r].moved /\ k.todo = req[r].todo \ {p} /\ k.clean = FALSE
    BY ZenonT(40), <1>1, <1>2, <1>3 DEF Request
  <1>5. Known(k) /\ Seen(k)
    BY <1>1, <1>2, <1>4 DEF Known, Seen, InPost, Numbered, HoldsQuota, Steps
  <1>6. Holds(k)
    BY <1>4, <1>5 DEF Holds, Cleared, ClearedOf, Fits, Relies, Journaling
  <1>7. Becomes(r, k)
    BY <1>2, <1>3, <1>4, ReqStep DEF RecoveryFails
  <1>8. HasLocks(r, k)
    BY <1>1, <1>2, <1>4 DEF HasLocks, locks
  <1> QED  BY <1>1, <1>4, <1>6, <1>7, <1>8, SameLocks, Unchanged, QuietTo
           DEF Explaining, Journaling

LEMMA EndRecoveryStep ==
    ASSUME LInv, NEW r \in Requests, EndRecovery(r)
    PROVE  LInv'
  <1>1. /\ req[r].at = "recovering" /\ req[r].todo = {}
        /\ metaLock' = None /\ UNCHANGED <<meta, dirs, ops, history>>
    BY DEF EndRecovery, At
  <1>2. /\ Known(req[r]) /\ Cleared(req[r]) /\ req[r].at \in InPost
        /\ quotaLock[req[r].owner] = r /\ metaLock = r
    BY <1>1, InPublication DEF HoldsQuota, HoldsMeta
  <1>3. CASE GiveUp(r) /\ DropQuota(r)
    <2>1. Releases(r)
      BY <1>1, <1>2, <1>3, DropsOwn, LoftAssumption DEF Releases
    <2> QED  BY <1>1, <1>2, <1>3, <2>1, GivesUp DEF Explaining, Journaling
  <1>4. SUFFICES ASSUME Go(r, "quota"), UNCHANGED quotaLock PROVE LInv'
    BY <1>3 DEF EndRecovery
  <1>5. PICK k \in Request :
          /\ Becomes(r, k) /\ k.at = "quota" /\ k.post = req[r].post /\ k.op = req[r].op
          /\ k.owner = req[r].owner /\ k.files = req[r].files /\ k.names = req[r].names
          /\ k.moved = req[r].moved /\ k.todo = {} /\ k.clean = req[r].clean
    BY <1>1, <1>4, GoIs DEF Steps
  <1>6. Known(k)
    BY <1>1, <1>2, <1>5 DEF Known, InPost, Numbered, HoldsQuota, Steps
  <1>7. Cleared(k)
    BY <1>1, <1>2, <1>5 DEF Cleared, ClearedOf, Counting
  <1>8. Holds(k)
    BY <1>5, <1>6, <1>7 DEF Holds, Seen, Fits, Relies, Journaling
  <1>9. HasLocks(r, k)
    BY <1>2, <1>5, <1>4 DEF HasLocks, HoldsMeta
  <1> QED  BY <1>1, <1>2, <1>5, <1>8, <1>9, <1>4, DropsMeta, Unchanged, QuietTo
           DEF Explaining, Journaling

\* All of an owner's files are counted, those of the galleries among them.
LEMMA UsedCounts ==
    ASSUME NEW u
    PROVE  /\ Used(u) \in Nat /\ Cardinality(Assets(u)) =< Used(u)
           /\ Cardinality(Assets(u)) \in Nat
  <1>1. OwnedBy(u) \in SUBSET Posts /\ IsFiniteSet(OwnedBy(u))
    BY LoftAssumption, FS_Subset DEF OwnedBy
  <1>2. IsFiniteSet(Stored(OwnedBy(u))) /\ Cardinality(Stored(OwnedBy(u))) \in Nat
    BY <1>1, StoredFinite, FS_CardinalityType
  <1>3. Assets(u) \in SUBSET Stored(OwnedBy(u))
    BY DEF Assets, Counted, Stored
  <1>4. Cardinality(Assets(u)) =< Cardinality(Stored(OwnedBy(u))) /\ Cardinality(Assets(u)) \in Nat
    BY <1>2, <1>3, FS_Subset, FS_CardinalityType
  <1>5. Cardinality({p \in OwnedBy(u) : dirs[p].body}) \in Nat
    BY <1>1, FS_Subset, FS_CardinalityType
  <1> QED  BY <1>2, <1>4, <1>5 DEF Used, MediaBytes

LEMMA CheckQuotaStep ==
    ASSUME LInv, NEW r \in Requests, CheckQuota(r)
    PROVE  LInv'
  <1>1. req[r].at = "quota" /\ UNCHANGED metaLock /\ UNCHANGED <<meta, dirs, ops, history>>
    BY DEF CheckQuota, At
  <1>2. /\ Known(req[r]) /\ Cleared(req[r]) /\ req[r].at \in InPost
        /\ quotaLock[req[r].owner] = r /\ req[r].files \in Batches
    BY <1>1, InPublication DEF HoldsQuota, HoldsMeta
  <1>3. CASE WithinQuota(req[r].owner, req[r].files)
    <2>1. Go(r, "publish") /\ UNCHANGED quotaLock
      BY <1>3 DEF CheckQuota
    <2>2. PICK k \in Request :
            /\ Becomes(r, k) /\ k.at = "publish" /\ k.post = req[r].post /\ k.op = req[r].op
            /\ k.owner = req[r].owner /\ k.files = req[r].files /\ k.names = req[r].names
            /\ k.moved = req[r].moved /\ k.todo = req[r].todo /\ k.clean = req[r].clean
      BY <2>1, GoIs DEF Steps
    <2>3. Known(k)
      BY <1>1, <1>2, <2>2 DEF Known, InPost, Numbered, HoldsQuota, Steps
    <2>4. Cleared(k)
      BY <1>1, <1>2, <2>2 DEF Cleared, ClearedOf, Counting
    <2>5. ASSUME NEW u \in Users, u = k.owner PROVE Cardinality(Assets(u)) + k.files =< Quota
      <3>1. /\ Used(u) + k.files =< Quota /\ Quota \in Nat /\ k.files \in Nat
            /\ Used(u) \in Nat /\ Cardinality(Assets(u)) =< Used(u)
            /\ Cardinality(Assets(u)) \in Nat
        BY <1>2, <1>3, <2>2, <2>5, UsedCounts, LoftAssumption DEF WithinQuota
      <3> QED  BY ONLY <3>1
    <2>6. Fits(k)
      BY <2>2, <2>5 DEF Fits
    <2>7. Holds(k)
      BY <2>2, <2>3, <2>4, <2>6 DEF Holds, Seen, Relies, Journaling
    <2>8. HasLocks(r, k) /\ Releases(r)
      BY <1>1, <1>2, <2>1, <2>2, SameLocks DEF HasLocks, HoldsMeta, locks
    <2> QED  BY <1>1, <2>2, <2>7, <2>8, Unchanged, QuietTo DEF Explaining, Journaling
  <1>4. CASE ~WithinQuota(req[r].owner, req[r].files)
    BY <1>1, <1>2, <1>4, DropsQuota, GivesUp DEF CheckQuota, Explaining, Journaling
  <1> QED  BY <1>3, <1>4

LEMMA BeginPublishStep ==
    ASSUME LInv, NEW r \in Requests, BeginPublish(r)
    PROVE  LInv'
  <1>1. req[r].at = "publish" /\ metaLock = None /\ UNCHANGED <<meta, dirs, ops, history>>
    BY DEF BeginPublish, At, MetaFree
  <1>2. /\ req[r] \in Request /\ Known(req[r]) /\ Fits(req[r]) /\ req \in [Requests -> Request]
        /\ quotaLock[req[r].owner] = r /\ req[r].files \in Batches /\ req[r].post \in Posts
        /\ req[r].at \in InPost
    BY <1>1, InPublication DEF HoldsQuota
  <1> DEFINE p == req[r].post
             chosen == FreeNames(p, req[r].files)
  <1>3. CASE IsGallery(p) /\ meta[p].owner = req[r].owner /\ dirs[p].made
    <2>1. /\ Cardinality(chosen) = req[r].files /\ metaLock' = r /\ UNCHANGED quotaLock
          /\ req' = [req EXCEPT ![r].at = "journal", ![r].names = chosen, ![r].clean = TRUE]
      BY <1>3 DEF BeginPublish
    <2>2. chosen \subseteq Names /\ chosen \cap Listed(p) = {} /\ chosen \cap OnDisk(p) = {}
      BY DEF FreeNames
    <2>3. PICK k : k = [req[r] EXCEPT !.at = "journal", !.names = chosen, !.clean = TRUE]
      OBVIOUS
    <2>4. /\ k \in Request /\ k.at = "journal" /\ k.post = p /\ k.op = req[r].op
          /\ k.owner = req[r].owner /\ k.files = req[r].files /\ k.names = chosen
          /\ k.moved = req[r].moved
      BY ZenonT(40), <1>2, <2>2, <2>3 DEF Request, Steps
    <2>5. Becomes(r, k)
      BY ZenonT(40), <1>2, <2>1, <2>3, <2>4, ReqStep
    <2> HIDE DEF chosen
    <2>6. Known(k)
      BY <1>1, <1>2, <2>4 DEF Known, InPost, Numbered, HoldsQuota, Steps
    <2>7. Seen(k)
      BY <1>3, <2>4 DEF Seen, GalleryOf
    <2>8. ASSUME NEW u \in Users, u = k.owner
          PROVE  Cardinality(Assets(u) \cup ({k.post} \X k.names)) =< Quota
      <3> DEFINE T == {k.post} \X k.names
      <3>1. Cardinality(Assets(u)) + req[r].files =< Quota
        BY <1>1, <1>2, <2>4, <2>8 DEF Fits
      <3>2. IsFiniteSet(T) /\ Cardinality(T) = req[r].files
        BY <2>1, <2>2, <2>4, NamesFinite
      <3>3. IsFiniteSet(Assets(u)) /\ Cardinality(Assets(u)) \in Nat
        BY AssetsFinite
      <3>4. /\ Cardinality(Assets(u) \cup T)
                 = Cardinality(Assets(u)) + Cardinality(T) - Cardinality(Assets(u) \cap T)
            /\ Cardinality(Assets(u) \cap T) \in Nat
        BY <3>2, <3>3, FS_Union, FS_Intersection, FS_CardinalityType
      <3> HIDE DEF T
      <3>5. req[r].files \in Nat /\ Quota \in Nat
        BY <1>2, LoftAssumption
      <3>6. Cardinality(Assets(u) \cup T) =< Quota
        BY ONLY <3>1, <3>2, <3>3, <3>4, <3>5
      <3> QED  BY <3>6 DEF T
    <2>9. Fits(k)
      BY <2>4, <2>8 DEF Fits
    <2>10. Relies(k)
      BY <2>2, <2>4 DEF Relies, Journaling
    <2>11. Holds(k)
      BY <2>4, <2>6, <2>7, <2>9, <2>10 DEF Holds, Cleared, ClearedOf, Counting
    <2>12. HasLocks(r, k) /\ Releases(r)
      BY <1>1, <1>2, <2>1, <2>4, TakesMeta DEF HasLocks
    <2> QED  BY <1>1, <2>4, <2>5, <2>11, <2>12, Unchanged, QuietTo DEF Explaining, Journaling
  <1>4. CASE ~(IsGallery(p) /\ meta[p].owner = req[r].owner /\ dirs[p].made)
    <2>1. GiveUp(r) /\ DropQuota(r) /\ UNCHANGED metaLock
      BY <1>4 DEF BeginPublish
    <2> QED  BY <1>1, <1>2, <2>1, DropsQuota, GivesUp DEF Explaining, Journaling
  <1> QED  BY <1>3, <1>4

\* A rename or the save fails, and the lock of meta.json is given up.
LEMMA FailureSteps ==
    ASSUME LInv, NEW r \in Requests, MoveFails(r) \/ SaveFails(r)
    PROVE  LInv'
  <1>1. /\ req[r].at = "move" /\ Go(r, "rollback") /\ metaLock' = None /\ UNCHANGED quotaLock
        /\ UNCHANGED <<meta, dirs, ops, history>>
    BY DEF MoveFails, SaveFails, At
  <1>2. /\ Known(req[r]) /\ quotaLock[req[r].owner] = r /\ metaLock = r
        /\ req[r].post \in Posts \ raced => Relies(req[r])
    BY <1>1, InPublication DEF HoldsQuota, HoldsMeta
  <1>3. PICK k \in Request :
          /\ Becomes(r, k) /\ k.at = "rollback" /\ k.post = req[r].post /\ k.op = req[r].op
          /\ k.owner = req[r].owner /\ k.files = req[r].files /\ k.names = req[r].names
          /\ k.moved = req[r].moved
    BY SMTT(30), <1>1, GoIs DEF Steps
  <1>4. Known(k)
    BY <1>1, <1>2, <1>3 DEF Known, InPost, Numbered, HoldsQuota, Steps
  <1>5. k.post \in Posts \ raced => Relies(k)
    BY <1>1, <1>2, <1>3 DEF Relies, Journaling
  <1>6. Holds(k)
    BY <1>3, <1>4, <1>5 DEF Holds, Seen, Cleared, ClearedOf, Counting, Fits
  <1>7. HasLocks(r, k)
    BY <1>1, <1>2, <1>3 DEF HasLocks, HoldsMeta
  <1> QED  BY <1>1, <1>2, <1>3, <1>6, <1>7, DropsMeta, Unchanged, QuietTo

\* The journal cannot be written, and both locks are given up.
LEMMA JournalFailsStep ==
    ASSUME LInv, NEW r \in Requests, JournalFails(r)
    PROVE  LInv'
  <1>1. /\ req[r].at = "journal" /\ metaLock' = None /\ GiveUp(r) /\ DropQuota(r)
        /\ UNCHANGED <<meta, dirs, ops, history>>
    BY DEF JournalFails, At
  <1>2. metaLock = r /\ req[r].at \in InPost
    BY <1>1, InPublication DEF HoldsQuota, HoldsMeta
  <1>3. Releases(r)
    BY <1>1, <1>2, DropsOwn, LoftAssumption DEF Releases
  <1> QED  BY <1>1, <1>2, <1>3, GivesUp DEF Explaining, Journaling

\* An archive is refused.
LEMMA RefuseRawStep ==
    ASSUME LInv, NEW r \in Requests, RefuseRaw(r)
    PROVE  LInv'
  <1>1. /\ req[r].at = "unpack" /\ Becomes(r, Idle) /\ Known(req[r])
        /\ UNCHANGED <<meta, dirs, locks, ops, taken, raced, littered>>
    BY DoneIs DEF RefuseRaw, At, LInv, Mine
  <1>2. PICK p \in Posts : p = req[r].post
    BY <1>1 DEF Known, InPost, Steps
  <1>3. cut' = cut \cup {x \in {p} : meta[p] = None}
    BY <1>2 DEF RefuseRaw
  <1>4. Quiet /\ ops' \in 0..MaxOps /\ cut' \subseteq Posts
    BY <1>1, <1>3 DEF Quiet, LInv, TypeOK
  <1>5. Holds(Idle) /\ HasLocks(r, Idle)
    BY IdleIs, PlainHolds DEF Plain, HasLocks, HoldsMeta, HoldsQuota
  <1>6. p \in cut' \/ meta[p] # None
    BY <1>3
  <1> QED  BY <1>1, <1>2, <1>4, <1>5, <1>6, IdleIs, SameLocks, QuietTo

-----------------------------------------------------------------------------
(* Steps that change a post: what they may rely on.                        *)

LEMMA PlainBy ==
    ASSUME NEW r, NEW k, Becomes(r, k), Known(k), k.at \in Plain \ {"recover"}
    PROVE  KeptBy(r)
  <1>1. req'[r] = k
    BY DEF Becomes
  <1> QED  BY <1>1 DEF KeptBy, Mine, Known, Locked, Seen, Cleared, ClearedOf, Fits, Relies,
              Plain, HoldsMeta, HoldsQuota, Counting, Journaling

\* Two requests do not hold the lock of meta.json, nor that of one owner.
LEMMA MetaApart ==
    ASSUME LInv, NEW r \in Requests, NEW q \in Requests \ {r}, req[r].at \in HoldsMeta
    PROVE  req[q].at \notin HoldsMeta
  BY DEF LInv, Mine, Locked

LEMMA MetaIsFree ==
    ASSUME LInv, metaLock = None
    PROVE  \A q \in Requests : req[q].at \notin HoldsMeta
  BY LoftAssumption DEF LInv, Mine, Locked

LEMMA OwnersApart ==
    ASSUME LInv, NEW r \in Requests, NEW q \in Requests \ {r}, req[r].at \in HoldsQuota,
           req[q].at \in HoldsQuota
    PROVE  req[q].owner # req[r].owner
  BY DEF LInv, Mine, Locked

\* While one publishes to a post, or recovers it, no other publishes there.
LEMMA PublishesAlone ==
    ASSUME LInv, NEW r \in Requests, NEW p \in Posts \ raced, req[r].at \in HoldsQuota,
           GalleryOf(p, req[r].owner), NEW q \in Requests \ {r}, req[q].post = p
    PROVE  req[q].at \notin Journaling \cup {"journal"}
  <1> SUFFICES ASSUME req[q].at \in Journaling \cup {"journal"} PROVE FALSE
    OBVIOUS
  <1>1. Relies(req[q]) /\ Seen(req[q])
    BY DEF LInv, Mine
  <1>2. GalleryOf(p, req[q].owner)
    BY <1>1 DEF Relies, Seen
  <1>3. req[q].at \in HoldsQuota
    BY DEF Journaling, HoldsQuota
  <1> QED  BY <1>2, <1>3, OwnersApart DEF GalleryOf

\* Then the others on the post rely at most on a file being gone.
LEMMA OthersRely ==
    ASSUME NEW p, NEW q, Same(q), req[q].post = p,
           req[q].at \notin Journaling \cup {"journal"},
           req[q].at = "unlist" => req[q].names \cap OnDisk(p)' = {},
           Relies(req[q]), UNCHANGED littered
    PROVE  Relies(req[q])'
  BY DEF Same, Relies, Journaling, OnDisk

\* Nor does another count the post's owner's bytes.
LEMMA OthersCount ==
    ASSUME LInv, NEW r \in Requests, NEW p \in Posts, req[r].at \in HoldsQuota,
           GalleryOf(p, req[r].owner), meta'[p].owner = meta[p].owner,
           NEW q \in Requests \ {r}, Same(q)
    PROVE  ClearedOf(req[q], p)'
  <1>1. CASE req[q].at \in Counting
    <2>1. req[q].owner # req[r].owner
      BY <1>1, OwnersApart DEF Counting, HoldsQuota
    <2>2. meta'[p].owner = req[r].owner
      BY DEF GalleryOf
    <2> QED  BY <2>1, <2>2 DEF ClearedOf, Same, Galleries, OwnedBy
  <1>2. CASE req[q].at \notin Counting
    BY <1>2 DEF ClearedOf, Same
  <1> QED  BY <1>1, <1>2

LEMMA NoPurge ==
    ASSUME NEW r, Alone(r), NEW x \in Posts, meta'[x] = meta[x],
           r \in Requests => req[r].at # "purging" /\ req'[r].at # "purging"
    PROVE  PurgesOn(x)
  BY SamePurged DEF Alone, PurgedBy

LEMMA NobodyPurges ==
    ASSUME LInv, NEW r, Alone(r), metaLock \in {None, r},
           r \in Requests => req[r].at # "purging" /\ req'[r].at # "purging"
    PROVE  \A x : ~Purged(x) /\ ~Purged(x)' /\ PurgesOn(x)
  <1>1. \A q \in Requests : req[q].at # "purging" /\ req'[q].at # "purging"
    <2> TAKE q \in Requests
    <2>1. CASE q = r
      BY <2>1
    <2>2. CASE q # r
      BY <2>2, LoftAssumption DEF LInv, Mine, Locked, HoldsMeta, Alone, Same
    <2> QED  BY <2>1, <2>2
  <1> QED  BY <1>1 DEF Purged, PurgedBy, Purging, PurgesOn

-----------------------------------------------------------------------------
(* Steps after which a post has a directory, with the media it had.        *)

LEMMA HouseStep ==
    ASSUME LInv, NEW r, NEW p \in Posts, TypeOK', Alone(r), Remembers,
           UNCHANGED <<meta, littered>>, \A x \in Posts \ {p} : dirs'[x] = dirs[x],
           dirs'[p].made = TRUE, dirs'[p].media = dirs[p].media,
           dirs'[p].journals = dirs[p].journals,
           r \in Requests => /\ KeptBy(r) /\ req[r].at \notin Explaining \cup {"purging"}
                             /\ req'[r].at # "purging"
                             /\ req'[r].at = "unpack" => req'[r].post = p,
           \/ dirs[p].made \/ p \in raced'
           \/ /\ r \in Requests /\ req'[r].post = p
              /\ req'[r].at = "entry" \/ (req'[r].at = "unpack" /\ meta[p] = None)
    PROVE  LInv'
  <1>1. \A x \in Posts : PurgesOn(x)
    BY NoPurge
  <1>2. /\ Listed(p)' = Listed(p) /\ OnDisk(p)' = OnDisk(p) /\ Journaled(p)' = Journaled(p)
        /\ IsGallery(p)' = IsGallery(p) /\ meta'[p] = meta[p]
    BY DEF Listed, OnDisk, Journaled, IsGallery
  <1>3. Bare(p)'
    BY DEF Bare
  <1>4. p \notin raced' => InOrder(p)'
    <2>1. p \notin raced' => InOrder(p)
      BY DEF LInv, Remembers
    <2> QED  BY <1>1, <1>2, <2>1
             DEF InOrder, Gone, Empty, Strays, Intact, Remembers, PurgesOn
  <1>5. ASSUME NEW q \in Requests \ {r}, p \notin raced', req[q].post = p
        PROVE  Relies(req[q])'
    <2>1. Same(q) /\ Relies(req[q])
      BY <1>5 DEF Alone, LInv, Remembers
    <2>2. req[q].at \in Journaling => ~Purged(p)'
      BY <1>1, <1>5, <2>1 DEF Relies, PurgesOn
    <2> QED  BY <1>5, <2>1, <2>2 DEF Same, Relies, GalleryOf, IsGallery, Listed, OnDisk
  <1>6. ASSUME p \notin raced' \cup cut' PROVE Explained(p)'
    <2>1. Explained(p)
      BY <1>6 DEF LInv, Remembers
    <2>2. \A q \in Requests : req[q].post = p /\ req[q].at \in Explaining => Continues(q)
      BY DEF Alone, Same, Continues
    <2>3. /\ Unentered(p) => Unentered(p)'
          /\ On(p, {"entry"}) => On(p, {"entry"})'
          /\ \A names : JournalOf(p, names) => JournalOf(p, names)'
          /\ \A n : Unlisted(p, n) => Unlisted(p, n)'
          /\ \A n : Lost(p, n) => Lost(p, n)'
      <3>1. \A q \in Requests : req[q].post = p /\ req[q].at = "unpack" => Continues(q)
        BY <2>2 DEF Explaining
      <3>2. Purging(p) => Purging(p)'
        BY <1>1 DEF PurgesOn
      <3> QED  BY <2>2, <3>1, <3>2, SameReasons
    <2>4. dirs[p].made \/ Unentered(p)'
      BY <1>6 DEF Unentered, On
    <2>5. dirs[p].made \/ On(p, {"entry"})' \/ meta[p] = None
      BY <1>6 DEF On
    <2>6. Purged(p) => meta[p] # None
      BY DEF Purged, PurgedBy, OwnedBy
    <2> QED  BY <1>1, <1>2, <2>1, <2>3, <2>4, <2>5, <2>6 DEF Explained, PurgesOn
  <1>7. ASSUME NEW q \in Requests \ {r} PROVE ClearedOf(req[q], p)'
    <2>1. Same(q) /\ ClearedOf(req[q], p) /\ Bare(p)
      BY <1>7 DEF Alone, LInv, Mine, Cleared
    <2>2. Clear(p) => Clear(p)'
      BY <1>2 DEF Clear
    <2>3. ~dirs[p].made => Clear(p)
      BY <2>1 DEF Bare, NoDir, Clear, OnDisk
    <2> QED  BY SMTT(30), <2>1, <2>2, <2>3 DEF ClearedOf, Same, Galleries, OwnedBy, Remembers
  <1>8. \A u \in Users : Assets(u)' \subseteq Assets(u)
    BY DEF Assets, Stored, Counted, OwnedBy, IsGallery, Remembers
  <1>9. KeptQuota(r)
    BY <1>8, StoresNoMore
  <1>10. KeptOn(p, r)
    BY <1>3, <1>4, <1>5, <1>6, <1>7 DEF KeptOn
  <1>11. PICK P : P = {p}
    OBVIOUS
  <1> QED  BY SMTT(30), <1>1, <1>9, <1>10, <1>11, Assemble DEF SamePost, PurgesOn

\* A request leaves the posts that are done with alone.
LEMMA RaceKeeps ==
    ASSUME LInv, NEW S \in SUBSET Posts, raced' = raced \cup S,
           taken \subseteq taken', cut \subseteq cut'
    PROVE  Remembers /\ raced' \subseteq Posts
  BY DEF Remembers, LInv, TypeOK

LEMMA ReleasesAlone ==
    ASSUME NEW r, NEW k, Becomes(r, k), UNCHANGED locks,
           metaLock \in {None, r} \/ UNCHANGED meta, LInv
    PROVE  Alone(r)
  BY LoftAssumption DEF Alone, Becomes, locks, LInv

LEMMA MakeDirStep ==
    ASSUME LInv, NEW r \in Requests, MakeDir(r)
    PROVE  LInv'
  <1>1. /\ req[r].at = "mkdir" /\ Go(r, "entry") /\ Known(req[r]) /\ req[r].post \in Posts
        /\ UNCHANGED <<meta, locks, ops, taken, raced, littered, cut>>
    BY DEF MakeDir, At, LInv, Mine, Known, InPost, Steps, history
  <1>2. PICK p \in Posts : p = req[r].post
    BY <1>1
  <1>3. PICK k \in Request :
          /\ Becomes(r, k) /\ k.at = "entry" /\ k.post = p /\ k.op = req[r].op
          /\ k.user = req[r].user /\ k.owner = req[r].owner /\ k.names = req[r].names
          /\ k.moved = req[r].moved
    BY <1>1, <1>2, GoIs DEF Steps
  <1>4. Known(k)
    BY <1>1, <1>3 DEF Known, InPost, Numbered, HoldsQuota, Steps
  <1>5. /\ dirs' = [dirs EXCEPT ![p].made = TRUE] /\ dirs \in [Posts -> Directory]
    BY <1>2 DEF MakeDir, LInv, TypeOK
  <1>6. /\ dirs' \in [Posts -> Directory] /\ dirs'[p].made = TRUE
        /\ dirs'[p].media = dirs[p].media /\ dirs'[p].journals = dirs[p].journals
        /\ \A x \in Posts \ {p} : dirs'[x] = dirs[x]
    BY ZenonT(40), <1>5 DEF Directory
  <1>7. TypeOK'
    BY <1>1, <1>3, <1>6 DEF LInv, TypeOK, Becomes, locks
  <1>8. KeptBy(r)
    <2>1. p \notin raced => p \notin littered
      BY <1>1, <1>2 DEF LInv, Relies
    <2> QED  BY <1>1, <1>3, <1>4, <2>1
             DEF Becomes, KeptBy, Mine, Known, Locked, Seen, Cleared, ClearedOf, Fits, Relies,
                 HoldsMeta, HoldsQuota, Counting, Journaling
  <1>9. Alone(r) /\ Remembers
    BY <1>1, <1>3, ReleasesAlone DEF Remembers
  <1> QED  BY <1>1, <1>3, <1>6, <1>7, <1>8, <1>9, HouseStep
           DEF Becomes, Explaining, Journaling

LEMMA PutBodyIs ==
    ASSUME LInv, NEW p \in Posts, PutBody(p)
    PROVE  /\ dirs' \in [Posts -> Directory] /\ dirs'[p].made = TRUE
           /\ dirs'[p].media = dirs[p].media /\ dirs'[p].journals = dirs[p].journals
           /\ \A x \in Posts \ {p} : dirs'[x] = dirs[x]
           /\ dirs[p].made \/ p \in raced'
           /\ \E S \in SUBSET Posts : raced' = raced \cup S
  <1>1. dirs \in [Posts -> Directory] /\ dirs[p] \in Directory
    BY DEF LInv, TypeOK
  <1>2. dirs' = [dirs EXCEPT ![p].made = TRUE, ![p].body = TRUE]
    BY DEF PutBody
  <1>3. dirs[p].made \/ p \in raced'
    BY DEF PutBody
  <1>4. PICK S : S = {x \in {p} : ~dirs[p].made \/ Emptied(p)}
    OBVIOUS
  <1>5. S \in SUBSET Posts /\ raced' = raced \cup S
    BY <1>4 DEF PutBody
  <1>6. /\ dirs' \in [Posts -> Directory] /\ dirs'[p].made = TRUE
        /\ dirs'[p].media = dirs[p].media /\ dirs'[p].journals = dirs[p].journals
        /\ \A x \in Posts \ {p} : dirs'[x] = dirs[x]
    BY <1>1, <1>2 DEF Directory
  <1> QED  BY <1>3, <1>5, <1>6

LEMMA WriteBodyStep ==
    ASSUME LInv, NEW r \in Requests, WriteBody(r)
    PROVE  LInv'
  <1>1. /\ req[r].at = "body" /\ Becomes(r, Idle) /\ req[r].post \in Posts
        /\ UNCHANGED <<meta, locks, ops, taken, littered, cut>>
    BY DoneIs DEF WriteBody, At, LInv, Mine, Known, InPost, Steps
  <1>2. PICK p \in Posts : p = req[r].post
    BY <1>1
  <1>3. CASE UNCHANGED <<dirs, raced>>
    <2>1. Quiet /\ ops' \in 0..MaxOps /\ cut' \subseteq Posts
      BY <1>1, <1>3 DEF Quiet, LInv, TypeOK
    <2>2. Holds(Idle) /\ HasLocks(r, Idle)
      BY IdleIs, PlainHolds DEF Plain, HasLocks, HoldsMeta, HoldsQuota
    <2> QED  BY <1>1, <2>1, <2>2, IdleIs, SameLocks, QuietTo DEF Explaining, Journaling
  <1>4. SUFFICES ASSUME PutBody(p) PROVE LInv'
    BY <1>2, <1>3 DEF WriteBody
  <1>5. /\ dirs' \in [Posts -> Directory] /\ dirs'[p].made = TRUE
        /\ dirs'[p].media = dirs[p].media /\ dirs'[p].journals = dirs[p].journals
        /\ \A x \in Posts \ {p} : dirs'[x] = dirs[x]
        /\ dirs[p].made \/ p \in raced'
    BY <1>4, PutBodyIs
  <1>6. Remembers /\ raced' \subseteq Posts
    BY <1>1, <1>4, PutBodyIs, RaceKeeps
  <1>7. TypeOK'
    BY <1>1, <1>5, <1>6 DEF LInv, TypeOK, Becomes, locks
  <1>8. KeptBy(r)
    BY <1>1, IdleIs, PlainBy DEF Plain
  <1>9. Alone(r)
    BY <1>1, ReleasesAlone
  <1> QED  BY <1>1, <1>5, <1>6, <1>7, <1>8, <1>9, IdleIs, HouseStep
           DEF Becomes, Explaining, Journaling

LEMMA UpdateBodyStep ==
    ASSUME LInv, NEW u \in Users, NEW p \in Posts, UpdateBody(u, p)
    PROVE  LInv'
  <1>1. PutBody(p) /\ UNCHANGED <<meta, locks, req, ops, taken, littered, cut>>
    BY DEF UpdateBody
  <1>2. /\ dirs' \in [Posts -> Directory] /\ dirs'[p].made = TRUE
        /\ dirs'[p].media = dirs[p].media /\ dirs'[p].journals = dirs[p].journals
        /\ \A x \in Posts \ {p} : dirs'[x] = dirs[x]
        /\ dirs[p].made \/ p \in raced'
    BY <1>1, PutBodyIs
  <1>3. Remembers /\ raced' \subseteq Posts
    BY <1>1, PutBodyIs, RaceKeeps
  <1>4. TypeOK'
    BY <1>1, <1>2, <1>3 DEF LInv, TypeOK, locks
  <1>5. Alone(None)
    BY <1>1 DEF Alone, Same, locks
  <1>6. None \notin Requests
    BY LoftAssumption
  <1> QED  BY <1>1, <1>2, <1>3, <1>4, <1>5, <1>6, HouseStep

LEMMA BeginRawStep ==
    ASSUME LInv, NEW r \in Requests, NEW u \in Users, NEW p \in Posts, BeginRaw(r, u, p)
    PROVE  LInv'
  <1>1. PICK b : b = [Idle EXCEPT !.at = "unpack", !.user = u, !.post = p]
    OBVIOUS
  <1>2. b \in Request
    BY ZenonT(40), <1>1 DEF Idle, Request, Steps, Kinds
  <1>3. b.at = "unpack" /\ b.post = p /\ b.user = u /\ b.moved = {}
    BY <1>1 DEF Idle
  <1>4. Begin(r, b) /\ UNCHANGED <<meta, locks, taken, littered, cut>>
    BY <1>1 DEF BeginRaw
  <1>5. PICK k \in Request : Becomes(r, k) /\ Known(k) /\ k.at = "unpack" /\ k.post = p
    BY <1>2, <1>3, <1>4, BeginIs DEF InPost, Steps
  <1>6. dirs' = [dirs EXCEPT ![p].made = TRUE] /\ dirs \in [Posts -> Directory]
    BY DEF BeginRaw, LInv, TypeOK
  <1>7. /\ dirs' \in [Posts -> Directory] /\ dirs'[p].made = TRUE
        /\ dirs'[p].media = dirs[p].media /\ dirs'[p].journals = dirs[p].journals
        /\ \A x \in Posts \ {p} : dirs'[x] = dirs[x]
    BY <1>6 DEF Directory
  <1>8. PICK S : S = {x \in {p} : meta[p] # None /\ ~dirs[p].made}
    OBVIOUS
  <1>9. S \in SUBSET Posts /\ raced' = raced \cup S
    BY <1>8 DEF BeginRaw
  <1>10. Remembers /\ raced' \subseteq Posts
    BY <1>4, <1>9, RaceKeeps
  <1>11. TypeOK'
    BY <1>4, <1>5, <1>7, <1>10, OpsNext DEF LInv, TypeOK, Becomes, locks
  <1>12. KeptBy(r)
    BY <1>5, PlainBy DEF Plain
  <1>13. Alone(r)
    BY <1>4, <1>5, ReleasesAlone
  <1>14. dirs[p].made \/ p \in raced' \/ meta[p] = None
    BY <1>8, <1>9
  <1>15. req[r].at = "idle"
    BY <1>4 DEF Begin, At
  <1> QED  BY ZenonT(40), <1>4, <1>5, <1>7, <1>10, <1>11, <1>12, <1>13, <1>14, <1>15, HouseStep
           DEF Becomes, Explaining, Journaling

\* An archive is unpacked: nobody else is at work on the post, or it is raced.
LEMMA UnpackStep ==
    ASSUME LInv, NEW r \in Requests, Unpack(r)
    PROVE  LInv'
  <1>1. /\ req[r].at = "unpack" /\ Known(req[r]) /\ req[r].op \in Ops
        /\ req[r].post \in Posts /\ req[r].user \in Users
        /\ UNCHANGED <<meta, locks, ops, taken>>
    BY DEF Unpack, At, LInv, Mine, Known, InPost, Numbered, Steps
  <1>2. PICK p \in Posts : p = req[r].post
    BY <1>1
  <1>3. /\ littered' = littered \cup {p}
        /\ raced' = raced \cup {x \in {p} : IsGallery(p) \/ BusyOn(r, p)}
    BY <1>2 DEF Unpack
  <1>4. PICK names : dirs' = [dirs EXCEPT ![p].made = TRUE, ![p].body = TRUE,
                                ![p].media = [n \in Names |-> IF n \in names THEN req[r].op
                                                              ELSE dirs[p].media[n]]]
    <2> DEFINE Extracted(x, names) ==
          dirs' = [dirs EXCEPT ![x].made = TRUE, ![x].body = TRUE,
                               ![x].media = [n \in Names |-> IF n \in names THEN req[r].op
                                                             ELSE @[n]]]
    <2>1. \E names : Extracted(req[r].post, names)
      BY Zenon DEF Unpack
    <2>2. PICK names : Extracted(p, names)
      <3> HIDE DEF Extracted
      <3> QED  BY Zenon, <1>2, <2>1
    <2>3. dirs' = [dirs EXCEPT ![p].made = TRUE, ![p].body = TRUE,
                            ![p].media = [n \in Names |-> IF n \in names THEN req[r].op
                                                          ELSE dirs[p].media[n]]]
      BY <2>2 DEF LInv, TypeOK, Directory
    <2> QED  BY <2>3
  <1>5. /\ dirs' \in [Posts -> Directory] /\ dirs'[p].made = TRUE
        /\ dirs'[p].journals = dirs[p].journals
        /\ \A x \in Posts \ {p} : dirs'[x] = dirs[x]
    <2> DEFINE d == dirs[p]
               e == [n \in Names |-> IF n \in names THEN req[r].op ELSE d.media[n]]
    <2>1. dirs \in [Posts -> Directory] /\ d \in Directory
      BY DEF LInv, TypeOK
    <2>2. e \in [Names -> Ops \cup {NoFile}]
      BY <1>1, <2>1 DEF Directory
    <2>3. /\ dirs'[p] = [made |-> TRUE, body |-> TRUE, media |-> e, journals |-> d.journals]
          /\ \A x \in Posts \ {p} : dirs'[x] = dirs[x]
      BY <1>4, <2>1 DEF Directory
    <2>4. dirs'[p] \in Directory
      BY <2>1, <2>2, <2>3 DEF Directory
    <2>5. DOMAIN dirs' = Posts /\ dirs' = [x \in Posts |-> dirs'[x]]
      BY <1>4, <2>1
    <2> HIDE DEF d, e
    <2>6. \A x \in Posts : dirs'[x] \in Directory
      BY <2>1, <2>3, <2>4
    <2>7. dirs' \in [Posts -> Directory]
      BY <2>5, <2>6
    <2> QED  BY <2>3, <2>7 DEF d
  <1>6. PICK k \in Request :
          /\ Becomes(r, k) /\ Known(k) /\ cut \subseteq cut' /\ cut' \subseteq Posts
          /\ \/ k.at = "register" /\ k.post = p
             \/ k.at = "idle" /\ p \in cut'
    <2>1. CASE Go(r, "register") /\ UNCHANGED cut
      <3>1. PICK k \in Request :
              /\ Becomes(r, k) /\ k.at = "register" /\ k.post = p /\ k.op = req[r].op
              /\ k.user = req[r].user /\ k.names = req[r].names /\ k.moved = req[r].moved
        BY <1>2, <2>1, GoIs DEF Steps
      <3>2. Known(k)
        BY <1>1, <1>2, <3>1 DEF Known, InPost, Numbered, HoldsQuota, Steps
      <3> QED  BY <2>1, <3>1, <3>2 DEF LInv, TypeOK
    <2>2. CASE Done(r) /\ cut' = cut \cup {p}
      BY <2>2, DoneIs, IdleIs DEF LInv, TypeOK
    <2> QED  BY <1>2, <2>1, <2>2 DEF Unpack
  <1>7. Remembers /\ raced' \subseteq Posts /\ littered' \subseteq Posts
    BY <1>1, <1>3, <1>6 DEF Remembers, LInv, TypeOK
  <1>8. TypeOK'
    BY <1>1, <1>5, <1>6, <1>7 DEF LInv, TypeOK, Becomes, locks
  <1>9. Alone(r)
    BY <1>1, <1>6, ReleasesAlone
  <1>10. KeptBy(r)
    BY <1>6, PlainBy DEF Plain
  <1>11. \A x \in Posts : PurgesOn(x)
    BY <1>1, <1>6, <1>9, NoPurge DEF Becomes
  <1>12. p \notin raced' => ~IsGallery(p) /\ \A q \in Requests \ {r} : req[q].post # p
    BY <1>3 DEF BusyOn
  <1>13. IsGallery(p)' = IsGallery(p) /\ meta'[p] = meta[p] /\ Listed(p)' = Listed(p)
    BY <1>1 DEF IsGallery, Listed
  <1>14. ASSUME p \notin raced' \cup cut' PROVE Explained(p)'
    <2>1. Explained(p)
      BY <1>7, <1>14 DEF LInv, Remembers
    <2>2. Unentered(p)'
      BY <1>6, <1>14 DEF Becomes, Unentered, On
    <2>3. ~Purged(p)'
      <3>1. On(p, {"unpack"}) /\ ~On(p, {"entry"})
        BY <1>1, <1>2, <1>12, <1>14 DEF On
      <3> QED  BY <1>11, <2>1, <3>1 DEF Explained, PurgesOn
    <2>4. dirs'[p].journals = {}
      BY <1>1, <1>5, <1>12, <1>14, <2>1 DEF Explained, JournalOf, Journaling
    <2>5. Listed(p)' = {}
      BY <1>12, <1>13, <1>14 DEF Listed
    <2> QED  BY <1>5, <1>12, <1>13, <1>14, <2>2, <2>3, <2>4, <2>5 DEF Explained
  <1>15. p \notin raced' => InOrder(p)'
    BY <1>3, <1>12, <1>13 DEF InOrder, Gone, Strays, Intact
  <1>16. KeptOn(p, r)
    BY <1>3, <1>5, <1>12, <1>14, <1>15 DEF KeptOn, Bare, ClearedOf
  <1>17. \A u \in Users : Assets(u)' \subseteq Assets(u)
    <2>1. \A x \in Posts \ raced' : IsGallery(x)' => x # p /\ x \notin raced
      BY <1>12, <1>13, <1>7 DEF Remembers
    <2> QED  BY <1>1, <1>5, <2>1 DEF Assets, Stored, Counted, OwnedBy, IsGallery
  <1>18. KeptQuota(r)
    BY <1>8, <1>9, <1>17, StoresNoMore
  <1>19. PICK P : P = {p}
    OBVIOUS
  <1>20. \A x \in Posts : x \notin P => SamePost(x)
    BY <1>1, <1>3, <1>5, <1>19 DEF SamePost
  <1> QED  BY <1>1, <1>2, <1>6, <1>7, <1>8, <1>9, <1>10, <1>11, <1>16, <1>18, <1>19, <1>20,
              Assemble DEF PurgesOn, Becomes

-----------------------------------------------------------------------------
(* Steps of a recovery and of a publication: media and journals come and go. *)

LEMMA WithoutIs ==
    ASSUME dirs \in [Posts -> Directory], NEW p \in Posts, NEW names,
           dirs' = [dirs EXCEPT ![p] = Without(@, names)]
    PROVE  /\ dirs' \in [Posts -> Directory]
           /\ \A x \in Posts \ {p} : dirs'[x] = dirs[x]
           /\ dirs'[p].made = dirs[p].made /\ dirs'[p].journals = dirs[p].journals
           /\ dirs'[p].body = dirs[p].body
           /\ \A n \in Names \ names : dirs'[p].media[n] = dirs[p].media[n]
           /\ OnDisk(p)' = OnDisk(p) \ names
           /\ Bare(p) /\ (p \in littered' => p \in littered) => Bare(p)'
  <1> DEFINE d == dirs[p]
             e == [n \in Names |-> IF n \in names THEN NoFile ELSE d.media[n]]
  <1>1. d \in Directory
    OBVIOUS
  <1>2. e \in [Names -> Ops \cup {NoFile}]
    BY <1>1 DEF Directory
  <1>3. dirs'[p] = [d EXCEPT !.media = e] /\ \A x \in Posts \ {p} : dirs'[x] = dirs[x]
    BY DEF Without
  <1>4. dirs'[p] \in Directory /\ dirs'[p].media = e
    BY SMTT(30), <1>1, <1>2, <1>3 DEF Directory
  <1>5. /\ dirs'[p].made = d.made /\ dirs'[p].journals = d.journals /\ dirs'[p].body = d.body
    BY <1>1, <1>3 DEF Directory
  <1>6. OnDisk(p)' = OnDisk(p) \ names
    BY <1>4 DEF OnDisk, NoFile
  <1>7. Bare(p) /\ (p \in littered' => p \in littered) => Bare(p)'
    <2> SUFFICES ASSUME d = NoDir PROVE dirs'[p] = NoDir
      BY <1>5 DEF Bare
    <2>1. e = d.media
      BY DEF NoDir
    <2> QED  BY <1>1, <1>3, <2>1 DEF Directory
  <1>8. dirs' \in [Posts -> Directory]
    BY <1>4
  <1> QED  BY <1>3, <1>4, <1>5, <1>6, <1>7, <1>8

\* What the others explain on a post, they go on to explain.
LEMMA OthersReasons ==
    ASSUME NEW r \in Requests, Alone(r), NEW p, Purging(p) => Purging(p)',
           req[r].post = p =>
             req[r].at \notin {"entry", "unpack", "register", "rmdir", "pop", "unlist"}
    PROVE  /\ On(p, {"entry"}) => On(p, {"entry"})'
           /\ Unentered(p) => Unentered(p)'
           /\ Homeless(p) => Homeless(p)'
           /\ \A n : Lost(p, n) => Lost(p, n)'
           /\ \A names : JournalOf(p, names) =>
                JournalOf(p, names)' \/ (req[r].at \in Journaling /\ names = req[r].names)
           /\ \A n : Unlisted(p, n) =>
                \/ Unlisted(p, n)'
                \/ req[r].at \in {"move", "rollback"} /\ n \in req[r].moved
  <1>1. \A q \in Requests \ {r} :
          /\ req'[q].post = req[q].post /\ req'[q].at = req[q].at
          /\ req'[q].names = req[q].names /\ req'[q].moved = req[q].moved
    BY DEF Alone, Same
  <1>2. \A steps : steps \subseteq {"entry", "unpack", "register", "rmdir", "pop", "unlist"} =>
          (On(p, steps) => On(p, steps)')
    BY <1>1 DEF On
  <1>3. Unentered(p) => Unentered(p)'
    BY <1>2 DEF Unentered
  <1>4. On(p, {"pop"}) => On(p, {"pop"})'
    BY <1>2
  <1>5. On(p, {"rmdir", "pop"}) => On(p, {"rmdir", "pop"})'
    BY <1>2
  <1>6. \A n : Lost(p, n) => Lost(p, n)'
    BY <1>1, <1>5 DEF Lost
  <1>7. \A names : JournalOf(p, names) =>
          JournalOf(p, names)' \/ (req[r].at \in Journaling /\ names = req[r].names)
    BY <1>1 DEF JournalOf
  <1>8. \A n : Unlisted(p, n) =>
          Unlisted(p, n)' \/ (req[r].at \in {"move", "rollback"} /\ n \in req[r].moved)
    BY <1>1 DEF Unlisted
  <1>9. On(p, {"entry"}) => On(p, {"entry"})'
    BY <1>2
  <1> QED  BY <1>9, <1>3, <1>4, <1>6, <1>7, <1>8 DEF Homeless

\* r removes files of the owner's gallery p that are not listed, or journals of whose
\* names no others are on disk.
LEMMA ReduceStep ==
    ASSUME LInv, NEW r \in Requests, NEW p \in Posts, TypeOK', Alone(r), Remembers,
           KeptBy(r), UNCHANGED <<meta, littered>>, req[r].at \in HoldsQuota,
           req'[r].at \notin {"purging", "unpack"},
           \A x \in Posts \ {p} : dirs'[x] = dirs[x],
           dirs'[p].made = dirs[p].made, Bare(p)',
           OnDisk(p)' \subseteq OnDisk(p), dirs'[p].journals \subseteq dirs[p].journals,
           \A n \in OnDisk(p)' : dirs'[p].media[n] = dirs[p].media[n],
           req[r].at \in Explaining => req[r].post = p,
           p \notin raced =>
             /\ GalleryOf(p, req[r].owner)
             /\ Listed(p) \cap OnDisk(p) \subseteq OnDisk(p)'
             /\ p \notin littered => OnDisk(p)' \subseteq Listed(p) \cup Journaled(p)',
           p \notin raced \cup cut' /\ req[r].at \in Journaling =>
             /\ \A names \in dirs'[p].journals : names = req[r].names => JournalOf(p, names)'
             /\ req[r].at \in {"move", "rollback"} => req[r].moved \cap OnDisk(p)' = {}
    PROVE  LInv'
  <1>1. \A x \in Posts : PurgesOn(x)
    BY NoPurge DEF HoldsQuota
  <1>2. Listed(p)' = Listed(p) /\ IsGallery(p)' = IsGallery(p) /\ meta'[p] = meta[p]
    BY DEF Listed, IsGallery
  <1>3. ASSUME p \notin raced' PROVE InOrder(p)'
    <2>1. InOrder(p) /\ p \notin raced
      BY <1>3 DEF LInv, Remembers
    <2>2. Gone(p)'
      BY <1>1, <1>2, <2>1 DEF InOrder, Gone, Empty, PurgesOn
    <2>3. Strays(p)'
      BY <1>2, <2>1 DEF Strays
    <2>4. Intact(p)'
      <3>1. IsGallery(p) /\ Intact(p) /\ meta[p] \in Entry
        BY <2>1 DEF InOrder, GalleryOf, IsGallery, LInv, TypeOK
      <3>2. ASSUME NEW i \in meta[p].items
            PROVE  dirs'[p].media[i.name] = i.id \/ i \in taken'
        <4>1. CASE i \in taken
          BY <4>1 DEF Remembers
        <4>2. CASE dirs[p].media[i.name] = i.id
          <5>1. i.name \in Names /\ i.id # NoFile
            BY <3>1, <3>2, LoftAssumption DEF Entry, Item, Ops, NoFile
          <5>2. i.name \in OnDisk(p) /\ i.name \in Listed(p)
            BY <3>1, <3>2, <4>2, <5>1 DEF OnDisk, Listed, NamesIn
          <5> QED  BY <2>1, <4>2, <5>2
        <4> QED  BY <3>1, <3>2, <4>1, <4>2 DEF Intact
      <3> QED  BY <1>2, <3>1, <3>2 DEF Intact
    <2> QED  BY <2>2, <2>3, <2>4 DEF InOrder
  <1>4. ASSUME NEW q \in Requests \ {r}, p \notin raced', req[q].post = p
        PROVE  Relies(req[q])'
    <2>1. Same(q) /\ Relies(req[q]) /\ p \notin raced
      BY <1>4 DEF Alone, LInv, Remembers
    <2>2. req[q].at \notin Journaling \cup {"journal"}
      BY <1>4, <2>1, PublishesAlone
    <2>3. req[q].at = "unlist" => req[q].names \cap OnDisk(p)' = {}
      BY <1>4, <2>1 DEF Relies
    <2> QED  BY <1>4, <2>1, <2>2, <2>3, OthersRely
  <1>5. ASSUME p \notin raced' \cup cut' PROVE Explained(p)'
    <2>1. Explained(p) /\ p \notin raced /\ p \notin cut'
      BY <1>5 DEF LInv, Remembers
    <2>2. /\ On(p, {"entry"}) => On(p, {"entry"})'
          /\ Unentered(p) => Unentered(p)'
          /\ Homeless(p) => Homeless(p)'
          /\ \A n : Lost(p, n) => Lost(p, n)'
          /\ \A names : JournalOf(p, names) =>
               JournalOf(p, names)' \/ (req[r].at \in Journaling /\ names = req[r].names)
          /\ \A n : Unlisted(p, n) =>
               \/ Unlisted(p, n)'
               \/ req[r].at \in {"move", "rollback"} /\ n \in req[r].moved
      BY <1>1, OthersReasons DEF HoldsQuota, PurgesOn
    <2>3. \A names \in dirs'[p].journals : JournalOf(p, names)'
      <3>1. req[r].at \in Journaling =>
              \A names \in dirs'[p].journals : names = req[r].names => JournalOf(p, names)'
        BY <2>1
      <3> QED  BY <2>1, <2>2, <3>1 DEF Explained
    <2>4. \A n \in OnDisk(p)' \ Listed(p)' : Unlisted(p, n)'
      <3>1. req[r].at \in {"move", "rollback"} => req[r].moved \cap OnDisk(p)' = {}
        BY <2>1 DEF Journaling
      <3> QED  BY <1>2, <2>1, <2>2, <3>1 DEF Explained, GalleryOf
    <2>5. \A n \in Listed(p)' \ OnDisk(p)' : Lost(p, n)'
      BY <1>2, <2>1, <2>2 DEF Explained
    <2>6. On(p, {"unpack"})' => On(p, {"unpack"})
      BY DEF On, Alone, Same
    <2> QED  BY <1>1, <1>2, <2>1, <2>2, <2>3, <2>4, <2>5, <2>6 DEF Explained, PurgesOn
  <1>6. ASSUME NEW q \in Requests \ {r} PROVE ClearedOf(req[q], p)'
    <2>1. CASE p \in raced'
      BY <2>1 DEF ClearedOf
    <2>2. CASE p \notin raced'
      <3>1. GalleryOf(p, req[r].owner) /\ Same(q)
        BY <1>6, <2>2 DEF Remembers, Alone
      <3> QED  BY <1>2, <1>6, <3>1, OthersCount
    <2> QED  BY <2>1, <2>2
  <1>7. \A u \in Users : Assets(u)' \subseteq Assets(u)
    BY DEF Assets, Stored, Counted, OwnedBy, IsGallery, Remembers, OnDisk
  <1>8. KeptQuota(r)
    BY <1>7, StoresNoMore
  <1>9. KeptOn(p, r)
    BY <1>3, <1>4, <1>5, <1>6 DEF KeptOn
  <1>10. PICK P : P = {p}
    OBVIOUS
  <1> QED  BY <1>1, <1>8, <1>9, <1>10, Assemble DEF SamePost, PurgesOn

LEMMA JournalsIs ==
    ASSUME dirs \in [Posts -> Directory], NEW p \in Posts, NEW rest \in SUBSET dirs[p].journals,
           dirs' = [dirs EXCEPT ![p].journals = rest]
    PROVE  /\ dirs' \in [Posts -> Directory]
           /\ \A x \in Posts \ {p} : dirs'[x] = dirs[x]
           /\ dirs'[p].made = dirs[p].made /\ dirs'[p].journals = rest
           /\ dirs'[p].media = dirs[p].media /\ OnDisk(p)' = OnDisk(p)
           /\ Bare(p) /\ (p \in littered' => p \in littered) => Bare(p)'
  <1> DEFINE d == dirs[p]
  <1>1. d \in Directory
    OBVIOUS
  <1>2. dirs'[p] = [d EXCEPT !.journals = rest] /\ \A x \in Posts \ {p} : dirs'[x] = dirs[x]
    OBVIOUS
  <1>3. /\ dirs'[p] \in Directory /\ dirs'[p].journals = rest
        /\ dirs'[p].made = d.made /\ dirs'[p].media = d.media
    BY <1>1, <1>2 DEF Directory
  <1>4. Bare(p) /\ (p \in littered' => p \in littered) => Bare(p)'
    <2> SUFFICES ASSUME d = NoDir PROVE dirs'[p] = NoDir
      BY <1>3 DEF Bare
    <2>1. rest = d.journals
      BY DEF NoDir
    <2> QED  BY <1>1, <1>2, <2>1 DEF Directory
  <1>5. dirs' \in [Posts -> Directory]
    BY <1>2, <1>3
  <1>6. OnDisk(p)' = OnDisk(p)
    BY <1>3 DEF OnDisk
  <1> QED  BY <1>2, <1>3, <1>4, <1>5, <1>6

\* A recovery goes on, with the gallery p clear of leftovers when it is done with it.
LEMMA RecoversOn ==
    ASSUME LInv, NEW r \in Requests, NEW p \in Posts, NEW k \in Request,
           req[r].at = "recovering", Becomes(r, k), UNCHANGED <<meta, locks, raced, littered>>,
           \A x \in Posts \ {p} : dirs'[x] = dirs[x], dirs'[p].made = dirs[p].made,
           k.at = "recovering", k.post = req[r].post, k.op = req[r].op,
           k.owner = req[r].owner, k.files = req[r].files, k.names = req[r].names,
           k.moved = req[r].moved, k.clean = req[r].clean,
           \/ k.todo = req[r].todo /\ p \in k.todo
           \/ k.todo = req[r].todo \ {p} /\ (p \notin raced \cup littered => Clear(p)')
    PROVE  KeptBy(r)
  <1>1. Mine(r) /\ req'[r] = k
    BY DEF LInv, Becomes
  <1>2. Known(k)
    BY <1>1 DEF Mine, Known, InPost, Numbered, HoldsQuota, Steps
  <1>3. Seen(k)' /\ Locked(r)'
    BY <1>1 DEF Mine, Seen, Locked, GalleryOf, IsGallery, locks, HoldsMeta, HoldsQuota
  <1>4. ASSUME NEW x \in Posts PROVE ClearedOf(k, x)'
    <2>1. CASE x = p
      BY <2>1 DEF ClearedOf
    <2>2. CASE x # p
      <3>1. dirs'[x] = dirs[x] /\ meta'[x] = meta[x] /\ ClearedOf(req[r], x)
        BY <1>1, <2>2 DEF Mine, Cleared
      <3>2. Clear(x)' <=> Clear(x)
        BY <3>1 DEF Clear, OnDisk, Listed, IsGallery
      <3> QED  BY <2>2, <3>1, <3>2 DEF ClearedOf, Galleries, OwnedBy
    <2> QED  BY <2>1, <2>2
  <1>5. Fits(k)' /\ Relies(k)'
    BY DEF Fits, Relies, Journaling
  <1>6. Known(k)'
    BY <1>2 DEF Known
  <1>7. Cleared(k)'
    BY <1>4 DEF Cleared
  <1> QED  BY SMTT(30), <1>1, <1>3, <1>5, <1>6, <1>7
           DEF KeptBy, Mine, Known, Seen, Cleared, ClearedOf, Fits, Relies

LEMMA RemoveLeftoversStep ==
    ASSUME LInv, NEW r \in Requests, NEW p \in Posts, RemoveLeftovers(r, p)
    PROVE  LInv'
  <1>1. /\ req[r].at = "recovering" /\ p \in req[r].todo
        /\ UNCHANGED <<meta, locks, req, ops, taken, raced, littered, cut>>
        /\ \E n \in Leftovers(p) : dirs' = [dirs EXCEPT ![p] = Without(@, {n})]
        /\ dirs \in [Posts -> Directory] /\ req \in [Requests -> Request] /\ Bare(p)
    BY DEF RemoveLeftovers, At, history, LInv, TypeOK
  <1>2. GalleryOf(p, req[r].owner)
    BY <1>1, InPublication DEF HoldsQuota, Seen
  <1>3. PICK m \in Leftovers(p) : dirs' = [dirs EXCEPT ![p] = Without(@, {m})]
    BY <1>1
  <1>4. /\ dirs' \in [Posts -> Directory]
        /\ \A x \in Posts \ {p} : dirs'[x] = dirs[x]
        /\ dirs'[p].made = dirs[p].made /\ dirs'[p].journals = dirs[p].journals
        /\ \A n \in Names \ {m} : dirs'[p].media[n] = dirs[p].media[n]
        /\ OnDisk(p)' = OnDisk(p) \ {m} /\ Bare(p)'
    BY ZenonT(40), <1>1, <1>3, WithoutIs
  <1>5. Becomes(r, req[r])
    BY <1>1 DEF Becomes, Same
  <1>6. KeptBy(r)
    BY <1>1, <1>4, <1>5, RecoversOn
  <1>7. TypeOK' /\ Alone(r) /\ Remembers
    BY <1>1, <1>4, <1>5, ReleasesAlone DEF LInv, TypeOK, locks, Remembers
  <1>8. \A n \in OnDisk(p)' : dirs'[p].media[n] = dirs[p].media[n]
    <2>1. OnDisk(p)' \subseteq Names
      BY DEF OnDisk
    <2> QED  BY <1>4, <2>1
  <1>9. p \notin raced \cup littered => OnDisk(p) \subseteq Listed(p) \cup Journaled(p)
    BY <1>2 DEF LInv, InOrder, Strays, GalleryOf
  <1>10. Journaled(p)' = Journaled(p)
    BY <1>4 DEF Journaled
  <1>11. p \notin raced =>
           /\ Listed(p) \cap OnDisk(p) \subseteq OnDisk(p)'
           /\ p \notin littered => OnDisk(p)' \subseteq Listed(p) \cup Journaled(p)'
    BY <1>4, <1>9, <1>10, <1>3 DEF Leftovers
  <1> QED  BY <1>1, <1>2, <1>4, <1>6, <1>7, <1>8, <1>11, ReduceStep
           DEF HoldsQuota, Explaining, Journaling

LEMMA RemoveJournalsStep ==
    ASSUME LInv, NEW r \in Requests, NEW p \in Posts, RemoveJournals(r, p)
    PROVE  LInv'
  <1>1. /\ req[r].at = "recovering" /\ p \in req[r].todo /\ Leftovers(p) = {}
        /\ UNCHANGED <<meta, locks, ops, taken, raced, littered, cut>>
        /\ dirs' = [dirs EXCEPT ![p].journals = {}]
        /\ dirs \in [Posts -> Directory] /\ req \in [Requests -> Request] /\ Bare(p)
    BY DEF RemoveJournals, At, history, LInv, TypeOK
  <1>2. GalleryOf(p, req[r].owner) /\ req[r] \in Request
    BY <1>1, InPublication DEF HoldsQuota, Seen
  <1>3. PICK k : k = [req[r] EXCEPT !.todo = req[r].todo \ {p}]
    OBVIOUS
  <1>4. /\ k \in Request /\ k.at = req[r].at /\ k.post = req[r].post /\ k.op = req[r].op
        /\ k.owner = req[r].owner /\ k.files = req[r].files /\ k.names = req[r].names
        /\ k.moved = req[r].moved /\ k.todo = req[r].todo \ {p} /\ k.clean = req[r].clean
    BY <1>2, <1>3 DEF Request
  <1>5. Becomes(r, k)
    BY <1>1, <1>3, <1>4, ReqStep DEF RemoveJournals
  <1>6. /\ dirs' \in [Posts -> Directory]
        /\ \A x \in Posts \ {p} : dirs'[x] = dirs[x]
        /\ dirs'[p].made = dirs[p].made /\ dirs'[p].journals = {}
        /\ dirs'[p].media = dirs[p].media
        /\ OnDisk(p)' = OnDisk(p) /\ Bare(p)'
    BY <1>1, JournalsIs
  <1>7. p \notin raced \cup littered => OnDisk(p) \subseteq Listed(p)
    BY <1>1, <1>2 DEF LInv, InOrder, Strays, GalleryOf, Leftovers
  <1>8. Listed(p)' = Listed(p)
    BY <1>1 DEF Listed, IsGallery
  <1>9. p \notin raced \cup littered => Clear(p)'
    BY <1>6, <1>7, <1>8 DEF Clear
  <1>10. KeptBy(r)
    BY <1>1, <1>4, <1>5, <1>6, <1>9, RecoversOn
  <1>11. TypeOK' /\ Alone(r) /\ Remembers
    BY <1>1, <1>5, <1>6, ReleasesAlone DEF LInv, TypeOK, Becomes, locks, Remembers
  <1>12. req'[r].at = "recovering"
    BY <1>1, <1>4, <1>5 DEF Becomes
  <1> QED  BY <1>1, <1>2, <1>6, <1>7, <1>10, <1>11, <1>12, ReduceStep
           DEF HoldsQuota, Explaining, Journaling

\* Of a publication whose own step it is.
LEMMA InJournal ==
    ASSUME LInv, NEW r \in Requests, req[r].at \in {"finish", "rollback", "withdraw"},
           NEW p \in Posts, p = req[r].post
    PROVE  /\ Known(req[r]) /\ req[r].at \in HoldsQuota /\ req[r].at \in InPost
           /\ Bare(p) /\ dirs \in [Posts -> Directory]
           /\ quotaLock[req[r].owner] = r
           /\ p \notin raced => Relies(req[r])
           /\ p \notin raced \cup littered => OnDisk(p) \subseteq Listed(p) \cup Journaled(p)
  <1>1. req[r].at \in HoldsQuota /\ req[r].at \in InPost
    BY DEF HoldsQuota, InPost, Steps
  <1>2. Known(req[r]) /\ quotaLock[req[r].owner] = r
    BY <1>1 DEF LInv, Mine, Locked
  <1>3. p \notin raced => Relies(req[r])
    BY DEF LInv
  <1>4. p \notin raced \cup littered => OnDisk(p) \subseteq Listed(p) \cup Journaled(p)
    BY <1>3 DEF LInv, InOrder, Strays, Relies, Journaling, GalleryOf
  <1> QED  BY <1>1, <1>2, <1>3, <1>4 DEF LInv, TypeOK

\* A request ends, and gives its lock up.
LEMMA Leaves ==
    ASSUME LInv, NEW r \in Requests, NEW k \in Request, Becomes(r, k), Known(k),
           k.at \in {"idle", "rmtree"}, DropQuota(r), UNCHANGED <<meta, metaLock>>
    PROVE  KeptBy(r) /\ Alone(r) /\ Releases(r)
  <1>1. Releases(r)
    BY DropsQuota
  <1>2. Alone(r)
    BY <1>1 DEF Alone, Releases, Becomes
  <1> QED  BY <1>1, <1>2, PlainBy DEF Plain

\* The journal is removed when its names are listed or gone.
LEMMA EndJournal ==
    ASSUME LInv, NEW r \in Requests, NEW p \in Posts, p = req[r].post, NEW k \in Request,
           Becomes(r, k), Known(k), k.at \in {"idle", "rmtree"}, DropQuota(r),
           req[r].at \in {"finish", "withdraw"},
           dirs' = [dirs EXCEPT ![p].journals = @ \ {req[r].names}],
           UNCHANGED <<meta, metaLock, ops, history>>
    PROVE  LInv'
  <1>1. /\ req[r].at \in HoldsQuota /\ Bare(p) /\ dirs \in [Posts -> Directory]
        /\ p \notin raced => Relies(req[r])
        /\ p \notin raced \cup littered => OnDisk(p) \subseteq Listed(p) \cup Journaled(p)
    BY InJournal
  <1>2. PICK rest \in SUBSET dirs[p].journals : rest = dirs[p].journals \ {req[r].names}
    OBVIOUS
  <1>3. dirs' = [dirs EXCEPT ![p].journals = rest]
    BY <1>2
  <1>4. /\ dirs' \in [Posts -> Directory]
        /\ \A x \in Posts \ {p} : dirs'[x] = dirs[x]
        /\ dirs'[p].made = dirs[p].made /\ dirs'[p].journals = rest
        /\ dirs'[p].media = dirs[p].media
        /\ OnDisk(p)' = OnDisk(p) /\ Bare(p)'
    BY <1>1, <1>3, JournalsIs DEF history
  <1>5. KeptBy(r) /\ Alone(r) /\ Releases(r)
    BY Leaves
  <1>6. TypeOK' /\ Remembers /\ UNCHANGED littered
    BY <1>4, <1>5 DEF LInv, TypeOK, Becomes, Releases, Remembers, history
  <1>7. p \notin raced => GalleryOf(p, req[r].owner)
    BY <1>1 DEF Relies, Journaling
  <1>8. p \notin raced => req[r].names \cap OnDisk(p) \subseteq Listed(p)
    BY <1>1 DEF Relies
  <1>9. p \notin raced \cup littered => OnDisk(p)' \subseteq Listed(p) \cup Journaled(p)'
    BY SMTT(30), <1>1, <1>2, <1>4, <1>8 DEF Journaled
  <1>10. req'[r].at \notin {"purging", "unpack"}
    BY DEF Becomes
  <1> QED  BY SMTT(30), <1>1, <1>2, <1>4, <1>5, <1>6, <1>7, <1>9, <1>10, ReduceStep

LEMMA FinishStep ==
    ASSUME LInv, NEW r \in Requests, Finish(r)
    PROVE  LInv'
  <1>1. /\ req[r].at = "finish" /\ Becomes(r, Idle) /\ DropQuota(r)
        /\ UNCHANGED <<meta, metaLock, ops, taken, raced, littered>>
    BY DoneIs DEF Finish, At
  <1>2. req[r].post \in Posts
    BY <1>1, InPublication DEF HoldsQuota
  <1>3. PICK p \in Posts : p = req[r].post
    BY <1>2
  <1>4. CASE dirs' = [dirs EXCEPT ![p].journals = @ \ {req[r].names}] /\ UNCHANGED cut
    BY <1>1, <1>3, <1>4, IdleIs, EndJournal DEF history
  <1>5. CASE cut' = cut \cup {p} /\ UNCHANGED dirs
    <2>1. Quiet /\ ops' \in 0..MaxOps /\ cut' \subseteq Posts
      BY <1>1, <1>5 DEF Quiet, LInv, TypeOK
    <2>2. Holds(Idle) /\ HasLocks(r, Idle)
      BY IdleIs, PlainHolds DEF Plain, HasLocks, HoldsQuota
    <2> QED  BY <1>1, <1>3, <1>5, <2>1, <2>2, IdleIs, DropsQuota, QuietTo
  <1> QED  BY <1>3, <1>4, <1>5 DEF Finish

LEMMA WithdrawStep ==
    ASSUME LInv, NEW r \in Requests, Withdraw(r)
    PROVE  LInv'
  <1>1. /\ req[r].at = "withdraw" /\ GiveUp(r) /\ DropQuota(r)
        /\ UNCHANGED <<meta, metaLock, ops, taken, raced, littered>>
    BY DEF Withdraw, At
  <1>2. req[r].post \in Posts /\ req[r].at \in InPost
    BY <1>1, InPublication DEF HoldsQuota
  <1>3. PICK p \in Posts : p = req[r].post
    BY <1>2
  <1>4. PICK k \in Request : Becomes(r, k) /\ Known(k) /\ k.at \in {"idle", "rmtree"}
    BY <1>1, <1>2, GiveUpIs
  <1>5. CASE dirs' = [dirs EXCEPT ![p].journals = @ \ {req[r].names}] /\ UNCHANGED cut
    BY <1>1, <1>3, <1>4, <1>5, EndJournal DEF history
  <1>6. CASE cut' = cut \cup {p} /\ UNCHANGED dirs
    <2>1. Quiet /\ ops' \in 0..MaxOps /\ cut' \subseteq Posts
      BY <1>1, <1>6 DEF Quiet, LInv, TypeOK
    <2>2. Holds(k) /\ HasLocks(r, k)
      BY <1>4, PlainHolds DEF Plain, HasLocks, HoldsQuota
    <2> QED  BY <1>1, <1>3, <1>4, <1>6, <2>1, <2>2, DropsQuota, QuietTo
  <1> QED  BY <1>3, <1>5, <1>6 DEF Withdraw

LEMMA RollbackStep ==
    ASSUME LInv, NEW r \in Requests, Rollback(r)
    PROVE  LInv'
  <1>1. req[r].at = "rollback" /\ UNCHANGED <<meta, metaLock, ops, taken, raced, littered>>
    BY DEF Rollback, At
  <1>2. req[r].post \in Posts
    BY <1>1, InPublication DEF HoldsQuota
  <1>3. PICK p \in Posts : p = req[r].post
    BY <1>2
  <1>4. /\ Known(req[r]) /\ req[r].at \in HoldsQuota /\ req[r].at \in InPost
        /\ Bare(p) /\ dirs \in [Posts -> Directory] /\ quotaLock[req[r].owner] = r
        /\ p \notin raced => Relies(req[r])
        /\ p \notin raced \cup littered => OnDisk(p) \subseteq Listed(p) \cup Journaled(p)
    BY <1>1, <1>3, InJournal
  <1>5. /\ p \notin raced => GalleryOf(p, req[r].owner) /\ req[r].names \in dirs[p].journals
        /\ p \notin raced => req[r].names \cap Listed(p) = {}
        /\ p \notin raced => req[r].names \cap OnDisk(p) \subseteq req[r].moved
        /\ req[r].moved \subseteq req[r].names
    BY <1>1, <1>3, <1>4 DEF Relies, Journaling, Known
  <1>6. ASSUME NEW gone \in SUBSET req[r].moved, dirs' = [dirs EXCEPT ![p] = Without(@, gone)]
        PROVE  /\ dirs' \in [Posts -> Directory]
               /\ \A x \in Posts \ {p} : dirs'[x] = dirs[x]
               /\ dirs'[p].made = dirs[p].made /\ dirs'[p].journals = dirs[p].journals
               /\ \A n \in OnDisk(p)' : dirs'[p].media[n] = dirs[p].media[n]
               /\ OnDisk(p)' = OnDisk(p) \ gone /\ Bare(p)'
               /\ p \notin raced =>
                    /\ Listed(p) \cap OnDisk(p) \subseteq OnDisk(p)'
                    /\ p \notin littered => OnDisk(p)' \subseteq Listed(p) \cup Journaled(p)'
    <2>1. /\ dirs' \in [Posts -> Directory]
          /\ \A x \in Posts \ {p} : dirs'[x] = dirs[x]
          /\ dirs'[p].made = dirs[p].made /\ dirs'[p].journals = dirs[p].journals
          /\ \A n \in Names \ gone : dirs'[p].media[n] = dirs[p].media[n]
          /\ OnDisk(p)' = OnDisk(p) \ gone
          /\ Bare(p) /\ (p \in littered' => p \in littered) => Bare(p)'
      BY ZenonT(40), <1>4, <1>6, WithoutIs
    <2>2. OnDisk(p)' \subseteq Names
      BY DEF OnDisk
    <2>3. Journaled(p)' = Journaled(p)
      BY <2>1 DEF Journaled
    <2>4. p \notin raced => Listed(p) \cap OnDisk(p) \subseteq OnDisk(p)'
      BY <1>5, <1>6, <2>1
    <2>5. p \notin raced \cup littered => OnDisk(p)' \subseteq Listed(p) \cup Journaled(p)'
      BY <1>4, <2>1, <2>3
    <2>6. Bare(p)'
      BY <1>1, <1>4, <2>1
    <2> QED  BY <2>1, <2>2, <2>4, <2>5, <2>6
  <1>7. CASE /\ dirs' = [dirs EXCEPT ![p] = Without(@, req[r].moved)]
             /\ Go(r, "withdraw") /\ UNCHANGED <<quotaLock, cut>>
    <2>1. PICK k \in Request :
            /\ Becomes(r, k) /\ k.at = "withdraw" /\ k.post = req[r].post /\ k.op = req[r].op
            /\ k.owner = req[r].owner /\ k.files = req[r].files /\ k.names = req[r].names
            /\ k.moved = req[r].moved
      BY <1>7, GoIs DEF Steps
    <2>2. req'[r] = k
      BY <2>1 DEF Becomes
    <2>3. /\ dirs' \in [Posts -> Directory]
          /\ \A x \in Posts \ {p} : dirs'[x] = dirs[x]
          /\ dirs'[p].made = dirs[p].made /\ dirs'[p].journals = dirs[p].journals
          /\ \A n \in OnDisk(p)' : dirs'[p].media[n] = dirs[p].media[n]
          /\ OnDisk(p)' = OnDisk(p) \ req[r].moved /\ Bare(p)'
          /\ p \notin raced =>
               /\ Listed(p) \cap OnDisk(p) \subseteq OnDisk(p)'
               /\ p \notin littered => OnDisk(p)' \subseteq Listed(p) \cup Journaled(p)'
      BY <1>6, <1>7
    <2>4. Known(k)
      BY <1>1, <1>4, <2>1 DEF Known, InPost, Numbered, HoldsQuota, Steps
    <2>5. Alone(r) /\ Remembers
      BY <1>1, <1>7, <2>1, ReleasesAlone DEF Remembers, locks
    <2>6. Known(req[r])' /\ Locked(r)' /\ Seen(req[r])' /\ Cleared(req[r])' /\ Fits(req[r])'
      BY <1>1, <1>3, <1>4, <1>7, <2>1, <2>2, <2>4
         DEF Known, Locked, Seen, Cleared, ClearedOf, Fits, HoldsMeta, HoldsQuota, Counting
    <2>7. p \notin raced =>
            /\ GalleryOf(p, k.owner)' /\ k.names \in dirs'[p].journals
            /\ k.names \cap OnDisk(p)' = {}
      BY <1>1, <1>5, <2>1, <2>3 DEF GalleryOf, IsGallery
    <2>8. p \notin raced => ~Purged(p)'
      <3>1. PurgesOn(p)
        BY <1>1, <2>1, <2>2, <2>5, NoPurge
      <3> QED  BY <1>1, <1>3, <1>4, <3>1 DEF Relies, Journaling, PurgesOn
    <2>9. req'[r].post \in Posts \ raced' => Relies(req[r])'
      BY <1>1, <1>3, <2>1, <2>2, <2>7, <2>8 DEF Relies, GalleryOf, IsGallery, OnDisk
    <2>10. KeptBy(r)
      BY <2>6, <2>9 DEF KeptBy, Mine
    <2>11. TypeOK'
      BY <1>1, <1>7, <2>1, <2>3 DEF LInv, TypeOK, Becomes
    <2>12. \A names : names = req[r].names => JournalOf(p, names)'
      BY <1>3, <2>1, <2>2 DEF JournalOf, Journaling
    <2> QED  BY SMTT(30), <1>1, <1>3, <1>4, <1>5, <2>1, <2>2, <2>3, <2>5, <2>10, <2>11, <2>12, ReduceStep
  <1>8. CASE /\ \E gone \in SUBSET req[r].moved :
                  gone # req[r].moved /\ dirs' = [dirs EXCEPT ![p] = Without(@, gone)]
             /\ cut' = cut \cup {p} /\ GiveUp(r) /\ DropQuota(r)
    <2>1. PICK gone \in SUBSET req[r].moved : dirs' = [dirs EXCEPT ![p] = Without(@, gone)]
      BY <1>8
    <2>2. PICK k \in Request : Becomes(r, k) /\ Known(k) /\ k.at \in {"idle", "rmtree"}
      BY <1>4, <1>8, GiveUpIs
    <2>3. /\ dirs' \in [Posts -> Directory]
          /\ \A x \in Posts \ {p} : dirs'[x] = dirs[x]
          /\ dirs'[p].made = dirs[p].made /\ dirs'[p].journals = dirs[p].journals
          /\ \A n \in OnDisk(p)' : dirs'[p].media[n] = dirs[p].media[n]
          /\ OnDisk(p)' = OnDisk(p) \ gone /\ Bare(p)'
          /\ p \notin raced =>
               /\ Listed(p) \cap OnDisk(p) \subseteq OnDisk(p)'
               /\ p \notin littered => OnDisk(p)' \subseteq Listed(p) \cup Journaled(p)'
      BY <1>6, <2>1
    <2>4. KeptBy(r) /\ Alone(r) /\ Releases(r)
      BY <1>1, <1>8, <2>2, Leaves
    <2>5. TypeOK' /\ Remembers
      BY <1>1, <1>8, <2>2, <2>3, <2>4 DEF LInv, TypeOK, Becomes, Releases, Remembers
    <2>6. req'[r].at \notin {"purging", "unpack"}
      BY <2>2 DEF Becomes
    <2> QED  BY SMTT(30), <1>1, <1>3, <1>4, <1>5, <1>8, <2>3, <2>4, <2>5, <2>6, ReduceStep
  <1> QED  BY <1>3, <1>7, <1>8 DEF Rollback

-----------------------------------------------------------------------------
(* Steps of a publication that write.                                      *)

LEMMA FewerFit ==
    ASSUME NEW A, NEW B, IsFiniteSet(B), A \subseteq B, Cardinality(B) =< Quota
    PROVE  Cardinality(A) =< Quota
  <1>1. A \in SUBSET B
    OBVIOUS
  <1>2. IsFiniteSet(A) /\ Cardinality(A) =< Cardinality(B)
    BY <1>1, FS_Subset
  <1>3. Cardinality(A) \in Nat /\ Cardinality(B) \in Nat /\ Quota \in Nat
    BY <1>2, FS_CardinalityType, LoftAssumption
  <1> QED  BY ONLY <1>2, <1>3, Cardinality(B) =< Quota

\* What the owner's galleries hold once the new names are stored was counted before.
LEMMA GrowthFits ==
    ASSUME LInv, NEW r \in Requests, NEW p \in Posts, p = req[r].post,
           req[r].at \in {"journal", "move"}, Alone(r), Remembers, UNCHANGED meta,
           \A x \in Posts \ {p} : dirs'[x] = dirs[x],
           \A n \in Names \ req[r].names : dirs'[p].media[n] = dirs[p].media[n],
           NEW names \in SUBSET Names, names = req[r].names
    PROVE  /\ KeptQuota(r)
           /\ \A u \in Users : u = req[r].owner =>
                Cardinality(Assets(u)' \cup ({p} \X names)) =< Quota
  <1>1. /\ GalleryOf(p, req[r].owner) /\ Fits(req[r]) /\ req[r].owner \in Users
    BY InPublication DEF HoldsQuota, Seen
  <1> DEFINE T == {p} \X names
  <1>2. ASSUME NEW u \in Users PROVE Assets(u)' \subseteq Assets(u) \cup T
    BY DEF Assets, Stored, Counted, OwnedBy, IsGallery, Remembers
  <1>3. ASSUME NEW u \in Users, u # req[r].owner PROVE Assets(u)' \subseteq Assets(u)
    <2>1. p \notin OwnedBy(u)
      BY <1>1, <1>3 DEF OwnedBy, GalleryOf
    <2> QED  BY <2>1 DEF Assets, Stored, Counted, OwnedBy, IsGallery, Remembers
  <1>4. IsFiniteSet(T)
    BY NamesFinite
  <1>5. ASSUME NEW u \in Users, u = req[r].owner
        PROVE  Cardinality(Assets(u) \cup T) =< Quota /\ IsFiniteSet(Assets(u) \cup T)
    BY <1>1, <1>4, <1>5, AssetsFinite, FS_Union DEF Fits
  <1> HIDE DEF T
  <1>6. ASSUME NEW u \in Users, u = req[r].owner
        PROVE  Cardinality(Assets(u)' \cup T) =< Quota /\ Cardinality(Assets(u)') =< Quota
    <2>1. Assets(u)' \subseteq Assets(u) \cup T /\ Assets(u)' \cup T \subseteq Assets(u) \cup T
      BY <1>2
    <2> QED  BY <1>5, <1>6, <2>1, FewerFit
  <1>7. ASSUME NEW q \in Requests \ {r} PROVE Fits(req[q])'
    <2>1. Same(q) /\ Fits(req[q]) /\ Known(req[q]) /\ req[q] \in Request
      BY <1>7 DEF Alone, LInv, Mine, TypeOK
    <2> SUFFICES ASSUME NEW u \in Users, u = req'[q].owner
                 PROVE  /\ req'[q].at = "publish" =>
                             Cardinality(Assets(u)') + req'[q].files =< Quota
                        /\ req'[q].at \in {"journal", "move"} =>
                             Cardinality(Assets(u)' \cup ({req'[q].post} \X req'[q].names)) =< Quota
      BY DEF Fits
    <2>2. req[q].at \in {"publish", "journal", "move"} => u # req[r].owner
      BY <1>7, <2>1, OwnersApart DEF HoldsQuota, Same
    <2>3. CASE req[q].at = "publish"
      <3>1. Assets(u)' \in SUBSET Assets(u) /\ IsFiniteSet(Assets(u)) /\ Cardinality(Assets(u)) \in Nat
        BY <1>3, <2>2, <2>3, AssetsFinite
      <3>2. Cardinality(Assets(u)') =< Cardinality(Assets(u)) /\ Cardinality(Assets(u)') \in Nat
        BY <3>1, FS_Subset, FS_CardinalityType
      <3>3. Cardinality(Assets(u)) + req[q].files =< Quota /\ req[q].files \in Nat /\ Quota \in Nat
        BY <2>1, <2>3, LoftAssumption DEF Fits, Same, Known, HoldsQuota
      <3>4. Cardinality(Assets(u)') + req[q].files =< Quota
        BY ONLY <3>1, <3>2, <3>3
      <3> QED  BY <2>1, <2>3, <3>4 DEF Same
    <2>4. CASE req[q].at \in {"journal", "move"}
      <3> DEFINE S == {req[q].post} \X req[q].names
      <3>1. IsFiniteSet(Assets(u) \cup S)
        BY <2>1, NamesFinite, AssetsFinite, FS_Union DEF Request
      <3>2. Cardinality(Assets(u) \cup S) =< Quota
        BY <2>1, <2>4 DEF Fits, Same
      <3>3. Assets(u)' \cup S \subseteq Assets(u) \cup S
        BY <1>3, <2>2, <2>4
      <3> HIDE DEF S
      <3>4. Cardinality(Assets(u)' \cup S) =< Quota
        BY <3>1, <3>2, <3>3, FewerFit
      <3> QED  BY <2>1, <2>4, <3>4 DEF Same, S
    <2> QED  BY <2>1, <2>3, <2>4 DEF Same
  <1>8. ASSUME NEW u \in Users PROVE Cardinality(Assets(u)') =< Quota
    <2>1. CASE u = req[r].owner
      BY <1>6, <2>1
    <2>2. CASE u # req[r].owner
      <3>1. IsFiniteSet(Assets(u)) /\ Cardinality(Assets(u)) =< Quota
        BY AssetsFinite DEF LInv
      <3> QED  BY <1>3, <2>2, <3>1, FewerFit
    <2> QED  BY <2>1, <2>2
  <1> QED  BY <1>6, <1>7, <1>8 DEF KeptQuota, T

\* r writes under both locks: its journal, or media of its own under its names.
LEMMA GrowStep ==
    ASSUME LInv, NEW r \in Requests, NEW p \in Posts, p = req[r].post,
           req[r].at \in {"journal", "move"}, NEW k \in Request, Becomes(r, k),
           k.at = "move", k.post = p, k.op = req[r].op, k.owner = req[r].owner,
           k.files = req[r].files, k.names = req[r].names,
           req[r].moved \subseteq k.moved, k.moved \subseteq k.names,
           UNCHANGED <<meta, locks, ops, taken, littered, cut>>, raced \subseteq raced',
           raced' \subseteq Posts, dirs' \in [Posts -> Directory],
           \A x \in Posts \ {p} : dirs'[x] = dirs[x], dirs'[p].made = TRUE,
           p \notin raced' => dirs'[p].journals = dirs[p].journals \cup {k.names},
           \A n \in Names \ (k.moved \ req[r].moved) : dirs'[p].media[n] = dirs[p].media[n],
           \A n \in k.moved \ req[r].moved : dirs'[p].media[n] = k.op
    PROVE  LInv'
  <1>1. /\ GalleryOf(p, req[r].owner) /\ Known(req[r]) /\ req[r].at \in HoldsQuota
        /\ quotaLock[req[r].owner] = r /\ metaLock = r /\ req[r].op \in Ops
        /\ req[r].at \in HoldsMeta
    BY InPublication DEF HoldsQuota, HoldsMeta, Seen
  <1>2. req'[r] = k /\ Alone(r) /\ Remembers
    BY <1>1, ReleasesAlone DEF Becomes, Remembers
  <1>3. \A x : ~Purged(x) /\ ~Purged(x)' /\ PurgesOn(x)
    BY <1>1, <1>2, NobodyPurges
  <1>4. /\ Listed(p)' = Listed(p) /\ IsGallery(p)' = IsGallery(p) /\ meta'[p] = meta[p]
        /\ IsGallery(p)
    BY SMTT(30), <1>1 DEF Listed, IsGallery, GalleryOf
  <1>5. OnDisk(p)' = OnDisk(p) \cup (k.moved \ req[r].moved)
    <2>1. k.op # NoFile /\ k.moved \subseteq Names
      BY <1>1 DEF NoFile, Ops, Request
    <2>2. ASSUME NEW n \in Names
          PROVE  n \in OnDisk(p)' <=> (n \in OnDisk(p) \/ n \in k.moved \ req[r].moved)
      <3>1. CASE n \in k.moved \ req[r].moved
        BY <2>1, <3>1 DEF OnDisk
      <3>2. CASE n \notin k.moved \ req[r].moved
        BY <3>2 DEF OnDisk
      <3> QED  BY <3>1, <3>2
    <2>3. OnDisk(p) \subseteq Names /\ OnDisk(p)' \subseteq Names
      BY DEF OnDisk
    <2> QED  BY <2>1, <2>2, <2>3
  <1>6. ASSUME p \notin raced'
        PROVE  /\ p \notin raced /\ InOrder(p)
               /\ k.names \cap Listed(p) = {} /\ k.names \cap OnDisk(p) \subseteq req[r].moved
               /\ \A n \in req[r].moved : dirs[p].media[n] = k.op
               /\ dirs'[p].journals = dirs[p].journals \cup {k.names}
    <2>1. p \notin raced /\ Relies(req[r]) /\ InOrder(p)
      BY SMTT(30), <1>6 DEF LInv
    <2>2. req[r].at = "journal" => req[r].moved = {}
      BY <1>1 DEF Known
    <2> QED  BY SMTT(30), <1>6, <2>1, <2>2 DEF Relies
  <1>7. TypeOK'
    BY DEF LInv, TypeOK, Becomes, locks
  <1>8. ASSUME p \notin raced' PROVE InOrder(p)'
    <2>1. Gone(p)'
      BY <1>3, <1>4 DEF Gone, IsGallery
    <2>2. Strays(p)'
      <3>1. p \notin littered => OnDisk(p) \subseteq Listed(p) \cup Journaled(p)
        BY SMTT(30), <1>4, <1>6, <1>8 DEF InOrder, Strays
      <3>2. Journaled(p)' = Journaled(p) \cup k.names
        BY SMTT(30), <1>6, <1>8 DEF Journaled
      <3> QED  BY SMTT(30), <1>4, <1>5, <3>1, <3>2 DEF Strays
    <2>3. Intact(p)'
      <3>1. Intact(p) /\ meta[p] \in Entry
        BY SMTT(30), <1>4, <1>6, <1>8 DEF InOrder, IsGallery, LInv, TypeOK
      <3>2. ASSUME NEW i \in meta[p].items PROVE dirs'[p].media[i.name] = dirs[p].media[i.name]
        <4>1. i.name \in Names /\ i.name \in Listed(p)
          BY SMTT(30), <1>4, <3>1, <3>2 DEF Entry, Item, Listed, NamesIn
        <4>2. i.name \notin k.moved
          BY SMTT(30), <1>6, <1>8, <4>1
        <4> QED  BY SMTT(30), <4>1, <4>2
      <3> QED  BY SMTT(30), <1>2, <1>4, <3>1, <3>2 DEF Intact, Remembers
    <2> QED  BY <2>1, <2>2, <2>3 DEF InOrder
  <1>9. ASSUME NEW q \in Requests \ {r}, p \notin raced', req[q].post = p
        PROVE  Relies(req[q])'
    <2>1. Same(q)
      BY <1>2, <1>9 DEF Alone
    <2>2. req[q].at \notin Journaling \cup {"journal"}
      BY SMTT(30), <1>1, <1>6, <1>9, PublishesAlone
    <2>3. req[q].at # "unlist"
      BY <1>1, <1>9, MetaApart DEF HoldsMeta
    <2>4. Relies(req[q])
      BY <1>9 DEF LInv
    <2> QED  BY <1>9, <2>1, <2>2, <2>3, <2>4, OthersRely
  <1>10. ASSUME p \notin raced' \cup cut' PROVE Explained(p)'
    <2>1. Explained(p) /\ dirs'[p].journals = dirs[p].journals \cup {k.names}
      BY <1>6, <1>10 DEF LInv
    <2>2. /\ \A n : Lost(p, n) => Lost(p, n)'
          /\ \A names : JournalOf(p, names) =>
               JournalOf(p, names)' \/ (req[r].at \in Journaling /\ names = req[r].names)
          /\ \A n : Unlisted(p, n) =>
               \/ Unlisted(p, n)'
               \/ req[r].at \in {"move", "rollback"} /\ n \in req[r].moved
      <3>1. Purging(p) => Purging(p)'
        BY <1>3 DEF PurgesOn
      <3> QED  BY ZenonT(40), <1>2, <3>1, OthersReasons
    <2>3. \A names : names = k.names => JournalOf(p, names)'
      BY <1>2 DEF JournalOf, Journaling
    <2>4. \A n : n \in k.moved => Unlisted(p, n)'
      BY <1>2 DEF Unlisted
    <2>5. \A names \in dirs'[p].journals : JournalOf(p, names)'
      BY SMTT(30), <2>1, <2>2, <2>3 DEF Explained
    <2>6. \A n \in OnDisk(p)' \ Listed(p)' : Unlisted(p, n)'
      BY SMTT(30), <1>4, <1>5, <2>1, <2>2, <2>4 DEF Explained
    <2>7. \A n \in Listed(p)' \ OnDisk(p)' : Lost(p, n)'
      BY SMTT(30), <1>4, <1>5, <2>1, <2>2 DEF Explained
    <2> QED  BY SMTT(30), <1>3, <1>4, <2>5, <2>6, <2>7 DEF Explained, IsGallery
  <1>11. ASSUME NEW q \in Requests \ {r} PROVE ClearedOf(req[q], p)'
    BY <1>1, <1>2, <1>4, <1>11, OthersCount DEF Alone
  <1>12. Bare(p)'
    BY DEF Bare
  <1>13. KeptOn(p, r)
    BY <1>8, <1>9, <1>10, <1>11, <1>12 DEF KeptOn
  <1>14. PICK names \in SUBSET Names : names = req[r].names
    BY DEF LInv, TypeOK, Request
  <1>15. /\ KeptQuota(r)
         /\ \A u \in Users : u = k.owner => Cardinality(Assets(u)' \cup ({p} \X names)) =< Quota
    BY <1>2, <1>14, GrowthFits
  <1>16. Known(k)
    BY <1>1 DEF Known, InPost, Numbered, HoldsQuota, Steps
  <1>17. Known(req[r])' /\ Locked(r)' /\ Seen(req[r])' /\ Cleared(req[r])'
    BY ZenonT(40), <1>1, <1>2, <1>4, <1>16
       DEF Known, Locked, Seen, Cleared, ClearedOf, GalleryOf, Counting, locks
  <1>18. Fits(req[r])'
    BY <1>2, <1>14, <1>15 DEF Fits
  <1>19. req'[r].post \in Posts \ raced' => Relies(req[r])'
    <2> SUFFICES ASSUME p \notin raced' PROVE Relies(req[r])'
      BY SMTT(30), <1>2
    <2>1. /\ k.names \cap Listed(p)' = {} /\ k.names \cap OnDisk(p)' \subseteq k.moved
          /\ k.names \in dirs'[p].journals
      BY SMTT(30), <1>4, <1>5, <1>6
    <2>2. \A n \in k.moved : dirs'[p].media[n] = k.op
      BY SMTT(30), <1>6 DEF Request
    <2>3. IsGallery(p)' /\ meta'[p].owner = k.owner
      BY SMTT(30), <1>1, <1>4 DEF GalleryOf
    <2>4. ~Purged(k.post)'
      BY <1>3
    <2> QED  BY SMTT(30), <1>2, <2>1, <2>2, <2>3, <2>4
             DEF Relies, GalleryOf, Listed, OnDisk, IsGallery
  <1>20. KeptBy(r)
    BY <1>17, <1>18, <1>19 DEF KeptBy, Mine
  <1>21. PICK P : P = {p}
    OBVIOUS
  <1> QED  BY SMTT(30), <1>2, <1>3, <1>7, <1>13, <1>15, <1>20, <1>21, Assemble DEF SamePost, PurgesOn

LEMMA WriteJournalStep ==
    ASSUME LInv, NEW r \in Requests, WriteJournal(r)
    PROVE  LInv'
  <1>1. /\ req[r].at = "journal" /\ Go(r, "move")
        /\ UNCHANGED <<meta, locks, ops, taken, littered, cut>>
    BY DEF WriteJournal, At
  <1>2. /\ req[r] \in Request /\ req[r].post \in Posts /\ Known(req[r])
        /\ dirs \in [Posts -> Directory]
    BY <1>1, InPublication DEF HoldsQuota, LInv, TypeOK
  <1>3. PICK p \in Posts : p = req[r].post
    BY <1>2
  <1>4. PICK k \in Request :
          /\ Becomes(r, k) /\ k.at = "move" /\ k.post = req[r].post /\ k.op = req[r].op
          /\ k.owner = req[r].owner /\ k.files = req[r].files /\ k.names = req[r].names
          /\ k.moved = req[r].moved
    BY <1>1, GoIs DEF Steps
  <1>5. dirs' = [dirs EXCEPT ![p].made = TRUE, ![p].journals = @ \cup {req[r].names}]
    BY <1>3 DEF WriteJournal
  <1>6. /\ dirs' \in [Posts -> Directory] /\ dirs'[p].made = TRUE
        /\ dirs'[p].journals = dirs[p].journals \cup {k.names}
        /\ dirs'[p].media = dirs[p].media
        /\ \A x \in Posts \ {p} : dirs'[x] = dirs[x]
    <2>1. dirs[p] \in Directory /\ req[r].names \in SUBSET Names
      BY <1>2 DEF Request
    <2>2. /\ dirs'[p] = [dirs[p] EXCEPT !.made = TRUE,
                                        !.journals = dirs[p].journals \cup {req[r].names}]
          /\ \A x \in Posts \ {p} : dirs'[x] = dirs[x]
      BY <1>2, <1>5 DEF Directory
    <2>3. PICK journals : journals = dirs[p].journals \cup {req[r].names}
      OBVIOUS
    <2>4. journals \in SUBSET SUBSET Names
      BY <2>1, <2>3 DEF Directory
    <2>5. dirs'[p] = [dirs[p] EXCEPT !.made = TRUE, !.journals = journals]
      BY <2>2, <2>3
    <2>6. /\ dirs'[p] \in Directory /\ dirs'[p].made = TRUE
          /\ dirs'[p].journals = journals /\ dirs'[p].media = dirs[p].media
      BY <2>1, <2>4, <2>5 DEF Directory
    <2> QED  BY <1>2, <1>4, <1>5, <2>2, <2>3, <2>6
  <1>7. PICK S \in SUBSET Posts : S = {x \in {p} : ~dirs[p].made \/ Emptied(p)}
    OBVIOUS
  <1>8. raced' = raced \cup S
    BY <1>3, <1>7 DEF WriteJournal
  <1>9. raced \subseteq raced' /\ raced' \subseteq Posts
    BY <1>8 DEF LInv, TypeOK
  <1>10. k.moved \subseteq k.names
    BY <1>2, <1>4 DEF Known
  <1> QED  BY ZenonT(40), <1>1, <1>3, <1>4, <1>6, <1>9, <1>10, GrowStep

LEMMA MoveStep ==
    ASSUME LInv, NEW r \in Requests, Move(r)
    PROVE  LInv'
  <1>1. /\ req[r].at = "move" /\ UNCHANGED <<meta, locks, ops, taken, raced, littered, cut>>
    BY DEF Move, At, history
  <1>2. /\ req[r] \in Request /\ req[r].post \in Posts /\ Known(req[r])
        /\ dirs \in [Posts -> Directory] /\ req[r].op \in Ops
        /\ req[r].post \in Posts \ raced => Relies(req[r])
        /\ req \in [Requests -> Request]
    BY <1>1, InPublication DEF HoldsQuota, LInv, TypeOK
  <1>3. PICK p \in Posts : p = req[r].post
    BY <1>2
  <1>4. PICK n \in req[r].names \ req[r].moved :
          /\ dirs' = [dirs EXCEPT ![p].media[n] = req[r].op]
          /\ req' = [req EXCEPT ![r].moved = @ \cup {n}]
    BY ZenonT(40), <1>3 DEF Move
  <1>5. PICK k : k = [req[r] EXCEPT !.moved = req[r].moved \cup {n}]
    OBVIOUS
  <1>6. /\ k \in Request /\ k.at = "move" /\ k.post = req[r].post /\ k.op = req[r].op
        /\ k.owner = req[r].owner /\ k.files = req[r].files /\ k.names = req[r].names
        /\ k.moved = req[r].moved \cup {n}
    BY <1>1, <1>2, <1>5 DEF Request
  <1>7. Becomes(r, k)
    BY <1>2, <1>4, <1>5, <1>6, ReqStep
  <1>8. n \in Names /\ n \notin req[r].moved /\ k.moved \subseteq k.names
    BY <1>2, <1>6 DEF Request, Known
  <1>9. /\ dirs' \in [Posts -> Directory] /\ dirs'[p].made = dirs[p].made
        /\ dirs'[p].journals = dirs[p].journals
        /\ dirs'[p].media = [dirs[p].media EXCEPT ![n] = req[r].op]
        /\ \A x \in Posts \ {p} : dirs'[x] = dirs[x]
    <2>1. dirs[p] \in Directory /\ dirs[p].media \in [Names -> Ops \cup {NoFile}]
      BY <1>2 DEF Directory
    <2>2. [dirs[p].media EXCEPT ![n] = req[r].op] \in [Names -> Ops \cup {NoFile}]
      BY <1>2, <1>8, <2>1
    <2>3. /\ dirs'[p] = [dirs[p] EXCEPT !.media = [dirs[p].media EXCEPT ![n] = req[r].op]]
          /\ \A x \in Posts \ {p} : dirs'[x] = dirs[x]
      BY <1>2, <1>4
    <2>4. /\ dirs'[p] \in Directory /\ dirs'[p].made = dirs[p].made
          /\ dirs'[p].journals = dirs[p].journals
          /\ dirs'[p].media = [dirs[p].media EXCEPT ![n] = req[r].op]
      BY <2>1, <2>2, <2>3 DEF Directory
    <2> QED  BY <1>2, <1>4, <2>3, <2>4
  <1>10. dirs[p].made = TRUE
    BY <1>2, <1>3 DEF Move, Directory
  <1>11. p \notin raced => req[r].names \in dirs[p].journals
    BY <1>1, <1>2, <1>3 DEF Relies, Journaling
  <1>12. /\ \A m \in Names \ (k.moved \ req[r].moved) : dirs'[p].media[m] = dirs[p].media[m]
         /\ \A m \in k.moved \ req[r].moved : dirs'[p].media[m] = k.op
    BY <1>2, <1>6, <1>8, <1>9 DEF Directory
  <1>13. raced' = raced /\ raced \subseteq Posts
    BY <1>1 DEF LInv, TypeOK
  <1>14. /\ raced \subseteq raced' /\ raced' \subseteq Posts /\ dirs'[p].made = TRUE
         /\ p \notin raced' => dirs'[p].journals = dirs[p].journals \cup {k.names}
    BY <1>6, <1>9, <1>10, <1>11, <1>13
  <1>15. req[r].moved \subseteq k.moved /\ k.post = p
    BY <1>3, <1>6
  <1> QED  BY ZenonT(40), <1>1, <1>3, <1>6, <1>7, <1>8, <1>9, <1>12, <1>14, <1>15, GrowStep

-----------------------------------------------------------------------------
(* Steps of a deletion.                                                    *)

\* What is in a directory is being removed, by a deletion or a purge: nobody else is at work
\* on the post, or it is raced.
LEMMA TakeStep ==
    ASSUME LInv, NEW r \in Requests, NEW p \in Posts, TypeOK', Alone(r), Remembers,
           KeptBy(r), UNCHANGED meta, \A x \in Posts \ {p} : SamePost(x),
           \A x \in Posts \ {p} : PurgesOn(x),
           req[r].at \in {"rmtree", "rmdir", "purging"}, req'[r].at # "unpack",
           req[r].at = "rmdir" => req[r].post = p, Bare(p)',
           OnDisk(p)' \subseteq OnDisk(p), dirs'[p].journals \subseteq dirs[p].journals,
           \A n \in OnDisk(p)' : dirs'[p].media[n] = dirs[p].media[n],
           \A i \in MediaIn(p) : i.name \in OnDisk(p)' \/ i \in taken',
           p \notin raced' => \A q \in Requests \ {r} : req[q].post # p,
           p \in raced' \cup littered' \/ dirs'[p] = NoDir,
           p \in cut' \/ ~dirs'[p].made \/ (dirs[p].made /\ (Purged(p)' => Purged(p))),
           dirs'[p].made /\ meta[p] = None => Unentered(p)',
           ~dirs'[p].made => Homeless(p)', \A n : Lost(p, n)'
    PROVE  LInv'
  <1>1. Listed(p)' = Listed(p) /\ IsGallery(p)' = IsGallery(p) /\ meta'[p] = meta[p]
    BY DEF Listed, IsGallery
  <1>2. dirs'[p] = NoDir => ~dirs'[p].made /\ OnDisk(p)' = {} /\ dirs'[p].journals = {}
    BY DEF NoDir, OnDisk
  <1>3. ASSUME p \notin raced' PROVE InOrder(p)'
    <2>1. Gone(p)' /\ Strays(p)'
      BY <1>2, <1>3 DEF Gone, Empty, Strays
    <2>2. Intact(p)'
      <3> SUFFICES ASSUME IsGallery(p) PROVE Intact(p)'
        BY <1>1 DEF Intact
      <3>1. Intact(p) /\ meta[p] \in Entry
        BY <1>3 DEF LInv, InOrder, TypeOK, Remembers, IsGallery
      <3>2. ASSUME NEW i \in meta[p].items
            PROVE  dirs'[p].media[i.name] = i.id \/ i \in taken'
        <4>1. i.name \in Names /\ i.id # NoFile /\ i = [name |-> i.name, id |-> i.id]
          BY <3>1, <3>2, LoftAssumption DEF Entry, Item, Ops, NoFile
        <4>2. CASE dirs[p].media[i.name] = i.id
          <5>1. i.name \in OnDisk(p) /\ i = [name |-> i.name, id |-> dirs[p].media[i.name]]
            BY <4>1, <4>2 DEF OnDisk
          <5>2. i \in MediaIn(p)
            BY <5>1 DEF MediaIn
          <5> QED  BY <4>2, <5>2
        <4> QED  BY <3>1, <3>2, <4>2 DEF Intact, Remembers
      <3> QED  BY <1>1, <3>1, <3>2 DEF Intact
    <2> QED  BY <2>1, <2>2 DEF InOrder
  <1>4. ASSUME p \notin raced' \cup cut' PROVE Explained(p)'
    <2>1. Explained(p) /\ \A q \in Requests \ {r} : req[q].post # p
      BY <1>4 DEF LInv, Remembers
    <2>2. ~On(p, {"entry"}) /\ ~On(p, {"unpack"})'
      BY <2>1 DEF On, Alone, Same
    <2>3. Purged(p)' => ~dirs'[p].made
      BY <1>4, <2>1, <2>2 DEF Explained
    <2>4. \A names : ~JournalOf(p, names)
      BY <2>1 DEF JournalOf, Journaling
    <2>5. dirs'[p].journals = {}
      BY <2>1, <2>4 DEF Explained
    <2>6. \A n : ~Unlisted(p, n)
      BY <2>1 DEF Unlisted
    <2>7. IsGallery(p) => OnDisk(p)' \subseteq Listed(p)
      BY <2>1, <2>6 DEF Explained
    <2> QED  BY <1>1, <2>2, <2>3, <2>5, <2>7 DEF Explained
  <1>5. ASSUME NEW q \in Requests \ {r} PROVE ClearedOf(req[q], p)'
    BY <1>2 DEF ClearedOf, Galleries
  <1>6. ASSUME NEW u \in Users PROVE Assets(u)' \subseteq Assets(u)
    <2>1. \A x \in Posts : \A n \in Names :
            dirs'[x].media[n] # NoFile => dirs[x].media[n] # NoFile
      BY DEF OnDisk, SamePost
    <2>2. Counted(u)' \subseteq Counted(u) /\ Counted(u)' \subseteq Posts
      BY DEF Counted, OwnedBy, IsGallery, Remembers
    <2> QED  BY <2>1, <2>2 DEF Assets, Stored
  <1>7. KeptQuota(r)
    BY <1>6, StoresNoMore
  <1>8. KeptOn(p, r)
    BY <1>3, <1>4, <1>5 DEF KeptOn
  <1>9. PICK P : P = {p}
    OBVIOUS
  <1>10. req[r].at \in Explaining => req[r].post \in P
    BY <1>9 DEF Explaining, Journaling
  <1> QED  BY ZenonT(40), <1>7, <1>8, <1>9, <1>10, Assemble DEF PurgesOn

\* A deletion of a post that is raced or cut by now ends, and changes nothing else.
LEMMA MarkStep ==
    ASSUME LInv, NEW r \in Requests, NEW p \in Posts, p = req[r].post, TypeOK', Alone(r),
           Remembers, Becomes(r, Idle), UNCHANGED <<meta, dirs, littered>>,
           p \in raced' \cup cut', req[r].at # "purging"
    PROVE  LInv'
  <1>1. KeptBy(r) /\ req'[r].at = "idle"
    BY IdleIs, PlainBy DEF Plain, Becomes
  <1>2. \A x \in Posts : PurgesOn(x)
    BY <1>1, NoPurge
  <1>3. \A x \in Posts : SamePost(x)
    BY DEF SamePost
  <1>4. Bare(p)'
    BY DEF LInv, Bare
  <1>5. p \notin raced' => InOrder(p)'
    BY <1>2, <1>3, SameSound DEF LInv, Remembers, PurgesOn
  <1>6. ASSUME p \notin raced', NEW q \in Requests \ {r}, req[q].post = p
        PROVE  Relies(req[q])'
    <2>1. Same(q) /\ SamePost(req[q].post) /\ Relies(req[q]) /\ req'[q].post = p
      BY <1>3, <1>6 DEF Alone, LInv, Remembers, Same
    <2>2. Purged(p)' => Purged(p)
      BY <1>2 DEF PurgesOn
    <2> QED  BY <1>6, <2>1, <2>2, SameRelies
  <1>7. ASSUME NEW q \in Requests \ {r} PROVE ClearedOf(req[q], p)'
    <2>1. ClearedOf(req[q], p) /\ Same(q)
      BY <1>7 DEF LInv, Mine, Cleared, Alone
    <2>2. Clear(p)' <=> Clear(p)
      BY DEF Clear, OnDisk, Listed, IsGallery
    <2> QED  BY <2>1, <2>2 DEF ClearedOf, Same, Galleries, OwnedBy, Remembers
  <1>8. KeptOn(p, r)
    BY <1>4, <1>5, <1>6, <1>7 DEF KeptOn
  <1>9. \A u \in Users : Assets(u)' \subseteq Assets(u)
    BY DEF Assets, Stored, Counted, OwnedBy, IsGallery, Remembers
  <1>10. KeptQuota(r)
    BY <1>9, StoresNoMore
  <1>11. PICK P : P = {p}
    OBVIOUS
  <1> QED  BY <1>1, <1>2, <1>3, <1>8, <1>10, <1>11, Assemble DEF PurgesOn

LEMMA BareIs == /\ NoDir \in Directory /\ NoDir.made = FALSE /\ NoDir.journals = {}
                /\ NoDir.media = [n \in Names |-> NoFile]
  BY DEF NoDir, Directory

\* Of the files in a directory, one goes; a medium is recorded as taken.
LEMMA RemoveFileIs ==
    ASSUME LInv, NEW p \in Posts, RemoveFile(p)
    PROVE  /\ dirs' \in [Posts -> Directory] /\ \A x \in Posts \ {p} : dirs'[x] = dirs[x]
           /\ dirs[p].made = TRUE /\ dirs'[p].made = TRUE
           /\ OnDisk(p)' \subseteq OnDisk(p) /\ dirs'[p].journals \subseteq dirs[p].journals
           /\ \A n \in OnDisk(p)' : dirs'[p].media[n] = dirs[p].media[n]
           /\ taken \subseteq taken' /\ taken' \subseteq Item
           /\ \A i \in MediaIn(p) : i.name \in OnDisk(p)' \/ i \in taken'
  <1>1. /\ dirs \in [Posts -> Directory] /\ dirs[p] \in Directory /\ Bare(p)
        /\ taken \subseteq Item /\ dirs[p].media \in [Names -> Ops \cup {NoFile}]
    BY DEF LInv, TypeOK, Directory
  <1>2. dirs[p].made = TRUE
    <2>1. ~dirs[p].made => OnDisk(p) = {} /\ dirs[p].journals = {} /\ ~dirs[p].body
      BY <1>1 DEF Bare, NoDir, OnDisk
    <2> QED  BY <1>1, <2>1 DEF RemoveFile, Directory
  <1>3. \A i \in MediaIn(p) : i \in Item /\ i.name \in OnDisk(p)
    BY <1>1 DEF MediaIn, OnDisk, Item
  <1>4. OnDisk(p)' \subseteq Names
    BY DEF OnDisk
  <1>5. CASE \E n \in OnDisk(p) :
               /\ dirs' = [dirs EXCEPT ![p] = Without(@, {n})]
               /\ taken' = taken \cup {i \in MediaIn(p) : i.name = n}
    <2>1. PICK n \in OnDisk(p) :
            /\ dirs' = [dirs EXCEPT ![p] = Without(@, {n})]
            /\ taken' = taken \cup {i \in MediaIn(p) : i.name = n}
      BY <1>5
    <2>2. /\ dirs' \in [Posts -> Directory]
          /\ \A x \in Posts \ {p} : dirs'[x] = dirs[x]
          /\ dirs'[p].made = dirs[p].made /\ dirs'[p].journals = dirs[p].journals
          /\ \A m \in Names \ {n} : dirs'[p].media[m] = dirs[p].media[m]
          /\ OnDisk(p)' = OnDisk(p) \ {n}
      BY ZenonT(40), <1>1, <2>1, WithoutIs
    <2>3. taken \subseteq taken' /\ taken' \subseteq Item
      BY <1>1, <1>3, <2>1
    <2>4. \A i \in MediaIn(p) : i.name \in OnDisk(p)' \/ i \in taken'
      BY <1>3, <2>1, <2>2
    <2>5. \A m \in OnDisk(p)' : dirs'[p].media[m] = dirs[p].media[m]
      BY <1>4, <2>2
    <2> QED  BY <1>2, <2>2, <2>3, <2>4, <2>5
  <1>6. CASE /\ \E names \in dirs[p].journals :
                  dirs' = [dirs EXCEPT ![p].journals = @ \ {names}]
             /\ UNCHANGED taken
    <2>1. PICK rest \in SUBSET dirs[p].journals : dirs' = [dirs EXCEPT ![p].journals = rest]
      <3>1. PICK names \in dirs[p].journals : dirs' = [dirs EXCEPT ![p].journals = @ \ {names}]
        BY <1>6
      <3>2. PICK rest \in SUBSET dirs[p].journals : rest = dirs[p].journals \ {names}
        OBVIOUS
      <3> QED  BY <3>1, <3>2
    <2>2. /\ dirs' \in [Posts -> Directory]
          /\ \A x \in Posts \ {p} : dirs'[x] = dirs[x]
          /\ dirs'[p].made = dirs[p].made /\ dirs'[p].journals = rest
          /\ dirs'[p].media = dirs[p].media /\ OnDisk(p)' = OnDisk(p)
      BY <1>1, <2>1, JournalsIs
    <2> QED  BY <1>1, <1>2, <1>3, <1>6, <2>2
  <1>7. CASE dirs' = [dirs EXCEPT ![p].body = FALSE] /\ UNCHANGED taken
    <2>1. /\ dirs'[p] = [dirs[p] EXCEPT !.body = FALSE]
          /\ \A x \in Posts \ {p} : dirs'[x] = dirs[x]
      BY <1>1, <1>7
    <2>2. /\ dirs'[p] \in Directory /\ dirs'[p].made = dirs[p].made
          /\ dirs'[p].journals = dirs[p].journals /\ dirs'[p].media = dirs[p].media
      BY <1>1, <2>1 DEF Directory
    <2>3. dirs' \in [Posts -> Directory] /\ OnDisk(p)' = OnDisk(p)
      BY <1>1, <1>7, <2>1, <2>2 DEF OnDisk
    <2> QED  BY <1>1, <1>2, <1>3, <1>7, <2>1, <2>2, <2>3
  <1> QED  BY <1>5, <1>6, <1>7 DEF RemoveFile

\* A request that stays at its step.
LEMMA Stays ==
    ASSUME LInv, NEW r \in Requests, UNCHANGED req
    PROVE  Becomes(r, req[r])
  BY DEF LInv, TypeOK, Becomes, Same

LEMMA RemovalKept ==
    ASSUME NEW r, NEW k, Becomes(r, k), Known(k), k.at = "rmdir",
           k.post \notin raced' => k.post \in littered'
    PROVE  KeptBy(r)
  <1>1. req'[r] = k
    BY DEF Becomes
  <1> QED  BY <1>1 DEF KeptBy, Mine, Known, Locked, Seen, Cleared, ClearedOf, Fits, Relies,
              HoldsMeta, HoldsQuota, Counting, Journaling

LEMMA BeginRemovalStep ==
    ASSUME LInv, NEW r \in Requests, BeginRemoval(r)
    PROVE  LInv'
  <1>1. /\ req[r].at = "rmtree" /\ Known(req[r]) /\ req[r].post \in Posts
        /\ UNCHANGED <<meta, dirs, locks, ops, taken, cut>>
    BY DEF BeginRemoval, At, LInv, Mine, Known, InPost, Steps
  <1>2. PICK p \in Posts : p = req[r].post
    BY <1>1
  <1>3. CASE ~dirs[p].made
    <2>1. Done(r) /\ UNCHANGED <<meta, dirs, ops, history>>
      BY <1>1, <1>2, <1>3 DEF BeginRemoval, history
    <2>2. Becomes(r, Idle) /\ Releases(r)
      BY <1>1, <2>1, DoneIs, SameLocks
    <2> QED  BY <1>1, <2>1, <2>2, IdleIs, ToPlain DEF Plain, Explaining, Journaling
  <1>4. CASE dirs[p].made
    <2>1. /\ littered' = littered \cup {p}
          /\ raced' = raced \cup {x \in {p} : BusyOn(r, p)} /\ Go(r, "rmdir")
      BY <1>2, <1>4 DEF BeginRemoval
    <2>2. PICK k \in Request :
            /\ Becomes(r, k) /\ k.at = "rmdir" /\ k.post = p /\ k.op = req[r].op
            /\ k.moved = req[r].moved /\ k.names = req[r].names
      BY SMTT(30), <1>2, <2>1, GoIs DEF Steps
    <2>3. Known(k)
      BY <1>1, <2>2 DEF Known, InPost, Numbered, HoldsQuota, Steps
    <2>4. KeptBy(r) /\ req'[r] = k
      BY <2>1, <2>2, <2>3, RemovalKept DEF Becomes
    <2>5. TypeOK'
      BY <1>1, <2>1, <2>2 DEF LInv, TypeOK, Becomes, locks
    <2>6. Alone(r) /\ Remembers
      BY <1>1, <2>1, <2>2, ReleasesAlone DEF Remembers
    <2>7. \A x \in Posts : PurgesOn(x)
      BY <1>1, <2>2, <2>4, <2>6, NoPurge
    <2>8. On(p, {"entry", "unpack", "register", "rmdir"})' /\ On(p, {"rmdir", "pop"})'
      BY <2>2, <2>4 DEF On
    <2>9. Bare(p)' /\ Unentered(p)' /\ \A n : Lost(p, n)'
      BY <1>1, <1>4, <2>8 DEF Bare, Unentered, Lost
    <2>10. p \notin raced' => \A q \in Requests \ {r} : req[q].post # p
      BY <2>1 DEF BusyOn
    <2>11. OnDisk(p)' = OnDisk(p) /\ \A i \in MediaIn(p) : i.name \in OnDisk(p)
      BY <1>1 DEF OnDisk, MediaIn
    <2>12. \A x \in Posts \ {p} : SamePost(x)
      BY <1>1, <2>1 DEF SamePost
    <2>13. /\ p \in littered' /\ dirs'[p] = dirs[p] /\ dirs'[p].made
           /\ req'[r].at # "unpack" /\ (Purged(p)' => Purged(p))
      BY <1>1, <1>4, <2>1, <2>2, <2>4, <2>7 DEF PurgesOn
    <2> QED  BY <1>1, <1>4, <2>4, <2>5, <2>6, <2>7, <2>9, <2>10, <2>11, <2>12, <2>13, TakeStep
  <1> QED  BY <1>3, <1>4

LEMMA RemoveFilesStep ==
    ASSUME LInv, NEW r \in Requests, RemoveFiles(r)
    PROVE  LInv'
  <1>1. /\ req[r].at = "rmdir" /\ Known(req[r]) /\ req[r].post \in Posts
        /\ UNCHANGED <<meta, locks, req, ops, littered, cut>>
    BY DEF RemoveFiles, At, LInv, Mine, Known, InPost, Steps
  <1>2. PICK p \in Posts : p = req[r].post
    BY <1>1
  <1>3. RemoveFile(p) /\ raced' = raced \cup {x \in {p} : BusyOn(r, p)}
    BY <1>2 DEF RemoveFiles
  <1>4. /\ dirs' \in [Posts -> Directory] /\ \A x \in Posts \ {p} : dirs'[x] = dirs[x]
        /\ dirs[p].made = TRUE /\ dirs'[p].made = TRUE
        /\ OnDisk(p)' \subseteq OnDisk(p) /\ dirs'[p].journals \subseteq dirs[p].journals
        /\ \A n \in OnDisk(p)' : dirs'[p].media[n] = dirs[p].media[n]
        /\ taken \subseteq taken' /\ taken' \subseteq Item
        /\ \A i \in MediaIn(p) : i.name \in OnDisk(p)' \/ i \in taken'
    BY <1>3, RemoveFileIs
  <1>5. Becomes(r, req[r]) /\ raced \subseteq raced' /\ raced' \subseteq Posts
    BY <1>1, <1>3, Stays DEF LInv, TypeOK
  <1>6. p \notin raced => p \in littered
    BY <1>1, <1>2 DEF LInv, Relies
  <1>7. KeptBy(r)
    BY <1>1, <1>2, <1>5, <1>6, RemovalKept
  <1>8. TypeOK'
    BY <1>1, <1>4, <1>5 DEF LInv, TypeOK, Becomes, locks
  <1>9. Alone(r) /\ Remembers
    BY <1>1, <1>4, <1>5, ReleasesAlone DEF Remembers
  <1>10. \A x \in Posts : PurgesOn(x)
    BY <1>1, <1>9, NoPurge
  <1>11. On(p, {"entry", "unpack", "register", "rmdir"})' /\ On(p, {"rmdir", "pop"})'
    BY <1>1, <1>2 DEF On
  <1>12. Bare(p)' /\ Unentered(p)' /\ \A n : Lost(p, n)'
    BY <1>4, <1>11 DEF Bare, Unentered, Lost
  <1>13. p \notin raced' => \A q \in Requests \ {r} : req[q].post # p
    BY <1>3 DEF BusyOn
  <1>14. \A x \in Posts \ {p} : SamePost(x)
    BY <1>1, <1>4 DEF SamePost
  <1>15. /\ p \in raced' \cup littered' /\ req'[r].at # "unpack"
         /\ Purged(p)' => Purged(p)
    BY <1>1, <1>5, <1>6, <1>10 DEF PurgesOn
  <1> QED  BY <1>1, <1>2, <1>4, <1>7, <1>8, <1>9, <1>10, <1>12, <1>13, <1>14, <1>15, TakeStep

\* A directory is empty, and then there is none.
LEMMA RmdirIs ==
    ASSUME LInv, NEW p \in Posts, dirs[p] \in {NoDir, EmptyDir},
           dirs' = [dirs EXCEPT ![p] = NoDir], littered' = littered \ {p}
    PROVE  /\ dirs' \in [Posts -> Directory] /\ \A x \in Posts \ {p} : dirs'[x] = dirs[x]
           /\ dirs'[p] = NoDir /\ dirs'[p].made = FALSE /\ Bare(p)'
           /\ dirs'[p].journals \subseteq dirs[p].journals
           /\ OnDisk(p) = {} /\ OnDisk(p)' = {} /\ MediaIn(p) = {}
  <1>1. dirs \in [Posts -> Directory]
    BY DEF LInv, TypeOK
  <1>2. dirs'[p] = NoDir /\ \A x \in Posts \ {p} : dirs'[x] = dirs[x]
    BY <1>1
  <1>3. dirs[p].media = [n \in Names |-> NoFile]
    BY BareIs DEF EmptyDir, Directory
  <1>4. OnDisk(p) = {} /\ OnDisk(p)' = {}
    BY <1>2, <1>3, BareIs DEF OnDisk
  <1>5. dirs' \in [Posts -> Directory]
    BY <1>1, BareIs
  <1> QED  BY <1>2, <1>4, <1>5, BareIs DEF MediaIn, Bare

LEMMA RemoveDirStep ==
    ASSUME LInv, NEW r \in Requests, RemoveDir(r)
    PROVE  LInv'
  <1>1. /\ req[r].at = "rmdir" /\ Known(req[r]) /\ req[r].post \in Posts
        /\ UNCHANGED <<meta, locks, ops, taken, cut>> /\ dirs \in [Posts -> Directory]
    BY DEF RemoveDir, At, LInv, TypeOK, Mine, Known, InPost, Steps
  <1>2. PICK p \in Posts : p = req[r].post
    BY <1>1
  <1>3. CASE dirs[p] = EmptyDir
    <2>1. /\ dirs' = [dirs EXCEPT ![p] = NoDir] /\ littered' = littered \ {p}
          /\ raced' = raced \cup {x \in {p} : BusyOn(r, p)} /\ Go(r, "pop")
      BY <1>2, <1>3 DEF RemoveDir
    <2>2. PICK k \in Request :
            /\ Becomes(r, k) /\ k.at = "pop" /\ k.post = p /\ k.op = req[r].op
            /\ k.moved = req[r].moved /\ k.names = req[r].names
      BY SMTT(30), <1>2, <2>1, GoIs DEF Steps
    <2>3. Known(k)
      BY <1>1, <2>2 DEF Known, InPost, Numbered, HoldsQuota, Steps
    <2>4. KeptBy(r) /\ req'[r] = k
      BY <2>2, <2>3, PlainBy DEF Plain, Becomes
    <2>5. /\ dirs' \in [Posts -> Directory] /\ \A x \in Posts \ {p} : dirs'[x] = dirs[x]
          /\ dirs'[p] = NoDir /\ dirs'[p].made = FALSE /\ Bare(p)'
          /\ dirs'[p].journals \subseteq dirs[p].journals
          /\ OnDisk(p) = {} /\ OnDisk(p)' = {} /\ MediaIn(p) = {}
      BY <1>3, <2>1, RmdirIs
    <2>6. TypeOK'
      BY <1>1, <2>1, <2>2, <2>5 DEF LInv, TypeOK, Becomes, locks
    <2>7. Alone(r) /\ Remembers
      BY <1>1, <2>1, <2>2, ReleasesAlone DEF Remembers
    <2>8. \A x \in Posts : PurgesOn(x)
      BY <1>1, <2>2, <2>4, <2>7, NoPurge
    <2>9. On(p, {"pop"})' /\ On(p, {"rmdir", "pop"})'
      BY <2>2, <2>4 DEF On
    <2>10. Homeless(p)' /\ \A n : Lost(p, n)'
      BY <2>9 DEF Homeless, Lost
    <2>11. p \notin raced' => \A q \in Requests \ {r} : req[q].post # p
      BY <2>1 DEF BusyOn
    <2>12. \A x \in Posts \ {p} : SamePost(x)
      BY <1>1, <2>1, <2>5 DEF SamePost
    <2>13. req'[r].at # "unpack"
      BY <2>2, <2>4
    <2> QED  BY <1>1, <1>2, <2>4, <2>5, <2>6, <2>7, <2>8, <2>10, <2>11, <2>12, <2>13, TakeStep
  <1>4. CASE dirs[p] # EmptyDir
    <2>1. raced' = raced \cup {p} /\ Done(r) /\ UNCHANGED <<dirs, littered>>
      BY <1>2, <1>4 DEF RemoveDir
    <2>2. Becomes(r, Idle)
      BY <2>1, DoneIs
    <2>3. TypeOK' /\ Alone(r) /\ Remembers
      BY <1>1, <2>1, <2>2, ReleasesAlone DEF LInv, TypeOK, Becomes, locks, Remembers
    <2> QED  BY <1>1, <1>2, <2>1, <2>2, <2>3, MarkStep
  <1> QED  BY <1>3, <1>4

LEMMA RemovalFailsStep ==
    ASSUME LInv, NEW r \in Requests, RemovalFails(r)
    PROVE  LInv'
  <1>1. /\ req[r].at = "rmdir" /\ Becomes(r, Idle) /\ cut' = cut \cup {req[r].post}
        /\ req[r].post \in Posts
        /\ UNCHANGED <<meta, dirs, locks, ops, taken, raced, littered>>
    BY DoneIs DEF RemovalFails, At, LInv, Mine, Known, InPost, Steps
  <1>2. Quiet /\ ops' \in 0..MaxOps /\ cut' \subseteq Posts /\ req[r].post \in cut'
    BY <1>1 DEF Quiet, LInv, TypeOK
  <1>3. Holds(Idle) /\ HasLocks(r, Idle)
    BY IdleIs, PlainHolds DEF Plain, HasLocks, HoldsMeta, HoldsQuota
  <1> QED  BY <1>1, <1>2, <1>3, IdleIs, SameLocks, QuietTo

\* A purge goes on, and each post it still has to do is the user's.
LEMMA PurgeKept ==
    ASSUME LInv, NEW r \in Requests, NEW k, Becomes(r, k), req[r].at = "purging",
           k.at = "purging", k.user = req[r].user, k.moved = req[r].moved,
           k.names = req[r].names, k.todo \subseteq req[r].todo, UNCHANGED <<meta, locks>>
    PROVE  /\ KeptBy(r) /\ Alone(r) /\ metaLock = r
           /\ \A x \in Posts : (x \in req[r].todo => x \in k.todo) => PurgesOn(x)
           /\ \A x \in req[r].todo : meta[x] # None /\ Purging(x)'
  <1>1. req'[r] = k /\ Mine(r) /\ metaLock = r
    BY DEF Becomes, LInv, Mine, Locked, HoldsMeta
  <1>2. \A u : OwnedBy(u)' = OwnedBy(u)
    BY DEF OwnedBy
  <1>3. Known(k) /\ Known(k)' /\ req[r].todo \subseteq OwnedBy(req[r].user)
    BY <1>1, <1>2 DEF Mine, Known, InPost, Numbered, HoldsQuota
  <1>4. Alone(r)
    BY <1>1, ReleasesAlone
  <1>5. /\ Known(req[r])' /\ Locked(r)' /\ Seen(req[r])' /\ Cleared(req[r])'
        /\ Fits(req[r])' /\ Relies(req[r])'
    BY <1>1, <1>2, <1>3
       DEF Known, Locked, Seen, Cleared, ClearedOf, Fits, Relies, HoldsQuota, Counting,
           Journaling, InPost, Numbered, locks
  <1>6. KeptBy(r)
    BY <1>5 DEF KeptBy, Mine
  <1>7. ASSUME NEW x \in Posts, x \in req[r].todo => x \in k.todo PROVE PurgesOn(x)
    <2>1. PurgedBy(req[r], x)' => PurgedBy(req[r], x)
      BY <1>1, <1>2, <1>7 DEF PurgedBy
    <2>2. \A q \in Requests \ {r} : Same(q)
      BY <1>4 DEF Alone
    <2> QED  BY <1>1, <2>1, <2>2, SamePurged
  <1>8. ASSUME NEW x \in req[r].todo PROVE meta[x] # None /\ Purging(x)'
    BY <1>1, <1>2, <1>3, <1>8 DEF OwnedBy, Purging
  <1> QED  BY <1>1, <1>4, <1>6, <1>7, <1>8

LEMMA PurgeFilesStep ==
    ASSUME LInv, NEW r \in Requests, NEW p \in Posts, PurgeFiles(r, p)
    PROVE  LInv'
  <1>1. /\ req[r].at = "purging" /\ p \in req[r].todo /\ RemoveFile(p)
        /\ littered' = littered \cup {p} /\ raced' = raced \cup {x \in {p} : BusyOn(r, p)}
        /\ UNCHANGED <<meta, locks, req, ops, cut>>
    BY DEF PurgeFiles, At
  <1>2. Becomes(r, req[r])
    BY <1>1, Stays
  <1>3. /\ KeptBy(r) /\ Alone(r) /\ meta[p] # None /\ Purging(p)'
        /\ \A x \in Posts : PurgesOn(x)
    BY <1>1, <1>2, PurgeKept
  <1>4. /\ dirs' \in [Posts -> Directory] /\ \A x \in Posts \ {p} : dirs'[x] = dirs[x]
        /\ dirs[p].made = TRUE /\ dirs'[p].made = TRUE
        /\ OnDisk(p)' \subseteq OnDisk(p) /\ dirs'[p].journals \subseteq dirs[p].journals
        /\ \A n \in OnDisk(p)' : dirs'[p].media[n] = dirs[p].media[n]
        /\ taken \subseteq taken' /\ taken' \subseteq Item
        /\ \A i \in MediaIn(p) : i.name \in OnDisk(p)' \/ i \in taken'
    BY <1>1, RemoveFileIs
  <1>5. TypeOK'
    BY <1>1, <1>2, <1>4 DEF LInv, TypeOK, Becomes, locks
  <1>6. Remembers
    BY <1>1, <1>4 DEF Remembers
  <1>7. Bare(p)' /\ \A n : Lost(p, n)'
    BY <1>3, <1>4 DEF Bare, Lost
  <1>8. p \notin raced' => \A q \in Requests \ {r} : req[q].post # p
    BY <1>1 DEF BusyOn
  <1>9. \A x \in Posts \ {p} : SamePost(x)
    BY <1>1, <1>4 DEF SamePost
  <1>10. p \in littered' /\ req'[r].at # "unpack" /\ (Purged(p)' => Purged(p))
    BY <1>1, <1>3 DEF PurgesOn
  <1> QED  BY <1>1, <1>3, <1>4, <1>5, <1>6, <1>7, <1>8, <1>9, <1>10, TakeStep

LEMMA PurgeOneStep ==
    ASSUME LInv, NEW r \in Requests, NEW p \in Posts, PurgeOne(r, p)
    PROVE  LInv'
  <1>1. /\ req[r].at = "purging" /\ p \in req[r].todo
        /\ UNCHANGED <<meta, locks, ops, taken>> /\ dirs \in [Posts -> Directory]
        /\ req \in [Requests -> Request] /\ req[r] \in Request
        /\ raced' = raced \cup {x \in {p} : BusyOn(r, p)}
        /\ req' = [req EXCEPT ![r].todo = @ \ {p}]
    BY DEF PurgeOne, At, LInv, TypeOK
  <1>2. PICK k : k = [req[r] EXCEPT !.todo = req[r].todo \ {p}]
    OBVIOUS
  <1>3. /\ k \in Request /\ k.at = "purging" /\ k.user = req[r].user
        /\ k.names = req[r].names /\ k.moved = req[r].moved /\ k.todo = req[r].todo \ {p}
    BY SMTT(30), <1>1, <1>2 DEF Request
  <1>4. Becomes(r, k) /\ req'[r] = k
    BY <1>1, <1>2, <1>3, ReqStep DEF Becomes
  <1>5. /\ KeptBy(r) /\ Alone(r) /\ meta[p] # None /\ Purging(p)'
        /\ \A x \in Posts \ {p} : PurgesOn(x)
    <2>1. /\ KeptBy(r) /\ Alone(r) /\ meta[p] # None /\ Purging(p)'
          /\ \A x \in Posts : (x \in req[r].todo => x \in k.todo) => PurgesOn(x)
      <3>1. k.todo \subseteq req[r].todo /\ UNCHANGED <<meta, locks>>
        BY <1>1, <1>3
      <3>2. /\ Becomes(r, k) /\ req[r].at = "purging" /\ k.at = "purging"
            /\ k.user = req[r].user /\ k.moved = req[r].moved /\ k.names = req[r].names
            /\ p \in req[r].todo
        BY <1>1, <1>3, <1>4
      <3> QED  BY <3>1, <3>2, PurgeKept
    <2> QED  BY <1>3, <2>1
  <1>6. Homeless(p)' /\ \A n : Lost(p, n)'
    BY <1>5 DEF Homeless, Lost
  <1>7. p \notin raced' => \A q \in Requests \ {r} : req[q].post # p
    BY <1>1 DEF BusyOn
  <1>8. req'[r].at # "unpack" /\ raced \subseteq raced' /\ raced' \subseteq Posts
    BY <1>1, <1>3, <1>4 DEF LInv, TypeOK
  <1>9. CASE /\ dirs[p] \in {NoDir, EmptyDir} /\ dirs' = [dirs EXCEPT ![p] = NoDir]
             /\ littered' = littered \ {p} /\ UNCHANGED cut
    <2>1. /\ dirs' \in [Posts -> Directory] /\ \A x \in Posts \ {p} : dirs'[x] = dirs[x]
          /\ dirs'[p] = NoDir /\ dirs'[p].made = FALSE /\ Bare(p)'
          /\ dirs'[p].journals \subseteq dirs[p].journals
          /\ OnDisk(p) = {} /\ OnDisk(p)' = {} /\ MediaIn(p) = {}
      BY <1>9, RmdirIs
    <2>2. TypeOK'
      BY <1>1, <1>3, <1>4, <1>8, <1>9, <2>1 DEF LInv, TypeOK, Becomes, locks
    <2>3. Remembers
      BY <1>1, <1>8, <1>9 DEF Remembers
    <2>4. \A x \in Posts \ {p} : SamePost(x)
      BY <1>1, <1>9, <2>1 DEF SamePost
    <2> QED  BY <1>1, <1>5, <1>6, <1>7, <1>8, <2>1, <2>2, <2>3, <2>4, TakeStep
  <1>10. CASE /\ dirs[p].made /\ littered' = littered \cup {p} /\ cut' = cut \cup {p}
              /\ UNCHANGED dirs
    <2>1. OnDisk(p)' = OnDisk(p) /\ \A i \in MediaIn(p) : i.name \in OnDisk(p)
      BY <1>10 DEF OnDisk, MediaIn
    <2>2. TypeOK'
      BY <1>1, <1>3, <1>4, <1>8, <1>10 DEF LInv, TypeOK, Becomes, locks
    <2>3. Remembers
      BY <1>1, <1>8, <1>10 DEF Remembers
    <2>4. \A x \in Posts \ {p} : SamePost(x)
      BY <1>1, <1>10 DEF SamePost
    <2>5. Bare(p)' /\ p \in littered' /\ p \in cut' /\ dirs'[p] = dirs[p] /\ dirs'[p].made
      BY <1>10 DEF Bare
    <2> QED  BY <1>1, <1>5, <1>6, <1>7, <1>8, <2>1, <2>2, <2>3, <2>4, <2>5, TakeStep
  <1> QED  BY <1>9, <1>10 DEF PurgeOne

LEMMA UnlinkStep ==
    ASSUME LInv, NEW r \in Requests, NEW u \in Users, NEW p \in Posts, NEW n \in Names,
           Unlink(r, u, p, n)
    PROVE  LInv'
  <1>1. /\ req[r].at = "idle" /\ metaLock = None /\ metaLock' = r /\ n \in Listed(p)
        /\ dirs' = [dirs EXCEPT ![p] = Without(@, {n})]
        /\ taken' = taken \cup {i \in meta[p].items : i.name = n}
        /\ UNCHANGED <<meta, quotaLock, ops, raced, littered, cut>>
        /\ dirs \in [Posts -> Directory] /\ req \in [Requests -> Request] /\ Bare(p)
    BY DEF Unlink, At, MetaFree, LInv, TypeOK
  <1>2. PICK k : k = [Idle EXCEPT !.at = "unlist", !.post = p, !.names = {n}]
    OBVIOUS
  <1>3. k \in Request /\ k.at = "unlist" /\ k.post = p /\ k.names = {n} /\ k.moved = {}
    BY ZenonT(40), <1>2 DEF Idle, Request, Steps, Kinds
  <1>4. Becomes(r, k)
    BY <1>2, <1>3, ReqStep DEF Unlink
  <1>5. req'[r] = k /\ IsGallery(p) /\ IsGallery(p)' /\ Listed(p)' = Listed(p)
        /\ meta[p] \in Entry
    BY <1>1, <1>4 DEF Becomes, Listed, IsGallery, LInv, TypeOK
  <1>6. /\ dirs' \in [Posts -> Directory]
        /\ \A x \in Posts \ {p} : dirs'[x] = dirs[x]
        /\ dirs'[p].made = dirs[p].made /\ dirs'[p].journals = dirs[p].journals
        /\ \A m \in Names \ {n} : dirs'[p].media[m] = dirs[p].media[m]
        /\ OnDisk(p)' = OnDisk(p) \ {n} /\ Bare(p)'
    BY ZenonT(40), <1>1, WithoutIs
  <1>7. Releases(r)
    BY <1>1, TakesMeta
  <1>8. Alone(r) /\ Remembers
    BY <1>1, <1>4, <1>7 DEF Alone, Becomes, Releases, Remembers
  <1>9. TypeOK'
    <2>1. taken' \subseteq Item
      BY <1>1, <1>5 DEF LInv, TypeOK, Entry
    <2> QED  BY <1>1, <1>4, <1>6, <1>7, <2>1 DEF LInv, TypeOK, Becomes, Releases
  <1>10. Known(k)
    BY <1>3 DEF Known, InPost, Numbered, HoldsQuota
  <1>11. KeptBy(r)
    <2>1. /\ Known(req[r])' /\ Locked(r)' /\ Seen(req[r])' /\ Cleared(req[r])' /\ Fits(req[r])'
      BY <1>1, <1>3, <1>5, <1>10
         DEF Known, Locked, Seen, Cleared, ClearedOf, Fits, HoldsQuota, Counting, IsGallery
    <2>2. Relies(req[r])'
      BY <1>3, <1>5, <1>6 DEF Relies, Journaling, OnDisk
    <2> QED  BY <2>1, <2>2 DEF KeptBy, Mine
  <1>12. \A x : ~Purged(x) /\ ~Purged(x)' /\ PurgesOn(x)
    BY <1>1, <1>3, <1>5, <1>8, NobodyPurges
  <1>13. ASSUME p \notin raced' PROVE InOrder(p)'
    <2>1. InOrder(p)
      BY <1>1, <1>13 DEF LInv
    <2>2. Gone(p)'
      BY <1>5, <1>12 DEF Gone, IsGallery
    <2>3. Journaled(p)' = Journaled(p)
      BY <1>6 DEF Journaled
    <2>4. Strays(p)'
      BY <1>1, <1>5, <1>6, <2>1, <2>3 DEF InOrder, Strays
    <2>5. Intact(p)'
      <3>1. ASSUME NEW i \in meta[p].items
            PROVE  dirs'[p].media[i.name] = i.id \/ i \in taken'
        <4>1. i.name \in Names /\ (dirs[p].media[i.name] = i.id \/ i \in taken)
          BY <1>5, <2>1, <3>1 DEF InOrder, Intact, Entry, Item
        <4> QED  BY <1>1, <1>6, <3>1, <4>1
      <3> QED  BY <1>1, <1>5, <2>1, <3>1 DEF InOrder, Intact
    <2> QED  BY <2>2, <2>4, <2>5 DEF InOrder
  <1>14. ASSUME p \notin raced', NEW q \in Requests \ {r}, req[q].post = p
         PROVE  Relies(req[q])'
    <2>1. Same(q) /\ Relies(req[q]) /\ req[q].at \notin HoldsMeta
      BY <1>1, <1>8, <1>14, MetaIsFree DEF Alone, LInv
    <2>2. OnDisk(p)' \subseteq OnDisk(p) /\ meta'[p] = meta[p]
          /\ dirs'[p].journals = dirs[p].journals
      BY <1>1, <1>6
    <2>3. req'[q].post = p /\ req'[q].at = req[q].at /\ req'[q].names = req[q].names
          /\ req'[q].moved = req[q].moved /\ req'[q].owner = req[q].owner
      BY <1>14, <2>1 DEF Same
    <2>4. /\ req[q].at \in Journaling => GalleryOf(req[q].post, req[q].owner)'
          /\ req[q].at \in Journaling => req[q].names \in dirs'[p].journals
      BY <1>14, <2>1, <2>2, <2>3 DEF Relies, GalleryOf, IsGallery
    <2>5. /\ req[q].at = "rollback" =>
               req[q].names \cap Listed(p)' = {} /\ req[q].names \cap OnDisk(p)' \subseteq req[q].moved
          /\ req[q].at = "finish" => req[q].names \cap OnDisk(p)' \subseteq Listed(p)'
          /\ req[q].at \in {"withdraw", "unlist"} => req[q].names \cap OnDisk(p)' = {}
      BY <1>5, <1>14, <2>1, <2>2 DEF Relies
    <2>6. ~Purged(p)' /\ UNCHANGED littered /\ req[q].post = p
      BY <1>1, <1>12, <1>14
    <2> QED  BY SMTT(30), <2>1, <2>3, <2>4, <2>5, <2>6
             DEF Relies, HoldsMeta, Journaling, GalleryOf, IsGallery, Listed, OnDisk
  <1>15. ASSUME p \notin raced' \cup cut' PROVE Explained(p)'
    <2>1. Explained(p)
      BY <1>1, <1>15 DEF LInv
    <2>2. \A q \in Requests : req[q].post = p /\ req[q].at \in Explaining => Continues(q)
      BY <1>1, <1>8 DEF Alone, Same, Continues, Explaining, Journaling
    <2>3. /\ Homeless(p) => Homeless(p)'
          /\ \A names : JournalOf(p, names) => JournalOf(p, names)'
          /\ \A m : Unlisted(p, m) => Unlisted(p, m)'
          /\ \A m : Lost(p, m) => Lost(p, m)'
      <3>1. Purging(p) => Purging(p)'
        BY <1>12 DEF PurgesOn
      <3> QED  BY <2>2, <3>1, SameReasons
    <2>4. Lost(p, n)'
      BY <1>3, <1>5 DEF Lost
    <2>5. \A m \in Listed(p)' \ OnDisk(p)' : Lost(p, m)'
      BY <1>5, <1>6, <2>1, <2>3, <2>4 DEF Explained
    <2>6. meta'[p] # None /\ (~dirs'[p].made => Homeless(p)')
      <3>1. meta[p] # None /\ meta'[p] # None
        BY <1>5 DEF IsGallery
      <3>2. ~dirs[p].made => Homeless(p)
        BY <2>1, <3>1 DEF Explained
      <3> QED  BY <1>6, <2>3, <3>1, <3>2
    <2>7. \A names \in dirs'[p].journals : JournalOf(p, names)'
      BY <1>6, <2>1, <2>3 DEF Explained
    <2>8. \A m \in OnDisk(p)' \ Listed(p)' : Unlisted(p, m)'
      BY <1>5, <1>6, <2>1, <2>3 DEF Explained
    <2> QED  BY <1>12, <2>5, <2>6, <2>7, <2>8 DEF Explained
  <1>16. ASSUME NEW q \in Requests \ {r} PROVE ClearedOf(req[q], p)'
    <2>1. ClearedOf(req[q], p) /\ Same(q)
      BY <1>8, <1>16 DEF LInv, Mine, Cleared, Alone
    <2>2. Clear(p) => Clear(p)'
      BY <1>5, <1>6 DEF Clear
    <2> QED  BY <1>1, <1>6, <2>1, <2>2 DEF ClearedOf, Same, Galleries, OwnedBy
  <1>17. KeptOn(p, r)
    BY <1>6, <1>13, <1>14, <1>15, <1>16 DEF KeptOn
  <1>18. ASSUME NEW v \in Users PROVE Assets(v)' \subseteq Assets(v)
    <2>1. \A x \in Posts : \A m \in Names :
            dirs'[x].media[m] # NoFile => dirs[x].media[m] # NoFile
      <3> SUFFICES ASSUME NEW x \in Posts, NEW m \in Names, dirs'[x].media[m] # NoFile
                   PROVE  dirs[x].media[m] # NoFile
        OBVIOUS
      <3>1. CASE x = p
        BY <1>6, <3>1 DEF OnDisk
      <3>2. CASE x # p
        BY <1>6, <3>2
      <3> QED  BY <3>1, <3>2
    <2>2. Counted(v)' = Counted(v)
      BY <1>1 DEF Counted, OwnedBy, IsGallery
    <2>3. Counted(v) \subseteq Posts
      BY DEF Counted, OwnedBy
    <2> QED  BY <2>1, <2>2, <2>3 DEF Assets, Stored
  <1>19. KeptQuota(r)
    BY <1>8, <1>9, <1>18, StoresNoMore
  <1>20. \A x \in Posts \ {p} : SamePost(x)
    BY <1>1, <1>6 DEF SamePost
  <1>21. PICK P : P = {p}
    OBVIOUS
  <1>22. req[r].at \notin Explaining /\ req'[r].at # "unpack"
    BY <1>1, <1>3, <1>5 DEF Explaining, Journaling
  <1> QED  BY <1>8, <1>9, <1>11, <1>12, <1>17, <1>19, <1>20, <1>21, <1>22, Assemble DEF PurgesOn

-----------------------------------------------------------------------------
(* Steps that change an entry, with the lock of meta.json.                 *)

LEMMA EntryStep ==
    ASSUME LInv, NEW r \in Requests, NEW p \in Posts, TypeOK', Alone(r), Remembers,
           KeptBy(r), UNCHANGED <<dirs, littered>>, metaLock \in {None, r},
           \A x \in Posts \ {p} : meta'[x] = meta[x],
           req[r].at # "purging", req'[r].at \notin {"purging", "unpack"},
           req[r].at \in Explaining => req[r].post = p,
           p \notin raced' =>
             /\ InOrder(p)'
             /\ \A q \in Requests \ {r} : req[q].post = p => Relies(req[q])'
             /\ \A q \in Requests \ {r} : ClearedOf(req[q], p)',
           p \notin raced' \cup cut' => Explained(p)',
           p \notin raced' /\ IsGallery(p)' =>
             \/ OnDisk(p)' = {}
             \/ IsGallery(p) /\ meta[p].owner = meta'[p].owner
    PROVE  LInv'
  <1>1. \A x : ~Purged(x) /\ ~Purged(x)' /\ PurgesOn(x)
    BY NobodyPurges
  <1>2. Bare(p)'
    BY DEF LInv, Bare
  <1>3. ASSUME NEW q \in Requests \ {r} PROVE ClearedOf(req[q], p)'
    BY DEF ClearedOf
  <1>4. KeptOn(p, r)
    BY <1>2, <1>3 DEF KeptOn
  <1>5. ASSUME NEW u \in Users PROVE Assets(u)' \subseteq Assets(u)
    <2> SUFFICES ASSUME NEW x \in Counted(u)', NEW m \in Names, dirs[x].media[m] # NoFile
                 PROVE  x \in Counted(u)
      BY DEF Assets, Stored
    <2>1. CASE x = p
      <3>1. p \notin raced' /\ IsGallery(p)' /\ meta'[p].owner = u
        BY <2>1 DEF Counted, OwnedBy
      <3>2. OnDisk(p)' # {}
        BY <2>1 DEF OnDisk
      <3> QED  BY <2>1, <3>1, <3>2 DEF Counted, OwnedBy, Remembers, IsGallery
    <2>2. CASE x # p
      BY <2>2 DEF Counted, OwnedBy, IsGallery, Remembers
    <2> QED  BY <2>1, <2>2
  <1>6. KeptQuota(r)
    BY <1>5, StoresNoMore
  <1>7. PICK P : P = {p}
    OBVIOUS
  <1>8. \A x \in Posts \ {p} : SamePost(x)
    BY DEF SamePost
  <1> QED  BY <1>1, <1>4, <1>6, <1>7, <1>8, Assemble

\* An entry is made anew.
LEMMA PutEntryStep ==
    ASSUME LInv, NEW r \in Requests, NEW p \in Posts, p = req[r].post, NEW kind \in Kinds,
           req[r].at \in {"entry", "register"}, req[r].at = "register" => kind = "raw",
           PutEntry(r, p, kind), NEW k \in Request, Becomes(r, k), Known(k),
           k.at \in {"idle", "body", "look"}, UNCHANGED <<dirs, locks, ops, taken, littered>>,
           cut \subseteq cut', cut' \subseteq Posts
    PROVE  LInv'
  <1>1. /\ Known(req[r]) /\ meta \in [Posts -> Entry \cup {None}] /\ metaLock = None
        /\ req[r].user \in Users /\ req[r].op \in Ops
    BY DEF LInv, TypeOK, Mine, Known, Numbered, PutEntry, MetaFree
  <1>2. PICK e : e = [type |-> kind, owner |-> req[r].user, items |-> {}, born |-> req[r].op]
    OBVIOUS
  <1>3. e \in Entry /\ e.items = {} /\ e.type = kind
    BY <1>1, <1>2 DEF Entry
  <1>4. /\ meta' \in [Posts -> Entry \cup {None}] /\ meta'[p] = e
        /\ \A x \in Posts \ {p} : meta'[x] = meta[x]
    BY <1>1, <1>2, <1>3 DEF PutEntry
  <1>5. /\ raced \subseteq raced' /\ raced' \subseteq Posts
        /\ p \notin raced' => p \notin raced /\ meta[p] = None /\ dirs[p].made
    BY DEF PutEntry, LInv, TypeOK
  <1>6. TypeOK' /\ Alone(r) /\ Remembers /\ KeptBy(r) /\ req'[r] = k
    BY <1>1, <1>4, <1>5, PlainBy, ReleasesAlone
       DEF LInv, TypeOK, Becomes, locks, Remembers, Plain
  <1>7. \A x : ~Purged(x)'
    BY <1>1, <1>6, NobodyPurges
  <1>8. ASSUME p \notin raced', IsGallery(p)' PROVE Empty(p)
    <2>1. req[r].at = "entry"
      BY <1>3, <1>4, <1>8 DEF IsGallery
    <2>2. p \notin littered
      BY <1>5, <1>8, <2>1 DEF LInv, Relies
    <2> QED  BY <1>5, <1>8, <2>2 DEF LInv, InOrder, Gone
  <1>9. /\ OnDisk(p)' = OnDisk(p) /\ Listed(p)' = {} /\ meta'[p] # None
    BY <1>3, <1>4, NoneAssumption DEF OnDisk, Listed, NamesIn, Entry, IsGallery, PutEntry
  <1>10. p \notin raced' => InOrder(p)'
    BY <1>3, <1>4, <1>7, <1>8, <1>9 DEF InOrder, Gone, Strays, Intact, Empty
  <1>11. ASSUME p \notin raced', NEW q \in Requests \ {r}, req[q].post = p
         PROVE  Relies(req[q])' /\ req[q].at \notin Journaling
    <2>1. Same(q) /\ req[q].at \notin HoldsMeta /\ Relies(req[q])
      BY <1>1, <1>5, <1>6, <1>11, MetaIsFree DEF Alone, LInv
    <2>2. req[q].at \notin Journaling
      BY <1>5, <1>11, <2>1 DEF Relies, GalleryOf, IsGallery
    <2> QED  BY <1>11, <2>1, <2>2, OthersRely DEF HoldsMeta
  <1>12. ASSUME p \notin raced', NEW q \in Requests \ {r} PROVE ClearedOf(req[q], p)'
    <2>1. IsGallery(p)' => Clear(p)'
      BY <1>8, <1>9, <1>12 DEF Clear, Empty
    <2> QED  BY <2>1 DEF ClearedOf, Galleries, OwnedBy, IsGallery
  <1>13. ASSUME p \notin raced' \cup cut' PROVE Explained(p)'
    <2>1. Explained(p) /\ dirs[p].made
      BY <1>5, <1>13 DEF LInv
    <2>2. \A names : ~JournalOf(p, names)
      BY <1>11, <1>13 DEF JournalOf, Journaling
    <2>3. dirs'[p].journals = {}
      BY <2>1, <2>2 DEF Explained
    <2>4. IsGallery(p)' => OnDisk(p)' = {}
      BY <1>8, <1>9, <1>13 DEF Empty
    <2> QED  BY <1>7, <1>9, <2>1, <2>3, <2>4 DEF Explained
  <1>14. p \notin raced' /\ IsGallery(p)' => OnDisk(p)' = {}
    BY <1>8, <1>9 DEF Empty
  <1>15. req[r].at # "purging" /\ req'[r].at \notin {"purging", "unpack"}
    BY <1>6
  <1>16. \A q \in Requests \ {r} : p \notin raced' /\ req[q].post = p => Relies(req[q])'
    BY <1>11
  <1> QED  BY <1>1, <1>4, <1>6, <1>10, <1>12, <1>13, <1>14, <1>15, <1>16, EntryStep

LEMMA WriteEntryStep ==
    ASSUME LInv, NEW r \in Requests, WriteEntry(r)
    PROVE  LInv'
  <1>1. /\ req[r].at = "entry" /\ Known(req[r]) /\ req[r] \in Request
        /\ req \in [Requests -> Request] /\ req[r].post \in Posts /\ req[r].op \in Ops
        /\ UNCHANGED <<dirs, locks, ops, taken, littered, cut>>
        /\ cut \subseteq cut' /\ cut' \subseteq Posts
    BY DEF WriteEntry, At, LInv, TypeOK, Mine, Known, InPost, Steps, Numbered
  <1>2. PICK p \in Posts : p = req[r].post
    BY <1>1
  <1>3. PutEntry(r, p, req[r].kind) /\ req[r].kind \in Kinds
    BY <1>1, <1>2 DEF WriteEntry, Request
  <1>4. \/ Go(r, "body") \/ Done(r)
        \/ req[r].files > 0 /\ req' = [req EXCEPT ![r].at = "look", ![r].kind = "raw"]
    BY DEF WriteEntry
  <1>5. CASE Go(r, "body")
    <2>1. PICK k \in Request :
            /\ Becomes(r, k) /\ k.at = "body" /\ k.post = req[r].post /\ k.op = req[r].op
            /\ k.names = req[r].names /\ k.moved = req[r].moved
      BY <1>5, GoIs DEF Steps
    <2>2. Known(k)
      BY <1>1, <2>1 DEF Known, InPost, Numbered, HoldsQuota
    <2> QED  BY <1>1, <1>2, <1>3, <2>1, <2>2, PutEntryStep
  <1>6. CASE Done(r)
    BY <1>1, <1>2, <1>3, <1>6, DoneIs, IdleIs, PutEntryStep
  <1>7. CASE req[r].files > 0 /\ req' = [req EXCEPT ![r].at = "look", ![r].kind = "raw"]
    <2>1. PICK k : k = [req[r] EXCEPT !.at = "look", !.kind = "raw"]
      OBVIOUS
    <2>2. req[r].files \in Batches
      BY <1>1, <1>7 DEF Request
    <2>3. /\ k \in Request /\ k.at = "look" /\ k.post = req[r].post /\ k.op = req[r].op
          /\ k.files \in Batches /\ k.names = req[r].names /\ k.moved = req[r].moved
      BY ZenonT(40), <1>1, <2>1, <2>2 DEF Request, Steps, Kinds
    <2>4. Becomes(r, k)
      BY <1>1, <1>7, <2>1, <2>3, ReqStep
    <2>5. k.moved = {}
      BY <1>1, <2>3 DEF Known
    <2>6. Known(k)
      BY <1>1, <2>3, <2>5 DEF Known, InPost, Numbered, HoldsQuota
    <2> QED  BY <1>1, <1>2, <1>3, <2>3, <2>4, <2>6, PutEntryStep
  <1> QED  BY <1>4, <1>5, <1>6, <1>7

LEMMA RegisterStep ==
    ASSUME LInv, NEW r \in Requests, Register(r)
    PROVE  LInv'
  <1>1. /\ req[r].at = "register" /\ req[r].post \in Posts /\ Becomes(r, Idle)
        /\ UNCHANGED <<dirs, locks, ops, taken, littered>>
        /\ cut \subseteq cut' /\ cut' \subseteq Posts
    BY DoneIs DEF Register, At, LInv, TypeOK, Mine, Known, InPost, Steps
  <1>2. PICK p \in Posts : p = req[r].post
    BY <1>1
  <1>3. PutEntry(r, p, "raw") /\ "raw" \in Kinds
    BY <1>2 DEF Register, Kinds
  <1> QED  BY <1>1, <1>2, <1>3, IdleIs, PutEntryStep

LEMMA EntryFailsStep ==
    ASSUME LInv, NEW r \in Requests, EntryFails(r)
    PROVE  LInv'
  <1>1. /\ req[r].at \in {"entry", "register"} /\ req[r].post \in Posts
        /\ Becomes(r, Idle) /\ UNCHANGED <<dirs, locks, ops, taken, littered>>
        /\ req[r] \in Request
    BY DoneIs DEF EntryFails, At, LInv, TypeOK, Mine, Known, InPost, Steps
  <1>2. PICK p \in Posts : p = req[r].post
    BY <1>1
  <1>3. PICK kind \in Kinds : kind = IF At(r, "register") THEN "raw" ELSE req[r].kind
    BY <1>1 DEF Request, Kinds
  <1>4. /\ PutEntry(r, p, kind) \/ UNCHANGED <<meta, raced>>
        /\ cut' = cut \cup {p} /\ cut' \subseteq Posts
    BY <1>2, <1>3 DEF EntryFails, LInv, TypeOK
  <1>5. CASE PutEntry(r, p, kind)
    BY <1>1, <1>2, <1>3, <1>4, <1>5, IdleIs, PutEntryStep DEF At
  <1>6. CASE UNCHANGED <<meta, raced>>
    <2>1. Quiet /\ ops' \in 0..MaxOps
      BY <1>1, <1>4, <1>6 DEF Quiet, LInv, TypeOK
    <2>2. Holds(Idle) /\ HasLocks(r, Idle)
      BY IdleIs, PlainHolds DEF Plain, HasLocks, HoldsMeta, HoldsQuota
    <2> QED  BY <1>1, <1>2, <1>4, <2>1, <2>2, IdleIs, SameLocks, QuietTo
  <1> QED  BY <1>4, <1>5, <1>6

\* The entry goes, unless another request made a post there.
LEMMA RemoveEntryStep ==
    ASSUME LInv, NEW r \in Requests, RemoveEntry(r)
    PROVE  LInv'
  <1>1. /\ req[r].at = "pop" /\ req[r].post \in Posts /\ Becomes(r, Idle) /\ metaLock = None
        /\ UNCHANGED <<dirs, locks, ops, taken, littered>>
        /\ meta \in [Posts -> Entry \cup {None}]
    BY DoneIs DEF RemoveEntry, At, MetaFree, LInv, TypeOK, Mine, Known, InPost, Steps
  <1>2. PICK p \in Posts : p = req[r].post
    BY <1>1
  <1>3. /\ raced \subseteq raced' /\ raced' \subseteq Posts
        /\ p \notin raced' => p \notin raced /\ ~dirs[p].made
    BY <1>2 DEF RemoveEntry, LInv, TypeOK
  <1>4. CASE cut' = cut \cup {p} /\ UNCHANGED meta
    <2>1. TypeOK' /\ Alone(r) /\ Remembers
      BY <1>1, <1>3, <1>4, ReleasesAlone DEF LInv, TypeOK, Becomes, locks, Remembers
    <2> QED  BY <1>1, <1>2, <1>4, <2>1, MarkStep
  <1>5. CASE meta' = [meta EXCEPT ![p] = None] /\ UNCHANGED cut
    <2>1. /\ meta' \in [Posts -> Entry \cup {None}] /\ meta'[p] = None
          /\ \A x \in Posts \ {p} : meta'[x] = meta[x]
      BY <1>1, <1>5
    <2>2. TypeOK' /\ Alone(r) /\ Remembers /\ KeptBy(r) /\ req'[r] = Idle
      BY <1>1, <1>3, <1>5, <2>1, IdleIs, PlainBy, ReleasesAlone
         DEF LInv, TypeOK, Becomes, locks, Remembers, Plain
    <2>3. p \notin raced' => OnDisk(p) = {} /\ dirs[p].journals = {}
      <3>1. p \notin raced' => dirs[p] = NoDir
        BY <1>3 DEF LInv, Bare
      <3> QED  BY <3>1, BareIs DEF OnDisk
    <2>4. OnDisk(p)' = OnDisk(p) /\ Listed(p)' = {} /\ ~IsGallery(p)'
      BY <1>1, <2>1 DEF OnDisk, Listed, IsGallery
    <2>5. p \notin raced' => InOrder(p)'
      BY <1>1, <2>3, <2>4 DEF InOrder, Gone, Empty, Strays, Intact
    <2>6. ASSUME p \notin raced', NEW q \in Requests \ {r}, req[q].post = p
          PROVE  Relies(req[q])'
      <3>1. Same(q) /\ req[q].at \notin HoldsMeta /\ Relies(req[q])
        BY <1>1, <1>3, <2>2, <2>6, MetaIsFree DEF Alone, LInv
      <3>2. req[q].at \notin Journaling
        BY <2>3, <2>6, <3>1 DEF Relies
      <3> QED  BY <1>1, <2>6, <3>1, <3>2, OthersRely DEF HoldsMeta
    <2>7. ASSUME NEW q \in Requests \ {r} PROVE ClearedOf(req[q], p)'
      BY <2>1 DEF ClearedOf, Galleries, OwnedBy
    <2>8. p \notin raced' \cup cut' => Explained(p)'
      <3>1. ~Purged(p)'
        BY <2>1 DEF Purged, PurgedBy, OwnedBy
      <3> QED  BY <1>1, <1>3, <2>1, <2>3, <2>4, <3>1 DEF Explained
    <2> QED  BY <1>1, <1>2, <2>1, <2>2, <2>4, <2>5, <2>6, <2>7, <2>8, IdleIs, EntryStep
  <1> QED  BY <1>2, <1>4, <1>5 DEF RemoveEntry

\* The media are listed, each with its upload.
LEMMA SaveStep ==
    ASSUME LInv, NEW r \in Requests, NEW p \in Posts, p = req[r].post, SaveItems(r),
           NEW k \in Request, Becomes(r, k), Known(k), k.at \in {"finish", "rollback"},
           k.post = p, k.owner = req[r].owner, k.names = req[r].names,
           k.at = "rollback" => p \in raced', raced \subseteq raced', raced' \subseteq Posts,
           UNCHANGED <<dirs, quotaLock, ops, taken, littered, cut>>
    PROVE  LInv'
  <1>1. /\ req[r].at = "move" /\ metaLock' = None /\ req[r].names = req[r].moved
    BY DEF SaveItems, At
  <1>2. /\ GalleryOf(p, req[r].owner) /\ Known(req[r]) /\ req[r] \in Request
        /\ quotaLock[req[r].owner] = r /\ metaLock = r /\ req[r].op \in Ops
        /\ p \notin raced => Relies(req[r])
        /\ meta \in [Posts -> Entry \cup {None}] /\ meta[p] \in Entry
    BY <1>1, InPublication DEF HoldsQuota, HoldsMeta, Seen, LInv, TypeOK, GalleryOf, IsGallery
  <1>3. PICK new : new = [name : req[r].names, id : {req[r].op}]
    OBVIOUS
  <1>4. new \subseteq Item /\ NamesIn(new) = req[r].names
    <2>1. \A i \in new : i.name \in req[r].names /\ i.id = req[r].op
      BY <1>3
    <2>2. ASSUME NEW n \in req[r].names PROVE n \in NamesIn(new)
      <3>1. [name |-> n, id |-> req[r].op] \in new
        BY <1>3
      <3> QED  BY <3>1 DEF NamesIn
    <2>3. new \subseteq Item
      BY <1>2, <1>3 DEF Item, Request
    <2> QED  BY <2>1, <2>2, <2>3 DEF NamesIn
  <1>5. /\ meta' \in [Posts -> Entry \cup {None}]
        /\ meta'[p].items = meta[p].items \cup new /\ meta'[p].owner = meta[p].owner
        /\ IsGallery(p) /\ IsGallery(p)' /\ \A x \in Posts \ {p} : meta'[x] = meta[x]
    <2>1. PICK items : items = meta[p].items \cup new
      OBVIOUS
    <2>2. PICK e : e = [meta[p] EXCEPT !.items = items]
      OBVIOUS
    <2>3. items \in SUBSET Item
      BY <1>2, <1>4, <2>1 DEF Entry
    <2>4. /\ e \in Entry /\ e.items = items /\ e.owner = meta[p].owner /\ e.type = meta[p].type
          /\ e \in [type : Kinds, owner : Users, items : SUBSET Item, born : Ops]
      BY <1>2, <2>2, <2>3 DEF Entry
    <2>5. meta' = [meta EXCEPT ![p] = e]
      BY <1>2, <1>3, <2>1, <2>2 DEF SaveItems
    <2>6. meta'[p] = e /\ \A x \in Posts \ {p} : meta'[x] = meta[x]
      BY <1>2, <2>5
    <2>7. meta' \in [Posts -> Entry \cup {None}]
      BY <1>2, <2>4, <2>5
    <2>8. IsGallery(p)
      BY <1>2 DEF GalleryOf
    <2>9. e # None
      BY <2>4, NoneAssumption
    <2> QED  BY <2>1, <2>4, <2>6, <2>7, <2>8, <2>9 DEF IsGallery
  <1>6. Listed(p)' = Listed(p) \cup req[r].names
    BY <1>4, <1>5 DEF Listed, NamesIn
  <1>7. Releases(r)
    BY <1>1, <1>2, DropsMeta
  <1>8. TypeOK' /\ Alone(r) /\ Remembers /\ req'[r] = k
    BY <1>2, <1>5, <1>7 DEF LInv, TypeOK, Becomes, Releases, Alone, Remembers
  <1>9. OnDisk(p)' = OnDisk(p) /\ Journaled(p)' = Journaled(p)
    BY DEF OnDisk, Journaled
  <1>10. ASSUME p \notin raced'
         PROVE  /\ p \notin raced /\ InOrder(p) /\ req[r].names \cap Listed(p) = {}
                /\ \A n \in req[r].names : dirs[p].media[n] = req[r].op
                /\ req[r].names \subseteq OnDisk(p) /\ req[r].names \in dirs[p].journals
    <2>1. p \notin raced /\ Relies(req[r]) /\ InOrder(p)
      BY <1>2, <1>10 DEF LInv
    <2>2. \A n \in req[r].names : dirs[p].media[n] = req[r].op
      BY <1>1, <2>1 DEF Relies
    <2>3. req[r].names \subseteq Names /\ req[r].op # NoFile
      BY <1>2 DEF Request, Ops, NoFile
    <2> QED  BY SMTT(30), <1>1, <2>1, <2>2, <2>3 DEF Relies, OnDisk, Journaling
  <1>11. \A x : ~Purged(x) /\ ~Purged(x)' /\ PurgesOn(x)
    BY <1>1, <1>2, <1>8, NobodyPurges
  <1>12. ASSUME p \notin raced' PROVE InOrder(p)'
    <2>1. Gone(p)' /\ Strays(p)'
      BY <1>5, <1>6, <1>9, <1>10, <1>11, <1>12 DEF InOrder, Gone, Strays, IsGallery
    <2>2. Intact(p)'
      <3>1. \A i \in new : i.name \in req[r].names /\ i.id = req[r].op
        BY <1>3
      <3>2. ASSUME NEW i \in meta[p].items PROVE i.name \notin req[r].names
        BY <1>5, <1>10, <1>12, <3>2 DEF Listed, NamesIn
      <3>3. ASSUME NEW i \in meta'[p].items
            PROVE  dirs[p].media[i.name] = i.id \/ i \in taken
        <4>1. CASE i \in new
          BY <1>10, <1>12, <3>1, <4>1
        <4>2. CASE i \in meta[p].items
          BY SMTT(30), <1>5, <1>10, <1>12, <4>2 DEF InOrder, Intact
        <4> QED  BY <1>5, <3>3, <4>1, <4>2
      <3>4. ASSUME NEW i \in meta'[p].items, NEW j \in meta'[p].items, i.name = j.name
            PROVE  i = j
        <4>1. CASE i \in new /\ j \in new
          BY <1>3, <3>4, <4>1
        <4>2. CASE i \in meta[p].items /\ j \in meta[p].items
          BY SMTT(30), <1>5, <1>10, <1>12, <3>4, <4>2 DEF InOrder, Intact
        <4> QED  BY <1>5, <3>1, <3>2, <3>4, <4>1, <4>2
      <3> QED  BY <3>3, <3>4 DEF Intact
    <2> QED  BY <2>1, <2>2 DEF InOrder
  <1>13. ASSUME p \notin raced', NEW q \in Requests \ {r}, req[q].post = p
         PROVE  Relies(req[q])'
    <2>1. Same(q) /\ req[q].at # "unlist" /\ Relies(req[q])
      BY <1>1, <1>8, <1>10, <1>13, MetaApart DEF Alone, HoldsMeta, LInv
    <2>2. req[q].at \notin Journaling \cup {"journal"}
      BY <1>1, <1>2, <1>10, <1>13, PublishesAlone DEF HoldsQuota
    <2> QED  BY <1>13, <2>1, <2>2, OthersRely
  <1>14. ASSUME NEW q \in Requests \ {r} PROVE ClearedOf(req[q], p)'
    BY <1>1, <1>2, <1>5, <1>8, <1>14, OthersCount DEF Alone, HoldsQuota
  <1>15. ASSUME p \notin raced' \cup cut' PROVE Explained(p)'
    <2>1. Explained(p) /\ k.at = "finish"
      BY <1>10, <1>15 DEF LInv
    <2>2. /\ Homeless(p) => Homeless(p)'
          /\ \A n : Lost(p, n) => Lost(p, n)'
          /\ \A names : JournalOf(p, names) =>
               JournalOf(p, names)' \/ (req[r].at \in Journaling /\ names = req[r].names)
          /\ \A n : Unlisted(p, n) =>
               \/ Unlisted(p, n)'
               \/ req[r].at \in {"move", "rollback"} /\ n \in req[r].moved
      <3>1. Purging(p) => Purging(p)'
        BY <1>11 DEF PurgesOn
      <3> QED  BY <1>1, <1>8, <3>1, OthersReasons
    <2>3. \A names : names = req[r].names => JournalOf(p, names)'
      BY <1>8, <2>1 DEF JournalOf, Journaling
    <2>4. \A names \in dirs'[p].journals : JournalOf(p, names)'
      BY <2>1, <2>2, <2>3 DEF Explained
    <2>5. \A n \in OnDisk(p)' \ Listed(p)' : Unlisted(p, n)'
      BY <1>1, <1>5, <1>6, <1>9, <2>1, <2>2 DEF Explained
    <2>6. \A n \in Listed(p)' \ OnDisk(p)' : Lost(p, n)'
      BY <1>6, <1>9, <1>10, <1>15, <2>1, <2>2 DEF Explained
    <2>7. ~dirs'[p].made => Homeless(p)'
      BY <1>5, <2>1, <2>2 DEF Explained, IsGallery
    <2>8. meta'[p] # None
      BY <1>5 DEF IsGallery
    <2> QED  BY <1>11, <2>4, <2>5, <2>6, <2>7, <2>8 DEF Explained
  <1>16. KeptBy(r)
    <2>1. /\ Known(req[r])' /\ Locked(r)' /\ Seen(req[r])' /\ Cleared(req[r])' /\ Fits(req[r])'
      BY <1>2, <1>8
         DEF Known, Locked, Seen, Cleared, ClearedOf, Fits, HoldsMeta, Counting
    <2>2. ASSUME p \notin raced' PROVE Relies(req[r])'
      <3>1. GalleryOf(p, k.owner)'
        BY <1>2, <1>5 DEF GalleryOf
      <3>2. k.names \in dirs'[p].journals /\ k.names \cap OnDisk(p)' \subseteq Listed(p)'
        BY <1>6, <1>10, <2>2
      <3>3. k.at = "finish" /\ ~Purged(p)' /\ k.post = p /\ req'[r] = k
        BY <1>8, <1>11, <2>2
      <3> QED  BY SMTT(30), <3>1, <3>2, <3>3
               DEF Relies, GalleryOf, IsGallery, Listed, OnDisk, Journaling
    <2> QED  BY <1>8, <2>1, <2>2 DEF KeptBy, Mine
  <1>17. req[r].at # "purging" /\ req'[r].at \notin {"purging", "unpack"}
    BY <1>1, <1>8
  <1>18. meta[p].owner = meta'[p].owner /\ IsGallery(p) /\ metaLock \in {None, r}
    BY <1>2, <1>5
  <1>19. \A q \in Requests \ {r} : p \notin raced' /\ req[q].post = p => Relies(req[q])'
    BY <1>13
  <1>20. \A q \in Requests \ {r} : ClearedOf(req[q], p)'
    BY <1>14
  <1>21. \A x \in Posts \ {p} : meta'[x] = meta[x]
    BY <1>5
  <1> QED  BY <1>8, <1>12, <1>15, <1>16, <1>17, <1>18, <1>19, <1>20, <1>21, EntryStep

LEMMA CommitSteps ==
    ASSUME LInv, NEW r \in Requests, Commit(r) \/ LeaseLost(r)
    PROVE  LInv'
  <1>1. /\ req[r].at = "move" /\ SaveItems(r)
        /\ UNCHANGED <<dirs, quotaLock, ops, taken, littered, cut>>
    BY DEF Commit, LeaseLost, SaveItems, At, history
  <1>2. Known(req[r]) /\ req[r].post \in Posts
    BY <1>1, InPublication DEF HoldsQuota
  <1>3. PICK p \in Posts : p = req[r].post
    BY <1>2
  <1>4. PICK k \in Request :
          /\ Becomes(r, k) /\ k.at \in {"finish", "rollback"} /\ k.post = req[r].post
          /\ k.op = req[r].op /\ k.owner = req[r].owner /\ k.files = req[r].files
          /\ k.names = req[r].names /\ k.moved = req[r].moved
          /\ k.at = "rollback" => LeaseLost(r)
    <2>1. CASE Commit(r)
      <3>1. Go(r, "finish")
        BY <2>1 DEF Commit
      <3>2. PICK k \in Request :
              /\ Becomes(r, k) /\ k.at = "finish" /\ k.post = req[r].post
              /\ k.op = req[r].op /\ k.owner = req[r].owner /\ k.files = req[r].files
              /\ k.names = req[r].names /\ k.moved = req[r].moved
        BY <3>1, GoIs DEF Steps
      <3> QED  BY <3>2
    <2>2. CASE LeaseLost(r)
      <3>1. req[r] \in Request /\ req \in [Requests -> Request]
        BY DEF LInv, TypeOK
      <3>2. PICK k : k = [req[r] EXCEPT !.at = "rollback", !.creating = FALSE]
        OBVIOUS
      <3>3. /\ k \in Request /\ k.at = "rollback" /\ k.post = req[r].post
            /\ k.op = req[r].op /\ k.owner = req[r].owner /\ k.files = req[r].files
            /\ k.names = req[r].names /\ k.moved = req[r].moved
        BY ZenonT(40), <3>1, <3>2 DEF Request, Steps
      <3>4. req' = [req EXCEPT ![r] = k]
        BY <2>2, <3>1, <3>2 DEF LeaseLost
      <3>5. Becomes(r, k)
        BY <3>3, <3>4, ReqStep
      <3> QED  BY <2>2, <3>3, <3>5
    <2> QED  BY <2>1, <2>2
  <1>5. Known(k)
    BY <1>1, <1>2, <1>4 DEF Known, InPost, Numbered, HoldsQuota, Steps
  <1>6. /\ raced \subseteq raced' /\ raced' \subseteq Posts
        /\ k.at = "rollback" => p \in raced'
    BY <1>3, <1>4 DEF Commit, LeaseLost, history, LInv, TypeOK
  <1> QED  BY <1>1, <1>3, <1>4, <1>5, <1>6, SaveStep

LEMMA UnlistStep ==
    ASSUME LInv, NEW r \in Requests, Unlist(r)
    PROVE  LInv'
  <1>1. /\ req[r].at = "unlist" /\ Becomes(r, Idle) /\ Mine(r) /\ req[r] \in Request
        /\ metaLock' = None /\ UNCHANGED <<dirs, quotaLock, ops, taken, raced, littered>>
        /\ meta \in [Posts -> Entry \cup {None}]
    BY DoneIs DEF Unlist, At, LInv, TypeOK
  <1>2. req[r].post \in Posts /\ metaLock = r /\ IsGallery(req[r].post)
    BY <1>1 DEF Mine, Known, Locked, Seen, InPost, Steps, HoldsMeta
  <1>3. PICK p \in Posts : p = req[r].post
    BY <1>2
  <1>4. Releases(r)
    BY <1>1, <1>2, DropsMeta
  <1>5. CASE cut' = cut \cup {p} /\ UNCHANGED meta
    <2>1. Quiet /\ ops' \in 0..MaxOps /\ cut' \subseteq Posts
      BY <1>1, <1>5 DEF Quiet, LInv, TypeOK
    <2>2. Holds(Idle) /\ HasLocks(r, Idle)
      BY IdleIs, PlainHolds DEF Plain, HasLocks, HoldsQuota
    <2> QED  BY <1>1, <1>3, <1>4, <1>5, <2>1, <2>2, IdleIs, QuietTo
  <1>6. CASE /\ meta' = [meta EXCEPT ![p].items = {i \in @ : i.name \notin req[r].names}]
             /\ UNCHANGED cut
    <2>1. /\ meta' \in [Posts -> Entry \cup {None}]
          /\ meta'[p].items = {i \in meta[p].items : i.name \notin req[r].names}
          /\ meta'[p].owner = meta[p].owner
          /\ IsGallery(p) /\ IsGallery(p)' /\ \A x \in Posts \ {p} : meta'[x] = meta[x]
      <3>1. PICK items : items = {i \in meta[p].items : i.name \notin req[r].names}
        OBVIOUS
      <3>2. PICK e : e = [meta[p] EXCEPT !.items = items]
        OBVIOUS
      <3>3. IsGallery(p) /\ meta[p] \in Entry
        BY <1>1, <1>2, <1>3 DEF IsGallery
      <3>4. items \in SUBSET Item
        BY <3>1, <3>3 DEF Entry
      <3>5. /\ e \in Entry /\ e.items = items /\ e.owner = meta[p].owner
            /\ e.type = meta[p].type
        BY <3>2, <3>3, <3>4 DEF Entry
      <3>6. meta' = [meta EXCEPT ![p] = e]
        BY <1>1, <1>6, <3>1, <3>2
      <3>7. meta'[p] = e /\ \A x \in Posts \ {p} : meta'[x] = meta[x]
        BY <1>1, <3>6
      <3>8. meta' \in [Posts -> Entry \cup {None}]
        BY <1>1, <3>5, <3>6
      <3> QED  BY <3>1, <3>3, <3>5, <3>7, <3>8, NoneAssumption DEF IsGallery
    <2>2. Listed(p)' = Listed(p) \ req[r].names
      BY <2>1 DEF Listed, NamesIn
    <2>3. OnDisk(p)' = OnDisk(p) /\ Journaled(p)' = Journaled(p)
      BY <1>1 DEF OnDisk, Journaled
    <2>4. TypeOK' /\ Alone(r) /\ Remembers /\ req'[r] = Idle /\ KeptBy(r)
      BY <1>1, <1>2, <1>4, <1>6, <2>1, IdleIs, PlainBy
         DEF LInv, TypeOK, Becomes, Releases, Alone, Remembers, Plain
    <2>5. \A x : ~Purged(x) /\ ~Purged(x)' /\ PurgesOn(x)
      BY <1>1, <1>2, <2>4, IdleIs, NobodyPurges
    <2>6. p \notin raced => req[r].names \cap OnDisk(p) = {} /\ InOrder(p)
      BY <1>1, <1>3 DEF LInv, Relies
    <2>7. ASSUME p \notin raced' PROVE InOrder(p)'
      <3>1. InOrder(p) /\ req[r].names \cap OnDisk(p) = {}
        BY <1>1, <2>6, <2>7
      <3>2. Gone(p)' /\ Strays(p)'
        BY <1>1, <2>1, <2>2, <2>3, <2>5, <3>1 DEF InOrder, Gone, Strays, IsGallery
      <3>3. Intact(p)'
        BY <1>1, <2>1, <3>1 DEF InOrder, Intact
      <3> QED  BY <3>2, <3>3 DEF InOrder
    <2>8. ASSUME p \notin raced', NEW q \in Requests \ {r}, req[q].post = p
          PROVE  Relies(req[q])'
      <3>1. /\ Same(q) /\ Relies(req[q]) /\ req[q].at \notin HoldsMeta
            /\ req[r].names \cap OnDisk(p) = {}
        BY <1>1, <2>4, <2>6, <2>8, MetaApart DEF Alone, LInv, HoldsMeta
      <3>2. req'[q].post = p /\ req'[q].at = req[q].at /\ req'[q].names = req[q].names
            /\ req'[q].moved = req[q].moved /\ req'[q].owner = req[q].owner
        BY <2>8, <3>1 DEF Same
      <3>3. /\ req[q].at \in Journaling => IsGallery(p)' /\ meta'[p].owner = req[q].owner
            /\ req[q].at \in Journaling => req[q].names \in dirs'[p].journals
        BY <1>1, <2>1, <2>8, <3>1 DEF Relies, GalleryOf
      <3>4. /\ req[q].at = "rollback" =>
                 /\ req[q].names \cap Listed(p)' = {}
                 /\ req[q].names \cap OnDisk(p)' \subseteq req[q].moved
            /\ req[q].at = "finish" => req[q].names \cap OnDisk(p)' \subseteq Listed(p)'
            /\ req[q].at \in {"withdraw", "unlist"} => req[q].names \cap OnDisk(p)' = {}
        BY <2>2, <2>3, <2>8, <3>1 DEF Relies
      <3>5. ~Purged(p)' /\ UNCHANGED littered /\ req[q].post = p
        BY <1>1, <2>5, <2>8
      <3> QED  BY SMTT(30), <3>1, <3>2, <3>3, <3>4, <3>5
               DEF Relies, HoldsMeta, Journaling, GalleryOf, IsGallery, Listed, OnDisk
    <2>9. ASSUME NEW q \in Requests \ {r}, p \notin raced' PROVE ClearedOf(req[q], p)'
      <3>1. ClearedOf(req[q], p) /\ Same(q) /\ req[r].names \cap OnDisk(p) = {}
        BY <1>1, <2>4, <2>6, <2>9 DEF LInv, Mine, Cleared, Alone
      <3>2. Clear(p) => Clear(p)'
        BY <1>1, <2>2, <2>3, <3>1 DEF Clear
      <3>3. meta[p] # None /\ meta[p].type = "gallery"
        BY <2>1 DEF IsGallery
      <3> QED  BY <1>1, <2>1, <3>1, <3>2, <3>3 DEF ClearedOf, Same, Galleries, OwnedBy
    <2>10. ASSUME p \notin raced' \cup cut' PROVE Explained(p)'
      <3>1. Explained(p) /\ req[r].names \cap OnDisk(p) = {}
        BY <1>1, <1>6, <2>6, <2>10 DEF LInv
      <3>2. \A q \in Requests \ {r} :
              /\ req'[q].post = req[q].post /\ req'[q].at = req[q].at
              /\ req'[q].names = req[q].names /\ req'[q].moved = req[q].moved
        BY <2>4 DEF Alone, Same
      <3>3. Homeless(p) => Homeless(p)'
        BY <1>1, <2>5, <3>2 DEF Homeless, On, PurgesOn
      <3>4. \A names : JournalOf(p, names) => JournalOf(p, names)'
        BY <1>1, <3>2 DEF JournalOf, Journaling
      <3>5. \A n : Unlisted(p, n) => Unlisted(p, n)'
        BY <1>1, <3>2 DEF Unlisted
      <3>6. \A n : Lost(p, n) /\ n \notin req[r].names => Lost(p, n)'
        BY <1>1, <2>5, <3>2 DEF Lost, On, PurgesOn
      <3>7. \A names \in dirs'[p].journals : JournalOf(p, names)'
        BY <1>1, <3>1, <3>4 DEF Explained
      <3>8. \A n \in OnDisk(p)' \ Listed(p)' : Unlisted(p, n)'
        BY <2>1, <2>2, <2>3, <3>1, <3>5 DEF Explained
      <3>9. \A n \in Listed(p)' \ OnDisk(p)' : Lost(p, n)'
        BY <2>2, <2>3, <3>1, <3>6 DEF Explained
      <3>10. meta[p] # None /\ meta'[p] # None
        BY <2>1 DEF IsGallery
      <3>11. ~dirs[p].made => Homeless(p)
        BY <3>1, <3>10 DEF Explained
      <3> QED  BY <1>1, <2>5, <3>3, <3>7, <3>8, <3>9, <3>10, <3>11 DEF Explained
    <2>11. req[r].at # "purging" /\ req'[r].at \notin {"purging", "unpack"}
      BY <1>1, <2>4, IdleIs
    <2>12. \A q \in Requests \ {r} : p \notin raced' => ClearedOf(req[q], p)'
      BY <2>9
    <2> QED  BY <1>1, <1>2, <1>3, <2>1, <2>4, <2>7, <2>8, <2>10, <2>11, <2>12, EntryStep
  <1> QED  BY <1>3, <1>5, <1>6 DEF Unlist

LEMMA EndPurgeStep ==
    ASSUME LInv, NEW r \in Requests, EndPurge(r)
    PROVE  LInv'
  <1>1. /\ req[r].at = "purging" /\ req[r].todo = {} /\ Becomes(r, Idle) /\ Mine(r)
        /\ metaLock' = None /\ UNCHANGED <<dirs, quotaLock, ops, taken, raced, littered>>
        /\ meta \in [Posts -> Entry \cup {None}]
    BY DoneIs DEF EndPurge, At, LInv, TypeOK
  <1>2. metaLock = r
    BY <1>1 DEF Mine, Locked, HoldsMeta
  <1>3. PICK P \in SUBSET Posts : P = OwnedBy(req[r].user)
    BY DEF OwnedBy
  <1>4. Releases(r)
    BY <1>1, <1>2, DropsMeta
  <1>5. CASE cut' = cut \cup P /\ UNCHANGED meta
    <2>1. Quiet /\ ops' \in 0..MaxOps /\ cut' \subseteq Posts
      BY <1>1, <1>5 DEF Quiet, LInv, TypeOK
    <2>2. Holds(Idle) /\ HasLocks(r, Idle)
      BY IdleIs, PlainHolds DEF Plain, HasLocks, HoldsQuota
    <2> QED  BY <1>1, <1>3, <1>4, <1>5, <2>1, <2>2, IdleIs, QuietTo DEF Explaining, Journaling
  <1>6. CASE meta' = [x \in Posts |-> IF x \in P THEN None ELSE meta[x]] /\ UNCHANGED cut
    <2>1. /\ meta' \in [Posts -> Entry \cup {None}] /\ \A x \in P : meta'[x] = None
          /\ \A x \in Posts \ P : meta'[x] = meta[x]
      BY <1>1, <1>6
    <2>2. TypeOK' /\ Alone(r) /\ Remembers /\ req'[r] = Idle /\ KeptBy(r)
      BY <1>1, <1>2, <1>4, <1>6, <2>1, IdleIs, PlainBy
         DEF LInv, TypeOK, Becomes, Releases, Alone, Remembers, Plain
    <2>3. \A q \in Requests \ {r} : req[q].at \notin HoldsMeta /\ Same(q)
      BY <1>1, <2>2, MetaApart DEF HoldsMeta, Alone
    <2>4. \A x : ~Purged(x)'
      BY <2>2, <2>3, IdleIs DEF Purged, PurgedBy, Same, HoldsMeta
    <2>5. \A x \in P : Purged(x)
      BY <1>1, <1>3 DEF Purged, PurgedBy
    <2>6. \A x \in Posts \ P : ~Purged(x)
      BY <1>3, <2>3 DEF Purged, PurgedBy, HoldsMeta
    <2>7. ASSUME NEW p \in P PROVE KeptOn(p, r)
      <3>1. /\ OnDisk(p)' = OnDisk(p) /\ Listed(p)' = {} /\ ~IsGallery(p)' /\ meta'[p] = None
            /\ p \in Posts
        BY <1>1, <2>1, <2>7 DEF OnDisk, Listed, IsGallery
      <3>2. p \notin raced' => p \in littered \/ Empty(p)
        BY <1>1, <2>5, <2>7, <3>1 DEF LInv, InOrder, Gone
      <3>3. Bare(p)'
        BY <1>1, <3>1 DEF LInv, Bare
      <3>4. p \notin raced' => InOrder(p)'
        BY <1>1, <3>1, <3>2 DEF InOrder, Gone, Empty, Strays, Intact
      <3>5. ASSUME p \notin raced', NEW q \in Requests \ {r}, req[q].post = p
            PROVE  Relies(req[q])'
        <4>1. Relies(req[q])
          BY <1>1, <3>1, <3>5 DEF LInv
        <4>2. req[q].at \notin Journaling
          BY <2>5, <2>7, <3>5, <4>1 DEF Relies
        <4> QED  BY <1>1, <2>3, <3>5, <4>1, <4>2, OthersRely DEF HoldsMeta
      <3>6. ASSUME NEW q \in Requests \ {r} PROVE ClearedOf(req[q], p)'
        BY <3>1 DEF ClearedOf, Galleries, OwnedBy
      <3>7. ASSUME p \notin raced' \cup cut' PROVE Explained(p)'
        <4>1. Explained(p)
          BY <1>1, <1>6, <3>1, <3>7 DEF LInv
        <4>2. On(p, {"entry"}) => Unentered(p)'
          BY <1>1, <2>3 DEF Unentered, On, Same
        <4>3. dirs'[p].made => Unentered(p)'
          BY <1>1, <2>5, <2>7, <4>1, <4>2 DEF Explained
        <4>4. ASSUME NEW names, JournalOf(p, names) PROVE FALSE
          <5>1. PICK q \in Requests : req[q].post = p /\ req[q].at \in Journaling
            BY <4>4 DEF JournalOf
          <5>2. Relies(req[q])
            BY <1>1, <3>1, <3>7, <5>1 DEF LInv
          <5> QED  BY <2>5, <2>7, <5>1, <5>2 DEF Relies
        <4>5. dirs'[p].journals = {}
          BY <1>1, <4>1, <4>4 DEF Explained
        <4> QED  BY <2>4, <3>1, <4>3, <4>5 DEF Explained
      <3> QED  BY <3>3, <3>4, <3>5, <3>6, <3>7 DEF KeptOn
    <2>8. \A u \in Users : Assets(u)' \subseteq Assets(u)
      BY <1>1, <2>1 DEF Assets, Stored, Counted, OwnedBy, IsGallery
    <2>9. KeptQuota(r)
      BY <2>2, <2>8, StoresNoMore
    <2>10. ASSUME NEW x \in Posts \ P PROVE SamePost(x) /\ PurgesOn(x)
      <3>1. ~Purging(x)
        BY <1>3, <2>3, <2>10 DEF Purging, HoldsMeta
      <3> QED  BY <1>1, <2>1, <2>4, <2>10, <3>1 DEF SamePost, PurgesOn
    <2>11. req[r].at \notin Explaining /\ req'[r].at # "unpack"
      BY <1>1, <2>2, IdleIs DEF Explaining, Journaling
    <2> QED  BY <2>2, <2>7, <2>9, <2>10, <2>11, Assemble DEF PurgesOn
  <1> QED  BY <1>3, <1>5, <1>6 DEF EndPurge

-----------------------------------------------------------------------------
(* The invariant.                                                          *)

LEMMA LInit == Init => LInv
  <1> SUFFICES ASSUME Init PROVE LInv
    OBVIOUS
  <1>1. /\ meta = [p \in Posts |-> None] /\ dirs = [p \in Posts |-> NoDir]
        /\ metaLock = None /\ quotaLock = [u \in Users |-> None]
        /\ req = [r \in Requests |-> Idle] /\ ops = 0
        /\ taken = {} /\ raced = {} /\ littered = {} /\ cut = {}
    BY DEF Init
  <1>2. \A r \in Requests : req[r] = Idle
    BY <1>1
  <1>3. \A p \in Posts : meta[p] = None /\ dirs[p] = NoDir
    BY <1>1
  <1>4. TypeOK
    BY <1>1, IdleIs, BareIs, LoftAssumption DEF TypeOK
  <1>5. ASSUME NEW r \in Requests PROVE Mine(r)
    BY <1>2, IdleIs
       DEF Mine, Known, Locked, Seen, Cleared, ClearedOf, Fits, InPost, Numbered, HoldsMeta,
           HoldsQuota, Counting
  <1>6. ASSUME NEW p \in Posts
        PROVE  Bare(p) /\ InOrder(p) /\ Explained(p)
    <2>1. OnDisk(p) = {} /\ Listed(p) = {} /\ ~IsGallery(p) /\ dirs[p].journals = {}
          /\ dirs[p].made = FALSE
      BY <1>3, <1>6, BareIs DEF OnDisk, Listed, IsGallery
    <2>2. ~Purged(p)
      BY <1>2, IdleIs DEF Purged, PurgedBy
    <2> QED  BY <1>1, <1>3, <1>6, <2>1, <2>2
             DEF Bare, InOrder, Gone, Empty, Strays, Intact, Explained
  <1>7. \A r \in Requests : req[r].post \notin Posts
    BY <1>2, IdleIs, LoftAssumption
  <1>8. ASSUME NEW u \in Users PROVE Cardinality(Assets(u)) =< Quota
    <2>1. Assets(u) = {}
      <3>1. Counted(u) = {}
        BY <1>3 DEF Counted, OwnedBy, IsGallery
      <3> QED  BY <3>1 DEF Assets, Stored
    <2>2. Cardinality(Assets(u)) = 0 /\ Quota \in Nat
      BY <2>1, FS_EmptySet, LoftAssumption
    <2> QED  BY ONLY <2>2
  <1> QED  BY <1>4, <1>5, <1>6, <1>7, <1>8 DEF LInv

\* A step in which nothing changes.
LEMMA LStutter ==
    ASSUME LInv, UNCHANGED vars
    PROVE  LInv'
  <1>1. UNCHANGED <<meta, dirs, metaLock, quotaLock, req, ops, taken, raced, littered, cut>>
    BY DEF vars, locks, history
  <1>2. Remembers /\ Alone(None) /\ \A x \in Posts : SamePost(x)
    BY <1>1 DEF Remembers, Alone, Same, SamePost
  <1>3. TypeOK'
    BY <1>1 DEF LInv, TypeOK
  <1>4. \A x \in Posts : PurgesOn(x)
    BY <1>1 DEF PurgesOn, Purging, Purged, PurgedBy, OwnedBy
  <1>5. KeptQuota(None)
    <2>1. \A u \in Users : Assets(u)' \subseteq Assets(u)
      BY <1>1 DEF Assets, Stored, Counted, OwnedBy, IsGallery
    <2> QED  BY <1>2, <1>3, <2>1, StoresNoMore
  <1>6. None \notin Requests
    BY LoftAssumption
  <1>7. PICK P : P = {}
    OBVIOUS
  <1> QED  BY <1>2, <1>3, <1>4, <1>5, <1>6, <1>7, Assemble DEF PurgesOn

LEMMA LNext ==
    ASSUME LInv, [Next]_vars
    PROVE  LInv'
  <1>1. CASE UNCHANGED vars
    BY <1>1, LStutter
  <1>2. ASSUME NEW u \in Users, NEW p \in Posts, UpdateBody(u, p) PROVE LInv'
    BY <1>2, UpdateBodyStep
  <1>3. ASSUME NEW r \in Requests,
               Creating(r) \/ Adding(r) \/ Deleting(r) \/ \E u \in Users : BeginPurge(r, u)
        PROVE  LInv'
    <2>1. CASE Creating(r)
      BY <2>1, BeginCreateStep DEF Creating
    <2>2. CASE Adding(r)
      BY <2>2, BeginAddStep DEF Adding
    <2>3. CASE Deleting(r)
      BY <2>3, BeginRawStep, BeginDeleteStep, UnlinkStep DEF Deleting
    <2>4. CASE \E u \in Users : BeginPurge(r, u)
      BY <2>4, BeginPurgeStep
    <2> QED  BY <1>3, <2>1, <2>2, <2>3, <2>4
  <1>4. ASSUME NEW r \in Requests, Recovering(r) PROVE LInv'
    BY <1>4, RemoveLeftoversStep, RemoveJournalsStep, RecoveryFailsStep, PurgeFilesStep,
       PurgeOneStep DEF Recovering
  <1>5. ASSUME NEW r \in Requests, Step(r) PROVE LInv'
    <2>1. CASE \/ MakeDir(r) \/ WriteEntry(r) \/ EntryFails(r) \/ WriteBody(r)
               \/ RefuseRaw(r) \/ Unpack(r) \/ Register(r)
      BY <2>1, MakeDirStep, WriteEntryStep, EntryFailsStep, WriteBodyStep, RefuseRawStep,
         UnpackStep, RegisterStep
    <2>2. CASE Look(r) \/ Stage(r) \/ StageFails(r) \/ TakeQuota(r) \/ Busy(r)
      BY <2>2, LookStep, StageStep, RefusalSteps, TakeQuotaStep
    <2>3. CASE BeginRecovery(r) \/ Recovering(r) \/ EndRecovery(r) \/ CheckQuota(r)
      BY <1>4, <2>3, BeginRecoveryStep, EndRecoveryStep, CheckQuotaStep
    <2>4. CASE BeginPublish(r) \/ WriteJournal(r) \/ JournalFails(r) \/ Move(r) \/ MoveFails(r)
      BY <2>4, BeginPublishStep, WriteJournalStep, JournalFailsStep, MoveStep, FailureSteps
    <2>5. CASE Commit(r) \/ SaveFails(r) \/ LeaseLost(r) \/ Finish(r)
      BY <2>5, CommitSteps, FailureSteps, FinishStep
    <2>6. CASE Rollback(r) \/ Withdraw(r)
      BY <2>6, RollbackStep, WithdrawStep
    <2>7. CASE \/ BeginRemoval(r) \/ RemoveFiles(r) \/ RemoveDir(r) \/ RemovalFails(r)
               \/ RemoveEntry(r) \/ Unlist(r) \/ EndPurge(r)
      BY <2>7, BeginRemovalStep, RemoveFilesStep, RemoveDirStep, RemovalFailsStep,
         RemoveEntryStep, UnlistStep, EndPurgeStep
    <2> QED  BY <1>5, <2>1, <2>2, <2>3, <2>4, <2>5, <2>6, <2>7 DEF Step
  <1>6. ASSUME NEW r \in Requests, Crash(r) PROVE LInv'
    BY <1>6, CrashStep
  <1> QED  BY <1>1, <1>2, <1>3, <1>5, <1>6 DEF Next

\* In every state, whatever dies or fails at any step of a creation, a publication or a
\* deletion, file by file, and whatever two requests do to one gallery, nothing is amiss
\* on disk or in meta.json but what a request at work on the post, a journal, an end half
\* way (cut), a deletion begun or an archive (littered) or a meeting (raced) explains.
THEOREM LoftInvariant == Spec => []LInv
  BY LInit, LNext, PTL DEF Spec

-----------------------------------------------------------------------------
(* What it implies.                                                        *)

\* Whatever dies or fails, a medium that a gallery does not list is named by a journal
\* until a deletion begins to take its files; the galleries of whoever counts bytes are
\* clear of leftovers; and a post on which nobody works is whole or not there, unless
\* someone ended half way there.
LEMMA LImpliesPublication == LInv => PublicationSound
  <1> SUFFICES ASSUME LInv PROVE PublicationSound
    OBVIOUS
  <1>1. StraysJournaled
    BY DEF LInv, InOrder, Strays, StraysJournaled
  <1>2. ClearedFirst
    <2> SUFFICES ASSUME NEW r \in Requests, req[r].at \in {"quota", "publish"}, req[r].clean,
                        NEW p \in Galleries(req[r].owner) \ (raced \cup littered)
                 PROVE  dirs[p].journals = {} /\ OnDisk(p) \subseteq Listed(p)
      BY DEF ClearedFirst
    <2>1. p \in Posts
      BY DEF Galleries, OwnedBy
    <2>2. Known(req[r]) /\ ClearedOf(req[r], p)
      BY <2>1 DEF LInv, Mine, Cleared
    <2>3. req[r].todo = {}
      BY <2>2 DEF Known
    <2> QED  BY <2>2, <2>3 DEF ClearedOf, Counting, Clear
  <1>3. NothingHalfDone
    <2> SUFFICES ASSUME NEW p \in Posts \ (raced \cup cut),
                        \A r \in Requests : req[r].post # p /\ ~At(r, "purging")
                 PROVE  /\ dirs[p].made <=> meta[p] # None
                        /\ dirs[p].journals = {} /\ (IsGallery(p) => OnDisk(p) = Listed(p))
      BY DEF NothingHalfDone
    <2>1. Explained(p)
      BY DEF LInv
    <2>2. /\ ~Purged(p) /\ ~Unentered(p) /\ ~Homeless(p)
          /\ \A names : ~JournalOf(p, names)
          /\ \A n : ~Unlisted(p, n) /\ ~Lost(p, n)
      BY DEF Purged, PurgedBy, Purging, At, Unentered, Homeless, On, JournalOf, Unlisted, Lost
    <2> QED  BY <2>1, <2>2 DEF Explained
  <1> QED  BY <1>1, <1>2, <1>3 DEF LInv, PublicationSound

\* PublicationSound for every number of requests, users, posts, media and archives, with
\* every failure of the code's own steps: what is not listed is journaled, it is cleared
\* before more is published to the post, and nothing half done stays unaccounted for.
THEOREM PublicationsSound == Spec => []PublicationSound
  BY LoftInvariant, LImpliesPublication, PTL

\* No publication, rollback or recovery touches the media another has published: what an
\* entry lists is on disk as it was written, unless a deletion asked for it, or an archive
\* was unpacked over the gallery.
THEOREM MediaStayIntact == Spec => []MediaIntact
  <1>1. LInv => MediaIntact
    BY DEF LInv, InOrder, Intact, MediaIntact
  <1> QED  BY <1>1, LoftInvariant, PTL

\* However many uploads to however many of their galleries go on at once, no user's
\* galleries hold more than the quota.
THEOREM QuotaIsKept == Spec => []GalleriesWithinQuota
  <1>1. LInv => GalleriesWithinQuota
    BY DEF LInv, Assets, Counted, GalleriesWithinQuota, MediaBytes
  <1> QED  BY <1>1, LoftInvariant, PTL

-----------------------------------------------------------------------------
(* Preparing an upload.                                                    *)

-----------------------------------------------------------------------------
(* The streams of a video.                                                 *)

\* What is assumed of the videos of a request.
Streamed(v) ==
    /\ v \in VideoType
    /\ \A s \in v.streams :
         /\ s.length > 0
         /\ s.usable /\ s.type = "video" => s.w > 0 /\ s.h > 0
         /\ \A t \in v.streams : s.index = t.index => s = t

LEMMA StreamIs ==
    ASSUME NEW v, Streamed(v), NEW s \in v.streams
    PROVE  /\ s \in StreamType
           /\ s.index \in Nat /\ s.w \in Nat /\ s.h \in Nat /\ s.rate \in Nat
           /\ s.length \in Nat /\ s.length > 0 /\ s.w * s.h \in Nat
           /\ s.usable \in BOOLEAN /\ s.default \in BOOLEAN /\ s.states \in BOOLEAN
  <1>1. s \in StreamType /\ s.length > 0
    BY DEF Streamed, VideoType
  <1>2. /\ s.index \in Nat /\ s.w \in Nat /\ s.h \in Nat /\ s.rate \in Nat /\ s.length \in Nat
        /\ s.usable \in BOOLEAN /\ s.default \in BOOLEAN /\ s.states \in BOOLEAN
    BY <1>1 DEF StreamType
  <1>3. s.w * s.h \in Nat
    BY <1>2
  <1> QED  BY <1>1, <1>2, <1>3

\* One picture at most is chosen.
LEMMA OnePicture ==
    ASSUME NEW v, Streamed(v), NEW s \in Picture(v)
    PROVE  Picture(v) = {s} /\ s \in Of(v, "video")
  <1>1. \A t \in Picture(v) : t \in v.streams
    BY DEF Picture, Of
  <1>2. ASSUME NEW t \in Picture(v), t # s
        PROVE  FALSE
    <2>1. Before(s, t) /\ Before(t, s)
      BY <1>2 DEF Picture
    <2>2. /\ s.default \in BOOLEAN /\ t.default \in BOOLEAN
          /\ s.w * s.h \in Nat /\ t.w * t.h \in Nat /\ s.index \in Nat /\ t.index \in Nat
      BY <1>1, StreamIs
    <2>3. PICK m, n : m = s.w * s.h /\ n = t.w * t.h
      OBVIOUS
    <2>4. /\ \/ s.default /\ ~t.default
             \/ s.default = t.default /\ m > n
             \/ s.default = t.default /\ m = n /\ s.index < t.index
          /\ \/ t.default /\ ~s.default
             \/ t.default = s.default /\ n > m
             \/ t.default = s.default /\ n = m /\ t.index < s.index
      BY <2>1, <2>3 DEF Before
    <2>5. m \in Nat /\ n \in Nat
      BY <2>2, <2>3
    <2>6. ~(m > n /\ n > m) /\ ~(s.index < t.index /\ t.index < s.index) /\ (m > n => n # m)
          /\ (n > m => m # n)
      BY <2>2, <2>5
    <2> QED  BY <2>4, <2>6, Zenon
  <1> QED  BY <1>2 DEF Picture

\* One sound is chosen if there is any.
LEMMA OneSound ==
    ASSUME NEW v, Streamed(v)
    PROVE  /\ \A s \in Sound(v) : Sound(v) = {s} /\ s \in Of(v, "audio")
           /\ Of(v, "audio") # {} => Sound(v) # {}
  <1>1. \A s \in Of(v, "audio") : s \in v.streams /\ s.index \in Nat /\ s.default \in BOOLEAN
    BY StreamIs DEF Of
  <1>2. ASSUME NEW s \in Sound(v), NEW t \in Sound(v), t # s
        PROVE  FALSE
    <2>1. s \in Of(v, "audio") /\ t \in Of(v, "audio")
      BY DEF Sound
    <2>2. /\ (s.default /\ ~t.default) \/ (s.default = t.default /\ s.index < t.index)
          /\ (t.default /\ ~s.default) \/ (t.default = s.default /\ t.index < s.index)
      BY <1>2 DEF Sound
    <2>3. ~(s.index < t.index /\ t.index < s.index)
      BY <1>1, <2>1
    <2> QED  BY <2>2, <2>3, Zenon
  <1>3. ASSUME Of(v, "audio") # {}
        PROVE  Sound(v) # {}
    <2>1. PICK best : best = IF \E s \in Of(v, "audio") : s.default
                               THEN {s \in Of(v, "audio") : s.default} ELSE Of(v, "audio")
      OBVIOUS
    <2>2. PICK T : T = {s.index : s \in best}
      OBVIOUS
    <2>3. T \subseteq Nat /\ T # {}
      BY <1>1, <1>3, <2>1, <2>2
    <2>4. PICK n \in T : \A m \in T : n =< m
      BY <2>3, Least
    <2>5. PICK s \in best : s.index = n
      BY <2>2, <2>4
    <2>6. \A t \in best : s.index =< t.index
      BY <2>2, <2>4, <2>5
    <2>7. s \in Of(v, "audio")
      BY <2>1
    <2>8. ASSUME NEW t \in Of(v, "audio"), t # s
          PROVE  (s.default /\ ~t.default) \/ (s.default = t.default /\ s.index < t.index)
      <3>1. s.index # t.index
        BY <1>1, <2>7, <2>8 DEF Streamed
      <3>2. /\ s.default \in BOOLEAN /\ t.default \in BOOLEAN
            /\ s.index \in Nat /\ t.index \in Nat
        BY <1>1, <2>7
      <3>3. CASE t \in best
        <4>1. s.index < t.index
          BY <2>6, <3>1, <3>2, <3>3
        <4>2. s.default = t.default
          BY <2>1, <3>2, <3>3
        <4> QED  BY <4>1, <4>2
      <3>4. CASE t \notin best
        <4>1. \E r \in Of(v, "audio") : r.default
          BY <2>1, <3>4
        <4>2. best = {r \in Of(v, "audio") : r.default}
          BY <2>1, <4>1
        <4>3. s \in best
          BY <2>5
        <4>4. s.default
          BY <4>2, <4>3
        <4>5. ~t.default
          BY <2>8, <3>4, <4>2
        <4> QED  BY <4>4, <4>5
      <3> QED  BY <3>3, <3>4
    <2> QED  BY <2>7, <2>8 DEF Sound
  <1> QED  BY <1>2, <1>3 DEF Sound

\* The streams that are chosen: a picture, and perhaps a sound.
LEMMA ChosenStreams ==
    ASSUME NEW v, Streamed(v), Acceptable(v)
    PROVE  \E s, t \in v.streams :
              /\ Picture(v) = {s} /\ s.usable /\ s.type = "video"
              /\ Kept(v) = {s, t} /\ (t = s \/ Sound(v) = {t})
              /\ \A k \in Kept(v) : k.usable
              /\ Sound(v) # {} <=> \E k \in v.streams : k.type = "audio" /\ k.usable
  <1>1. PICK s \in Picture(v) : TRUE
    BY DEF Acceptable
  <1>2. Picture(v) = {s} /\ s \in Of(v, "video")
    BY <1>1, OnePicture
  <1>3. \A k : k \in Of(v, "audio") <=> k \in v.streams /\ k.type = "audio" /\ k.usable
    BY DEF Of
  <1>4. /\ \A t \in Sound(v) : Sound(v) = {t} /\ t \in Of(v, "audio")
        /\ Of(v, "audio") # {} => Sound(v) # {}
    BY OneSound
  <1>5. Sound(v) # {} <=> \E k \in v.streams : k.type = "audio" /\ k.usable
    BY <1>3, <1>4
  <1>6. s \in v.streams /\ s.usable /\ s.type = "video"
    BY <1>2 DEF Of
  <1>7. CASE Sound(v) = {}
    BY <1>2, <1>5, <1>6, <1>7 DEF Kept
  <1>8. ASSUME NEW t \in Sound(v)
        PROVE  Kept(v) = {s, t} /\ Sound(v) = {t} /\ t \in v.streams /\ t.usable
    BY <1>2, <1>3, <1>4 DEF Kept
  <1> QED  BY <1>2, <1>5, <1>6, <1>7, <1>8

\* How long the chosen streams last, and how long the video is said to be.
LEMMA Lengths ==
    ASSUME NEW v, Streamed(v), Acceptable(v)
    PROVE  /\ Lasts(v) \in Nat /\ Lasts(v) > 0
           /\ Length(v) \in Nat /\ Length(v) =< MaxLength
           /\ Length(v) =< Lasts(v) \/ Length(v) = v.length
  <1>1. PICK s, t \in v.streams : Kept(v) = {s, t}
    BY ChosenStreams
  <1>2. PICK a, b : a = s.length /\ b = t.length
    OBVIOUS
  <1>3. a \in Nat /\ b \in Nat /\ a > 0 /\ b > 0
    BY <1>2, StreamIs
  <1>4. {x.length : x \in Kept(v)} = {a, b}
    BY <1>1, <1>2
  <1>5. Lasts(v) = IF a >= b THEN a ELSE b
    <2>1. Max({a, b}) = IF a >= b THEN a ELSE b
      BY <1>3, MaxOf
    <2>2. Lasts(v) = Max({x.length : x \in Kept(v)})
      BY DEF Lasts
    <2> QED  BY <1>4, <2>1, <2>2
  <1>6. PICK said : said = {v.length, 0} \cup {k.length : k \in {k \in Kept(v) : k.states}}
    OBVIOUS
  <1>7. v.length \in Nat
    BY DEF Streamed, VideoType
  <1>8. said \subseteq {v.length, 0, a, b}
    BY <1>1, <1>2, <1>6
  <1>9. PICK c : c = v.length
    OBVIOUS
  <1>10. said \subseteq Nat /\ said # {} /\ \A n \in said : n =< c + a + b
    <2>1. c \in Nat
      BY <1>7, <1>9
    <2>2. 0 =< c + a + b /\ c =< c + a + b /\ a =< c + a + b /\ b =< c + a + b
      BY <1>3, <2>1
    <2> QED  BY <1>3, <1>6, <1>8, <1>9, <2>1, <2>2
  <1>11. c + a + b \in Nat
    BY <1>3, <1>7, <1>9
  <1>12. PICK m \in said : \A n \in said : n =< m
    BY <1>10, <1>11, Bounded
  <1>13. Max(said) = m
    <2>1. said \subseteq Int
      BY <1>10
    <2> QED  BY <1>12, <2>1, Largest
  <1>14. Length(v) = m
    BY <1>6, <1>13 DEF Length
  <1>15. m \in Nat /\ (m = c \/ m = 0 \/ m = a \/ m = b)
    BY <1>8, <1>9, <1>10
  <1>16. Length(v) =< MaxLength
    BY DEF Acceptable
  <1>17. m = 0 => m =< Lasts(v)
    BY <1>3, <1>5
  <1>18. m = a \/ m = b => m =< Lasts(v)
    BY <1>3, <1>5
  <1> QED  BY <1>3, <1>5, <1>9, <1>14, <1>15, <1>16, <1>17, <1>18

-----------------------------------------------------------------------------
(* The size of the output.                                                 *)

LEMMA EvenIs ==
    ASSUME NEW n \in Nat, NEW p \in Nat, NEW q \in Nat, q > 0
    PROVE  /\ Even(n, p, q) \in Nat /\ Even(n, p, q) > 0 /\ Even(n, p, q) % 2 = 0
           /\ \A limit \in Nat : 2 =< limit /\ n * p =< q * limit => Even(n, p, q) =< limit
  <1>1. PICK x, y, d : x = n * p /\ y = 2 * q /\ d = x \div y
    OBVIOUS
  <1>2. x \in Nat /\ y \in Nat /\ y > 0
    BY <1>1
  <1>3. d \in Nat /\ y * d =< x
    BY <1>1, <1>2, Division
  <1>4. Even(n, p, q) = IF 2 >= 2 * d THEN 2 ELSE 2 * d
    <2>1. 2 * d \in Int
      BY <1>3
    <2>2. Max({2, 2 * d}) = IF 2 >= 2 * d THEN 2 ELSE 2 * d
      BY <2>1, MaxOf
    <2> QED  BY <1>1, <2>2 DEF Even
  <1>5. ASSUME NEW limit \in Nat, 2 =< limit, x =< q * limit
        PROVE  2 * d =< limit
    <2>1. 2 * (q * d) =< q * limit
      BY <1>1, <1>3, <1>5
    <2> SUFFICES ASSUME limit < 2 * d
                 PROVE  FALSE
      BY <1>3
    <2>2. limit + 1 =< 2 * d
      BY <1>3
    <2>3. q * (limit + 1) =< q * (2 * d)
      BY <1>3, <2>2
    <2>4. q * (limit + 1) = q * limit + q /\ q * (2 * d) = 2 * (q * d)
      BY <1>3
    <2>5. q * limit \in Nat /\ q * d \in Nat
      BY <1>3
    <2> QED  BY <2>1, <2>3, <2>4, <2>5
  <1>6. (2 * d) % 2 = 0 /\ 2 % 2 = 0
    BY <1>3
  <1> QED  BY <1>1, <1>3, <1>4, <1>5, <1>6

\* Whatever the size of a picture, its output has one that may be published.
LEMMA ScaledFits ==
    ASSUME NEW w \in Nat, NEW h \in Nat, w > 0, h > 0
    PROVE  /\ Scaled(w, h)[1] \in Nat /\ Scaled(w, h)[1] > 0 /\ Scaled(w, h)[1] % 2 = 0
           /\ Scaled(w, h)[2] \in Nat /\ Scaled(w, h)[2] > 0 /\ Scaled(w, h)[2] % 2 = 0
           /\ Scaled(w, h)[1] =< Width /\ Scaled(w, h)[2] =< Height
  <1>1. Width \in Nat /\ Height \in Nat /\ Width >= 2 /\ Height >= 2
    BY MediaAssumption
  <1>2. ASSUME NEW p \in Nat, NEW q \in Nat, q > 0, Factor(w, h) = <<p, q>>,
               w * p =< q * Width, h * p =< q * Height
        PROVE  /\ Scaled(w, h)[1] \in Nat /\ Scaled(w, h)[1] > 0 /\ Scaled(w, h)[1] % 2 = 0
               /\ Scaled(w, h)[2] \in Nat /\ Scaled(w, h)[2] > 0 /\ Scaled(w, h)[2] % 2 = 0
               /\ Scaled(w, h)[1] =< Width /\ Scaled(w, h)[2] =< Height
    <2>1. Scaled(w, h) = <<Even(w, p, q), Even(h, p, q)>>
      BY <1>2 DEF Scaled
    <2>2. /\ Even(w, p, q) \in Nat /\ Even(w, p, q) > 0 /\ Even(w, p, q) % 2 = 0
          /\ Even(w, p, q) =< Width
      BY <1>1, <1>2, EvenIs
    <2>3. /\ Even(h, p, q) \in Nat /\ Even(h, p, q) > 0 /\ Even(h, p, q) % 2 = 0
          /\ Even(h, p, q) =< Height
      BY <1>1, <1>2, EvenIs
    <2> QED  BY <2>1, <2>2, <2>3
  <1>3. CASE w =< Width /\ h =< Height
    <2>1. Factor(w, h) = <<1, 1>> /\ w * 1 =< 1 * Width /\ h * 1 =< 1 * Height
      BY <1>1, <1>3 DEF Factor
    <2> QED  BY <1>2, <2>1
  <1>4. CASE ~(w =< Width /\ h =< Height) /\ Width * h =< Height * w
    <2>1. Factor(w, h) = <<Width, w>>
      BY <1>4 DEF Factor
    <2>2. w * Width =< w * Width /\ h * Width =< w * Height
      BY <1>1, <1>4
    <2> QED  BY <1>1, <1>2, <2>1, <2>2
  <1>5. CASE ~(w =< Width /\ h =< Height) /\ ~(Width * h =< Height * w)
    <2>1. Factor(w, h) = <<Height, h>>
      BY <1>5 DEF Factor
    <2>2. w * Height =< h * Width /\ h * Height =< h * Height
      BY <1>1, <1>5
    <2> QED  BY <1>1, <1>2, <2>1, <2>2
  <1> QED  BY <1>3, <1>4, <1>5

-----------------------------------------------------------------------------
(* The scan of atoms.                                                      *)

\* What is assumed of an output file.
Atomic(l) ==
    /\ l \in Seq(AtomType)
    /\ \A i \in DOMAIN l : l[i].form = "rest" => i = Len(l)

LEMMA AtomIs ==
    ASSUME NEW a \in AtomType
    PROVE  /\ a.type \in {"moov", "mdat", "free"} /\ a.form \in {"short", "long", "rest"}
           /\ a.size \in Nat /\ Header(a) \in 1..2 /\ Extent(a) \in Nat /\ Extent(a) >= 1
           /\ ~Malformed(a) /\ a.form # "rest" => Extent(a) = a.size
  <1>1. a.type \in {"moov", "mdat", "free"} /\ a.form \in {"short", "long", "rest"} /\ a.size \in Nat
    BY DEF AtomType
  <1>2. Header(a) \in 1..2
    BY DEF Header
  <1>3. Extent(a) = IF a.size < Header(a) THEN Header(a) ELSE a.size
    BY DEF Extent
  <1> QED  BY <1>1, <1>2, <1>3 DEF Malformed

\* The offsets of atoms, the end of the last being one too.
Offsets(l, f) ==
    /\ f \in [1..Len(l) + 1 -> Nat] /\ f[1] = 0
    /\ \A i \in 1..Len(l) : f[i + 1] = f[i] + Extent(l[i])

LEMMA StartIs ==
    ASSUME NEW l \in Seq(AtomType)
    PROVE  Offsets(l, Start(l))
  <1>1. Len(l) \in Nat /\ DOMAIN l = 1..Len(l)
    OBVIOUS
  <1>2. PICK step : step = [n \in Nat |-> [x \in Nat |->
                              IF n + 1 \in DOMAIN l THEN x + Extent(l[n + 1]) ELSE x]]
    OBVIOUS
  <1>3. step \in [Nat -> [Nat -> Nat]]
    <2>1. ASSUME NEW n \in Nat, NEW x \in Nat
          PROVE  (IF n + 1 \in DOMAIN l THEN x + Extent(l[n + 1]) ELSE x) \in Nat
      <3>1. CASE n + 1 \in DOMAIN l
        <4>1. l[n + 1] \in AtomType
          BY <3>1
        <4>2. Extent(l[n + 1]) \in Nat
          BY <4>1, AtomIs
        <4> QED  BY <3>1, <4>2
      <3> QED  BY <3>1
    <2> QED  BY <1>2, <2>1
  <1>4. PICK g \in [Nat -> Nat] : g[0] = 0 /\ \A n \in Nat : g[n + 1] = step[n][g[n]]
    <2>1. \E g : Iterates(g, Nat, 0, step)
      BY <1>3, Recursion
    <2> QED  BY <2>1 DEF Iterates
  <1>5. PICK f : f = CHOOSE F : F = [i \in 1..Len(l) + 1 |->
                                       IF i = 1 THEN 0 ELSE F[i - 1] + Extent(l[i - 1])]
    OBVIOUS
  <1>6. f = [i \in 1..Len(l) + 1 |-> IF i = 1 THEN 0 ELSE f[i - 1] + Extent(l[i - 1])]
    <2>1. PICK h : h = [i \in 1..Len(l) + 1 |-> g[i - 1]]
      OBVIOUS
    <2>2. ASSUME NEW i \in 1..Len(l) + 1
          PROVE  h[i] = IF i = 1 THEN 0 ELSE h[i - 1] + Extent(l[i - 1])
      <3>1. CASE i = 1
        BY <1>4, <2>1, <3>1
      <3>2. CASE i # 1
        <4>1. i - 2 \in Nat /\ (i - 2) + 1 = i - 1 /\ i - 1 \in DOMAIN l /\ i - 1 \in 1..Len(l) + 1
              /\ (i - 1) - 1 = i - 2
          BY <1>1, <3>2
        <4>2. g[i - 1] = step[i - 2][g[i - 2]] /\ g[i - 2] \in Nat
          BY <1>4, <4>1
        <4>3. g[i - 1] = g[i - 2] + Extent(l[i - 1])
          BY <1>2, <4>1, <4>2
        <4>4. h[i] = g[i - 1] /\ h[i - 1] = g[i - 2]
          BY <2>1, <4>1
        <4> QED  BY <3>2, <4>3, <4>4
      <3> QED  BY <3>1, <3>2
    <2>3. h = [i \in 1..Len(l) + 1 |-> IF i = 1 THEN 0 ELSE h[i - 1] + Extent(l[i - 1])]
      BY <2>1, <2>2
    <2> QED  BY <1>5, <2>3
  <1>7. Start(l) = f
    BY <1>5 DEF Start
  <1>8. f[1] = 0 /\ \A i \in 1..Len(l) : f[i + 1] = f[i] + Extent(l[i])
    <2>1. 1 \in 1..Len(l) + 1
      BY <1>1
    <2>2. ASSUME NEW i \in 1..Len(l)
          PROVE  f[i + 1] = f[i] + Extent(l[i])
      <3>1. i + 1 \in 1..Len(l) + 1 /\ i + 1 # 1 /\ (i + 1) - 1 = i
        BY <1>1
      <3> QED  BY <1>6, <3>1
    <2> QED  BY <1>6, <2>1, <2>2
  <1>9. PICK G : G = {n \in Nat : n + 1 \in 1..Len(l) + 1 => f[n + 1] \in Nat}
    OBVIOUS
  <1>10. 0 \in G
    BY SMTT(30), <1>8, <1>9
  <1>11. ASSUME NEW n \in Nat, n \in G
         PROVE  n + 1 \in G
    <2> SUFFICES ASSUME (n + 1) + 1 \in 1..Len(l) + 1
                 PROVE  f[(n + 1) + 1] \in Nat
      BY <1>9
    <2>1. n + 1 \in 1..Len(l) /\ n + 1 \in 1..Len(l) + 1
      <3>1. PICK k : k = Len(l)
        OBVIOUS
      <3>2. k \in Nat /\ (n + 1) + 1 \in 1..(k + 1)
        BY <1>1, <3>1
      <3>3. n + 1 \in 1..k /\ n + 1 \in 1..(k + 1)
        BY ONLY n \in Nat, <3>2
      <3> QED  BY <3>1, <3>3
    <2>2. f[n + 1] \in Nat
      BY <1>9, <1>11, <2>1
    <2>3. l[n + 1] \in AtomType
      BY <2>1
    <2>4. Extent(l[n + 1]) \in Nat
      BY <2>3, AtomIs
    <2>5. f[(n + 1) + 1] = f[n + 1] + Extent(l[n + 1])
      BY <1>8, <2>1
    <2>6. f[n + 1] + Extent(l[n + 1]) \in Nat
      <3>1. PICK x, y : x = f[n + 1] /\ y = Extent(l[n + 1])
        OBVIOUS
      <3>2. x \in Nat /\ y \in Nat
        BY <2>2, <2>4, <3>1, Zenon
      <3>3. x + y \in Nat
        BY ONLY <3>2
      <3> QED  BY <3>1, <3>3, Zenon
    <2> QED  BY <2>5, <2>6, Zenon
  <1>12. \A i \in 1..Len(l) + 1 : f[i] \in Nat
    <2>1. ASSUME NEW i \in 1..Len(l) + 1
          PROVE  f[i] \in Nat
      <3>1. i - 1 \in Nat /\ (i - 1) + 1 = i
        BY <1>1
      <3>2. i - 1 \in G
        BY <1>10, <1>11, <3>1, Induct
      <3> QED  BY <1>9, <3>1, <3>2
    <2> QED  BY <2>1
  <1>13. f \in [1..Len(l) + 1 -> Nat]
    BY <1>6, <1>12
  <1> QED  BY <1>7, <1>8, <1>13 DEF Offsets

\* An atom begins before the later ones, and before the end.
LEMMA StartsApart ==
    ASSUME NEW l \in Seq(AtomType), NEW f, Offsets(l, f)
    PROVE  \A i, j \in 1..Len(l) + 1 : i < j => f[i] < f[j]
  <1>1. Len(l) \in Nat
    OBVIOUS
  <1> SUFFICES ASSUME NEW i \in 1..Len(l) + 1
               PROVE  \A j \in 1..Len(l) + 1 : i < j => f[i] < f[j]
    OBVIOUS
  <1>2. PICK G : G = {n \in Nat : n \in 1..Len(l) + 1 /\ i < n => f[i] < f[n]}
    OBVIOUS
  <1>3. 0 \in G
    BY <1>1, <1>2
  <1>4. ASSUME NEW n \in Nat, n \in G
        PROVE  n + 1 \in G
    <2> SUFFICES ASSUME n + 1 \in 1..Len(l) + 1, i < n + 1
                 PROVE  f[i] < f[n + 1]
      BY <1>2
    <2>1. n \in 1..Len(l) /\ n \in 1..Len(l) + 1
      BY <1>1
    <2>2. l[n] \in AtomType
      BY <2>1
    <2>3. Extent(l[n]) \in Nat /\ Extent(l[n]) >= 1
      BY <2>2, AtomIs
    <2>4. f[n + 1] = f[n] + Extent(l[n]) /\ f[n] \in Nat /\ f[i] \in Nat
      BY <2>1 DEF Offsets
    <2>5. i = n \/ f[i] < f[n]
      BY <1>2, <1>4, <2>1
    <2>6. f[i] =< f[n]
      BY <2>4, <2>5
    <2> QED  BY <2>3, <2>4, <2>6
  <1>5. Nat \subseteq G
    BY <1>3, <1>4, Induct
  <1> QED  BY <1>1, <1>2, <1>5

\* From the offset of an atom that is not malformed, the scan seeks to the next one's.
LEMMA NextAtom ==
    ASSUME NEW l, Atomic(l), NEW i \in DOMAIN l, ~Malformed(l[i])
    PROVE  Start(l)[i] + AfterAtom(l[i], l, Start(l)[i]) = Start(l)[i + 1]
  <1>1. Len(l) \in Nat /\ DOMAIN l = 1..Len(l)
    BY DEF Atomic
  <1>2. PICK f : f = Start(l)
    OBVIOUS
  <1>3. Offsets(l, f)
    BY <1>2, StartIs DEF Atomic
  <1>4. /\ f[i] \in Nat /\ f[i + 1] \in Nat /\ f[Len(l) + 1] \in Nat
        /\ f[i + 1] = f[i] + Extent(l[i])
    BY <1>1, <1>3 DEF Offsets
  <1>5. l[i] \in AtomType
    BY <1>1 DEF Atomic
  <1>6. CASE l[i].form = "rest"
    <2>1. i = Len(l)
      BY <1>6 DEF Atomic
    <2>2. AfterAtom(l[i], l, f[i]) = f[Len(l) + 1] - f[i]
      BY <1>2, <1>6 DEF AfterAtom, Total
    <2> QED  BY <1>2, <1>4, <2>1, <2>2
  <1>7. CASE l[i].form # "rest"
    <2>1. AfterAtom(l[i], l, f[i]) = Extent(l[i])
      BY <1>5, <1>7, AtomIs DEF AfterAtom
    <2> QED  BY <1>2, <1>4, <2>1
  <1> QED  BY <1>6, <1>7

\* What may have been seen before an offset, by what may have been seen before later ones.
Sees(l, g, o) ==
    {seen \in Marks : \E i \in {i \in DOMAIN l : Start(l)[i] = o} :
       /\ ~Malformed(l[i])
       /\ IF {l[i].type, seen} = {"moov", "mdat"} THEN seen = "moov"
          ELSE /\ o + AfterAtom(l[i], l, o) =< Total(l)
               /\ (IF l[i].type = "free" THEN seen ELSE l[i].type)
                    \in g[o + AfterAtom(l[i], l, o)]}

\* The same at an atom: what the scan makes of it, and of the rest.
LEMMA SeesAt ==
    ASSUME NEW l, Atomic(l), NEW i \in DOMAIN l, NEW g
    PROVE  /\ Start(l)[i] \in 0..Total(l) /\ Start(l)[i + 1] \in 0..Total(l)
           /\ Start(l)[i] < Start(l)[i + 1]
           /\ \A seen \in Marks : seen \in Sees(l, g, Start(l)[i]) <=>
                /\ ~Malformed(l[i])
                /\ IF {l[i].type, seen} = {"moov", "mdat"} THEN seen = "moov"
                   ELSE (IF l[i].type = "free" THEN seen ELSE l[i].type) \in g[Start(l)[i + 1]]
  <1>1. Len(l) \in Nat /\ DOMAIN l = 1..Len(l) /\ l \in Seq(AtomType)
    BY DEF Atomic
  <1>2. PICK f : f = Start(l)
    OBVIOUS
  <1>3. Offsets(l, f)
    BY <1>1, <1>2, StartIs
  <1>4. f[i] \in Nat /\ f[i + 1] \in Nat /\ f[Len(l) + 1] \in Nat
    BY <1>1, <1>3 DEF Offsets
  <1>5. \A m, n \in 1..Len(l) + 1 : m < n => f[m] < f[n]
    BY <1>1, <1>3, StartsApart
  <1>6. Total(l) = f[Len(l) + 1]
    BY <1>2 DEF Total
  <1>7. f[i] < f[i + 1] /\ f[i + 1] =< f[Len(l) + 1] /\ f[i] =< f[Len(l) + 1]
    <2>1. i \in 1..Len(l) + 1 /\ i + 1 \in 1..Len(l) + 1 /\ Len(l) + 1 \in 1..Len(l) + 1
          /\ i < i + 1 /\ (i + 1 = Len(l) + 1 \/ i + 1 < Len(l) + 1)
      BY <1>1
    <2>2. f[i] < f[i + 1] /\ (i + 1 = Len(l) + 1 \/ f[i + 1] < f[Len(l) + 1])
      BY <1>5, <2>1
    <2>3. f[i + 1] =< f[Len(l) + 1]
      BY <1>4, <2>2
    <2> QED  BY <1>4, <2>2, <2>3
  <1>8. {j \in DOMAIN l : f[j] = f[i]} = {i}
    <2>1. ASSUME NEW j \in DOMAIN l, f[j] = f[i]
          PROVE  j = i
      <3>1. i \in 1..Len(l) + 1 /\ j \in 1..Len(l) + 1 /\ (j < i \/ i < j \/ i = j)
        BY <1>1
      <3>2. ~(f[i] < f[j]) /\ ~(f[j] < f[i])
        BY <1>4, <2>1
      <3> QED  BY <1>5, <3>1, <3>2
    <2> QED  BY <2>1
  <1>9. ASSUME NEW seen \in Marks
        PROVE  seen \in Sees(l, g, f[i]) <=>
                /\ ~Malformed(l[i])
                /\ IF {l[i].type, seen} = {"moov", "mdat"} THEN seen = "moov"
                   ELSE (IF l[i].type = "free" THEN seen ELSE l[i].type) \in g[f[i + 1]]
    <2>1. seen \in Sees(l, g, f[i]) <=>
            /\ ~Malformed(l[i])
            /\ IF {l[i].type, seen} = {"moov", "mdat"} THEN seen = "moov"
               ELSE /\ f[i] + AfterAtom(l[i], l, f[i]) =< Total(l)
                    /\ (IF l[i].type = "free" THEN seen ELSE l[i].type)
                         \in g[f[i] + AfterAtom(l[i], l, f[i])]
      BY <1>2, <1>8 DEF Sees
    <2>2. ~Malformed(l[i]) => f[i] + AfterAtom(l[i], l, f[i]) = f[i + 1]
      BY <1>2, NextAtom
    <2>3. f[i + 1] =< Total(l)
      BY <1>6, <1>7
    <2> QED  BY <2>1, <2>2, <2>3
  <1>10. f[i] \in 0..Total(l) /\ f[i + 1] \in 0..Total(l)
    BY <1>4, <1>6, <1>7
  <1> QED  BY <1>2, <1>7, <1>9, <1>10

\* The scan looks ahead only.
LEMMA SeesLater ==
    ASSUME NEW l, Atomic(l), NEW o, NEW g, NEW h,
           \A p \in 0..Total(l) : p > o => g[p] = h[p]
    PROVE  Sees(l, g, o) = Sees(l, h, o)
  <1>1. CASE \E i \in DOMAIN l : Start(l)[i] = o
    <2>1. PICK i \in DOMAIN l : Start(l)[i] = o
      BY <1>1
    <2>2. g[Start(l)[i + 1]] = h[Start(l)[i + 1]]
      <3>1. Start(l)[i] < Start(l)[i + 1] /\ Start(l)[i + 1] \in 0..Total(l)
        BY SeesAt
      <3>2. Start(l)[i] \in 0..Total(l)
        BY SeesAt
      <3>3. PICK a, b : a = Start(l)[i] /\ b = Start(l)[i + 1]
        OBVIOUS
      <3>4. b > a
        <4>1. PICK t : t = Total(l)
          OBVIOUS
        <4>2. a \in 0..t /\ b \in 0..t /\ a < b
          BY <3>1, <3>2, <3>3, <4>1
        <4> QED  BY ONLY <4>2
      <3> QED  BY <2>1, <3>1, <3>3, <3>4
    <2>3. \A seen \in Marks : seen \in Sees(l, g, o) <=> seen \in Sees(l, h, o)
      <3>1. /\ \A seen \in Marks : seen \in Sees(l, g, o) <=>
                /\ ~Malformed(l[i])
                /\ IF {l[i].type, seen} = {"moov", "mdat"} THEN seen = "moov"
                   ELSE (IF l[i].type = "free" THEN seen ELSE l[i].type) \in g[Start(l)[i + 1]]
            /\ \A seen \in Marks : seen \in Sees(l, h, o) <=>
                /\ ~Malformed(l[i])
                /\ IF {l[i].type, seen} = {"moov", "mdat"} THEN seen = "moov"
                   ELSE (IF l[i].type = "free" THEN seen ELSE l[i].type) \in h[Start(l)[i + 1]]
        BY <2>1, SeesAt
      <3> QED  BY <2>2, <3>1
    <2>4. Sees(l, g, o) \subseteq Marks /\ Sees(l, h, o) \subseteq Marks
      BY DEF Sees
    <2> QED  BY <2>3, <2>4
  <1>2. CASE ~\E i \in DOMAIN l : Start(l)[i] = o
    BY <1>2 DEF Sees
  <1> QED  BY <1>1, <1>2

\* The recursion of the scan has a solution, since it looks ahead only.
LEMMA ScanIs ==
    ASSUME NEW l, Atomic(l)
    PROVE  \E scan :
              /\ \A o \in 0..Total(l) : scan[o] = Sees(l, scan, o)
              /\ HasFaststart(l) <=> "none" \in scan[0]
  <1>1. PICK t : t = Total(l)
    OBVIOUS
  <1>2. t \in Nat
    <2>1. Len(l) \in Nat /\ l \in Seq(AtomType)
      BY DEF Atomic
    <2>2. PICK f : f = Start(l)
      OBVIOUS
    <2>3. Offsets(l, f) /\ Len(l) + 1 \in 1..Len(l) + 1
      BY <2>1, <2>2, StartIs
    <2> QED  BY <1>1, <2>2, <2>3 DEF Offsets, Total
  <1>3. PICK Z : Z = [0..t -> SUBSET Marks]
    OBVIOUS
  <1>4. PICK step : step = [n \in Nat |-> [g \in Z |-> [o \in 0..t |-> Sees(l, g, o)]]]
    OBVIOUS
  <1>5. step \in [Nat -> [Z -> Z]]
    <2>1. \A g \in Z : [o \in 0..t |-> Sees(l, g, o)] \in Z
      BY <1>3 DEF Sees
    <2> QED  BY <1>4, <2>1
  <1>6. PICK z : z = [o \in 0..t |-> {}]
    OBVIOUS
  <1>7. z \in Z
    BY <1>3, <1>6
  <1>8. PICK f \in [Nat -> Z] : f[0] = z /\ \A n \in Nat : f[n + 1] = step[n][f[n]]
    <2>1. \E f : Iterates(f, Z, z, step)
      BY <1>5, <1>7, Recursion
    <2> QED  BY <2>1 DEF Iterates
  <1>9. \A n \in Nat : \A o \in 0..t : f[n + 1][o] = Sees(l, f[n], o)
    BY ZenonT(40), <1>4, <1>8
  <1>10. PICK G : G = {n \in Nat : \A o \in 0..t : t - o < n => f[n + 1][o] = f[n][o]}
    OBVIOUS
  <1>11. 0 \in G
    BY <1>2, <1>10
  <1>12. ASSUME NEW n \in Nat, n \in G
         PROVE  n + 1 \in G
    <2>1. ASSUME NEW o \in 0..t, t - o < n + 1
          PROVE  f[(n + 1) + 1][o] = f[n + 1][o]
      <3>1. \A p \in 0..Total(l) : p > o => f[n + 1][p] = f[n][p]
        <4>1. \A p \in 0..t : p > o => t - p < n
          BY <1>2, <2>1
        <4> QED  BY <1>1, <1>10, <1>12, <4>1
      <3>2. Sees(l, f[n + 1], o) = Sees(l, f[n], o)
        <4>1. PICK g, h : g = f[n + 1] /\ h = f[n]
          OBVIOUS
        <4>2. \A p \in 0..Total(l) : p > o => g[p] = h[p]
          BY <3>1, <4>1
        <4> QED  BY <4>1, <4>2, SeesLater
      <3>3. n + 1 \in Nat
        OBVIOUS
      <3> QED  BY <1>9, <3>2, <3>3
    <2> QED  BY <1>10, <2>1
  <1>13. PICK scan : scan = f[t + 1]
    OBVIOUS
  <1>14. ASSUME NEW o \in 0..t
         PROVE  scan[o] = Sees(l, scan, o)
    <2>1. t + 1 \in Nat /\ t - o < t + 1
      BY <1>2
    <2>2. t + 1 \in G
      BY <1>11, <1>12, <2>1, Induct
    <2>3. f[(t + 1) + 1][o] = f[t + 1][o]
      BY <1>10, <2>1, <2>2
    <2> QED  BY <1>9, <1>13, <2>1, <2>3
  <1>15. scan = [o \in 0..t |-> Sees(l, scan, o)]
    <2>1. scan \in Z
      BY <1>2, <1>8, <1>13
    <2> QED  BY <1>3, <1>14, <2>1
  <1>16. PICK K : K = CHOOSE F : F = [o \in 0..t |-> Sees(l, F, o)]
    OBVIOUS
  <1>17. K = [o \in 0..t |-> Sees(l, K, o)]
    BY <1>15, <1>16
  <1>18. HasFaststart(l) <=> "none" \in K[0]
    BY <1>1, <1>16, Zenon DEF HasFaststart, Sees
  <1> QED  BY <1>1, <1>17, <1>18

\* From the atom i on, an mdat comes that no malformed atom and no other mdat precedes, but
\* a moov does, or did.
Found(l, i, seen) ==
    /\ seen # "mdat"
    /\ \E n \in DOMAIN l :
         /\ n >= i /\ l[n].type = "mdat"
         /\ \A j \in i..n : ~Malformed(l[j])
         /\ \A j \in i..(n - 1) : l[j].type # "mdat"
         /\ seen = "moov" \/ \E m \in i..(n - 1) : l[m].type = "moov"

\* Looking for it from one atom to the next.
LEMMA FoundStep ==
    ASSUME NEW l, Atomic(l), NEW i \in DOMAIN l, NEW seen \in Marks
    PROVE  Found(l, i, seen) <=>
             /\ ~Malformed(l[i])
             /\ IF {l[i].type, seen} = {"moov", "mdat"} THEN seen = "moov"
                ELSE Found(l, i + 1, IF l[i].type = "free" THEN seen ELSE l[i].type)
  <1>1. Len(l) \in Nat /\ DOMAIN l = 1..Len(l) /\ i \in Nat
    BY DEF Atomic
  <1>2. l[i].type \in {"moov", "mdat", "free"}
    <2>1. l[i] \in AtomType
      BY DEF Atomic
    <2> QED  BY <2>1, AtomIs
  <1>3. /\ \A n \in DOMAIN l : n >= i <=> n = i \/ n >= i + 1
        /\ \A n \in DOMAIN l : n >= i + 1 =>
             /\ \A j : j \in i..n <=> j = i \/ j \in (i + 1)..n
             /\ \A j : j \in i..(n - 1) <=> j = i \/ j \in (i + 1)..(n - 1)
        /\ i..i = {i} /\ i..(i - 1) = {}
    BY <1>1
  <1>4. CASE seen = "mdat"
    <2>1. ~Found(l, i, seen) /\ ~Found(l, i + 1, "mdat")
      BY <1>4 DEF Found
    <2> QED  BY <1>2, <1>4, <2>1
  <1>5. CASE l[i].type = "mdat" /\ seen = "none"
    <2>1. ~Found(l, i + 1, "mdat")
      BY DEF Found
    <2>2. ~Found(l, i, seen)
      BY <1>3, <1>5 DEF Found
    <2> QED  BY <1>5, <2>1, <2>2
  <1>6. CASE l[i].type = "mdat" /\ seen = "moov"
    <2>1. Found(l, i, seen) => ~Malformed(l[i])
      BY <1>3, <1>6 DEF Found
    <2>2. ~Malformed(l[i]) => Found(l, i, seen)
      BY <1>3, <1>6 DEF Found
    <2> QED  BY <1>6, <2>1, <2>2
  <1>7. CASE l[i].type # "mdat" /\ seen # "mdat"
    <2>1. PICK then : then = IF l[i].type = "free" THEN seen ELSE l[i].type
      OBVIOUS
    <2>2. then # "mdat"
      BY <1>7, <2>1
    <2>3. ASSUME Found(l, i, seen)
          PROVE  ~Malformed(l[i]) /\ Found(l, i + 1, then)
      <3>1. PICK n \in DOMAIN l :
              /\ n >= i /\ l[n].type = "mdat"
              /\ \A j \in i..n : ~Malformed(l[j])
              /\ \A j \in i..(n - 1) : l[j].type # "mdat"
              /\ seen = "moov" \/ \E m \in i..(n - 1) : l[m].type = "moov"
        BY <2>3 DEF Found
      <3>2. n >= i + 1
        BY <1>3, <1>7, <3>1
      <3>3. then = "moov" \/ \E m \in (i + 1)..(n - 1) : l[m].type = "moov"
        BY <1>2, <1>3, <1>7, <2>1, <3>1, <3>2
      <3> QED  BY <1>3, <2>2, <3>1, <3>2, <3>3 DEF Found
    <2>4. ASSUME ~Malformed(l[i]), Found(l, i + 1, then)
          PROVE  Found(l, i, seen)
      <3>1. PICK n \in DOMAIN l :
              /\ n >= i + 1 /\ l[n].type = "mdat"
              /\ \A j \in (i + 1)..n : ~Malformed(l[j])
              /\ \A j \in (i + 1)..(n - 1) : l[j].type # "mdat"
              /\ then = "moov" \/ \E m \in (i + 1)..(n - 1) : l[m].type = "moov"
        BY <2>4 DEF Found
      <3>2. seen = "moov" \/ \E m \in i..(n - 1) : l[m].type = "moov"
        BY <1>2, <1>3, <1>7, <2>1, <3>1
      <3> QED  BY <1>3, <1>7, <2>4, <3>1, <3>2 DEF Found
    <2>5. {l[i].type, seen} # {"moov", "mdat"}
      BY <1>7
    <2> QED  BY <2>1, <2>3, <2>4, <2>5
  <1> QED  BY <1>2, <1>4, <1>5, <1>6, <1>7 DEF Marks

\* The scan succeeds from an atom just when what it looks for comes.
LEMMA ScanFinds ==
    ASSUME NEW l, Atomic(l), NEW scan, \A o \in 0..Total(l) : scan[o] = Sees(l, scan, o)
    PROVE  \A seen \in Marks : seen \in scan[Start(l)[1]] <=> Found(l, 1, seen)
  <1>1. Len(l) \in Nat /\ DOMAIN l = 1..Len(l) /\ l \in Seq(AtomType)
    BY DEF Atomic
  <1>2. PICK G : G = {n \in Nat : n =< Len(l) =>
                        \A seen \in Marks :
                          seen \in scan[Start(l)[Len(l) + 1 - n]] <=> Found(l, Len(l) + 1 - n, seen)}
    OBVIOUS
  <1>3. 0 \in G
    <2>1. Len(l) + 1 - 0 = Len(l) + 1
      BY <1>1
    <2>2. \A seen : ~Found(l, Len(l) + 1, seen)
      BY <1>1 DEF Found
    <2>3. scan[Start(l)[Len(l) + 1]] = {}
      <3>1. PICK t : t = Total(l)
        OBVIOUS
      <3>2. \A i \in DOMAIN l : Start(l)[i] # t
        <4>1. ASSUME NEW i \in DOMAIN l
              PROVE  Start(l)[i] # t
          <5>1. PICK a, b : a = Start(l)[i] /\ b = Start(l)[i + 1]
            OBVIOUS
          <5>2. a \in 0..t /\ b \in 0..t /\ a < b
            BY <3>1, <5>1, SeesAt
          <5>3. a # t
            BY ONLY <5>2
          <5> QED  BY <5>1, <5>3
        <4> QED  BY <4>1
      <3>3. Sees(l, scan, t) = {}
        BY <3>2 DEF Sees
      <3>4. t = Start(l)[Len(l) + 1]
        BY <3>1 DEF Total
      <3>5. t \in 0..t
        <4>1. PICK f : f = Start(l)
          OBVIOUS
        <4>2. Offsets(l, f) /\ Len(l) + 1 \in 1..Len(l) + 1
          BY <1>1, <4>1, StartIs
        <4>3. t \in Nat
          BY <3>4, <4>1, <4>2 DEF Offsets
        <4> QED  BY ONLY <4>3
      <3> QED  BY <3>1, <3>3, <3>4, <3>5
    <2> QED  BY <1>2, <2>1, <2>2, <2>3
  <1>4. ASSUME NEW n \in Nat, n \in G
        PROVE  n + 1 \in G
    <2> SUFFICES ASSUME n + 1 =< Len(l), NEW seen \in Marks
                 PROVE  seen \in scan[Start(l)[Len(l) + 1 - (n + 1)]] <=>
                          Found(l, Len(l) + 1 - (n + 1), seen)
      BY <1>2
    <2>1. PICK i : i = Len(l) + 1 - (n + 1)
      OBVIOUS
    <2>2. i \in DOMAIN l /\ i + 1 = Len(l) + 1 - n /\ n =< Len(l)
      BY <1>1, <2>1
    <2>3. \A s \in Marks : s \in scan[Start(l)[i + 1]] <=> Found(l, i + 1, s)
      BY <1>2, <1>4, <2>2
    <2>4. scan[Start(l)[i]] = Sees(l, scan, Start(l)[i])
      BY <2>2, SeesAt
    <2>5. seen \in Sees(l, scan, Start(l)[i]) <=>
            /\ ~Malformed(l[i])
            /\ IF {l[i].type, seen} = {"moov", "mdat"} THEN seen = "moov"
               ELSE (IF l[i].type = "free" THEN seen ELSE l[i].type) \in scan[Start(l)[i + 1]]
      BY <2>2, SeesAt
    <2>6. (IF l[i].type = "free" THEN seen ELSE l[i].type) \in Marks
      <3>1. l[i] \in AtomType
        BY <1>1, <2>2
      <3> QED  BY <3>1, AtomIs DEF Marks
    <2>7. seen \in scan[Start(l)[i]] <=> Found(l, i, seen)
      BY ZenonT(40), <2>2, <2>3, <2>4, <2>5, <2>6, FoundStep
    <2> QED  BY <2>1, <2>7
  <1>5. Len(l) \in G
    BY <1>1, <1>3, <1>4, Induct
  <1>6. Len(l) + 1 - Len(l) = 1 /\ Len(l) =< Len(l)
    BY <1>1
  <1> QED  BY <1>1, <1>2, <1>5, <1>6

\* What the scan says: among the atoms before a malformed one there is an mdat, and the
\* first is behind a moov.
LEMMA FaststartIs ==
    ASSUME NEW l, Atomic(l)
    PROVE  HasFaststart(l) <=> Found(l, 1, "none")
  <1>1. PICK scan :
           /\ \A o \in 0..Total(l) : scan[o] = Sees(l, scan, o)
           /\ HasFaststart(l) <=> "none" \in scan[0]
    BY ScanIs
  <1>2. \A seen \in Marks : seen \in scan[Start(l)[1]] <=> Found(l, 1, seen)
    BY <1>1, ScanFinds
  <1>3. Start(l)[1] = 0
    BY StartIs DEF Atomic, Offsets
  <1> QED  BY <1>1, <1>2, <1>3 DEF Marks

LEMMA FaststartRight ==
    ASSUME NEW l, Atomic(l), NEW good, good = {i \in DOMAIN l : \A j \in 1..i : ~Malformed(l[j])}
    PROVE  HasFaststart(l) <=>
             \E i, j \in good :
               /\ l[i].type = "moov" /\ \A k \in good : l[k].type = "moov" => i =< k
               /\ l[j].type = "mdat" /\ \A k \in good : l[k].type = "mdat" => j =< k
               /\ i < j
  <1>1. DOMAIN l \subseteq Nat /\ Len(l) \in Nat /\ DOMAIN l = 1..Len(l)
    BY DEF Atomic
  <1>2. ASSUME NEW i \in good, NEW j \in good,
               l[i].type = "moov", l[j].type = "mdat", i < j,
               \A k \in good : l[k].type = "mdat" => j =< k
        PROVE  Found(l, 1, "none")
    <2>1. j \in DOMAIN l /\ i \in DOMAIN l /\ \A k \in 1..j : ~Malformed(l[k])
      OBVIOUS
    <2>2. i \in 1..(j - 1)
      BY <1>1, <1>2, <2>1
    <2>3. ASSUME NEW k \in 1..(j - 1)
          PROVE  l[k].type # "mdat"
      <3>1. k \in DOMAIN l /\ ~(j =< k) /\ \A m \in 1..k : m \in 1..j
        BY <1>1, <2>1
      <3>2. k \in good
        BY <2>1, <3>1
      <3> QED  BY <1>2, <3>1, <3>2
    <2> QED  BY SMTT(30), <1>1, <1>2, <2>1, <2>2, <2>3 DEF Found
  <1>3. ASSUME Found(l, 1, "none")
        PROVE  \E i, j \in good :
                 /\ l[i].type = "moov" /\ \A k \in good : l[k].type = "moov" => i =< k
                 /\ l[j].type = "mdat" /\ \A k \in good : l[k].type = "mdat" => j =< k
                 /\ i < j
    <2>1. PICK n \in DOMAIN l :
            /\ l[n].type = "mdat"
            /\ \A j \in 1..n : ~Malformed(l[j])
            /\ \A j \in 1..(n - 1) : l[j].type # "mdat"
            /\ \E m \in 1..(n - 1) : l[m].type = "moov"
      BY <1>3 DEF Found
    <2>2. PICK m \in 1..(n - 1) : l[m].type = "moov"
      BY <2>1
    <2>3. n \in good
      BY <2>1
    <2>4. m \in good /\ m < n
      <3>1. m \in DOMAIN l /\ m < n /\ \A j \in 1..m : j \in 1..n
        BY <1>1
      <3> QED  BY <2>1, <3>1
    <2>5. PICK M : M = {k \in good : l[k].type = "moov"}
      OBVIOUS
    <2>6. PICK i \in M : \A k \in M : i =< k
      <3>1. M \subseteq Nat /\ M # {}
        BY <1>1, <2>2, <2>4, <2>5
      <3> QED  BY <3>1, Least
    <2>7. i \in good /\ l[i].type = "moov" /\ i < n
      <3>1. i \in good /\ l[i].type = "moov" /\ i =< m
        BY <2>2, <2>4, <2>5, <2>6
      <3>2. i \in Nat /\ m \in Nat /\ n \in Nat
        BY <1>1, <2>4, <3>1
      <3> QED  BY <2>4, <3>1, <3>2
    <2>8. ASSUME NEW k \in good, l[k].type = "mdat"
          PROVE  n =< k
      <3>1. k \in DOMAIN l /\ k \notin 1..(n - 1)
        BY <2>1, <2>8
      <3> QED  BY <1>1, <3>1
    <2> QED  BY <2>1, <2>3, <2>5, <2>6, <2>7, <2>8
  <1> QED  BY <1>2, <1>3, FaststartIs

-----------------------------------------------------------------------------
(* The inductive invariant of the preparation.                             *)

\* What ffmpeg may have written when it was given the video v.
Wrote(v, o) ==
    \E layout \in Layouts, loss \in 0..1, conforms \in BOOLEAN :
      o = [size |-> <<Asked(v).w, Asked(v).h>>, rate |-> Asked(v).rate,
           sound |-> Asked(v).sound,
           length |-> Max({0, Asked(v).length - loss * (Tolerance + 1)}),
           bytes |-> OutputBytes, conforms |-> conforms, layout |-> layout,
           faithful |-> loss = 0 /\ conforms]

\* A staged file is one of the request's, and a staged video was accepted.
Checked(s) == s.kind = "video" => Streamed(s.file.video) /\ Acceptable(s.file.video)

StagedType == [file : FileType, kind : {"image", "video"}]

MInv ==
    /\ upload \in Uploads
    /\ next \in Nat \ {0}
    /\ at \in {"spooling", "identifying"} => next =< Len(upload)
    /\ written \in Nat /\ total \in Nat
    /\ SpoolBounded
    /\ sources \in Seq(StagedType) /\ \A i \in DOMAIN sources : Checked(sources[i])
    /\ at = "probing" =>
         /\ next \in DOMAIN sources /\ Source.kind = "video"
         /\ Wrote(Source.file.video, output)

\* The file of the request that is at hand.
LEMMA FileAtHand ==
    ASSUME MInv, at \in {"spooling", "identifying"}
    PROVE  /\ File \in FileType /\ File.bytes \in Nat /\ Streamed(File.video)
           /\ upload \in Seq(FileType) /\ next \in DOMAIN upload
  <1>1. upload \in Seq(FileType) /\ upload \in Uploads
    BY UploadsAssumption DEF MInv
  <1>2. next \in DOMAIN upload
    BY <1>1 DEF MInv
  <1>3. File \in FileType
    BY <1>1, <1>2 DEF File
  <1>4. File.bytes \in Nat /\ File.video \in VideoType
    BY <1>3 DEF FileType
  <1>5. Streamed(File.video)
    BY <1>1, <1>2, <1>4, UploadsAssumption DEF Streamed, File
  <1> QED  BY <1>1, <1>2, <1>3, <1>4, <1>5

LEMMA MInvInit == MediaInit => MInv
  <1> SUFFICES ASSUME MediaInit
               PROVE  MInv
    OBVIOUS
  <1>1. upload \in Uploads /\ upload \in Seq(FileType) /\ upload # <<>>
    BY UploadsAssumption DEF MediaInit
  <1>2. 1 =< Len(upload)
    BY <1>1
  <1>3. SpoolBounded
    BY MediaAssumption DEF MediaInit, SpoolBounded
  <1>4. sources \in Seq(StagedType) /\ DOMAIN sources = {}
    BY DEF MediaInit
  <1> QED  BY <1>1, <1>2, <1>3, <1>4 DEF MediaInit, MInv

\* Advancing leaves a file of the request at hand, or none.
LEMMA AdvanceKeeps ==
    ASSUME MInv, at \in {"spooling", "identifying"}, Advance, UNCHANGED upload
    PROVE  /\ next' \in Nat \ {0} /\ at' # "probing"
           /\ at' \in {"spooling", "identifying"} => next' =< Len(upload')
  <1>1. Len(upload) \in Nat /\ next \in Nat
    BY FileAtHand DEF MInv
  <1> QED  BY <1>1 DEF Advance

\* A file that is staged joins those that were.
LEMMA StagedKeeps ==
    ASSUME MInv, NEW kind \in {"image", "video"}, Staged(kind), File \in FileType,
           kind = "video" => Streamed(File.video) /\ Acceptable(File.video)
    PROVE  /\ sources' \in Seq(StagedType)
           /\ \A i \in DOMAIN sources' : Checked(sources'[i])
  <1>1. PICK s : s = [file |-> File, kind |-> kind]
    OBVIOUS
  <1>2. s \in StagedType /\ Checked(s)
    BY <1>1 DEF StagedType, Checked
  <1>3. sources \in Seq(StagedType) /\ sources' = Append(sources, s)
    BY <1>1 DEF MInv, Staged
  <1>4. /\ sources' \in Seq(StagedType) /\ DOMAIN sources' = 1..(Len(sources) + 1)
        /\ \A i \in 1..Len(sources) : sources'[i] = sources[i]
        /\ sources'[Len(sources) + 1] = s
    BY <1>2, <1>3, AppendProperties
  <1>5. \A i \in DOMAIN sources' : i \in DOMAIN sources \/ i = Len(sources) + 1
    BY <1>3, <1>4
  <1>6. \A i \in DOMAIN sources : sources'[i] = sources[i]
    BY <1>3, <1>4
  <1> QED  BY <1>2, <1>4, <1>5, <1>6 DEF MInv

\* What is normalised leaves the rest as it was.
LEMMA SameUpload ==
    ASSUME MInv, UNCHANGED <<upload, counts, sources>>, next' \in Nat \ {0},
           at' \notin {"spooling", "identifying", "probing"}
    PROVE  MInv'
  BY DEF MInv, counts, SpoolBounded, Checked

LEMMA MInvStep == MInv /\ [MediaNext]_mediaVars => MInv'
  <1> SUFFICES ASSUME MInv, [MediaNext]_mediaVars
               PROVE  MInv'
    OBVIOUS
  <1>1. CASE Spool
    <2>1. /\ at = "spooling" /\ File.bytes - written > 0
          /\ UNCHANGED <<upload, next, total, pixels, sources, output, prepared>>
      BY <1>1 DEF Spool
    <2>2. PICK more : more = IF File.bytes - written < Chunk THEN File.bytes - written ELSE Chunk
      OBVIOUS
    <2>3. \/ Room(more) /\ written' = written + more /\ at' = at
          \/ at' = "refused" /\ written' = written
      BY <1>1, <2>2 DEF Spool, Refuse
    <2>4. more \in Nat
      <3>1. File.bytes \in Nat /\ written \in Nat /\ Chunk \in Nat
        BY <2>1, FileAtHand, MediaAssumption DEF MInv
      <3> QED  BY <2>1, <2>2, <3>1
    <2>5. written' \in Nat /\ SpoolBounded'
      BY <2>1, <2>3, <2>4 DEF MInv, SpoolBounded, Room
    <2>6. at' # "probing" /\ (at' \in {"spooling", "identifying"} => at = "spooling")
      BY <2>1, <2>3
    <2> QED  BY <2>1, <2>5, <2>6 DEF MInv, Checked
  <1>2. CASE Spooled
    <2>1. /\ at = "spooling" /\ written = File.bytes
          /\ UNCHANGED <<upload, pixels, sources, output, prepared>>
      BY <1>2 DEF Spooled
    <2>2. CASE File.bytes = 0
      <3>1. Advance /\ UNCHANGED <<written, total>>
        BY <1>2, <2>2 DEF Spooled
      <3>2. /\ next' \in Nat \ {0} /\ at' # "probing"
            /\ at' \in {"spooling", "identifying"} => next' =< Len(upload')
        BY <2>1, <3>1, AdvanceKeeps
      <3> QED  BY <2>1, <3>1, <3>2 DEF MInv, SpoolBounded, Checked
    <2>3. CASE File.bytes # 0
      <3>1. at' = "identifying" /\ total' = total + written /\ written' = 0 /\ next' = next
        BY <1>2, <2>3 DEF Spooled
      <3>2. total' \in Nat /\ written' \in Nat /\ SpoolBounded'
        BY <3>1, MediaAssumption DEF MInv, SpoolBounded
      <3> QED  BY <2>1, <3>1, <3>2 DEF MInv, Checked
    <2> QED  BY <2>2, <2>3
  <1>3. CASE IdentifyImage \/ IdentifyVideo
    <2>1. /\ at = "identifying"
          /\ UNCHANGED <<upload, written, total, output, prepared>>
      BY <1>3 DEF IdentifyImage, IdentifyVideo, counts
    <2>2. \/ Staged("image") /\ Advance
          \/ Acceptable(File.video) /\ Staged("video") /\ Advance
          \/ at' = "refused" /\ UNCHANGED <<sources, next>>
      BY <1>3 DEF IdentifyImage, IdentifyVideo, Refuse
    <2>3. File \in FileType /\ Streamed(File.video)
      BY <2>1, FileAtHand
    <2>4. CASE at' = "refused" /\ UNCHANGED <<sources, next>>
      BY <2>1, <2>4 DEF MInv, SpoolBounded, Checked
    <2>5. CASE Advance /\ (Staged("image") \/ (Acceptable(File.video) /\ Staged("video")))
      <3>1. /\ sources' \in Seq(StagedType)
            /\ \A i \in DOMAIN sources' : Checked(sources'[i])
        BY <2>3, <2>5, StagedKeeps
      <3>2. /\ next' \in Nat \ {0} /\ at' # "probing"
            /\ at' \in {"spooling", "identifying"} => next' =< Len(upload')
        BY <2>1, <2>5, AdvanceKeeps
      <3> QED  BY <2>1, <3>1, <3>2 DEF MInv, SpoolBounded, Checked
    <2> QED  BY <2>2, <2>4, <2>5
  <1>4. CASE NormaliseImage \/ Ready
    <2>1. /\ UNCHANGED <<upload, counts, sources>>
          /\ at' \in {"normalising", "refused", "ready"} /\ next' \in Nat \ {0}
      BY <1>4 DEF NormaliseImage, Ready, More, Refuse, MInv
    <2> QED  BY <2>1, SameUpload
  <1>5. CASE TranscodeFails
    <2>1. UNCHANGED <<upload, counts, sources, next>> /\ at' = "refused"
      BY <1>5 DEF TranscodeFails, Refuse
    <2> QED  BY <2>1, SameUpload DEF MInv
  <1>6. CASE Transcode
    <2>1. /\ UNCHANGED <<upload, next, counts, sources>> /\ at' = "probing"
          /\ next =< Len(sources) /\ Source.kind = "video"
      BY <1>6 DEF Transcode, More
    <2>2. next \in DOMAIN sources
      BY <2>1 DEF MInv
    <2>3. Wrote(Source.file.video, output')
      BY <1>6 DEF Transcode, Wrote
    <2>4. Source' = Source
      BY <2>1 DEF Source
    <2> QED  BY <2>1, <2>2, <2>3, <2>4 DEF MInv, counts, SpoolBounded, Checked
  <1>7. CASE Probe
    <2>1. /\ UNCHANGED <<upload, counts, sources>>
          /\ at' \in {"normalising", "refused"} /\ next' \in Nat \ {0}
      BY <1>7 DEF Probe, Refuse, MInv
    <2> QED  BY <2>1, SameUpload
  <1>8. CASE UNCHANGED mediaVars
    BY <1>8 DEF MInv, mediaVars, counts, SpoolBounded, Checked, Source
  <1> QED  BY <1>1, <1>2, <1>3, <1>4, <1>5, <1>6, <1>7, <1>8 DEF MediaNext

\* The invariant of the preparation of an upload.
LEMMA MediaInvariant == MediaSpec => []MInv
  BY MInvInit, MInvStep, PTL DEF MediaSpec

\* An upload takes no more of the disk than the limit, whatever its files, its chunks and
\* the limits are.
THEOREM SpoolIsBounded == MediaSpec => []SpoolBounded
  <1>1. MInv => SpoolBounded
    BY DEF MInv
  <1> QED  BY <1>1, MediaInvariant, PTL

\* What ffmpeg is asked for may be published, and is as long as it may be.
LEMMA AskedIs ==
    ASSUME NEW v, Streamed(v), Acceptable(v)
    PROVE  \E w, h, n \in Nat :
              /\ Asked(v).w = w /\ Asked(v).h = h /\ w > 0 /\ h > 0
              /\ w % 2 = 0 /\ h % 2 = 0 /\ w =< Width /\ h =< Height
              /\ Asked(v).rate \in Nat /\ Asked(v).rate =< Rate
              /\ Asked(v).sound = (Sound(v) # {})
              /\ Asked(v).length = n /\ n > 0
              /\ n = Lasts(v) \/ (n = MaxLength /\ MaxLength =< Lasts(v))
              /\ n =< MaxLength
  <1>1. PICK s \in v.streams : Picture(v) = {s} /\ s.usable /\ s.type = "video"
    BY ChosenStreams
  <1>2. (CHOOSE x \in Picture(v) : TRUE) = s
    BY <1>1
  <1>3. PICK size : size = IF s.turned THEN Scaled(s.h, s.w) ELSE Scaled(s.w, s.h)
    OBVIOUS
  <1>4. /\ Asked(v).w = size[1] /\ Asked(v).h = size[2]
        /\ Asked(v).length = IF Lasts(v) < MaxLength THEN Lasts(v) ELSE MaxLength
        /\ Asked(v).rate = IF s.rate < Rate THEN s.rate ELSE Rate
        /\ Asked(v).sound = (Sound(v) # {})
    <2>1. Asked(v).w = size[1]
      BY <1>1, <1>3 DEF Asked
    <2>2. Asked(v).h = size[2]
      BY <1>1, <1>3 DEF Asked
    <2>3. Asked(v).length = IF Lasts(v) < MaxLength THEN Lasts(v) ELSE MaxLength
      BY DEF Asked
    <2>4. Asked(v).rate = IF s.rate < Rate THEN s.rate ELSE Rate
      BY <1>1 DEF Asked
    <2>5. Asked(v).sound = (Sound(v) # {})
      BY DEF Asked
    <2> QED  BY <2>1, <2>2, <2>3, <2>4, <2>5
  <1>5. s.w \in Nat /\ s.h \in Nat /\ s.w > 0 /\ s.h > 0 /\ s.rate \in Nat
    BY <1>1, StreamIs DEF Streamed
  <1>6. /\ size[1] \in Nat /\ size[1] > 0 /\ size[1] % 2 = 0 /\ size[1] =< Width
        /\ size[2] \in Nat /\ size[2] > 0 /\ size[2] % 2 = 0 /\ size[2] =< Height
    <2>1. CASE s.turned
      BY <1>3, <1>5, <2>1, ScaledFits
    <2>2. CASE ~s.turned
      BY <1>3, <1>5, <2>2, ScaledFits
    <2> QED  BY <2>1, <2>2
  <1>7. PICK n : n = IF Lasts(v) < MaxLength THEN Lasts(v) ELSE MaxLength
    OBVIOUS
  <1>8. /\ n \in Nat /\ n > 0 /\ n =< MaxLength
        /\ n = Lasts(v) \/ (n = MaxLength /\ MaxLength =< Lasts(v))
    <2>1. MaxLength \in Nat
      BY MediaAssumption
    <2>2. MaxLength > 0
      BY <2>1, Lengths DEF Acceptable
    <2> QED  BY <1>7, <2>1, <2>2, Lengths
  <1>9. Asked(v).rate \in Nat /\ Asked(v).rate =< Rate
    <2>1. Rate \in Nat
      BY MediaAssumption
    <2>2. Asked(v).rate = IF s.rate < Rate THEN s.rate ELSE Rate
      BY <1>4
    <2> QED  BY <1>5, <2>1, <2>2
  <1>10. /\ Asked(v).w = size[1] /\ Asked(v).h = size[2] /\ Asked(v).length = n
         /\ Asked(v).sound = (Sound(v) # {})
    BY <1>4, <1>7
  <1> QED  BY <1>6, <1>8, <1>9, <1>10

\* What is written as it was asked for passes the validation.
LEMMA FaithfulOutput ==
    ASSUME NEW v, Streamed(v), Acceptable(v), NEW o, Wrote(v, o),
           o.faithful, HasFaststart(o.layout), ~(v.length > Lasts(v) + Tolerance)
    PROVE  Valid(o) /\ Complete(o, v)
  <1>1. PICK layout \in Layouts, loss \in 0..1, conforms \in BOOLEAN :
          o = [size |-> <<Asked(v).w, Asked(v).h>>, rate |-> Asked(v).rate,
               sound |-> Asked(v).sound,
               length |-> Max({0, Asked(v).length - loss * (Tolerance + 1)}),
               bytes |-> OutputBytes, conforms |-> conforms, layout |-> layout,
               faithful |-> loss = 0 /\ conforms]
    BY DEF Wrote
  <1>2. loss = 0 /\ conforms
    BY <1>1
  <1>3. PICK w, h, n \in Nat :
          /\ Asked(v).w = w /\ Asked(v).h = h /\ w > 0 /\ h > 0
          /\ w % 2 = 0 /\ h % 2 = 0 /\ w =< Width /\ h =< Height
          /\ Asked(v).rate \in Nat /\ Asked(v).rate =< Rate
          /\ Asked(v).length = n /\ n > 0
          /\ n = Lasts(v) \/ (n = MaxLength /\ MaxLength =< Lasts(v))
          /\ n =< MaxLength
    BY AskedIs
  <1>4. /\ Tolerance \in Nat /\ MaxLength \in Nat /\ OutputBytes \in Nat
    BY MediaAssumption
  <1>5. Max({0, Asked(v).length - loss * (Tolerance + 1)}) = n
    <2>1. Asked(v).length - loss * (Tolerance + 1) = n
      BY <1>2, <1>3, <1>4
    <2>2. Max({0, n}) = IF 0 >= n THEN 0 ELSE n
      BY <1>3, MaxOf
    <2>3. Max({0, n}) = n
      BY <1>3, <2>2
    <2> QED  BY <2>1, <2>3, Zenon
  <1>6. /\ o.length = n /\ o.size = <<w, h>> /\ o.rate = Asked(v).rate
        /\ o.bytes = OutputBytes /\ o.conforms
    BY <1>1, <1>2, <1>3, <1>5
  <1>7. Valid(o)
    <2>1. o.bytes =< OutputBytes
      BY <1>4, <1>6
    <2>2. o.length > 0 /\ o.length =< MaxLength + Tolerance
      BY <1>3, <1>4, <1>6
    <2>3. o.size[1] = w /\ o.size[2] = h
      BY <1>6
    <2> QED  BY <1>3, <1>6, <2>1, <2>2, <2>3 DEF Valid
  <1>8. Complete(o, v)
    <2>1. /\ Lasts(v) \in Nat /\ Length(v) \in Nat /\ Length(v) =< MaxLength
          /\ Length(v) =< Lasts(v) \/ Length(v) = v.length
      BY Lengths
    <2>2. v.length \in Nat
      BY DEF Streamed, VideoType
    <2>3. Length(v) =< Lasts(v) + Tolerance
      BY <1>4, <2>1, <2>2
    <2>4. n + Tolerance >= Length(v)
      BY <1>3, <1>4, <2>1, <2>3
    <2> QED  BY <1>6, <2>4 DEF Complete
  <1> QED  BY <1>7, <1>8

\* The streams that are published are usable ones, one picture and a sound if there is any;
\* and a video written as it was asked for is published.
THEOREM VideosAreSound == MediaSpec => []VideosSound
  <1>1. MInv => VideosSound
    <2> SUFFICES ASSUME MInv, at = "probing"
                 PROVE  VideosSound
      BY DEF VideosSound, FaithfulPasses, RightStreams
    <2>1. PICK v : v = Source.file.video
      OBVIOUS
    <2>2. Streamed(v) /\ Acceptable(v) /\ Wrote(v, output)
      BY <2>1 DEF MInv, Checked, Source
    <2>3. FaithfulPasses
      BY <2>1, <2>2, FaithfulOutput DEF FaithfulPasses
    <2>4. PICK s \in v.streams :
            /\ Picture(v) = {s}
            /\ \A k \in Kept(v) : k.usable
            /\ Sound(v) # {} <=> \E k \in v.streams : k.type = "audio" /\ k.usable
      BY <2>2, ChosenStreams
    <2>5. Cardinality(Picture(v)) = 1
      BY <2>4, FS_Singleton
    <2>6. output.sound = (Sound(v) # {})
      <3>1. output.sound = Asked(v).sound
        BY <2>2 DEF Wrote
      <3>2. Asked(v).sound = (Sound(v) # {})
        BY <2>2, AskedIs
      <3> QED  BY <3>1, <3>2
    <2>7. RightStreams
      BY <2>1, <2>4, <2>5, <2>6 DEF RightStreams
    <2> QED  BY <2>3, <2>7 DEF VideosSound
  <1> QED  BY <1>1, MediaInvariant, PTL

\* The scan of atoms says of every layout whether a moov precedes every mdat among the atoms
\* before the first malformed one.
THEOREM ScanIsRight == MediaSpec => []ScanRight
  <1>1. MInv => ScanRight
    <2> SUFFICES ASSUME MInv, at = "probing"
                 PROVE  ScanRight
      BY DEF ScanRight
    <2>1. PICK l : l = output.layout
      OBVIOUS
    <2>2. l \in Layouts
      BY <2>1 DEF MInv, Wrote
    <2>3. Atomic(l)
      BY <2>2, LayoutsAssumption DEF Atomic
    <2>4. PICK good : good = {i \in DOMAIN l : \A j \in 1..i : ~Malformed(l[j])}
      OBVIOUS
    <2>5. HasFaststart(l) <=>
            \E i, j \in good :
              /\ l[i].type = "moov" /\ \A k \in good : l[k].type = "moov" => i =< k
              /\ l[j].type = "mdat" /\ \A k \in good : l[k].type = "mdat" => j =< k
              /\ i < j
      BY <2>3, <2>4, FaststartRight
    <2> QED  BY <2>1, <2>4, <2>5 DEF ScanRight
  <1> QED  BY <1>1, MediaInvariant, PTL
=============================================================================
