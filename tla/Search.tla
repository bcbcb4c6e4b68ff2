------------------------------- MODULE Search -------------------------------
(***************************************************************************)
(* Tubio's search (web_app/tubio/audio_downloader.py, search_youtube): a    *)
(* listing put together from several pages of a site, one for each duration *)
(* filter, and handed out page by page.  Every request fetches everything   *)
(* again, and the site may answer differently.                              *)
(***************************************************************************)
EXTENDS Naturals, FiniteSets, Sequences, FiniteSetsExt, SequencesExt

CONSTANTS
    Filters,        \* search_length_filter_sps, as numbers 1..n
    Hits,
    TooLong,        \* videos longer than max_video_length
    NotEvenDirect,  \* of those, the ones longer than direct_video_max_length
    Sites,          \* what the site may answer: filter -> videos
    PageSize,       \* max_results
    MaxPages        \* max_search_pages

ASSUME SearchAssumption ==
    /\ PageSize \in Nat \ {0} /\ MaxPages \in Nat \ {0} /\ NotEvenDirect \subseteq TooLong
    /\ IsFiniteSet(Filters) /\ Filters = 1..Cardinality(Filters)
    /\ \A answer \in Sites : answer \in [Filters -> Seq(Hits)]

VARIABLES
    site,       \* what it answers now
    search      \* what a client has got: total pages, pages by number, how many
                \* videos were too long, and whether the answers were the same

searchVars == <<site, search>>

NoSearch == [total |-> 0, pages |-> <<>>, tooLong |-> 0, same |-> TRUE]

SearchInit == site \in Sites /\ search = NoSearch

\* _scrape_search_page: the videos that are too long are left out, and counted.
Filtered(found) == ToSet(found) \cap TooLong

\* Faulty variant: a video may come once from each filter.
NewOfTier(combined, found) == combined \o SelectSeq(found, LAMBDA v : v \notin TooLong)

\* The results of one more filter, without those that are there already.
NewOf(combined, found) ==
    LET All[n \in 0..Len(found)] ==
          IF n = 0 THEN combined
          ELSE IF found[n] \in TooLong \/ Contains(All[n - 1], found[n]) THEN All[n - 1]
          ELSE Append(All[n - 1], found[n])
    IN  All[Len(found)]

\* The filters in their order; some of them may bring back no page that can be
\* read, and count as empty.
Combined(unread) ==
    LET After[k \in {0} \cup Filters] ==
          IF k = 0 THEN <<>>
          ELSE NewOf(After[k - 1], IF k \in unread THEN <<>> ELSE site[k])
    IN  After[Cardinality(Filters)]

TotalPages(n) == Min({MaxPages, Max({1, (n + PageSize - 1) \div PageSize})})

\* combined[start:end]
PageOf(combined, page) ==
    SubSeq(combined, page * PageSize + 1, Min({(page + 1) * PageSize, Len(combined)}))

\* What a client may ask for: the first page of a new search, or a page of the
\* one it has.
Offered == {0} \cup 0..(search.total - 1)

\* search_youtube, of a page that the client was offered or of the first one.
SearchPage(asked, unread) ==
    LET combined == Combined(unread)
        total == TotalPages(Len(combined))
        page == Min({asked, total - 1})
        shown == PageOf(combined, page)
        new == asked = 0
    IN  /\ asked \in Offered
        /\ search' =
             [total |-> total,
              pages |-> [p \in (IF new THEN {} ELSE DOMAIN search.pages) \cup {page} |->
                           IF p = page THEN shown ELSE search.pages[p]],
              tooLong |-> Cardinality(UNION {Filtered(site[k]) :
                                               k \in Filters \ unread}),
              same |-> unread = {} /\ (new \/ search.same)]
        /\ UNCHANGED site

\* get_video_info, of the address of a video: it, or nothing, on a page of its
\* own; or a refusal, which leaves the page as it is.
SearchDirectly(v) ==
    /\ v \notin NotEvenDirect
    /\ \E shown \in {<<v>>, <<>>} :
         search' = [total |-> 1, pages |-> [p \in {0} |-> shown],
                    tooLong |-> 0, same |-> FALSE]
    /\ UNCHANGED site

\* The site answers differently from now on.
SiteChanges ==
    \E k \in Filters :
        /\ site[k] # <<>>
        /\ site' = [site EXCEPT ![k] = Tail(@)]
        /\ search' = [search EXCEPT !.same = FALSE]

SearchNext ==
    \/ \E asked \in 0..MaxPages, unread \in SUBSET Filters : SearchPage(asked, unread)
    \/ \E v \in Hits : SearchDirectly(v)
    \/ SiteChanges

SearchSpec == SearchInit /\ [][SearchNext]_searchVars

-----------------------------------------------------------------------------
\* While the site answers the same, the pages that a client gets are the ones
\* it was offered (audio_downloader.py:422), none repeats a video of another or
\* is empty beside others, and together they hold every video that was found
\* and is not too long, as far as the pages go (:451); the others are counted
\* (:455).
PagesComplete ==
    LET found == UNION {ToSet(site[k]) : k \in Filters}
        shown == UNION {ToSet(search.pages[p]) : p \in DOMAIN search.pages}
    IN  search.same =>
          /\ DOMAIN search.pages \subseteq 0..(search.total - 1)
          /\ \A p \in DOMAIN search.pages :
               /\ search.total > 1 => search.pages[p] # <<>>
               /\ IsInjective(search.pages[p])
               /\ \A q \in DOMAIN search.pages \ {p} :
                    ToSet(search.pages[p]) \cap ToSet(search.pages[q]) = {}
          /\ DOMAIN search.pages = 0..(search.total - 1) =>
               Cardinality(shown) =
                 IF search.pages = <<>> THEN 0
                 ELSE Min({Cardinality(found \ TooLong), MaxPages * PageSize})
          /\ search.pages # <<>> =>
               search.tooLong = Cardinality(found \cap TooLong)
=============================================================================
