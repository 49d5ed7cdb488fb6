------------------------------ MODULE Listing ------------------------------
(***************************************************************************)
(* A page that lists something, narrowed, sorted and paged by the URL: the *)
(* search typed in its field, its menus, cards and chips, on a phone its   *)
(* sheet of filters, the entries of the browser's history.                 *)
(*                                                                         *)
(* A parameter of the URL is on or off: its value is left out.  A word is  *)
(* 0 when there is none.  What a page of a list offers is its row in       *)
(* ListRows (those of the frontend are in Lists):                          *)
(*   sets      the parameters its sheet sets, all at once                  *)
(*   sections  those its sheet lets choose                                 *)
(*   resets    those its sheet turns off together                          *)
(*   menus     those chosen one by one on a desktop                        *)
(*   pins      those only turned off, on a desktop                         *)
(*   chips     those turned off one by one on a phone                      *)
(*   cards     what each of its cards turns on, and then off               *)
(*   tabs      whether it has tabs, on both                                *)
(*   sorts     whether its columns sort, on a desktop                      *)
(*   links     those only a link sets                                      *)
(*   opens     those it is always opened with                              *)
(*   keeps     those that are no filter, for the function that clears      *)
(* Next.js, external, replaces a navigation under way by the next one, or  *)
(* by a step in the history, and shows a URL once its page is there.       *)
(*                                                                         *)
(* Bounds: MaxWord words, MaxPage pages, MaxAsked steps of the user.       *)
(***************************************************************************)
EXTENDS Naturals, Sequences

CONSTANTS ListRows, MaxWord, MaxPage, MaxAsked

ASSUME ListRowsAssumption ==
  \A r \in DOMAIN ListRows :
    LET row == ListRows[r] IN
      /\ row.sections \cup row.resets \cup row.menus \subseteq row.sets
      /\ \A card \in row.cards : card.on \cup card.off \subseteq row.sets
      /\ row.tabs \in BOOLEAN /\ row.sorts \in BOOLEAN
      /\ row.keeps \subseteq {"tab"} /\ (row.tabs => "tab" \in row.keeps)
      /\ "tab" \notin row.sets \cup row.links

ASSUME ListBoundsAssumption ==
  MaxWord \in Nat /\ MaxPage \in Nat \ {0} /\ MaxAsked \in Nat

VARIABLES
  list,       \* the list, one of ListRows
  desktop,    \* it is shown on a desktop
  entries,    \* the browser's history
  at,         \* the entry shown
  going,      \* the navigation under way
  word,       \* what its field shows
  prevSearch, committedSearch,   \* as useSearchInput keeps them
  pausing,    \* the search about to be put in the URL
  filters,    \* the draft in the sheet, or NoFilters
  meant,      \* the URL as the user has asked for it (history)
  hurried,    \* the user acted on a URL not yet as asked (history)
  steps       \* steps of the user so far

listVars == <<list, desktop, entries, at, going, word, prevSearch,
              committedSearch, pausing, filters, meant, hurried, steps>>

List == ListRows[list]
Params ==
  List.sets \cup List.links \cup List.opens \cup {"ordering"}
    \cup (IF List.tabs THEN {"tab"} ELSE {})
Words == 0..MaxWord
Place(on, search, page) == [on |-> on, search |-> search, page |-> page]
Elsewhere == Place({}, 0, 0)
url == entries[at]
Here == url # Elsewhere

Nowhere == [how |-> "none", to |-> Elsewhere]
Navigations == {"none", "push", "replace"}
NoTimer == [set |-> FALSE, base |-> Elsewhere, word |-> 0]
NoFilters == [open |-> FALSE, draft |-> {}]

ListInit ==
  /\ list \in DOMAIN ListRows /\ desktop \in BOOLEAN
  /\ \E linked \in SUBSET List.links :
       entries = << Place(linked \cup List.opens, 0, 1) >>
  /\ at = 1 /\ going = Nowhere
  /\ word = 0 /\ prevSearch = 0 /\ committedSearch = 0
  /\ pausing = NoTimer /\ filters = NoFilters
  /\ meant = entries[1] /\ hurried = FALSE /\ steps = 0

-----------------------------------------------------------------------------
(* Mutant: the page is kept.                                               *)
SamePage(place, search) == Place(place.on, search, place.page)

(* `hrefWith`, for a search and for filters: both go back to page 1.       *)
WithSearch(place, search) == Place(place.on, search, 1)
WithFilters(place, adds, drops) ==
  Place((place.on \ drops) \cup adds, place.search, 1)
WithPage(place, page) == Place(place.on, place.search, page)

(* What is left when all is cleared.                                       *)
Cleared(place, keeps) == Place(place.on \cap ({"ordering"} \cup keeps), 0, 1)

(* A push cancels the search about to be put in the URL.                   *)
Push(place) == going' = [how |-> "push", to |-> place] /\ pausing' = NoTimer

Asks(place) ==
  /\ steps < MaxAsked /\ steps' = steps + 1
  /\ meant' = place
  /\ UNCHANGED <<list, desktop>>

AtRest == going = Nowhere /\ ~pausing.set

(* The user does not wait for what was asked before.                       *)
Hurries == hurried' = (hurried \/ ~AtRest)

-----------------------------------------------------------------------------
TypeSearch(w) ==
  /\ Here /\ ~filters.open /\ w # word
  /\ word' = w
  /\ pausing' = [set |-> TRUE, base |-> url, word |-> w]
  /\ Asks(WithSearch(meant, w))
  /\ hurried' = (hurried \/ url.on # meant.on)
  /\ UNCHANGED <<entries, at, going, prevSearch, committedSearch, filters>>

(* The pause after the last letter is over, wherever the user is by then.  *)
FireSearch ==
  /\ pausing.set
  /\ committedSearch' = pausing.word
  /\ going' = [how |-> "replace", to |-> WithSearch(pausing.base, pausing.word)]
  /\ pausing' = NoTimer
  /\ UNCHANGED <<list, desktop, entries, at, word, prevSearch, filters, meant,
                 hurried, steps>>

(* A menu, a chip, a card, a tab or the head of a column.                  *)
Narrow(adds, drops) ==
  /\ Here /\ ~filters.open
  /\ Push(WithFilters(url, adds, drops))
  /\ Asks(WithFilters(meant, adds, drops)) /\ Hurries
  /\ UNCHANGED <<entries, at, word, prevSearch, committedSearch, filters>>

ByMenu == desktop /\ \E p \in List.menus : Narrow({p}, {}) \/ Narrow({}, {p})
ByPin == desktop /\ \E p \in List.pins \cap url.on : Narrow({}, {p})
ByChip == ~desktop /\ \E p \in List.chips \cap url.on : Narrow({}, {p})
ByCard ==
  \E card \in List.cards :
    \/ Narrow(card.on, {})
    \/ card.on \subseteq url.on /\ Narrow({}, card.off)
ByTab == List.tabs /\ (Narrow({"tab"}, {}) \/ Narrow({}, {"tab"}))
Sort ==
  /\ desktop /\ List.sorts
  /\ Narrow({"ordering"}, {}) \/ Narrow({}, {"ordering"})

PageTo(n) ==
  /\ Here /\ desktop /\ List.sorts /\ n # url.page
  /\ Push(WithPage(url, n)) /\ Asks(WithPage(meant, n)) /\ Hurries
  /\ UNCHANGED <<entries, at, word, prevSearch, committedSearch, filters>>

(* `isFiltered`: only then is clearing offered.                            *)
IsFiltered ==
  url.search # 0 \/ url.on \ (List.opens \cup {"ordering", "tab"}) # {}

Clear ==
  /\ Here /\ ~filters.open /\ IsFiltered
  /\ word' = 0 /\ committedSearch' = 0
  /\ Push(Cleared(url, List.keeps))
  /\ Asks(Cleared(meant, {"tab"})) /\ Hurries
  /\ UNCHANGED <<entries, at, prevSearch, filters>>

-----------------------------------------------------------------------------
(* The sheet of filters: a draft, applied at once.                         *)
OpenFilters ==
  /\ Here /\ ~desktop /\ ~filters.open
  /\ filters' = [open |-> TRUE, draft |-> url.on \cap List.sets]
  /\ UNCHANGED <<list, desktop, entries, at, going, word, prevSearch,
                 committedSearch, pausing, meant, hurried, steps>>

Draft(drafted) ==
  /\ filters.open /\ filters' = [filters EXCEPT !.draft = drafted]
  /\ UNCHANGED <<list, desktop, entries, at, going, word, prevSearch,
                 committedSearch, pausing, meant, hurried, steps>>

DraftOption ==
  \E p \in List.sections :
    Draft(filters.draft \cup {p}) \/ Draft(filters.draft \ {p})
ResetDraft == Draft(filters.draft \ List.resets)

CloseFilters ==
  /\ filters.open /\ filters' = NoFilters
  /\ UNCHANGED <<list, desktop, entries, at, going, word, prevSearch,
                 committedSearch, pausing, meant, hurried, steps>>

ApplyFilters ==
  /\ Here /\ filters.open /\ filters' = NoFilters
  /\ Push(WithFilters(url, filters.draft, List.sets))
  /\ Asks(WithFilters(meant, filters.draft, List.sets)) /\ Hurries
  /\ UNCHANGED <<entries, at, word, prevSearch, committedSearch>>

-----------------------------------------------------------------------------
(* `useSearchInput`, when the URL has changed: the field follows, unless   *)
(* the URL is catching up with it.                                         *)
Resynchronised(place) ==
  /\ prevSearch' = place.search
  /\ IF place.search \in {prevSearch, committedSearch}
     THEN UNCHANGED <<committedSearch, word>>
     ELSE committedSearch' = place.search /\ word' = place.search

(* A page that was left keeps nothing; shown again, it starts from the URL.*)
Shown(place) ==
  IF place = Elsewhere
  THEN filters' = NoFilters /\ UNCHANGED <<word, prevSearch, committedSearch>>
  ELSE /\ UNCHANGED filters
       /\ IF Here THEN Resynchronised(place)
          ELSE /\ word' = place.search /\ prevSearch' = place.search
               /\ committedSearch' = place.search

Land ==
  /\ going # Nowhere /\ going' = Nowhere
  /\ entries' = SubSeq(entries, 1, IF going.how = "push" THEN at ELSE at - 1)
                  \o << going.to >>
  /\ at' = Len(entries')
  /\ Shown(going.to)
  /\ UNCHANGED <<list, desktop, pausing, meant, hurried, steps>>

(* Back and forward.  The sheet, if open, is left first.                     *)
Travel(n) ==
  /\ n \in DOMAIN entries /\ ~filters.open
  /\ at' = n /\ going' = Nowhere
  /\ Shown(entries[n])
  /\ Asks(entries[n]) /\ Hurries
  /\ UNCHANGED <<entries, pausing>>

(* A link, or on the page of the stock the other tab.                      *)
LeaveList ==
  /\ Here /\ ~filters.open
  /\ going' = [how |-> "push", to |-> Elsewhere]
  /\ Asks(Elsewhere) /\ Hurries
  /\ UNCHANGED <<entries, at, word, prevSearch, committedSearch, pausing,
                 filters>>

ListNext ==
  \/ \E w \in Words : TypeSearch(w)
  \/ \E n \in 1..MaxPage : PageTo(n)
  \/ ByMenu \/ ByPin \/ ByChip \/ ByCard \/ ByTab \/ Sort \/ Clear
  \/ LeaveList
  \/ OpenFilters \/ DraftOption \/ ResetDraft \/ CloseFilters \/ ApplyFilters
  \/ Travel(at - 1) \/ Travel(at + 1)
  \/ FireSearch \/ Land

ListSpec == ListInit /\ [][ListNext]_listVars

-----------------------------------------------------------------------------
Places == [on : SUBSET Params, search : Words, page : 0..MaxPage]

ListTypeOK ==
  /\ list \in DOMAIN ListRows /\ desktop \in BOOLEAN
  /\ entries \in Seq(Places) /\ at \in DOMAIN entries
  /\ going \in [how : Navigations, to : Places]
  /\ word \in Words /\ prevSearch \in Words /\ committedSearch \in Words
  /\ pausing \in [set : BOOLEAN, base : Places, word : Words]
  /\ filters \in [open : BOOLEAN, draft : SUBSET List.sets]
  /\ meant \in Places /\ hurried \in BOOLEAN /\ steps \in 0..MaxAsked

(* The lists whose tab is lost with the filters.                           *)
LosesTab == "tab" \in List.opens \ List.keeps

(* Once the URL has caught up, it is what the user has asked for, step by  *)
(* step, and the field shows the search it is about: unless a step was     *)
(* taken before the one it starts from was in the URL.                     *)
AsAsked ==
  AtRest /\ ~hurried /\ ~LosesTab =>
    url = meant /\ (Here => word = url.search)
=============================================================================
