-------------------------- MODULE SoftwareFilters ---------------------------
(* The filters of the Software tab.  They live in the page and in its URL:   *)
(* the first pass of the effects after a load reads them from there, every   *)
(* pass writes them back, and others of the effects correct them.            *)
EXTENDS Naturals, FiniteSets

CONSTANTS Apps, BundleIds,
          Words,       \* what a search, a target, a category or a tag asks for
          NoFilters,
          MaxChoices   \* bound on what the user does

Statuses == {"alpha", "beta"}
Filters == [scope : {"apps", "bundles"}, track : {"stable", "preview"},
            expert : BOOLEAN, words : SUBSET Words, status : SUBSET Statuses,
            selectedOnly : BOOLEAN, view : {"list", "row"},
            column : {"auto", "open", "closed"}]
DefaultFilters ==
  [scope |-> "apps", track |-> "stable", expert |-> FALSE, words |-> {},
   status |-> {}, selectedOnly |-> FALSE, view |-> "list", column |-> "auto"]

ASSUME SoftwareFiltersAssumption ==
  /\ IsFiniteSet(Apps) /\ IsFiniteSet(BundleIds)
  /\ NoFilters \notin Filters /\ MaxChoices \in Nat

VARIABLES apps,        \* status and words of each app
          rolesThere, bundlesThere, \* whether the lists have arrived
          picked,      \* the apps selected for deployment
          filters, pageNumber, popover,
          url,         \* the filters the URL names
          queryReady,  \* querySyncReadyRef
          shown,       \* the filters the last pass of the effects saw
          wanted,      \* the filters before the last load, as far as they survive
          choices

filtersVars == <<apps, rolesThere, bundlesThere, picked, filters, pageNumber, popover,
                 url, queryReady, shown, wanted, choices>>

FiltersTypeOK ==
  /\ apps \in [Apps -> [status : Statuses, words : SUBSET Words]]
  /\ picked \subseteq Apps /\ filters \in Filters /\ pageNumber \in Nat \ {0}
  /\ {url, shown, wanted} \subseteq Filters \cup {NoFilters}
  /\ popover \in {"none", "filters", "views"}
  /\ {rolesThere, bundlesThere, queryReady} \subseteq BOOLEAN
  /\ choices \in 0..MaxChoices

-----------------------------------------------------------------------------
(* What the filters show.                                                    *)

RolesListed == IF rolesThere THEN Apps ELSE {}
BundlesListed == IF bundlesThere THEN BundleIds ELSE {}
StatusesOf(A) == {apps[a].status : a \in A}
\* Every bundle holds all apps.
LifecycleBase(f) ==
  IF f.scope = "apps" \/ BundlesListed # {} THEN StatusesOf(RolesListed) ELSE {}
LifecycleAllowed(f) ==
  IF f.expert /\ f.track = "preview" THEN Statuses ELSE Statuses \ {"alpha"}
LifecycleOptions(f) == LifecycleBase(f) \cap LifecycleAllowed(f)

FilteredRoles(f) == {a \in RolesListed :
  /\ f.status = {} \/ apps[a].status \in f.status
  /\ f.words \subseteq apps[a].words
  /\ f.selectedOnly => a \in picked}
FilteredBundles(f) == {b \in BundlesListed :
  /\ f.status = {} \/ f.status \cap StatusesOf(RolesListed) # {}
  /\ \A w \in f.words : \E a \in RolesListed : w \in apps[a].words}

\* A page holds one item; the lanes of a row view hold all of them.
PageCount(f) ==
  LET items == IF f.scope = "apps" THEN FilteredRoles(f) ELSE FilteredBundles(f)
  IN IF f.view = "row" \/ items = {} THEN 1 ELSE Cardinality(items)

-----------------------------------------------------------------------------
(* One pass of the effects, over the filters they were rendered with.        *)

\* The first pass takes what the URL names.
ReadFilters == IF queryReady \/ url = NoFilters THEN filters ELSE url

\* (Defect: the first pass writes before it reads.)
WrittenFirst == IF queryReady THEN ReadFilters ELSE filters
Read == ReadFilters

\* The track is forced and the statuses are reduced by what was rendered, and
\* applied to what has been read meanwhile.
Corrected(f) ==
  [f EXCEPT
     !.track = IF filters.expert THEN @ ELSE IF filters.track = "stable" THEN @
               ELSE "stable",
     !.status = @ \cap LifecycleOptions(filters)]

\* Another filter shows the first page; a page beyond the last shows the last.
PageAfter ==
  IF pageNumber > PageCount(filters) THEN PageCount(filters)
  ELSE IF shown # filters THEN 1 ELSE pageNumber

Due == \/ ~queryReady \/ shown # filters \/ url # filters
       \/ pageNumber # PageAfter \/ filters # Corrected(filters)

RunEffects ==
  /\ Due
  /\ filters' = Corrected(Read) /\ queryReady' = TRUE /\ url' = filters
  /\ pageNumber' = PageAfter /\ shown' = filters
  /\ popover' = IF popover = "views"
                  /\ (shown = NoFilters \/ shown.scope # filters.scope)
                THEN "none" ELSE popover
  /\ UNCHANGED <<apps, rolesThere, bundlesThere, picked, wanted, choices>>

-----------------------------------------------------------------------------
(* What arrives: the lists are asked for by the effects.                     *)

RolesArrive ==
  /\ queryReady /\ ~rolesThere /\ rolesThere' = TRUE
  /\ UNCHANGED <<apps, bundlesThere, picked, filters, pageNumber, popover, url,
                 queryReady, shown, wanted, choices>>
BundlesArrive ==
  /\ queryReady /\ ~bundlesThere /\ bundlesThere' = TRUE
  /\ UNCHANGED <<apps, rolesThere, picked, filters, pageNumber, popover, url,
                 queryReady, shown, wanted, choices>>
\* The selection changes, here or elsewhere.
PickApps(S) ==
  /\ choices < MaxChoices /\ choices' = choices + 1
  /\ S # picked /\ picked' = S
  /\ UNCHANGED <<apps, rolesThere, bundlesThere, filters, pageNumber, popover, url,
                 queryReady, shown, wanted>>

-----------------------------------------------------------------------------
(* What the user does, once the first pass is over.                          *)

Choose(f) ==
  /\ queryReady /\ choices < MaxChoices /\ choices' = choices + 1
  /\ f # filters /\ filters' = f /\ wanted' = NoFilters
  /\ UNCHANGED <<apps, rolesThere, bundlesThere, picked, pageNumber, url,
                 queryReady, shown>>
\* A click outside closes what is open.
Toolbar(f) == Choose(f) /\ popover' = "none"
InFilters(f) == Choose(f) /\ popover = "filters" /\ UNCHANGED popover

ToggleSoftwareScope == Toolbar([filters EXCEPT !.scope =
  IF @ = "apps" THEN "bundles" ELSE "apps"])
ToggleReleaseTrack == filters.expert /\ Toolbar([filters EXCEPT !.track =
  IF @ = "stable" THEN "preview" ELSE "stable"])
\* The mode is switched beside the tab, which follows.
HandleModeChange == Toolbar([filters EXCEPT !.expert = ~@])
SearchOrFilter(w) ==
  \/ Toolbar([filters EXCEPT !.words = @ \cup {w}])
  \/ InFilters([filters EXCEPT !.words = @ \cup {w}])
  \/ InFilters([filters EXCEPT !.words = @ \ {w}])
ToggleStatus(s) ==
  /\ s \in LifecycleOptions(filters)
  /\ InFilters([filters EXCEPT !.status =
       IF s \in @ THEN @ \ {s} ELSE @ \cup {s}])
ShowSelectedOnly ==
  /\ filters.scope = "apps"
  /\ InFilters([filters EXCEPT !.selectedOnly = ~@])
SelectViewMode(v) == /\ popover = "views" /\ Toolbar([filters EXCEPT !.view = v])
ToggleColumn(c) ==
  filters.view = "list" /\ Toolbar([filters EXCEPT !.column = c])

Turn(p, q) ==
  /\ queryReady /\ choices < MaxChoices /\ choices' = choices + 1
  /\ p # pageNumber \/ q # popover
  /\ pageNumber' = p /\ popover' = q
  /\ UNCHANGED <<apps, rolesThere, bundlesThere, picked, filters, url,
                 queryReady, shown, wanted>>
ToggleFilters == Turn(pageNumber, IF popover = "filters" THEN "none" ELSE "filters")
ToggleViewMenu == Turn(pageNumber, IF popover = "views" THEN "none" ELSE "views")
ClosePopover == popover # "none" /\ Turn(pageNumber, "none")
NextPage == filters.view = "list" /\ pageNumber < PageCount(filters)
            /\ Turn(pageNumber + 1, "none")
PrevPage == filters.view = "list" /\ pageNumber > 1 /\ Turn(pageNumber - 1, "none")

\* What the effects of a first pass leave of the statuses: the lists may be
\* missing, and they are reduced by the filters of a fresh page.
Surviving(there) ==
  [filters EXCEPT !.status =
     IF there /\ filters.scope = "apps" THEN @ \ {"alpha"} ELSE {}]
\* The page is loaded anew, with or without roles from the server.
ReloadPage(there) ==
  /\ choices < MaxChoices /\ choices' = choices + 1
  /\ ~Due /\ wanted' = Surviving(there)
  /\ rolesThere' = there /\ bundlesThere' = FALSE
  /\ filters' = DefaultFilters /\ queryReady' = FALSE /\ shown' = NoFilters
  /\ pageNumber' = 1 /\ popover' = "none"
  /\ UNCHANGED <<apps, picked, url>>

-----------------------------------------------------------------------------
FiltersInit ==
  /\ apps \in [Apps -> [status : Statuses, words : SUBSET Words]]
  /\ rolesThere \in BOOLEAN /\ bundlesThere = FALSE /\ picked = {}
  /\ filters = DefaultFilters /\ pageNumber = 1 /\ popover = "none"
  /\ url = NoFilters /\ queryReady = FALSE /\ shown = NoFilters
  /\ wanted = NoFilters /\ choices = 0

FiltersNext ==
  \/ RunEffects \/ RolesArrive \/ BundlesArrive
  \/ \E S \in SUBSET Apps : PickApps(S)
  \/ ToggleSoftwareScope \/ ToggleReleaseTrack \/ HandleModeChange
  \/ \E w \in Words : SearchOrFilter(w)
  \/ \E s \in Statuses : ToggleStatus(s)
  \/ ShowSelectedOnly \/ \E v \in {"list", "row"} : SelectViewMode(v)
  \/ \E c \in {"open", "closed"} : ToggleColumn(c)
  \/ ToggleFilters \/ ToggleViewMenu \/ ClosePopover \/ NextPage \/ PrevPage
  \/ \E there \in BOOLEAN : ReloadPage(there)

FiltersSpec == FiltersInit /\ [][FiltersNext]_filtersVars

-----------------------------------------------------------------------------
\* When the effects have come to rest after a load, the tab filters as it did
\* before (useRoleDashboardBootstrap.ts), but for the statuses that the lists
\* of the first passes do not offer (useRoleDashboardFiltering.ts); its page
\* exists, and what it filters by is on offer.
FiltersSurviveReload ==
  ~Due => /\ wanted # NoFilters =>
               \/ filters = wanted
               \/ /\ wanted.scope = "bundles"
                  /\ filters = [wanted EXCEPT !.status = filters.status]
          /\ pageNumber <= PageCount(filters)
          /\ filters.status \subseteq LifecycleOptions(filters)
=============================================================================
