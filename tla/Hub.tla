--------------------------------- MODULE Hub ---------------------------------
(***************************************************************************)
(* What an organisation shows of itself (src/enterprise-hub-store.js): the *)
(* listings of a project on the public marketplace, which visitors read    *)
(* page by page with a cursor, and the connections to services.            *)
(***************************************************************************)
EXTENDS Nullable, Naturals, Sequences, SequencesExt

CONSTANTS
    Listings,  \* their ids, ordered as text is: numbers
    Services,  \* provider keys
    MaxNow     \* the last instant that is modelled

ASSUME HubAssumption ==
    /\ Listings \subseteq Nat /\ IsFiniteSet(Listings)
    /\ MaxNow \in Nat
    /\ NULL \notin Nat /\ NULL \notin [at : Nat, id : Nat]

VARIABLES
    now,
    listings,     \* listings[l]: NoListing, or its status and times
    shownProject, \* what of the project decides whether listings are shown
    connections,  \* connections[k]: NoConnection, or mode and status
    reader,       \* the visitor who goes through the pages
    throughout    \* listings shown ever since the reader's first page

hubVars == <<now, listings, shownProject, connections, reader, throughout>>

NoListing == [status |-> "none", publishedAt |-> NULL, closesAt |-> NULL]
NoConnection == [mode |-> "manual", status |-> "none"]
FirstPage == [cursor |-> NULL, shown |-> <<>>, finished |-> FALSE]

HubInit ==
    /\ now = 0
    /\ listings = [l \in Listings |-> NoListing]
    /\ shownProject = [published |-> FALSE, public |-> TRUE, archived |-> FALSE]
    /\ connections = [k \in Services |-> NoConnection]
    /\ reader = FirstPage
    /\ throughout = {}

-----------------------------------------------------------------------------
(* Listings.                                                               *)

\* A draft stands for the listings that are paused, closed or archived too.
ListingStatuses == {"draft", "published"}

\* Mutant: whoever saves a published listing publishes it anew.
StampedAnew(row, status) == IF status = "published" THEN now ELSE row.publishedAt
PublishedAt(row, status) ==
    IF status = "published" /\ row.publishedAt = NULL THEN now ELSE row.publishedAt

\* upsertListing, for a new listing and for one that exists.
UpsertListing(l, status, closesAt) ==
    /\ ~shownProject.archived
    /\ status = "published" => shownProject.published
    /\ listings' = [listings EXCEPT ![l] =
           [status |-> status, publishedAt |-> PublishedAt(@, status),
            closesAt |-> closesAt]]
    /\ UNCHANGED <<now, shownProject, connections, reader>>

\* The project is edited or archived, or its organisation is.
ProjectChanges(row) ==
    /\ shownProject.archived => row.archived
    /\ shownProject' = row
    /\ UNCHANGED <<now, listings, connections, reader>>

\* Time passes, and listings whose last moment has passed close.
NowPasses ==
    /\ now < MaxNow
    /\ now' = now + 1
    /\ UNCHANGED <<listings, shownProject, connections, reader>>

\* publicListings.
Listed ==
    {l \in Listings :
        /\ listings[l].status = "published"
        /\ shownProject.published /\ shownProject.public /\ ~shownProject.archived
        /\ listings[l].closesAt = NULL \/ listings[l].closesAt >= now}

-----------------------------------------------------------------------------
(* Reading.                                                                *)

\* Newest first, and the greater id first among those published at one time.
PlaceOf(l) == [at |-> listings[l].publishedAt, id |-> l]
Before(a, b) == a.at > b.at \/ (a.at = b.at /\ a.id > b.id)

\* publicListings with one listing per page: the first behind the cursor.
ReadPage ==
    LET behind == {l \in Listed :
                      reader.cursor = NULL \/ Before(reader.cursor, PlaceOf(l))}
        firsts == {l \in behind : \A m \in behind \ {l} : Before(PlaceOf(l), PlaceOf(m))}
    IN  /\ ~reader.finished
        /\ reader' = [cursor |-> IF firsts = {} THEN NULL
                                 ELSE PlaceOf(CHOOSE l \in firsts : TRUE),
                      shown |-> reader.shown \o SetToSeq(firsts),
                      finished |-> behind = firsts]
        /\ UNCHANGED <<now, listings, shownProject, connections>>

-----------------------------------------------------------------------------
(* Connections to services.                                                *)

Modes == {"manual", "sandbox", "live"}
ConnectionStatuses == {"inactive", "healthy"}

\* No program ever checks a service: last_checked_at stays empty.
Claimable(mode, status) == ~(mode = "live" /\ status = "healthy")

\* upsertIntegration.
UpsertIntegration(k, mode, status) ==
    /\ Claimable(mode, status)
    /\ connections' = [connections EXCEPT ![k] = [mode |-> mode, status |-> status]]
    /\ UNCHANGED <<now, listings, shownProject, reader>>

HubStep ==
    \/ \E l \in Listings, status \in ListingStatuses, closesAt \in {NULL, MaxNow - 1} :
          UpsertListing(l, status, closesAt)
    \/ \E row \in [published : BOOLEAN, public : BOOLEAN, archived : BOOLEAN] :
          ProjectChanges(row)
    \/ NowPasses
    \/ ReadPage
    \/ \E k \in Services, mode \in Modes, status \in ConnectionStatuses :
          UpsertIntegration(k, mode, status)

HubNext ==
    /\ HubStep
    /\ throughout' = IF reader = FirstPage THEN Listed' ELSE throughout \cap Listed'

HubSpec == HubInit /\ [][HubNext]_hubVars

-----------------------------------------------------------------------------
(* Properties.                                                             *)

\* publicListings: whoever goes through the pages while listings are published,
\* edited, paused and closed sees every listing that is shown all the while,
\* and none twice.
PagesMissNothing ==
    /\ reader.finished => throughout \subseteq Range(reader.shown)
    /\ IsInjective(reader.shown)
=============================================================================
