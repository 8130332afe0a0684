--------------------------- MODULE NetworkCaches ---------------------------
(***************************************************************************)
(* The two caches of network data, each refreshed page by page from the    *)
(* indexing-payments subgraph: the registered indexers' URLs               *)
(* (network/service/indexer_urls.rs) and the entity counts of their        *)
(* deployments (network/service/entity_count_cache.rs).  Both walk the     *)
(* entities in the order of their ids with a keyset cursor, one query per  *)
(* page, while entities are registered, rewritten and removed between two  *)
(* pages.  They differ in what a failed page does: the URLs give the whole *)
(* refresh up, the entity counts keep what they read so far.               *)
(*                                                                         *)
(* A behaviour follows one of the two, ncCache.  The ids are numbers, a    *)
(* page of PageSize stands for 1000 entities, and an entity is absent,     *)
(* readable, or present with an id, a URL or a count that does not parse.  *)
(* SubgraphChanges and PageFaults bound what happens around the cache.     *)
(***************************************************************************)
EXTENDS Naturals, FiniteSets

CONSTANTS LastId, PageSize, SubgraphChanges, PageFaults

ASSUME CacheAssumption ==
    /\ {LastId, PageSize} \subseteq Nat \ {0}
    /\ {SubgraphChanges, PageFaults} \subseteq Nat

EntityIds == 1..LastId

VARIABLES
    ncCache,    \* which of the two caches
    ncEntity,   \* what the subgraph serves under each id
    ncAt,       \* where the service is
    ncLastId,   \* the cursor of the refresh under way
    ncGot,      \* what the refresh has read
    ncShown,    \* what lookups see
    ncStop,     \* the stop call
    ncHeld,     \* history: readable ever since the refresh under way began
    ncSettled,  \* history: readable ever since the last published refresh began
    ncWhole,    \* history: the last published refresh read every page
    ncChanges, ncFaults

ncVars == <<ncCache, ncEntity, ncAt, ncLastId, ncGot, ncShown, ncStop, ncHeld, ncSettled,
            ncWhole, ncChanges, ncFaults>>

CachesTypeOK ==
    /\ ncCache \in {"urls", "counts"}
    /\ ncEntity \in [EntityIds -> {"absent", "readable", "malformed"}]
    /\ ncAt \in {"waiting", "fetching", "stopped"}
    /\ ncLastId \in 0..LastId
    /\ {ncGot, ncShown, ncHeld, ncSettled} \subseteq SUBSET EntityIds
    /\ ncStop \in {"none", "sent", "returned"}
    /\ ncWhole \in BOOLEAN
    /\ ncChanges \in 0..SubgraphChanges /\ ncFaults \in 0..PageFaults

Readable(entity) == {i \in EntityIds : entity[i] = "readable"}

(***************************************************************************)
(* The URLs start from the snapshot the process fetched before it spawned  *)
(* the service; the entity counts start empty and fetch at once.           *)
(***************************************************************************)
CachesInit ==
    /\ ncCache \in {"urls", "counts"}
    /\ ncEntity \in [EntityIds -> {"absent", "readable", "malformed"}]
    /\ ncAt = IF ncCache = "urls" THEN "waiting" ELSE "fetching"
    /\ ncLastId = 0 /\ ncGot = {}
    /\ ncShown = IF ncCache = "urls" THEN Readable(ncEntity) ELSE {}
    /\ ncSettled = ncShown
    /\ ncHeld = Readable(ncEntity)
    /\ ncStop = "none" /\ ncWhole = TRUE
    /\ ncChanges = 0 /\ ncFaults = 0

----------------------------------------------------------------------------
\* Outside: the subgraph indexes a registration, an update or a removal.
EntityChanges ==
    /\ ncChanges < SubgraphChanges
    /\ \E i \in EntityIds, e \in {"absent", "readable", "malformed"} :
          /\ e # ncEntity[i]
          /\ ncEntity' = [ncEntity EXCEPT ![i] = e]
          /\ ncHeld' = ncHeld \ {i} /\ ncSettled' = ncSettled \ {i}
    /\ ncChanges' = ncChanges + 1
    /\ UNCHANGED <<ncCache, ncAt, ncLastId, ncGot, ncShown, ncStop, ncWhole, ncFaults>>

\* Handle::stop: a call on a service that is gone returns at once.
AskStop ==
    /\ ncStop = "none"
    /\ ncStop' = "sent"
    /\ UNCHANGED <<ncCache, ncEntity, ncAt, ncLastId, ncGot, ncShown, ncHeld, ncSettled,
                   ncWhole, ncChanges, ncFaults>>

StopReturns ==
    /\ ncStop = "sent" /\ ncAt = "stopped"
    /\ ncStop' = "returned"
    /\ UNCHANGED <<ncCache, ncEntity, ncAt, ncLastId, ncGot, ncShown, ncHeld, ncSettled,
                   ncWhole, ncChanges, ncFaults>>

----------------------------------------------------------------------------
\* The stop branch of the wait between two refreshes, the only place it is heard.
CacheHearsStop ==
    /\ ncAt = "waiting" /\ ncStop = "sent"
    /\ ncAt' = "stopped"
    /\ UNCHANGED <<ncCache, ncEntity, ncLastId, ncGot, ncShown, ncStop, ncHeld, ncSettled,
                   ncWhole, ncChanges, ncFaults>>

(***************************************************************************)
(* The timer's branch.  The wait of the entity counts is biased: a stop    *)
(* already sent is heard first.                                            *)
(***************************************************************************)
StartRefresh ==
    /\ ncAt = "waiting"
    /\ ncCache = "counts" => ncStop # "sent"
    /\ ncAt' = "fetching"
    /\ ncLastId' = 0 /\ ncGot' = {} /\ ncHeld' = Readable(ncEntity)
    /\ UNCHANGED <<ncCache, ncEntity, ncShown, ncStop, ncSettled, ncWhole, ncChanges, ncFaults>>

\* The query: the first PageSize entities whose id is above the cursor.
Served(last) ==
    LET Above == {i \in EntityIds : i > last /\ ncEntity[i] # "absent"}
    IN {i \in Above : Cardinality({j \in Above : j < i}) < PageSize}

LastEntity(page, default) ==
    IF page = {} THEN default ELSE CHOOSE i \in page : \A j \in page : j <= i

\* Mutant: only an entity that parses moves the cursor.
CursorOverParsed(page) == LastEntity(page \cap Readable(ncEntity), ncLastId)

\* The cursor moves over every entity of the page, parsed or skipped.
CursorOver(page) == LastEntity(page, ncLastId)

(***************************************************************************)
(* The end of a refresh: an empty result keeps what is shown, any other    *)
(* replaces it whole.                                                      *)
(***************************************************************************)
Publish(got, whole) ==
    /\ ncAt' = "waiting"
    /\ ncLastId' = 0 /\ ncGot' = {}
    /\ IF got = {} THEN UNCHANGED <<ncShown, ncSettled, ncWhole>>
       ELSE ncShown' = got /\ ncSettled' = ncHeld /\ ncWhole' = whole

\* One page that answers; a short one is the last.
FetchPage ==
    /\ ncAt = "fetching"
    /\ LET page == Served(ncLastId)
           got == ncGot \cup (page \cap Readable(ncEntity))
       IN IF Cardinality(page) < PageSize THEN Publish(got, TRUE)
          ELSE /\ ncLastId' = CursorOver(page) /\ ncGot' = got
               /\ UNCHANGED <<ncAt, ncShown, ncSettled, ncWhole>>
    /\ UNCHANGED <<ncCache, ncEntity, ncStop, ncHeld, ncChanges, ncFaults>>

\* Mutant: both caches keep what a failed refresh read.
AfterFailedPageKeeps == Publish(ncGot, FALSE)

\* The URLs give the refresh up, the entity counts return what they have.
AfterFailedPage == Publish(IF ncCache = "urls" THEN {} ELSE ncGot, FALSE)

\* A page that times out, is refused, does not decode or holds only errors.
PageFails ==
    /\ ncAt = "fetching" /\ ncFaults < PageFaults
    /\ ncFaults' = ncFaults + 1
    /\ AfterFailedPage
    /\ UNCHANGED <<ncCache, ncEntity, ncStop, ncHeld, ncChanges>>

CacheStep == CacheHearsStop \/ StartRefresh \/ FetchPage \/ PageFails \/ StopReturns

CachesNext == EntityChanges \/ AskStop \/ CacheStep

CachesSpec == CachesInit /\ [][CachesNext]_ncVars

(***************************************************************************)
(* A page ends within its 30 second timeout, so the refresh proceeds.  The *)
(* wait of the URLs picks at random between the stop and the timer when    *)
(* both are ready, which makes the stop branch strongly fair.              *)
(***************************************************************************)
CachesFairSpec ==
    /\ CachesSpec
    /\ WF_ncVars(FetchPage) /\ SF_ncVars(CacheHearsStop) /\ WF_ncVars(StopReturns)

----------------------------------------------------------------------------
(***************************************************************************)
(* RegisteredIsShown: an indexer whose entry was readable all through the  *)
(* refresh last published, and has been since, is found by the lookups of  *)
(* the proposal and liveness services (get_indexer_url), however the pages *)
(* fell, whatever was registered or removed between two of them, and       *)
(* whatever a later refresh ran into.  The entity counts promise it only   *)
(* after a refresh that read all its pages: one cut short by a failing     *)
(* page replaces the cache with what it had.                               *)
(***************************************************************************)
RegisteredIsShown ==
    (ncCache = "urls" \/ ncWhole) => ncSettled \subseteq ncShown

(***************************************************************************)
(* CacheStops: a stop call returns.  A refresh is not interrupted, so this *)
(* needs every refresh to come to its last page, over entities that do not *)
(* parse too.                                                              *)
(***************************************************************************)
CacheStops == (ncStop = "sent") ~> (ncStop = "returned")
============================================================================
