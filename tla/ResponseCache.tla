----------------------------- MODULE ResponseCache -----------------------------
(***************************************************************************)
(* The response cache of src/middleware/cache.ts: overlapping requests for   *)
(* one key, each answered from the cache or by its handler, whose answer is   *)
(* stored when it is sent; the handlers' data, which change meanwhile; the    *)
(* entry's expiry and its removal by clearCacheKey or clearCache.  Bodies are *)
(* not empty.  No route of this repository mounts it.                        *)
(***************************************************************************)
EXTENDS Integers

CONSTANTS
    CachedRequests,  \* bound: requests for the key
    MaxVersions,     \* bound: versions of the data
    MaxClears        \* bound: removals

ASSUME CacheAssumption == MaxVersions \in Nat \ {0} /\ MaxClears \in Nat

VARIABLES
    asked,    \* where each request is and the version its handler has read; history:
              \* the removals when it began
    entry,    \* the version the cache holds, NotCached if it holds none
    version,  \* of the data
    clears,   \* removals so far
    hits,     \* history: what requests were answered with from the cache
    cleared   \* history: the version at the last removal, and whether the
              \* entry comes from a request that began before it

cacheVars == <<asked, entry, version, clears, hits, cleared>>

NotCached == 0
ErrorBody == MaxVersions + 1

CacheInit ==
    /\ asked = [q \in CachedRequests |->
                   [at |-> "idle", stores |-> FALSE, read |-> NotCached, clears |-> 0]]
    /\ entry = NotCached
    /\ version = 1
    /\ clears = 0
    /\ hits = {}
    /\ cleared = [version |-> 1, raced |-> FALSE]

\* cacheMiddleware: a request that should not be cached (not a GET, with
\* credentials, told to bypass) neither reads nor stores.
CacheMiddleware(q) ==
    /\ asked[q].at = "idle"
    /\ \E should \in BOOLEAN :
         IF should /\ entry # NotCached
         THEN /\ asked' = [asked EXCEPT ![q].at = "answered"]
              /\ hits' = hits \cup {entry}
         ELSE /\ asked' = [asked EXCEPT ![q] = [at |-> "handling", stores |-> should,
                                              read |-> NotCached, clears |-> clears]]
              /\ UNCHANGED hits
    /\ UNCHANGED <<entry, version, clears, cleared>>

\* The handler reads the data, some time before it sends them.
HandlerReads(q) ==
    /\ asked[q].at = "handling"
    /\ asked' = [asked EXCEPT ![q].at = "sending", ![q].read = version]
    /\ UNCHANGED <<entry, version, clears, hits, cleared>>

\* The overridden send stores successful answers.
Stores(q, ok) == asked[q].stores /\ ok

\* An answer is sent, by the handler or, for an error, by the error handler.
CacheSend(q, ok) ==
    /\ asked[q].at \in (IF ok THEN {"sending"} ELSE {"handling", "sending"})
    /\ asked' = [asked EXCEPT ![q].at = "answered"]
    /\ IF Stores(q, ok)
       THEN /\ entry' = IF ok THEN asked[q].read ELSE ErrorBody
            /\ cleared' = [cleared EXCEPT !.raced = asked[q].clears < clears]
       ELSE UNCHANGED <<entry, cleared>>
    /\ UNCHANGED <<version, clears, hits>>

\* Some write of the data, which removes nothing by itself.
DataChange ==
    /\ version < MaxVersions
    /\ version' = version + 1
    /\ UNCHANGED <<asked, entry, clears, hits, cleared>>

\* clearCacheKey, clearCache
ClearCacheKey ==
    /\ clears < MaxClears
    /\ clears' = clears + 1
    /\ entry' = NotCached
    /\ cleared' = [version |-> version, raced |-> FALSE]
    /\ UNCHANGED <<asked, version, hits>>

\* The entry's time to live is over.
CacheExpires ==
    /\ entry # NotCached
    /\ entry' = NotCached
    /\ UNCHANGED <<asked, version, clears, hits, cleared>>

CacheNext ==
    \/ \E q \in CachedRequests : \/ CacheMiddleware(q) \/ HandlerReads(q)
                                 \/ \E ok \in BOOLEAN : CacheSend(q, ok)
    \/ DataChange \/ ClearCacheKey \/ CacheExpires

-----------------------------------------------------------------------------
CacheTypeOK ==
    /\ \A q \in CachedRequests : asked[q].at \in {"idle", "handling", "sending", "answered"}
    /\ entry \in 0 .. ErrorBody /\ version \in 1 .. MaxVersions
    /\ clears \in 0 .. MaxClears

(* The cache answers with data that a handler has sent successfully, and     *)
(* after a removal with none older than the removal, unless a request that   *)
(* began before it has stored its answer since.                              *)
CacheHonest ==
    /\ hits \subseteq 1 .. version
    /\ entry # NotCached /\ ~ cleared.raced => entry >= cleared.version

=============================================================================
