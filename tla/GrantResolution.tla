-------------------------- MODULE GrantResolution --------------------------
(***************************************************************************)
(* How a request of the grants service gets the grant definition it works  *)
(* with. The version is looked up in the catalogue, its definition is read *)
(* from the collection grants or fetched from S3 and stored there, and the *)
(* processes of the service keep the definitions they used in a cache.     *)
(* Every database or S3 call of a resolution is one step, and the steps of *)
(* different requests interleave.                                          *)
(***************************************************************************)
EXTENDS ConfigCatalog, Sequences

CONSTANTS Requests,         \* requests that resolve a definition
          Processes,        \* processes of the service
          ProcessOf,        \* the process that serves a request
          MaxFetchAttempts, \* MAX_FETCH_ATTEMPTS
          MaxCacheEntries,  \* MAX_CACHE_ENTRIES
          MaxFaults         \* bound on failures injected into fetches

ASSUME ResolutionAssumption ==
    /\ "grant" \in Files
    /\ ProcessOf \in [Requests -> Processes]
    /\ MaxFetchAttempts \in Nat \ {0}
    /\ MaxCacheEntries \in Nat \ {0}
    /\ MaxFaults \in Nat

VARIABLES stored,     \* grants: versions whose definition is stored
          cache,      \* per process: definitionCache, oldest entry first
          resolution, \* per request: the resolution under way
          faults      \* failures injected so far

resolutionVars == <<stored, cache, resolution, faults>>

----------------------------------------------------------------------------
(* A resolution: `key` is the version resolveRolledForward found and will  *)
(* cache under (None when the resolution is not for the cache), `version`  *)
(* the one the definition is loaded for, `definition` the version whose    *)
(* definition was served.                                                  *)
Steps == {"idle", "roll", "find", "latch", "stored", "fetch", "transient",
          "permanent", "save", "mark", "load", "done", "failed"}

Resolution == [at : Steps, want : Versions \cup {None},
               key : Versions \cup {None}, version : Versions \cup {None},
               definition : Versions \cup {None}]

Idle == [at |-> "idle", want |-> None, key |-> None, version |-> None,
         definition |-> None]

(* A definition is its version. *)
CacheEntry == [key : Versions, definition : Versions]

InitResolution ==
    /\ stored = {}
    /\ cache = [p \in Processes |-> <<>>]
    /\ resolution = [r \in Requests |-> Idle]
    /\ faults = 0

At(r, step) == resolution[r].at = step

(* r's resolution goes on to a step, with some of its fields changed. *)
Goes(r, step) == resolution' = [resolution EXCEPT ![r].at = step]

Ends(r, step, definition) ==
    resolution' = [resolution EXCEPT ![r].at = step,
                                     ![r].definition = definition]

(* resolveGrantForSubmission, and resolveCurrentGrantUseCase for a pinned  *)
(* version. An application without a version, resolved to the seeded       *)
(* definition 0.0.0, is older than configuration versions and left out.    *)
Submission(want) == [Idle EXCEPT !.at = "find", !.want = want]

Current(pinned) == [Idle EXCEPT !.at = "roll", !.want = pinned]

----------------------------------------------------------------------------
Cached(p, v) == {i \in DOMAIN cache[p] : cache[p][i].key = v}

(* setCachedDefinition: a full cache drops its oldest entry first; setting *)
(* a key again keeps its place.                                            *)
WithCached(entries, key, definition) ==
    LET room == IF Len(entries) >= MaxCacheEntries THEN Tail(entries)
                                                   ELSE entries
        at == {i \in DOMAIN room : room[i].key = key}
        entry == [key |-> key, definition |-> definition] IN
    IF at = {} THEN Append(room, entry)
    ELSE [room EXCEPT ![CHOOSE i \in at : TRUE] = entry]

(* loadDefinition: what resolveAndFetchGrant returned is cached under the  *)
(* version that was looked up before.                                      *)
Finish(r, definition) ==
    LET p == ProcessOf[r]
        key == resolution[r].key IN
    /\ Ends(r, "done", definition)
    /\ cache' = IF key = None THEN cache
                ELSE [cache EXCEPT ![p] = WithCached(@, key, definition)]

(* resolveRolledForward: the newest usable version of the pinned major,    *)
(* then its definition from the cache or through resolveAndFetchGrant.     *)
RollForward(r) ==
    LET p == ProcessOf[r]
        v == LatestForMajor(MajorOf[resolution[r].want]) IN
    /\ At(r, "roll")
    /\ resolution' = [resolution EXCEPT ![r] =
         IF v = None THEN [@ EXCEPT !.at = "failed"]
         ELSE IF Cached(p, v) # {}
         THEN [@ EXCEPT !.at = "done", !.key = v, !.definition =
                 cache[p][CHOOSE i \in Cached(p, v) : TRUE].definition]
         ELSE [@ EXCEPT !.at = "find", !.want = v, !.key = v]]
    /\ UNCHANGED <<catalog, stored, cache, faults>>

(* resolveAndFetchGrant up to its next call: the version is looked up -    *)
(* again, when it was rolled forward to - and guardFetchStatus decides.    *)
AfterGuard(file) ==
    IF file.fetchStatus = "fetched" THEN "stored"
    ELSE IF file.fetchStatus = "permanent_error" THEN "failed"
    ELSE IF file.fetchAttempts >= MaxFetchAttempts THEN "latch"
    ELSE "fetch"

FindVersion(r) ==
    LET want == resolution[r].want
        v == IF want = None THEN LatestActive
             ELSE LatestForMajor(MajorOf[want]) IN
    /\ At(r, "find")
    /\ resolution' = [resolution EXCEPT ![r] =
         IF v = None THEN [@ EXCEPT !.at = "failed"]
         ELSE [@ EXCEPT !.at = AfterGuard(FileOf(v, "grant")), !.version = v]]
    /\ UNCHANGED <<catalog, stored, cache, faults>>

(* A failure is recorded and the request fails: too many attempts, a       *)
(* permanent S3 failure or an invalid definition, a transient S3 failure.  *)
RecordFailure(r) ==
    /\ \/ At(r, "latch") \/ At(r, "permanent") \/ At(r, "transient")
    /\ UpdateFetchStatus(resolution[r].version, "grant",
                         IF At(r, "transient") THEN "transient_error"
                                               ELSE "permanent_error")
    /\ Goes(r, "failed")
    /\ UNCHANGED <<stored, cache, faults>>

(* findStoredGrant: a version recorded as fetched is read from grants. *)
FindStoredGrant(r) ==
    LET v == resolution[r].version IN
    /\ At(r, "stored")
    /\ IF v \in stored THEN Finish(r, v) ELSE Goes(r, "fetch") /\ cache' = cache
    /\ UNCHANGED <<catalog, stored, faults>>

\* Mutant: the fetch is recorded before the definition is stored.
FetchUnsaved(r) ==
    /\ At(r, "fetch") /\ Goes(r, "mark")
    /\ UNCHANGED <<catalog, stored, cache, faults>>

(* fetchFromS3: the file, or S3 fails for good or for now. *)
FetchFromS3(r) ==
    /\ At(r, "fetch")
    /\ \/ Goes(r, "save") /\ faults' = faults
       \/ /\ faults < MaxFaults /\ faults' = faults + 1
          /\ \E step \in {"permanent", "transient"} : Goes(r, step)
    /\ UNCHANGED <<catalog, stored, cache>>

(* saveFromDefinition and saveOrFallback: the definition is inserted, or   *)
(* another request inserted it first, or it does not build and is latched  *)
(* as permanent, or the database fails and the request with it.            *)
SaveGrant(r) ==
    LET v == resolution[r].version IN
    /\ At(r, "save")
    /\ \/ /\ stored' = stored \cup {v}
          /\ Goes(r, IF v \in stored THEN "load" ELSE "mark")
          /\ faults' = faults
       \/ /\ faults < MaxFaults /\ faults' = faults + 1
          /\ \E step \in {"permanent", "failed"} : Goes(r, step)
          /\ stored' = stored
    /\ UNCHANGED <<catalog, cache>>

(* The fetch is recorded; after a lost insert the stored definition, which *)
(* is the winner's, is read back.                                          *)
MarkFetched(r) ==
    LET v == resolution[r].version IN
    /\ At(r, "mark") \/ At(r, "load")
    /\ UpdateFetchStatus(v, "grant", "fetched")
    /\ Finish(r, v)
    /\ UNCHANGED <<stored, faults>>

(* fetchConfigDefinitions: an operator stores the files a version lacks.   *)
(* No fetch status is written.                                             *)
FetchConfigDefinitions(v) ==
    /\ v \in Announced /\ FileOf(v, "grant").has
    /\ v \notin stored
    /\ stored' = stored \cup {v}
    /\ UNCHANGED <<catalog, cache, resolution, faults>>

(* A process stops: its cache and the requests it served are gone. *)
Restart(p) ==
    /\ cache' = [cache EXCEPT ![p] = <<>>]
    /\ resolution' = [r \in Requests |->
                        IF ProcessOf[r] = p THEN Idle ELSE resolution[r]]

Resolve(r) ==
    \/ RollForward(r) \/ FindVersion(r) \/ RecordFailure(r)
    \/ FindStoredGrant(r) \/ FetchFromS3(r) \/ SaveGrant(r) \/ MarkFetched(r)

ResolutionTypeOK ==
    /\ CatalogTypeOK
    /\ stored \subseteq Versions
    /\ cache \in [Processes -> Seq(CacheEntry)]
    /\ \A p \in Processes : Len(cache[p]) <= MaxCacheEntries
    /\ resolution \in [Requests -> Resolution]
    /\ faults \in 0 .. MaxFaults

----------------------------------------------------------------------------
(* A version is recorded as fetched only once its definition is stored,    *)
(* whatever process stopped or lost the race to insert it in between:      *)
(* the record is what sends later requests to grants instead of to S3.     *)
FetchedIsStored ==
    \A v \in Announced : FileOf(v, "grant").fetchStatus = "fetched" => v \in stored
============================================================================
