---------------------- MODULE ApplicationIntakeProofs ----------------------
(***************************************************************************)
(* What applications are resolved to and what their series are, for any    *)
(* number of requests, processes, versions and references.                 *)
(*                                                                         *)
(* The resolution of a definition keeps to the major it was asked for and  *)
(* stores before it records (ResolutionsSound). A request in a transaction *)
(* knows that the application it read still stands where it stood, unless  *)
(* the document was touched since (FlowsSound).                            *)
(***************************************************************************)
EXTENDS ApplicationIntake, ConfigCatalogProofs, SequenceTheorems

\* A cached definition is of the major of the version it is cached under.
CacheSound ==
    \A p \in Processes : \A i \in DOMAIN cache[p] :
        MajorOf[cache[p][i].definition] = MajorOf[cache[p][i].key]

\* A resolution that has found its version, and what it has done to it.
Found == {"latch", "stored", "fetch", "transient", "permanent", "save", "mark", "load"}

ResolutionSound(res) ==
    /\ res.at = "roll" => res.want \in Versions
    /\ res.key # None => res.want # None /\ MajorOf[res.key] = MajorOf[res.want]
    /\ res.at \in Found =>
          /\ res.version \in Announced
          /\ res.want # None => MajorOf[res.version] = MajorOf[res.want]
    /\ res.at \in {"mark", "load"} => res.version \in stored
    /\ res.at = "done" =>
          /\ res.definition \in Versions
          /\ res.want # None => MajorOf[res.definition] = MajorOf[res.want]
          /\ res.key = None => res.version \in stored

ResolutionsSound ==
    /\ CatalogSound
    /\ ResolutionTypeOK
    /\ FetchedIsStored
    /\ CacheSound
    /\ \A r \in Requests : ResolutionSound(resolution[r])

\* What a step of a resolution keeps of what the request asked for.
ResolutionKept(r) ==
    /\ resolution[r].at # "roll" =>
          /\ resolution'[r].want = resolution[r].want
          /\ resolution'[r].key = resolution[r].key
    /\ resolution[r].at = "roll" =>
          /\ resolution'[r].want \in Versions
          /\ MajorOf[resolution'[r].want] = MajorOf[resolution[r].want]
          /\ resolution'[r].at = "failed" \/ resolution'[r].key \in Versions
    /\ resolution[r].at \notin {"idle", "failed"}
    /\ resolution'[r].at \notin {"idle", "roll"}

\* r's resolution moves, and possibly the catalogue, the definitions or the cache.
ResolutionMoved(r, t) ==
    /\ resolution' = [resolution EXCEPT ![r] = t]
    /\ stored \subseteq stored' /\ stored' \subseteq Versions
    /\ CatalogSound' /\ Announced' = Announced
    /\ FetchedIsStored'
    /\ cache' \in [Processes -> Seq(CacheEntry)] /\ CacheSound'
    /\ \A p \in Processes : Len(cache'[p]) <= MaxCacheEntries
    /\ faults' \in 0 .. MaxFaults

----------------------------------------------------------------------------
\* The resolutions stay sound when one of them moves to a sound one.
LEMMA Moves ==
    ASSUME ResolutionsSound, NEW r \in Requests, NEW t \in Resolution,
           ResolutionMoved(r, t), ResolutionSound(t)'
    PROVE  ResolutionsSound' /\ \A q \in Requests : resolution'[q] =
                                    IF q = r THEN t ELSE resolution[q]
  <1>1. /\ resolution' \in [Requests -> Resolution]
        /\ \A q \in Requests : resolution'[q] = IF q = r THEN t ELSE resolution[q]
    BY DEF ResolutionsSound, ResolutionTypeOK, ResolutionMoved
  <1>2. ResolutionTypeOK'
    BY <1>1 DEF ResolutionTypeOK, ResolutionMoved, CatalogSound
  <1>3. ASSUME NEW q \in Requests PROVE ResolutionSound(resolution[q])'
    <2>1. CASE q = r
      BY <2>1, <1>1 DEF ResolutionSound
    <2>2. CASE q # r
      <3>1. ResolutionSound(resolution[q]) /\ resolution'[q] = resolution[q]
        BY <2>2, <1>1 DEF ResolutionsSound
      <3>2. QED
        BY <3>1 DEF ResolutionSound, ResolutionMoved
    <2>3. QED
      BY <2>1, <2>2
  <1>4. QED
    BY <1>1, <1>2, <1>3 DEF ResolutionsSound, ResolutionMoved

\* The step touches nothing but r's resolution and the count of faults.
LEMMA OnlyResolution ==
    ASSUME ResolutionsSound, NEW r \in Requests, NEW t,
           resolution' = [resolution EXCEPT ![r] = t],
           UNCHANGED <<catalog, stored, cache>>, faults' \in 0 .. MaxFaults
    PROVE  ResolutionMoved(r, t)
  <1>1. CatalogSound' /\ Announced' = Announced
    BY DEF ResolutionsSound, CatalogSound, CatalogTypeOK, GrantFileHeld, Announced
  <1>2. FetchedIsStored'
    BY <1>1 DEF ResolutionsSound, FetchedIsStored, FileOf
  <1>3. CacheSound'
    BY DEF ResolutionsSound, CacheSound
  <1>4. QED
    BY <1>1, <1>2, <1>3 DEF ResolutionMoved, ResolutionsSound, ResolutionTypeOK

LEMMA FaultsFacts ==
    ASSUME ResolutionsSound,
           faults' = faults \/ (faults < MaxFaults /\ faults' = faults + 1)
    PROVE  faults' \in 0 .. MaxFaults
  <1>1. faults \in 0 .. MaxFaults /\ MaxFaults \in Nat
    BY ResolutionAssumption DEF ResolutionsSound, ResolutionTypeOK
  <1>2. QED
    BY <1>1

\* setCachedDefinition keeps the bound and every other entry.
LEMMA WithCachedFacts ==
    ASSUME NEW entries \in Seq(CacheEntry), Len(entries) <= MaxCacheEntries,
           NEW key \in Versions, NEW definition \in Versions,
           \A i \in DOMAIN entries : MajorOf[entries[i].definition] = MajorOf[entries[i].key],
           MajorOf[definition] = MajorOf[key]
    PROVE  /\ WithCached(entries, key, definition) \in Seq(CacheEntry)
           /\ Len(WithCached(entries, key, definition)) <= MaxCacheEntries
           /\ \A i \in DOMAIN WithCached(entries, key, definition) :
                 MajorOf[WithCached(entries, key, definition)[i].definition]
                    = MajorOf[WithCached(entries, key, definition)[i].key]
  <1> DEFINE room == IF Len(entries) >= MaxCacheEntries THEN Tail(entries) ELSE entries
             at == {i \in DOMAIN room : room[i].key = key}
             entry == [key |-> key, definition |-> definition]
             new == WithCached(entries, key, definition)
  <1>1. MaxCacheEntries \in Nat \ {0} /\ Len(entries) \in Nat
    BY ResolutionAssumption
  <1>2. /\ room \in Seq(CacheEntry) /\ Len(room) \in Nat /\ Len(room) + 1 <= MaxCacheEntries
        /\ \A i \in 1 .. Len(room) : MajorOf[room[i].definition] = MajorOf[room[i].key]
    <2>1. CASE Len(entries) >= MaxCacheEntries
      <3>1. room = Tail(entries) /\ Len(entries) > 0
        BY <2>1, <1>1
      <3>2. /\ Tail(entries) \in Seq(CacheEntry) /\ Len(Tail(entries)) = Len(entries) - 1
            /\ \A i \in 1 .. Len(Tail(entries)) :
                  Tail(entries)[i] = entries[i + 1] /\ i + 1 \in DOMAIN entries
        BY <3>1, <1>1
      <3> HIDE DEF room
      <3>3. QED
        BY <3>1, <3>2, <1>1
    <2>2. CASE ~(Len(entries) >= MaxCacheEntries)
      <3>1. room = entries
        BY <2>2
      <3> HIDE DEF room
      <3>2. QED
        BY <2>2, <3>1, <1>1
    <2>3. QED
      BY <2>1, <2>2
  <1>3. entry \in CacheEntry /\ entry.key = key /\ entry.definition = definition
    BY DEF CacheEntry
  <1>4. new = IF at = {} THEN Append(room, entry) ELSE [room EXCEPT ![CHOOSE i \in at : TRUE] = entry]
    BY DEF WithCached
  <1>5. at \subseteq 1 .. Len(room)
    <2> HIDE DEF room
    <2> QED
      BY <1>2
  <1> HIDE DEF room, at, entry, new
  <1> SUFFICES /\ new \in Seq(CacheEntry) /\ Len(new) <= MaxCacheEntries
               /\ \A i \in DOMAIN new : MajorOf[new[i].definition] = MajorOf[new[i].key]
    BY DEF new
  <1>6. CASE at = {}
    <2>1. new = Append(room, entry)
      BY <1>4, <1>6
    <2>2. /\ new \in Seq(CacheEntry) /\ Len(new) = Len(room) + 1
          /\ DOMAIN new = 1 .. Len(room) + 1
          /\ \A i \in 1 .. Len(room) : new[i] = room[i]
          /\ new[Len(room) + 1] = entry
      BY <2>1, <1>2, <1>3
    <2>3. \A i \in DOMAIN new : i \in 1 .. Len(room) \/ i = Len(room) + 1
      BY <2>2, <1>2
    <2>4. QED
      BY <2>2, <2>3, <1>2, <1>3
  <1>7. CASE at # {}
    <2>1. PICK k \in at : new = [room EXCEPT ![k] = entry]
      BY <1>4, <1>7
    <2>2. /\ k \in 1 .. Len(room)
          /\ new \in Seq(CacheEntry) /\ Len(new) = Len(room) /\ DOMAIN new = 1 .. Len(room)
          /\ \A i \in 1 .. Len(room) : new[i] = IF i = k THEN entry ELSE room[i]
      BY <2>1, <1>2, <1>3, <1>5, ExceptSeq
    <2>3. QED
      BY <2>2, <1>1, <1>2, <1>3
  <1>8. QED
    BY <1>6, <1>7

----------------------------------------------------------------------------
(***************************************************************************)
(* The steps of a resolution                                               *)
(***************************************************************************)
ResolutionStep(r) ==
    /\ ResolutionsSound' /\ ResolutionKept(r)
    /\ \A q \in Requests : q # r => resolution'[q] = resolution[q]
    /\ stored \subseteq stored'

\* t is r's resolution at another step, with another definition.
MovedTo(r, t, step) ==
    /\ t.at = step
    /\ t.want = resolution[r].want /\ t.key = resolution[r].key
    /\ t.version = resolution[r].version

\* What is known of a resolution from its type.
LEMMA ResolutionFields ==
    ASSUME ResolutionsSound, NEW r \in Requests
    PROVE  /\ resolution[r] \in Resolution
           /\ resolution[r].at \in Steps
           /\ resolution[r].want \in Versions \cup {None}
           /\ resolution[r].key \in Versions \cup {None}
           /\ resolution[r].version \in Versions \cup {None}
           /\ ResolutionSound(resolution[r])
  BY DEF ResolutionsSound, ResolutionTypeOK, Resolution

\* Goes changes the step of a resolution and nothing else of it.
LEMMA GoesFacts ==
    ASSUME ResolutionsSound, NEW r \in Requests, NEW step \in Steps, Goes(r, step)
    PROVE  \E t \in Resolution : /\ resolution' = [resolution EXCEPT ![r] = t]
                                 /\ MovedTo(r, t, step)
                                 /\ t.definition = resolution[r].definition
  <1> DEFINE t == [resolution[r] EXCEPT !.at = step]
  <1>1. resolution[r] \in Resolution
    BY ResolutionFields
  <1>2. t \in Resolution /\ MovedTo(r, t, step) /\ t.definition = resolution[r].definition
    BY <1>1 DEF Resolution, MovedTo
  <1>3. resolution' = [resolution EXCEPT ![r] = t]
    BY DEF Goes
  <1> HIDE DEF t
  <1>4. QED
    BY <1>2, <1>3

\* What a step that moves r's resolution to t must show.
LEMMA StepTo ==
    ASSUME ResolutionsSound, NEW r \in Requests, NEW t \in Resolution, NEW step,
           ResolutionMoved(r, t), ResolutionSound(t)', MovedTo(r, t, step),
           resolution[r].at \notin {"idle", "failed", "roll"},
           step \notin {"idle", "roll"}
    PROVE  ResolutionStep(r)
  <1>1. /\ ResolutionsSound'
        /\ \A q \in Requests : resolution'[q] = IF q = r THEN t ELSE resolution[q]
    BY Moves
  <1>2. stored \subseteq stored'
    BY DEF ResolutionMoved
  <1>3. ResolutionKept(r)
    BY <1>1 DEF ResolutionKept, MovedTo
  <1>4. QED
    BY <1>1, <1>2, <1>3 DEF ResolutionStep

LEMMA RollForwardStep ==
    ASSUME ResolutionsSound, NEW r \in Requests, RollForward(r)
    PROVE  ResolutionStep(r)
  <1> DEFINE p == ProcessOf[r]
             res == resolution[r]
             v == LatestForMajor(MajorOf[res.want])
             d == cache[p][CHOOSE i \in Cached(p, v) : TRUE].definition
             t == IF v = None THEN [res EXCEPT !.at = "failed"]
                  ELSE IF Cached(p, v) # {}
                  THEN [res EXCEPT !.at = "done", !.key = v, !.definition = d]
                  ELSE [res EXCEPT !.at = "find", !.want = v, !.key = v]
  <1>1. /\ res \in Resolution /\ res.at = "roll" /\ res.want \in Versions
        /\ ResolutionSound(res)
    <2>1. res \in Resolution /\ ResolutionSound(res)
      BY ResolutionFields
    <2>2. res.at = "roll"
      BY DEF RollForward, At
    <2>3. QED
      BY <2>1, <2>2 DEF ResolutionSound
  <1>2. v = None \/ (v \in Versions /\ MajorOf[v] = MajorOf[res.want])
    <2> DEFINE major == MajorOf[res.want]
    <2> HIDE DEF major
    <2>1. \/ LatestForMajor(major) = None
          \/ LatestForMajor(major) \in ActiveVersions /\ MajorOf[LatestForMajor(major)] = major
      BY LatestForMajorFacts
    <2>2. v = LatestForMajor(major)
      BY Zenon DEF major
    <2>3. QED
      <3> HIDE DEF v, res
      <3> QED
        BY <2>1, <2>2, ActiveFacts DEF major
  <1>3. ASSUME Cached(p, v) # {}, v # None
        PROVE  d \in Versions /\ MajorOf[d] = MajorOf[v]
    <2>1. p \in Processes /\ cache[p] \in Seq(CacheEntry)
      BY ResolutionAssumption DEF ResolutionsSound, ResolutionTypeOK
    <2>2. PICK i \in Cached(p, v) : d = cache[p][i].definition
      BY <1>3
    <2>3. i \in DOMAIN cache[p] /\ cache[p][i].key = v
      BY <2>2 DEF Cached
    <2>4. cache[p][i] \in CacheEntry
      BY <2>1, <2>3
    <2>5. QED
      BY <2>1, <2>2, <2>3, <2>4 DEF CacheEntry, ResolutionsSound, CacheSound
  <1>4. resolution' = [resolution EXCEPT ![r] = t] /\ UNCHANGED <<catalog, stored, cache, faults>>
    BY DEF RollForward
  <1> HIDE DEF d, v
  <1>5. /\ t \in Resolution
        /\ \/ t.at = "failed" /\ t.want = res.want /\ t.key = res.key
           \/ /\ t.at = "done" /\ t.want = res.want /\ t.key = v /\ v # None
              /\ t.definition \in Versions /\ MajorOf[t.definition] = MajorOf[v]
           \/ t.at = "find" /\ t.want = v /\ t.key = v /\ v # None
    <2> HIDE DEF res
    <2>1. CASE v = None
      BY <1>1, <2>1 DEF Resolution, Steps
    <2>2. CASE v # None /\ Cached(p, v) # {}
      BY <1>1, <1>2, <1>3, <2>2 DEF Resolution, Steps
    <2>3. CASE v # None /\ Cached(p, v) = {}
      BY <1>1, <1>2, <2>3 DEF Resolution, Steps
    <2>4. QED
      BY <2>1, <2>2, <2>3
  <1> HIDE DEF t
  <1>6. PICK u \in Resolution : u = t
    BY <1>5
  <1>7. ResolutionMoved(r, u)
    BY <1>4, <1>6, OnlyResolution DEF ResolutionsSound, ResolutionTypeOK
  <1>8. ResolutionSound(u)'
    <2> HIDE DEF res
    <2> QED
      BY <1>1, <1>2, <1>5, <1>6, CatalogAssumption DEF ResolutionSound, Found
  <1>9. /\ ResolutionsSound'
        /\ \A q \in Requests : resolution'[q] = IF q = r THEN u ELSE resolution[q]
    BY <1>7, <1>8, Moves
  <1>10. ResolutionKept(r)
    <2>1. resolution[r] = res /\ resolution'[r] = u
      BY <1>9
    <2> HIDE DEF res
    <2>2. QED
      BY <2>1, <1>1, <1>2, <1>5, <1>6, CatalogAssumption DEF ResolutionKept
  <1>11. QED
    BY <1>4, <1>9, <1>10 DEF ResolutionStep

LEMMA FindVersionStep ==
    ASSUME ResolutionsSound, NEW r \in Requests, FindVersion(r)
    PROVE  ResolutionStep(r)
  <1> DEFINE res == resolution[r]
             v == IF res.want = None THEN LatestActive
                  ELSE LatestForMajor(MajorOf[res.want])
             step == AfterGuard(FileOf(v, "grant"))
             t == IF v = None THEN [res EXCEPT !.at = "failed"]
                  ELSE [res EXCEPT !.at = step, !.version = v]
  <1>1. /\ res \in Resolution /\ res.at = "find" /\ ResolutionSound(res)
        /\ res.want \in Versions \cup {None}
    BY ResolutionFields DEF FindVersion, At
  <1>2. v = None \/ (v \in Announced /\ (res.want # None => MajorOf[v] = MajorOf[res.want]))
    <2> DEFINE major == MajorOf[res.want]
    <2> HIDE DEF major
    <2>1. \/ LatestForMajor(major) = None
          \/ LatestForMajor(major) \in ActiveVersions /\ MajorOf[LatestForMajor(major)] = major
      BY LatestForMajorFacts
    <2>2. CASE res.want = None
      BY <2>2, LatestActiveFacts, ActiveFacts
    <2>3. CASE res.want # None
      <3>1. v = LatestForMajor(major)
        BY <2>3, Zenon DEF major
      <3> HIDE DEF v, res
      <3>2. QED
        BY <2>1, <3>1, ActiveFacts DEF major
    <2>4. QED
      BY <2>2, <2>3
  <1>3. step \in {"stored", "failed", "latch", "fetch"}
    BY DEF AfterGuard
  <1>4. resolution' = [resolution EXCEPT ![r] = t] /\ UNCHANGED <<catalog, stored, cache, faults>>
    BY DEF FindVersion
  <1> HIDE DEF v, step
  <1>5. /\ t \in Resolution
        /\ t.want = res.want /\ t.key = res.key
        /\ \/ t.at = "failed"
           \/ t.at \in {"stored", "latch", "fetch"} /\ t.version = v /\ v # None
    <2> HIDE DEF res
    <2>1. CASE v = None
      BY <1>1, <2>1 DEF Resolution, Steps
    <2>2. CASE v # None
      BY <1>1, <1>2, <1>3, <2>2, ActiveFacts DEF Resolution, Steps
    <2>3. QED
      BY <2>1, <2>2
  <1> HIDE DEF t
  <1>6. PICK u \in Resolution : u = t
    BY <1>5
  <1>7. ResolutionMoved(r, u)
    BY <1>4, <1>6, OnlyResolution DEF ResolutionsSound, ResolutionTypeOK
  <1>8. ResolutionSound(u)'
    <2>1. Announced' = Announced
      BY <1>7 DEF ResolutionMoved
    <2> HIDE DEF res
    <2>2. QED
      BY <1>1, <1>2, <1>5, <1>6, <2>1 DEF ResolutionSound, Found
  <1>9. /\ ResolutionsSound'
        /\ \A q \in Requests : resolution'[q] = IF q = r THEN u ELSE resolution[q]
    BY <1>7, <1>8, Moves
  <1>10. ResolutionKept(r)
    <2>1. resolution[r] = res /\ resolution'[r] = u
      BY <1>9
    <2> HIDE DEF res
    <2>2. QED
      BY <2>1, <1>1, <1>5, <1>6 DEF ResolutionKept
  <1>11. QED
    BY <1>4, <1>9, <1>10 DEF ResolutionStep

LEMMA RecordFailureStep ==
    ASSUME ResolutionsSound, NEW r \in Requests, RecordFailure(r)
    PROVE  ResolutionStep(r)
  <1> DEFINE s == IF At(r, "transient") THEN "transient_error" ELSE "permanent_error"
             v == resolution[r].version
  <1>1. /\ resolution[r].at \in {"latch", "permanent", "transient"}
        /\ UpdateFetchStatus(v, "grant", s) /\ Goes(r, "failed")
        /\ UNCHANGED <<stored, cache, faults>>
    BY DEF RecordFailure, At
  <1>2. s \in Statuses /\ s # "fetched"
    BY StatusFacts
  <1>3. v \in Announced /\ ResolutionSound(resolution[r])
    BY <1>1, ResolutionFields DEF ResolutionSound, Found
  <1> HIDE DEF s, v
  <1>4. /\ CatalogSound' /\ Announced' = Announced
        /\ \A w \in Announced, g \in Files :
              FileOf(w, g)'.fetchStatus =
                 (IF w = v /\ g = "grant" THEN s ELSE FileOf(w, g).fetchStatus)
    BY <1>1, <1>2, <1>3, Recording, ResolutionAssumption DEF ResolutionsSound
  <1>5. FetchedIsStored'
    <2>1. ASSUME NEW w \in Announced, FileOf(w, "grant")'.fetchStatus = "fetched"
          PROVE  w \in stored'
      BY <2>1, <1>1, <1>2, <1>4, ResolutionAssumption DEF ResolutionsSound, FetchedIsStored
    <2>2. QED
      BY <2>1, <1>4 DEF FetchedIsStored
  <1>6. PICK t \in Resolution : /\ resolution' = [resolution EXCEPT ![r] = t]
                                /\ MovedTo(r, t, "failed")
    BY <1>1, GoesFacts DEF Steps
  <1>7. ResolutionMoved(r, t)
    BY <1>1, <1>4, <1>5, <1>6
       DEF ResolutionMoved, ResolutionsSound, ResolutionTypeOK, CacheSound
  <1>8. ResolutionSound(t)'
    BY <1>3, <1>6 DEF ResolutionSound, MovedTo, Found
  <1>9. QED
    BY <1>1, <1>6, <1>7, <1>8, StepTo

\* loadDefinition: the definition that is served is cached under its own major.
LEMMA FinishFacts ==
    ASSUME ResolutionsSound, NEW r \in Requests, resolution[r].at \in Found,
           Finish(r, resolution[r].version)
    PROVE  /\ \E t \in Resolution : /\ resolution' = [resolution EXCEPT ![r] = t]
                                    /\ MovedTo(r, t, "done")
                                    /\ t.definition = resolution[r].version
           /\ cache' \in [Processes -> Seq(CacheEntry)] /\ CacheSound'
           /\ \A p \in Processes : Len(cache'[p]) <= MaxCacheEntries
  <1> DEFINE v == resolution[r].version
             key == resolution[r].key
             p == ProcessOf[r]
             t == [resolution[r] EXCEPT !.at = "done", !.definition = v]
             new == WithCached(cache[p], key, v)
  <1>1. /\ resolution[r] \in Resolution /\ v \in Versions /\ p \in Processes
        /\ key = None \/ (key \in Versions /\ MajorOf[v] = MajorOf[key])
    <2>1. ResolutionSound(resolution[r]) /\ resolution[r] \in Resolution /\ key \in Versions \cup {None}
      BY ResolutionFields
    <2>2. v \in Announced /\ (key # None => MajorOf[v] = MajorOf[key])
      BY <2>1 DEF ResolutionSound
    <2>3. QED
      BY <2>1, <2>2, ActiveFacts, ResolutionAssumption
  <1>2. t \in Resolution /\ MovedTo(r, t, "done") /\ t.definition = v
    BY <1>1 DEF Resolution, MovedTo, Steps
  <1>3. /\ resolution' = [resolution EXCEPT ![r] = t]
        /\ cache' = IF key = None THEN cache ELSE [cache EXCEPT ![p] = new]
    BY DEF Finish, Ends
  <1> HIDE DEF t
  <1>4. /\ cache \in [Processes -> Seq(CacheEntry)] /\ CacheSound
        /\ \A q \in Processes : Len(cache[q]) <= MaxCacheEntries
    BY DEF ResolutionsSound, ResolutionTypeOK
  <1>5. CASE key = None
    BY <1>2, <1>3, <1>4, <1>5 DEF CacheSound
  <1>6. CASE key # None
    <2>1. /\ cache[p] \in Seq(CacheEntry) /\ Len(cache[p]) <= MaxCacheEntries
          /\ \A i \in DOMAIN cache[p] :
                MajorOf[cache[p][i].definition] = MajorOf[cache[p][i].key]
      BY <1>1, <1>4 DEF CacheSound
    <2>2. /\ new \in Seq(CacheEntry) /\ Len(new) <= MaxCacheEntries
          /\ \A i \in DOMAIN new : MajorOf[new[i].definition] = MajorOf[new[i].key]
      <3>1. key \in Versions /\ MajorOf[v] = MajorOf[key]
        BY <1>1, <1>6
      <3> HIDE DEF v, key, p
      <3>2. QED
        BY <1>1, <2>1, <3>1, WithCachedFacts
    <2>3. cache' = [cache EXCEPT ![p] = new]
      BY <1>3, <1>6
    <2> HIDE DEF new, p
    <2>4. \A q \in Processes : cache'[q] = IF q = p THEN new ELSE cache[q]
      BY <2>3, <1>4
    <2>5. cache' \in [Processes -> Seq(CacheEntry)]
      BY <2>2, <2>3, <1>4
    <2>6. CacheSound'
      BY <2>2, <2>4, <1>4 DEF CacheSound
    <2>7. \A q \in Processes : Len(cache'[q]) <= MaxCacheEntries
      BY <2>2, <2>4, <1>4
    <2>8. QED
      BY <1>2, <1>3, <2>5, <2>6, <2>7
  <1>7. QED
    BY <1>5, <1>6

LEMMA FindStoredGrantStep ==
    ASSUME ResolutionsSound, NEW r \in Requests, FindStoredGrant(r)
    PROVE  ResolutionStep(r)
  <1> DEFINE v == resolution[r].version
  <1>1. /\ resolution[r].at = "stored" /\ UNCHANGED <<catalog, stored, faults>>
        /\ v \in Announced /\ ResolutionSound(resolution[r])
    BY ResolutionFields DEF FindStoredGrant, At, ResolutionSound, Found
  <1>2. CatalogSound' /\ Announced' = Announced /\ FetchedIsStored'
    BY <1>1 DEF ResolutionsSound, CatalogSound, CatalogTypeOK, GrantFileHeld, Announced,
                FetchedIsStored, FileOf
  <1>3. CASE v \in stored
    <2>1. Finish(r, v)
      BY <1>3 DEF FindStoredGrant
    <2>2. PICK t \in Resolution : /\ resolution' = [resolution EXCEPT ![r] = t]
                                  /\ MovedTo(r, t, "done")
                                  /\ t.definition = v
      BY <2>1, <1>1, FinishFacts DEF Found
    <2>3. ResolutionMoved(r, t)
      BY <2>1, <2>2, <1>1, <1>2, FinishFacts
         DEF ResolutionMoved, ResolutionsSound, ResolutionTypeOK, Found
    <2>4. ResolutionSound(t)'
      BY <2>2, <1>1, <1>2, <1>3, ActiveFacts DEF ResolutionSound, MovedTo, Found
    <2>5. QED
      BY <2>2, <2>3, <2>4, <1>1, StepTo
  <1>4. CASE v \notin stored
    <2>1. Goes(r, "fetch") /\ cache' = cache
      BY <1>4 DEF FindStoredGrant
    <2>2. PICK t \in Resolution : /\ resolution' = [resolution EXCEPT ![r] = t]
                                  /\ MovedTo(r, t, "fetch")
      BY <2>1, GoesFacts DEF Steps
    <2>3. ResolutionMoved(r, t)
      BY <2>1, <2>2, <1>1, OnlyResolution DEF ResolutionsSound, ResolutionTypeOK
    <2>4. ResolutionSound(t)'
      BY <2>2, <1>1, <1>2 DEF ResolutionSound, MovedTo, Found
    <2>5. QED
      BY <2>2, <2>3, <2>4, <1>1, StepTo
  <1>5. QED
    BY <1>3, <1>4

LEMMA FetchFromS3Step ==
    ASSUME ResolutionsSound, NEW r \in Requests, FetchFromS3(r)
    PROVE  ResolutionStep(r)
  <1>1. PICK step \in {"save", "permanent", "transient"} : Goes(r, step)
    BY DEF FetchFromS3
  <1>2. /\ resolution[r].at = "fetch" /\ UNCHANGED <<catalog, stored, cache>>
        /\ faults' \in 0 .. MaxFaults
    BY FaultsFacts DEF FetchFromS3, At
  <1>3. PICK t \in Resolution : /\ resolution' = [resolution EXCEPT ![r] = t]
                                /\ MovedTo(r, t, step)
    BY <1>1, GoesFacts DEF Steps
  <1>4. ResolutionMoved(r, t)
    BY <1>2, <1>3, OnlyResolution
  <1>5. ResolutionSound(t)'
    BY <1>1, <1>2, <1>3, <1>4, ResolutionFields
       DEF ResolutionSound, MovedTo, Found, ResolutionMoved
  <1>6. QED
    BY <1>1, <1>2, <1>3, <1>4, <1>5, StepTo

LEMMA SaveGrantStep ==
    ASSUME ResolutionsSound, NEW r \in Requests, SaveGrant(r)
    PROVE  ResolutionStep(r)
  <1> DEFINE v == resolution[r].version
  <1>1. /\ resolution[r].at = "save" /\ UNCHANGED <<catalog, cache>>
        /\ faults' \in 0 .. MaxFaults
        /\ v \in Announced /\ v \in Versions /\ ResolutionSound(resolution[r])
    BY FaultsFacts, ResolutionFields, ActiveFacts DEF SaveGrant, At, ResolutionSound, Found
  <1>2. PICK step \in {"load", "mark", "permanent", "failed"} :
           /\ Goes(r, step)
           /\ \/ stored' = stored \cup {v}
              \/ stored' = stored /\ step \in {"permanent", "failed"}
    BY DEF SaveGrant
  <1>3. /\ CatalogSound' /\ Announced' = Announced /\ CacheSound'
        /\ stored \subseteq stored' /\ stored' \subseteq Versions
    BY <1>1, <1>2 DEF ResolutionsSound, CatalogSound, CatalogTypeOK, GrantFileHeld, Announced,
                      CacheSound, ResolutionTypeOK
  <1>4. FetchedIsStored'
    BY <1>1, <1>3 DEF ResolutionsSound, FetchedIsStored, FileOf
  <1>5. PICK t \in Resolution : /\ resolution' = [resolution EXCEPT ![r] = t]
                                /\ MovedTo(r, t, step)
    BY <1>2, GoesFacts DEF Steps
  <1>6. ResolutionMoved(r, t)
    BY <1>1, <1>3, <1>4, <1>5 DEF ResolutionMoved, ResolutionsSound, ResolutionTypeOK
  <1>7. ResolutionSound(t)'
    BY <1>1, <1>2, <1>3, <1>5 DEF ResolutionSound, MovedTo, Found
  <1>8. QED
    BY <1>1, <1>2, <1>5, <1>6, <1>7, StepTo

LEMMA MarkFetchedStep ==
    ASSUME ResolutionsSound, NEW r \in Requests, MarkFetched(r)
    PROVE  ResolutionStep(r)
  <1> DEFINE v == resolution[r].version
  <1>1. /\ resolution[r].at \in {"mark", "load"} /\ UNCHANGED <<stored, faults>>
        /\ UpdateFetchStatus(v, "grant", "fetched") /\ Finish(r, v)
    BY DEF MarkFetched, At
  <1>2. v \in Announced /\ v \in stored /\ v \in Versions /\ ResolutionSound(resolution[r])
    BY <1>1, ResolutionFields, ActiveFacts DEF ResolutionSound, Found
  <1>3. /\ CatalogSound' /\ Announced' = Announced
        /\ \A w \in Announced, g \in Files :
              FileOf(w, g)'.fetchStatus =
                 (IF w = v /\ g = "grant" THEN "fetched" ELSE FileOf(w, g).fetchStatus)
    <2> HIDE DEF v
    <2>1. "fetched" \in Statuses
      BY StatusFacts
    <2>2. QED
      BY <1>1, <1>2, <2>1, Recording, ResolutionAssumption DEF ResolutionsSound
  <1>4. FetchedIsStored'
    <2>1. ASSUME NEW w \in Announced, FileOf(w, "grant")'.fetchStatus = "fetched"
          PROVE  w \in stored'
      BY <2>1, <1>1, <1>2, <1>3, ResolutionAssumption DEF ResolutionsSound, FetchedIsStored
    <2>2. QED
      BY <2>1, <1>3 DEF FetchedIsStored
  <1>5. PICK t \in Resolution : /\ resolution' = [resolution EXCEPT ![r] = t]
                                /\ MovedTo(r, t, "done")
                                /\ t.definition = v
    BY <1>1, FinishFacts DEF Found
  <1>6. ResolutionMoved(r, t)
    BY <1>1, <1>3, <1>4, <1>5, FinishFacts
       DEF ResolutionMoved, ResolutionsSound, ResolutionTypeOK, Found
  <1>7. ResolutionSound(t)'
    BY <1>1, <1>2, <1>5 DEF ResolutionSound, MovedTo, Found
  <1>8. QED
    BY <1>1, <1>5, <1>6, <1>7, StepTo

LEMMA ResolveStep ==
    ASSUME ResolutionsSound, NEW r \in Requests, Resolve(r)
    PROVE  ResolutionStep(r)
  BY RollForwardStep, FindVersionStep, RecordFailureStep, FindStoredGrantStep,
     FetchFromS3Step, SaveGrantStep, MarkFetchedStep DEF Resolve

----------------------------------------------------------------------------
(***************************************************************************)
(* The inductive invariant                                                 *)
(***************************************************************************)
IntakeTypeOK ==
    /\ applications \in [Refs -> Application \cup {None}]
    /\ series \subseteq Series
    /\ events \in Seq(Refs)
    /\ flow \in [Requests -> Flow]
    /\ restarts \in 0 .. MaxRestarts /\ announced \in 0 .. MaxEvents

ApplicationSound(ref) ==
    /\ applications[ref].originalConfigVersion \in stored
    /\ MajorOf[applications[ref].currentConfigVersion]
          = MajorOf[applications[ref].originalConfigVersion]

ApplicationsSound == \A ref \in Refs : Exists(ref) => ApplicationSound(ref)

\* The chains, their latest members, and no event for an application there is not.
SeriesSound ==
    /\ SeriesAreChains
    /\ \A s \in series : s.latestClientRef \in s.clientRefs
    /\ \A i \in DOMAIN events : Exists(events[i])

\* What a request knows of the application f.task.previous it read.
ReadSound(f, res) ==
    /\ f.doc \in Application /\ f.task.previous \in Refs /\ Exists(f.task.previous)
    /\ f.at = "current" =>
          /\ res.want \in Versions
          /\ MajorOf[res.want] = MajorOf[applications[f.task.previous].originalConfigVersion]
          /\ res.at \notin {"idle", "roll", "failed"} => res.key \in Versions
    /\ f.at = "create" => f.doc.position \in AmendablePositions
    /\ f.task.kind = "replace" /\ f.task.previous \notin f.touched =>
          applications[f.task.previous].position = f.doc.position

FlowSound(r, f, res) ==
    /\ f.at \in {"current", "create", "again"} => f.task \in Tasks[r]
    /\ f.at = "again" => f.task.kind = "replace"
    /\ f.at = "current" => f.task.kind # "submit"
    /\ f.at = "create" => f.task.kind # "status" /\ res.key = None /\ res.at # "roll"
    /\ f.at \in {"current", "create"} /\ f.task.kind # "submit" => ReadSound(f, res)

FlowsSound == \A r \in Requests : FlowSound(r, flow[r], resolution[r])

Inv ==
    /\ ResolutionsSound
    /\ IntakeTypeOK
    /\ ApplicationsSound
    /\ SeriesSound
    /\ FlowsSound

----------------------------------------------------------------------------
(***************************************************************************)
(* What the use cases do to a resolution and to their flows                *)
(***************************************************************************)
LEMMA CalledFacts ==
    ASSUME NEW want \in Versions \cup {None}
    PROVE  /\ Submission(want) \in Resolution /\ Submission(want).at = "find"
           /\ Submission(want).key = None
           /\ Current(want) \in Resolution /\ Current(want).at = "roll"
           /\ Current(want).want = want /\ Current(want).key = None
           /\ Idle \in Resolution /\ Idle.at = "idle" /\ Idle.key = None
  BY DEF Submission, Current, Idle, Resolution, Steps

\* A use case calls a resolution, or has done with it.
LEMMA CallsFacts ==
    ASSUME ResolutionsSound, NEW r \in Requests, NEW t \in Resolution, Calls(r, t),
           t.key = None, t.at \in {"idle", "find", "roll"},
           t.at = "roll" => t.want \in Versions,
           UNCHANGED <<catalog, stored, cache, faults>>
    PROVE  /\ ResolutionsSound'
           /\ \A q \in Requests : resolution'[q] = IF q = r THEN t ELSE resolution[q]
  <1>1. ResolutionMoved(r, t)
    BY OnlyResolution DEF Calls, ResolutionsSound, ResolutionTypeOK
  <1>2. ResolutionSound(t)'
    BY DEF ResolutionSound, Found
  <1>3. QED
    BY <1>1, <1>2, Moves

\* The resolutions stay as they are.
LEMMA ResolutionsStay ==
    ASSUME ResolutionsSound, UNCHANGED <<catalog, resolutionVars>>
    PROVE  ResolutionsSound'
  <1>1. CatalogSound' /\ Announced' = Announced
    BY DEF ResolutionsSound, CatalogSound, CatalogTypeOK, GrantFileHeld, Announced
  <1>2. ResolutionTypeOK' /\ FetchedIsStored' /\ CacheSound'
    BY <1>1 DEF ResolutionsSound, ResolutionTypeOK, FetchedIsStored, CacheSound, resolutionVars,
                FileOf, CatalogSound
  <1>3. \A r \in Requests : ResolutionSound(resolution[r])'
    BY <1>1 DEF ResolutionsSound, ResolutionSound, resolutionVars
  <1>4. QED
    BY <1>1, <1>2, <1>3 DEF ResolutionsSound

LEMMA AnsweredFacts ==
    ASSUME NEW answer \in Answers
    PROVE  Answered(answer) \in Flow /\ Answered(answer).at = "end"
  BY DEF Answered, NewFlow, Flow

\* A request that has ended knows nothing.
LEMMA EndedSound ==
    ASSUME NEW r \in Requests, flow'[r].at = "end"
    PROVE  FlowSound(r, flow[r], resolution[r])'
  BY DEF FlowSound

\* Touching notes a write in every open transaction and changes no more of it.
LEMMA TouchingFacts ==
    ASSUME IntakeTypeOK, NEW refs \in SUBSET Refs
    PROVE  /\ Touching(refs, flow) \in [Requests -> Flow]
           /\ \A q \in Requests :
                 LET f == Touching(refs, flow)[q] IN
                 /\ f.at = flow[q].at /\ f.task = flow[q].task /\ f.doc = flow[q].doc
                 /\ f.answer = flow[q].answer
                 /\ flow[q].touched \subseteq f.touched
                 /\ InTransaction(q) => refs \subseteq f.touched
  <1> DEFINE f(q) == IF InTransaction(q) THEN [flow[q] EXCEPT !.touched = @ \cup refs]
                     ELSE flow[q]
  <1>1. Touching(refs, flow) = [q \in Requests |-> f(q)]
    BY DEF Touching
  <1>2. ASSUME NEW q \in Requests
        PROVE  /\ f(q) \in Flow
               /\ f(q).at = flow[q].at /\ f(q).task = flow[q].task /\ f(q).doc = flow[q].doc
               /\ f(q).answer = flow[q].answer
               /\ flow[q].touched \subseteq f(q).touched
               /\ InTransaction(q) => refs \subseteq f(q).touched
    <2>1. flow[q] \in Flow
      BY DEF IntakeTypeOK
    <2>2. CASE InTransaction(q)
      BY <2>1, <2>2 DEF Flow
    <2>3. CASE ~InTransaction(q)
      BY <2>1, <2>3
    <2>4. QED
      BY <2>2, <2>3
  <1> HIDE DEF f
  <1>3. QED
    BY <1>1, <1>2

----------------------------------------------------------------------------
(***************************************************************************)
(* What no step does to the applications that exist                        *)
(***************************************************************************)
ApplicationsKept ==
    \A ref \in Refs : Exists(ref) =>
        /\ applications'[ref] # None
        /\ applications'[ref].originalConfigVersion = applications[ref].originalConfigVersion

\* q's flow is not touched, or only that: documents were written meanwhile.
FlowKept(q) ==
    /\ flow'[q].at = flow[q].at /\ flow'[q].task = flow[q].task /\ flow'[q].doc = flow[q].doc
    /\ flow[q].touched \subseteq flow'[q].touched
    /\ InTransaction(q) =>
          \A ref \in Refs : Exists(ref) /\ ref \notin flow'[q].touched =>
              applications'[ref].position = applications[ref].position

\* What a request knows stays true while other requests write.
LEMMA FlowKeptSound ==
    ASSUME FlowsSound, ApplicationsKept, NEW q \in Requests, FlowKept(q),
           resolution'[q] = resolution[q]
    PROVE  FlowSound(q, flow[q], resolution[q])'
  <1> DEFINE f == flow[q]
             res == resolution[q]
  <1>1. FlowSound(q, f, res)
    BY DEF FlowsSound
  <1>2. ASSUME f.at \in {"current", "create"}, f.task.kind # "submit"
        PROVE  ReadSound(f, res)'
    <2>1. ReadSound(f, res)
      BY <1>1, <1>2 DEF FlowSound
    <2>2. /\ f.task.previous \in Refs
          /\ applications'[f.task.previous] # None
          /\ applications'[f.task.previous].originalConfigVersion =
                applications[f.task.previous].originalConfigVersion
      BY <2>1 DEF ReadSound, ApplicationsKept
    <2>3. ASSUME f.task.kind = "replace", f.task.previous \notin f'.touched
          PROVE  applications'[f.task.previous].position = f.doc.position
      <3>1. InTransaction(q) /\ f.task.previous \notin f.touched
        BY <1>2, <2>3 DEF InTransaction, FlowKept
      <3>2. QED
        BY <3>1, <2>1, <2>3 DEF FlowKept, ReadSound
    <2>4. f'.at = f.at /\ f'.task = f.task /\ f'.doc = f.doc /\ res' = res
      BY DEF FlowKept
    <2> HIDE DEF f, res
    <2>5. QED
      BY <2>1, <2>2, <2>3, <2>4 DEF ReadSound, Exists
  <1>3. f'.at = f.at /\ f'.task = f.task /\ res' = res
    BY DEF FlowKept
  <1>4. FlowSound(q, f, res)'
    <2> HIDE DEF f, res
    <2> QED
      BY <1>1, <1>2, <1>3 DEF FlowSound
  <1>5. QED
    BY <1>4

\* The documents change, but neither which there are nor whom they refer to.
LEMMA SeriesStay ==
    ASSUME Inv, UNCHANGED <<series, events>>,
           \A ref \in Refs : /\ (applications'[ref] = None) = (applications[ref] = None)
                             /\ Exists(ref) => applications'[ref].refs = applications[ref].refs
    PROVE  SeriesSound'
  <1>1. (\A s \in series : s.clientRefs \subseteq Refs) /\ (\A i \in DOMAIN events : events[i] \in Refs)
    BY DEF Inv, IntakeTypeOK, Series
  <1>2. \A ref \in Refs : Exists(ref)' <=> Exists(ref)
    BY DEF Exists
  <1>3. SeriesAreChains'
    <2>1. ASSUME NEW s \in series, NEW m \in s.clientRefs
          PROVE  Exists(m)' /\ applications'[m].refs = s.clientRefs
      BY <1>1, <1>2 DEF Inv, SeriesSound, SeriesAreChains
    <2>2. ASSUME NEW ref \in Refs, Exists(ref)'
          PROVE  /\ \E s \in series : \A u \in series : (ref \in u.clientRefs) = (u = s)
                 /\ \E i \in DOMAIN events : \A j \in DOMAIN events : (events[j] = ref) = (j = i)
      BY <1>2, <2>2 DEF Inv, SeriesSound, SeriesAreChains
    <2>3. QED
      BY <2>1, <2>2 DEF SeriesAreChains
  <1>4. QED
    BY <1>1, <1>2, <1>3 DEF SeriesSound, Inv

LEMMA ApplicationsStay ==
    ASSUME ApplicationsSound, SeriesSound, stored \subseteq stored',
           UNCHANGED <<applications, series, events>>
    PROVE  ApplicationsSound' /\ SeriesSound' /\ ApplicationsKept
  BY DEF ApplicationsSound, ApplicationSound, SeriesSound, SeriesAreChains, ApplicationsKept, Exists

----------------------------------------------------------------------------
(***************************************************************************)
(* Steps that write no document                                            *)
(***************************************************************************)
LEMMA OneFlow ==
    ASSUME Inv, ResolutionsSound', NEW r \in Requests, NEW f \in Flow,
           flow' = [flow EXCEPT ![r] = f],
           UNCHANGED <<applications, series, events, restarts, announced>>,
           stored \subseteq stored',
           \A q \in Requests : q # r => resolution'[q] = resolution[q],
           FlowSound(r, f, resolution[r])'
    PROVE  Inv'
  <1>1. /\ flow' \in [Requests -> Flow]
        /\ \A q \in Requests : flow'[q] = IF q = r THEN f ELSE flow[q]
    BY DEF Inv, IntakeTypeOK
  <1>2. IntakeTypeOK'
    BY <1>1 DEF Inv, IntakeTypeOK
  <1>3. ApplicationsSound' /\ SeriesSound' /\ ApplicationsKept
    BY ApplicationsStay DEF Inv
  <1>4. ASSUME NEW q \in Requests PROVE FlowSound(q, flow[q], resolution[q])'
    <2>1. CASE q = r
      BY <2>1, <1>1
    <2>2. CASE q # r
      <3>1. FlowKept(q) /\ resolution'[q] = resolution[q]
        BY <2>2, <1>1 DEF FlowKept
      <3>2. QED
        BY <3>1, <1>3, FlowKeptSound DEF Inv
    <2>3. QED
      BY <2>1, <2>2
  <1>5. QED
    BY <1>2, <1>3, <1>4 DEF Inv, FlowsSound

\* A request is answered and nothing is written.
LEMMA OnlyAnswer ==
    ASSUME Inv, NEW r \in Requests, NEW answer \in Answers, Answer(r, answer),
           ResolutionsSound', \A q \in Requests : q # r => resolution'[q] = resolution[q],
           UNCHANGED <<stored, applications, series, events, restarts, announced>>
    PROVE  Inv'
  <1>1. PICK f \in Flow : f = Answered(answer) /\ f.at = "end"
    BY AnsweredFacts
  <1>2. flow' = [flow EXCEPT ![r] = f]
    BY <1>1 DEF Answer
  <1>3. FlowSound(r, f, resolution[r])'
    BY <1>1 DEF FlowSound
  <1>4. QED
    BY <1>1, <1>2, <1>3, OneFlow

\* r ends its resolution.
LEMMA CallsIdle ==
    ASSUME ResolutionsSound, NEW r \in Requests, Calls(r, Idle),
           UNCHANGED <<catalog, stored, cache, faults>>
    PROVE  ResolutionsSound' /\ \A q \in Requests : q # r => resolution'[q] = resolution[q]
  <1>1. Idle \in Resolution /\ Idle.at = "idle" /\ Idle.key = None
    BY CalledFacts
  <1>2. QED
    BY <1>1, CallsFacts

LEMMA ResolveInv ==
    ASSUME Inv, NEW r \in Requests, Resolve(r), UNCHANGED intakeVars
    PROVE  Inv'
  <1>1. ResolutionStep(r)
    BY ResolveStep DEF Inv
  <1>2. IntakeTypeOK'
    BY DEF Inv, IntakeTypeOK, intakeVars
  <1>3. ApplicationsSound' /\ SeriesSound' /\ ApplicationsKept
    BY <1>1, ApplicationsStay DEF Inv, ResolutionStep, intakeVars
  <1>4. ASSUME NEW q \in Requests PROVE FlowSound(q, flow[q], resolution[q])'
    <2>1. flow' = flow /\ applications' = applications
      BY DEF intakeVars
    <2>2. CASE q # r
      <3>1. FlowKept(q) /\ resolution'[q] = resolution[q]
        BY <2>1, <2>2, <1>1 DEF FlowKept, ResolutionStep
      <3>2. QED
        BY <3>1, <1>3, FlowKeptSound DEF Inv
    <2>3. CASE q = r
      <3> DEFINE f == flow[r]
                 res == resolution[r]
      <3>1. FlowSound(r, f, res) /\ ResolutionKept(r)
        BY <1>1 DEF Inv, FlowsSound, ResolutionStep
      <3>2. ASSUME f.at \in {"current", "create"}, f.task.kind # "submit"
            PROVE  ReadSound(f, res)'
        <4>1. ReadSound(f, res)
          BY <3>1, <3>2 DEF FlowSound
        <4>2. f' = f
          BY <2>1
        <4> HIDE DEF f
        <4>3. QED
          BY <4>1, <4>2, <2>1, <3>1 DEF ReadSound, ResolutionKept, Exists
      <3>3. f.at = "create" => res.at # "roll"
        BY <3>1 DEF FlowSound
      <3>4. FlowSound(r, f, res)'
        <4>1. f' = f
          BY <2>1
        <4> HIDE DEF f
        <4>2. QED
          BY <4>1, <3>1, <3>2, <3>3 DEF FlowSound, ResolutionKept
      <3>5. QED
        BY <3>4, <2>3
    <2>4. QED
      BY <2>2, <2>3
  <1>5. QED
    BY <1>1, <1>2, <1>3, <1>4 DEF Inv, FlowsSound, ResolutionStep

\* A task that is asked for names the references its kind needs.
LEMMA TaskFacts ==
    ASSUME NEW r \in Requests, NEW t \in Tasks[r]
    PROVE  /\ t \in Task /\ t.want \in Versions \cup {None}
           /\ t.kind \in {"submit", "replace", "status"}
           /\ t.kind # "status" => t.ref \in Refs
           /\ t.kind # "submit" => t.previous \in Refs
  BY IntakeAssumption DEF Task

LEMMA SubmitInv ==
    ASSUME Inv, NEW r \in Requests, NEW t \in Tasks[r], SubmitApplication(r, t)
    PROVE  Inv'
  <1>1. /\ t.kind = "submit" /\ t \in Task /\ t.want \in Versions \cup {None}
        /\ Calls(r, Submission(t.want)) /\ UNCHANGED <<catalog, stored, cache, faults>>
        /\ UNCHANGED <<applications, series, events, restarts, announced>>
    BY TaskFacts DEF SubmitApplication
  <1>2. PICK called \in Resolution : /\ called = Submission(t.want) /\ called.at = "find"
                                     /\ called.key = None
    BY <1>1, CalledFacts
  <1>3. /\ ResolutionsSound'
        /\ \A q \in Requests : resolution'[q] = IF q = r THEN called ELSE resolution[q]
    BY <1>1, <1>2, CallsFacts DEF Inv
  <1>4. PICK f \in Flow : flow' = [flow EXCEPT ![r] = f] /\ f.at = "create" /\ f.task = t
    <2> DEFINE f == [flow[r] EXCEPT !.at = "create", !.task = t]
    <2>1. flow[r] \in Flow
      BY DEF Inv, IntakeTypeOK
    <2>2. f \in Flow /\ f.at = "create" /\ f.task = t
      BY <2>1, <1>1 DEF Flow
    <2>3. flow' = [flow EXCEPT ![r] = f]
      BY DEF SubmitApplication
    <2> HIDE DEF f
    <2>4. QED
      BY <2>2, <2>3
  <1>5. FlowSound(r, f, resolution[r])'
    BY <1>1, <1>2, <1>3, <1>4 DEF FlowSound
  <1>6. QED
    BY <1>1, <1>3, <1>4, <1>5, OneFlow

LEMMA ReadInv ==
    ASSUME Inv, NEW r \in Requests, NEW t \in Tasks[r], ReadApplication(r, t)
    PROVE  Inv'
  <1> DEFINE doc == applications[t.previous]
  <1>1. /\ t.kind \in {"replace", "status"} /\ t \in Task /\ t.previous \in Refs
        /\ UNCHANGED <<catalog, stored, cache, faults>>
        /\ UNCHANGED <<applications, series, events, restarts, announced>>
    BY TaskFacts DEF ReadApplication
  <1>2. CASE ~Exists(t.previous)
    <2>1. Answer(r, "notFound") /\ UNCHANGED <<catalog, resolutionVars>>
      BY <1>1, <1>2 DEF ReadApplication, resolutionVars
    <2>2. ResolutionsSound'
      BY <2>1, ResolutionsStay DEF Inv
    <2>3. "notFound" \in Answers /\ resolution' = resolution
      BY <2>1 DEF Answers, resolutionVars
    <2>4. QED
      BY <1>1, <2>1, <2>2, <2>3, OnlyAnswer
  <1>3. CASE Exists(t.previous)
    <2>1. /\ flow' = [flow EXCEPT ![r].at = "current", ![r].task = t, ![r].doc = doc]
          /\ Calls(r, Current(doc.currentConfigVersion))
      BY <1>3 DEF ReadApplication
    <2>2. doc \in Application /\ doc.currentConfigVersion \in Versions
          /\ MajorOf[doc.currentConfigVersion] = MajorOf[doc.originalConfigVersion]
      <3>1. doc \in Application
        BY <1>1, <1>3 DEF Inv, IntakeTypeOK, Exists
      <3>2. ApplicationSound(t.previous)
        BY <1>1, <1>3 DEF Inv, ApplicationsSound
      <3>3. QED
        BY <3>1, <3>2 DEF Application, ApplicationSound
    <2> HIDE DEF doc
    <2>3. PICK called \in Resolution :
             /\ called = Current(doc.currentConfigVersion) /\ called.at = "roll"
             /\ called.want = doc.currentConfigVersion /\ called.key = None
      BY <2>2, CalledFacts
    <2>4. /\ ResolutionsSound'
          /\ \A q \in Requests : resolution'[q] = IF q = r THEN called ELSE resolution[q]
      BY <1>1, <2>1, <2>2, <2>3, CallsFacts DEF Inv
    <2>5. PICK f \in Flow : /\ flow' = [flow EXCEPT ![r] = f]
                            /\ f.at = "current" /\ f.task = t /\ f.doc = doc
      <3> DEFINE f == [flow[r] EXCEPT !.at = "current", !.task = t, !.doc = doc]
      <3>1. flow[r] \in Flow
        BY DEF Inv, IntakeTypeOK
      <3>2. f \in Flow /\ f.at = "current" /\ f.task = t /\ f.doc = doc
        BY <3>1, <1>1, <2>2 DEF Flow
      <3>3. flow' = [flow EXCEPT ![r] = f]
        BY <2>1
      <3> HIDE DEF f
      <3>4. QED
        BY <3>2, <3>3
    <2>6. ReadSound(f, resolution[r])'
      <3>1. applications'[f.task.previous] = doc /\ f.task.previous \in Refs /\ doc # None
        BY <1>1, <1>3, <2>5 DEF doc, Exists
      <3>2. resolution'[r] = called
        BY <2>4
      <3>3. QED
        BY <3>1, <3>2, <2>2, <2>3, <2>5 DEF ReadSound, Exists
    <2>7. FlowSound(r, f, resolution[r])'
      BY <1>1, <2>5, <2>6 DEF FlowSound
    <2>8. QED
      BY <1>1, <2>4, <2>5, <2>7, OneFlow
  <1>4. QED
    BY <1>2, <1>3

LEMMA AcceptInv ==
    ASSUME Inv, NEW r \in Requests, Accept(r)
    PROVE  Inv'
  BY SubmitInv, ReadInv DEF Accept

LEMMA RunAgainInv ==
    ASSUME Inv, NEW r \in Requests, RunAgain(r)
    PROVE  Inv'
  <1>1. flow[r].task \in Tasks[r]
    BY DEF RunAgain, Inv, FlowsSound, FlowSound
  <1>2. QED
    BY <1>1, ReadInv DEF RunAgain

LEMMA FailsInv ==
    ASSUME Inv, NEW r \in Requests, ResolutionFails(r) \/ RefuseAnswers(r)
    PROVE  Inv'
  <1>1. PICK answer \in Answers : Answer(r, answer)
    BY DEF ResolutionFails, RefuseAnswers, Answers
  <1>2. Calls(r, Idle) /\ UNCHANGED <<catalog, stored, cache, faults>>
          /\ UNCHANGED <<applications, series, events, restarts, announced>>
    BY DEF ResolutionFails, RefuseAnswers
  <1>3. ResolutionsSound' /\ \A q \in Requests : q # r => resolution'[q] = resolution[q]
    BY <1>2, CallsIdle DEF Inv
  <1>4. QED
    BY <1>1, <1>2, <1>3, OnlyAnswer

----------------------------------------------------------------------------
(***************************************************************************)
(* Steps that write documents                                              *)
(***************************************************************************)
LEMMA AllFlows ==
    ASSUME Inv, ResolutionsSound', IntakeTypeOK', ApplicationsSound', SeriesSound',
           ApplicationsKept, NEW r \in Requests,
           \A q \in Requests : q # r => FlowKept(q) /\ resolution'[q] = resolution[q],
           FlowSound(r, flow[r], resolution[r])'
    PROVE  Inv'
  <1>1. ASSUME NEW q \in Requests, q # r PROVE FlowSound(q, flow[q], resolution[q])'
    BY <1>1, FlowKeptSound DEF Inv
  <1>2. FlowsSound'
    BY <1>1 DEF FlowsSound
  <1>3. QED
    BY <1>2 DEF Inv

\* Others are at most touched, r goes on to f.
LEMMA TouchedFlows ==
    ASSUME Inv, NEW r \in Requests, NEW refs \in SUBSET Refs, NEW f \in Flow,
           flow' = [Touching(refs, flow) EXCEPT ![r] = f],
           \A ref \in Refs : Exists(ref) /\ ref \notin refs =>
               applications'[ref].position = applications[ref].position
    PROVE  /\ flow' \in [Requests -> Flow] /\ flow'[r] = f
           /\ \A q \in Requests : q # r => FlowKept(q)
  <1> DEFINE T == Touching(refs, flow)
  <1>1. T \in [Requests -> Flow]
    BY TouchingFacts DEF Inv
  <1>2. \A q \in Requests :
           /\ T[q].at = flow[q].at /\ T[q].task = flow[q].task /\ T[q].doc = flow[q].doc
           /\ flow[q].touched \subseteq T[q].touched
           /\ InTransaction(q) => refs \subseteq T[q].touched
    BY TouchingFacts DEF Inv
  <1> HIDE DEF T
  <1>3. /\ flow' \in [Requests -> Flow]
        /\ \A q \in Requests : flow'[q] = IF q = r THEN f ELSE T[q]
    BY <1>1 DEF T
  <1>4. ASSUME NEW q \in Requests, q # r PROVE FlowKept(q)
    BY <1>2, <1>3, <1>4 DEF FlowKept
  <1>5. QED
    BY <1>3, <1>4

\* persistResolvedVersion changes one field of one document, within the major.
LEMMA WrittenFacts ==
    ASSUME Inv, NEW r \in Requests, flow[r].at = "current", resolution[r].at = "done"
    PROVE  /\ flow[r].task \in Tasks[r] /\ flow[r].task.kind \in {"replace", "status"}
           /\ ReadSound(flow[r], resolution[r])
           /\ Written(r).refs \in SUBSET Refs
           /\ Written(r).app \in [Refs -> Application \cup {None}]
           /\ \A ref \in Refs :
                 /\ (Written(r).app[ref] = None) = (applications[ref] = None)
                 /\ Exists(ref) =>
                      /\ Written(r).app[ref].originalConfigVersion
                            = applications[ref].originalConfigVersion
                      /\ MajorOf[Written(r).app[ref].currentConfigVersion]
                            = MajorOf[applications[ref].originalConfigVersion]
                      /\ Written(r).app[ref].position = applications[ref].position
                      /\ Written(r).app[ref].refs = applications[ref].refs
  <1> DEFINE v == resolution[r].key
             previous == flow[r].task.previous
             new == [applications[previous] EXCEPT !.currentConfigVersion = v]
  <1>1. FlowSound(r, flow[r], resolution[r])
    BY DEF Inv, FlowsSound
  <1>2. flow[r].task \in Tasks[r] /\ flow[r].task.kind \in {"replace", "status"}
    BY <1>1, TaskFacts DEF FlowSound
  <1>3. ReadSound(flow[r], resolution[r])
    BY <1>1, <1>2 DEF FlowSound
  <1>4. /\ previous \in Refs /\ Exists(previous) /\ v \in Versions
        /\ MajorOf[resolution[r].want] = MajorOf[applications[previous].originalConfigVersion]
    BY <1>3 DEF ReadSound
  <1>5. MajorOf[v] = MajorOf[applications[previous].originalConfigVersion]
    <2>1. ResolutionSound(resolution[r])
      BY ResolutionFields DEF Inv
    <2>2. v # None
      BY <1>4, CatalogAssumption
    <2>3. MajorOf[v] = MajorOf[resolution[r].want]
      BY <2>1, <2>2 DEF ResolutionSound
    <2>4. QED
      BY <2>3, <1>4
  <1>6. \A ref \in Refs : /\ applications[ref] \in Application \cup {None}
                          /\ Exists(ref) => MajorOf[applications[ref].currentConfigVersion]
                                               = MajorOf[applications[ref].originalConfigVersion]
    BY DEF Inv, IntakeTypeOK, ApplicationsSound, ApplicationSound
  <1>7. CASE v = flow[r].doc.currentConfigVersion
    <2>1. Written(r).app = applications /\ Written(r).refs = {}
      BY <1>7 DEF Written
    <2>2. applications \in [Refs -> Application \cup {None}]
      BY DEF Inv, IntakeTypeOK
    <2>3. QED
      BY <1>2, <1>3, <1>6, <2>1, <2>2
  <1>8. CASE v # flow[r].doc.currentConfigVersion
    <2>1. Written(r).app = [applications EXCEPT ![previous] = new] /\ Written(r).refs = {previous}
      BY <1>8 DEF Written
    <2>2. /\ new \in Application
          /\ new.originalConfigVersion = applications[previous].originalConfigVersion
          /\ new.currentConfigVersion = v
          /\ new.position = applications[previous].position
          /\ new.refs = applications[previous].refs
      <3>1. applications[previous] \in Application
        BY <1>4, <1>6 DEF Exists
      <3> HIDE DEF v
      <3>2. QED
        BY <3>1, <1>4 DEF Application
    <2>3. new # None
      BY <2>2, IntakeAssumption
    <2> HIDE DEF new, previous, v
    <2>4. /\ Written(r).app \in [Refs -> Application \cup {None}]
          /\ \A ref \in Refs : Written(r).app[ref] = IF ref = previous THEN new ELSE applications[ref]
      BY <1>4, <2>1, <2>2 DEF Inv, IntakeTypeOK
    <2>5. QED
      BY <1>2, <1>3, <1>4, <1>5, <1>6, <2>1, <2>2, <2>3, <2>4 DEF Exists
  <1>9. QED
    BY <1>7, <1>8

LEMMA PersistInv ==
    ASSUME Inv, NEW r \in Requests, PersistResolvedVersion(r)
    PROVE  Inv'
  <1> DEFINE refs == Written(r).refs
             T == Touching(refs, flow)
             t == flow[r].task
  <1>1. /\ flow[r].at = "current" /\ resolution[r].at = "done"
        /\ applications' = Written(r).app
        /\ UNCHANGED <<catalog, stored, cache, faults>>
        /\ UNCHANGED <<series, events, restarts, announced>>
    BY DEF PersistResolvedVersion, At
  <1>2. /\ t \in Tasks[r] /\ t.kind \in {"replace", "status"}
        /\ ReadSound(flow[r], resolution[r])
        /\ refs \in SUBSET Refs
        /\ applications' \in [Refs -> Application \cup {None}]
    BY <1>1, WrittenFacts
  <1>3. \A ref \in Refs :
           /\ (applications'[ref] = None) = (applications[ref] = None)
           /\ Exists(ref) =>
                /\ applications'[ref].originalConfigVersion = applications[ref].originalConfigVersion
                /\ MajorOf[applications'[ref].currentConfigVersion]
                      = MajorOf[applications[ref].originalConfigVersion]
                /\ applications'[ref].position = applications[ref].position
                /\ applications'[ref].refs = applications[ref].refs
    BY <1>1, WrittenFacts
  <1>4. SeriesSound'
    BY <1>1, <1>3, SeriesStay
  <1>5. ApplicationsSound' /\ ApplicationsKept
    BY <1>1, <1>3 DEF Inv, ApplicationsSound, ApplicationSound, ApplicationsKept, Exists
  <1>6. ASSUME NEW f \in Flow, flow' = [T EXCEPT ![r] = f], ResolutionsSound',
               \A q \in Requests : q # r => resolution'[q] = resolution[q],
               FlowSound(r, f, resolution[r])'
        PROVE  Inv'
    <2>1. /\ flow' \in [Requests -> Flow] /\ flow'[r] = f
          /\ \A q \in Requests : q # r => FlowKept(q)
      <3> HIDE DEF refs
      <3> QED
        BY <1>2, <1>3, <1>6, TouchedFlows
    <2>2. IntakeTypeOK'
      BY <2>1, <1>1, <1>2 DEF Inv, IntakeTypeOK
    <2>3. FlowSound(r, flow[r], resolution[r])'
      BY <1>6, <2>1
    <2>4. QED
      BY <2>1, <2>2, <2>3, <1>4, <1>5, <1>6, AllFlows
  <1>7. ASSUME NEW answer \in Answers, flow' = [T EXCEPT ![r] = Answered(answer)],
               Calls(r, Idle)
        PROVE  Inv'
    <2>1. PICK f \in Flow : f = Answered(answer) /\ f.at = "end"
      BY AnsweredFacts
    <2>2. ResolutionsSound' /\ \A q \in Requests : q # r => resolution'[q] = resolution[q]
      BY <1>1, <1>7, CallsIdle DEF Inv
    <2>3. FlowSound(r, f, resolution[r])'
      BY <2>1 DEF FlowSound
    <2> HIDE DEF T
    <2>4. QED
      BY <1>6, <1>7, <2>1, <2>2, <2>3
  <1>8. CASE t.kind = "status" \/ flow[r].doc.position \notin AmendablePositions
    <2>1. PICK answer \in {"ok", "conflict"} :
             flow' = [T EXCEPT ![r] = Answered(answer)] /\ Calls(r, Idle)
      BY <1>8 DEF PersistResolvedVersion
    <2> HIDE DEF T
    <2>2. QED
      BY <1>7, <2>1 DEF Answers
  <1>9. CASE t.kind # "status" /\ flow[r].doc.position \in AmendablePositions
    <2>1. flow' = [T EXCEPT ![r].at = "create"] /\ Calls(r, Submission(t.want))
      BY <1>9 DEF PersistResolvedVersion
    <2>2. PICK called \in Resolution : /\ called = Submission(t.want) /\ called.at = "find"
                                       /\ called.key = None
      BY <1>2, TaskFacts, CalledFacts
    <2>3. /\ ResolutionsSound'
          /\ \A q \in Requests : resolution'[q] = IF q = r THEN called ELSE resolution[q]
      BY <1>1, <2>1, <2>2, CallsFacts DEF Inv
    <2>4. PICK f \in Flow : /\ flow' = [T EXCEPT ![r] = f]
                            /\ f.at = "create" /\ f.task = t /\ f.doc = flow[r].doc
                            /\ flow[r].touched \subseteq f.touched
      <3> DEFINE f == [T[r] EXCEPT !.at = "create"]
      <3>1. /\ T[r] \in Flow /\ T[r].task = t /\ T[r].doc = flow[r].doc
            /\ flow[r].touched \subseteq T[r].touched
        <4> HIDE DEF refs
        <4> QED
          BY <1>2, TouchingFacts DEF Inv
      <3>2. flow' = [T EXCEPT ![r] = f]
        BY <2>1
      <3> HIDE DEF T, t
      <3>3. /\ f \in Flow /\ f.at = "create" /\ f.task = t /\ f.doc = flow[r].doc
            /\ flow[r].touched \subseteq f.touched
        BY <3>1 DEF Flow
      <3> HIDE DEF f
      <3>4. QED
        BY <3>2, <3>3
    <2>5. ReadSound(f, resolution[r])'
      <3>1. /\ t.previous \in Refs /\ applications'[t.previous] # None
            /\ applications'[t.previous].position = applications[t.previous].position
        BY <1>2, <1>3 DEF ReadSound, Exists
      <3>2. QED
        BY <3>1, <1>2, <1>9, <2>4 DEF ReadSound, Exists
    <2>6. FlowSound(r, f, resolution[r])'
      BY <1>2, <1>9, <2>2, <2>3, <2>4, <2>5 DEF FlowSound
    <2> HIDE DEF T
    <2>7. QED
      BY <1>6, <2>3, <2>4, <2>6
  <1>10. QED
    BY <1>8, <1>9

----------------------------------------------------------------------------
(***************************************************************************)
(* A new application joins a series, or starts one                         *)
(***************************************************************************)
\* What Refs ref's commit writes: the new document, and the links of the kept members.
Joined(ref, kept, new) ==
    /\ applications' = [m \in Refs |-> IF m = ref THEN new
                                      ELSE IF m \in kept THEN Linked(m, kept \cup {ref})
                                      ELSE applications[m]]
    /\ events' = Append(events, ref)

\* The documents a submission or a replacement leaves.
LEMMA JoinedDocuments ==
    ASSUME Inv, NEW ref \in Refs, ~Exists(ref), NEW kept \in SUBSET Refs,
           \A m \in kept : Exists(m), NEW new \in Application, Joined(ref, kept, new)
    PROVE  /\ applications' \in [Refs -> Application \cup {None}]
           /\ applications'[ref] = new
           /\ \A m \in Refs : applications'[m] # None <=> (m = ref \/ Exists(m))
           /\ \A m \in Refs : Exists(m) =>
                /\ applications'[m].originalConfigVersion = applications[m].originalConfigVersion
                /\ applications'[m].currentConfigVersion = applications[m].currentConfigVersion
                /\ applications'[m].position = applications[m].position
                /\ m \in kept => applications'[m].refs = applications[m].refs \cup (kept \cup {ref})
                /\ m \notin kept => applications'[m].refs = applications[m].refs
  <1>1. \A m \in Refs : applications[m] \in Application \cup {None}
    BY DEF Inv, IntakeTypeOK
  <1>2. \A m \in Refs : applications'[m] = IF m = ref THEN new
                                          ELSE IF m \in kept THEN Linked(m, kept \cup {ref})
                                          ELSE applications[m]
    BY DEF Joined
  <1>3. ASSUME NEW m \in kept
        PROVE  /\ Linked(m, kept \cup {ref}) \in Application
               /\ Linked(m, kept \cup {ref}).originalConfigVersion = applications[m].originalConfigVersion
               /\ Linked(m, kept \cup {ref}).currentConfigVersion = applications[m].currentConfigVersion
               /\ Linked(m, kept \cup {ref}).position = applications[m].position
               /\ Linked(m, kept \cup {ref}).refs = applications[m].refs \cup (kept \cup {ref})
    <2>1. applications[m] \in Application
      BY <1>1 DEF Exists
    <2>2. QED
      BY <2>1 DEF Linked, Application
  <1>4. new # None /\ \A m \in kept : Linked(m, kept \cup {ref}) # None
    BY <1>3, IntakeAssumption
  <1>5. applications' \in [Refs -> Application \cup {None}]
    BY <1>1, <1>2, <1>3 DEF Joined
  <1>6. ASSUME NEW m \in Refs PROVE applications'[m] # None <=> (m = ref \/ Exists(m))
    BY <1>2, <1>4 DEF Exists
  <1>7. ASSUME NEW m \in Refs, Exists(m)
        PROVE  /\ applications'[m].originalConfigVersion = applications[m].originalConfigVersion
               /\ applications'[m].currentConfigVersion = applications[m].currentConfigVersion
               /\ applications'[m].position = applications[m].position
               /\ m \in kept => applications'[m].refs = applications[m].refs \cup (kept \cup {ref})
               /\ m \notin kept => applications'[m].refs = applications[m].refs
    <2>1. m # ref
      BY <1>7
    <2>2. CASE m \in kept
      BY <2>1, <2>2, <1>2, <1>3
    <2>3. CASE m \notin kept
      BY <2>1, <2>3, <1>2
    <2>4. QED
      BY <2>2, <2>3
  <1>8. QED
    BY <1>2, <1>5, <1>6, <1>7

\* The series stay chains when the new application takes the place of one of
\* them, or of none. A series that was there keeps its members.
LEMMA JoinedSeries ==
    ASSUME Inv, NEW ref \in Refs, ~Exists(ref), NEW chain \in SUBSET series,
           \A s, u \in chain : s = u,
           NEW kept, kept = UNION {s.clientRefs : s \in chain},
           NEW new \in Application, new.refs = kept \cup {ref}, Joined(ref, kept, new),
           series' = (series \ chain) \cup
                       {[clientRefs |-> kept \cup {ref}, latestClientRef |-> ref]}
    PROVE  /\ series' \subseteq Series /\ events' \in Seq(Refs)
           /\ SeriesSound'
           /\ kept \in SUBSET Refs /\ \A m \in kept : Exists(m)
  <1> DEFINE joined == [clientRefs |-> kept \cup {ref}, latestClientRef |-> ref]
  <1>1. series \subseteq Series /\ events \in Seq(Refs) /\ SeriesAreChains
          /\ \A s \in series : s.latestClientRef \in s.clientRefs
    BY DEF Inv, IntakeTypeOK, SeriesSound
  <1>2. \A s \in series : s.clientRefs \subseteq Refs
    BY <1>1 DEF Series
  <1>3. \A s \in series : \A m \in s.clientRefs : Exists(m) /\ applications[m].refs = s.clientRefs
    BY <1>1 DEF SeriesAreChains
  <1>4. kept \in SUBSET Refs /\ \A m \in kept : Exists(m)
    BY <1>2, <1>3
  <1>5. \A s \in chain : kept = s.clientRefs
    OBVIOUS
  <1>6. joined \in Series /\ joined.clientRefs = kept \cup {ref} /\ joined.latestClientRef = ref
    BY <1>4 DEF Series
  <1>7. series' = (series \ chain) \cup {joined}
    OBVIOUS
  <1> HIDE DEF joined
  <1>8. series' \subseteq Series
    BY <1>1, <1>6, <1>7
  <1>9. /\ events' \in Seq(Refs) /\ Len(events) \in Nat
        /\ DOMAIN events = 1 .. Len(events) /\ DOMAIN events' = 1 .. Len(events) + 1
        /\ \A i \in 1 .. Len(events) : events'[i] = events[i]
        /\ events'[Len(events) + 1] = ref
    BY <1>1 DEF Joined
  <1>10. /\ applications'[ref] = new
         /\ \A m \in Refs : applications'[m] # None <=> (m = ref \/ Exists(m))
         /\ \A m \in Refs : Exists(m) =>
              /\ m \in kept => applications'[m].refs = applications[m].refs \cup (kept \cup {ref})
              /\ m \notin kept => applications'[m].refs = applications[m].refs
    <2>1. /\ applications'[ref] = new
          /\ \A m \in Refs : applications'[m] # None <=> (m = ref \/ Exists(m))
      BY <1>4, JoinedDocuments
    <2>2. ASSUME NEW m \in Refs, Exists(m)
          PROVE  /\ m \in kept => applications'[m].refs = applications[m].refs \cup (kept \cup {ref})
                 /\ m \notin kept => applications'[m].refs = applications[m].refs
      BY <2>2, <1>4, JoinedDocuments
    <2>3. QED
      BY <2>1, <2>2
  \* A member of a kept series is in no other one, nor is the new reference.
  <1>11. \A s \in series \ chain : \A m \in s.clientRefs : m \notin kept /\ m # ref
    <2>1. ASSUME NEW s \in series \ chain, NEW m \in s.clientRefs, m \in kept PROVE FALSE
      <3>1. PICK c \in chain : m \in c.clientRefs
        BY <2>1
      <3>2. m \in Refs /\ Exists(m)
        BY <1>4, <2>1
      <3>3. PICK o \in series : \A u \in series : (m \in u.clientRefs) = (u = o)
        BY <3>2, <1>1 DEF SeriesAreChains
      <3>4. QED
        BY <3>1, <3>3, <2>1
    <2>2. QED
      BY <2>1, <1>3
  <1>12. ASSUME NEW s \in series', NEW m \in s.clientRefs
         PROVE  Exists(m)' /\ applications'[m].refs = s.clientRefs
    <2>1. CASE s \in series \ chain
      <3>1. m \notin kept /\ m # ref /\ m \in Refs /\ Exists(m) /\ applications[m].refs = s.clientRefs
        BY <2>1, <1>12, <1>2, <1>3, <1>11
      <3>2. QED
        BY <3>1, <1>10 DEF Exists
    <2>2. CASE s = joined /\ m = ref
      BY <2>2, <1>6, <1>10 DEF Exists
    <2>3. CASE s = joined /\ m # ref
      <3>1. m \in kept /\ m \in Refs /\ Exists(m)
        BY <2>3, <1>4, <1>6, <1>12
      <3>2. applications[m].refs = kept
        <4>1. PICK c \in chain : m \in c.clientRefs
          BY <3>1
        <4>2. QED
          BY <4>1, <1>3, <1>5
      <3>3. applications'[m] # None /\ applications'[m].refs = kept \cup (kept \cup {ref})
        BY <3>1, <3>2, <1>10
      <3>4. QED
        BY <3>3, <2>3, <1>6 DEF Exists
    <2>4. QED
      BY <2>1, <2>2, <2>3, <1>7
  <1>13. ASSUME NEW m \in Refs, Exists(m)'
         PROVE  \E s \in series' : \A u \in series' : (m \in u.clientRefs) = (u = s)
    <2>1. m = ref \/ Exists(m)
      BY <1>10, <1>13 DEF Exists
    <2>2. CASE m \in kept \cup {ref}
      <3>1. \A u \in series \ chain : m \notin u.clientRefs
        BY <2>2, <1>11
      <3>2. m \in joined.clientRefs /\ joined \in series'
        BY <2>2, <1>6, <1>7
      <3>3. \A u \in series' : (m \in u.clientRefs) = (u = joined)
        BY <3>1, <3>2, <1>7
      <3>4. QED
        BY <3>2, <3>3
    <2>3. CASE m \notin kept \cup {ref}
      <3>1. PICK o \in series : \A u \in series : (m \in u.clientRefs) = (u = o)
        BY <2>1, <2>3, <1>1 DEF SeriesAreChains
      <3>2. o \notin chain /\ m \in o.clientRefs
        BY <3>1, <2>3
      <3>3. m \notin joined.clientRefs
        BY <2>3, <1>6
      <3>4. o \in series' /\ \A u \in series' : (m \in u.clientRefs) = (u = o)
        BY <3>1, <3>2, <3>3, <1>7
      <3>5. QED
        BY <3>4
    <2>4. QED
      BY <2>2, <2>3
  <1>14. \A i \in DOMAIN events : events[i] \in Refs /\ Exists(events[i])
    BY <1>1 DEF Inv, SeriesSound
  <1>15. ASSUME NEW m \in Refs, Exists(m)'
         PROVE  \E i \in DOMAIN events' : \A j \in DOMAIN events' : (events'[j] = m) = (j = i)
    <2>1. m = ref \/ Exists(m)
      BY <1>10, <1>15 DEF Exists
    <2>2. \A j \in DOMAIN events' : j \in 1 .. Len(events) \/ j = Len(events) + 1
      BY <1>9
    <2>3. CASE m = ref
      <3>1. \A j \in 1 .. Len(events) : events'[j] # ref /\ j # Len(events) + 1
        BY <1>9, <1>14
      <3>2. \A j \in DOMAIN events' : (events'[j] = m) = (j = Len(events) + 1)
        BY <2>2, <2>3, <3>1, <1>9
      <3>3. Len(events) + 1 \in DOMAIN events'
        BY <1>9
      <3>4. QED
        BY <3>2, <3>3
    <2>4. CASE m # ref
      <3>1. PICK i \in DOMAIN events : \A j \in DOMAIN events : (events[j] = m) = (j = i)
        BY <2>1, <2>4, <1>1 DEF SeriesAreChains
      <3>2. i \in DOMAIN events' /\ i # Len(events) + 1
        BY <1>9
      <3>3. \A j \in DOMAIN events' : (events'[j] = m) = (j = i)
        BY <2>2, <2>4, <3>1, <3>2, <1>9
      <3>4. QED
        BY <3>2, <3>3
    <2>5. QED
      BY <2>3, <2>4
  <1>16. SeriesAreChains'
    BY <1>12, <1>13, <1>15 DEF SeriesAreChains
  <1>17. \A s \in series' : s.latestClientRef \in s.clientRefs
    BY <1>1, <1>6, <1>7
  <1>18. ASSUME NEW i \in DOMAIN events' PROVE Exists(events[i])'
    <2>1. i \in 1 .. Len(events) \/ i = Len(events) + 1
      BY <1>9
    <2>2. events'[i] \in Refs /\ (events'[i] = ref \/ Exists(events'[i]))
      BY <2>1, <1>9, <1>14
    <2>3. applications'[events'[i]] # None
      BY <2>2, <1>10
    <2>4. QED
      BY <2>3 DEF Exists
  <1>19. SeriesSound'
    BY <1>16, <1>17, <1>18 DEF SeriesSound
  <1>20. QED
    BY <1>4, <1>8, <1>9, <1>19

\* The commit of a new application, which takes the place of a chain or starts one.
LEMMA JoinedInv ==
    ASSUME Inv, NEW r \in Requests, NEW ref \in Refs, ~Exists(ref), NEW chain \in SUBSET series,
           \A s, u \in chain : s = u,
           NEW kept, kept = UNION {s.clientRefs : s \in chain},
           NEW new \in Application, new.refs = kept \cup {ref}, Joined(ref, kept, new),
           new.originalConfigVersion \in stored,
           new.currentConfigVersion = new.originalConfigVersion,
           series' = (series \ chain) \cup
                       {[clientRefs |-> kept \cup {ref}, latestClientRef |-> ref]},
           Calls(r, Idle), UNCHANGED <<catalog, stored, cache, faults>>,
           UNCHANGED <<restarts, announced>>,
           flow' \in [Requests -> Flow], flow'[r].at = "end",
           \A q \in Requests : q # r =>
              /\ flow'[q].at = flow[q].at /\ flow'[q].task = flow[q].task
              /\ flow'[q].doc = flow[q].doc /\ flow[q].touched \subseteq flow'[q].touched
    PROVE  Inv'
  <1>1. /\ series' \subseteq Series /\ events' \in Seq(Refs) /\ SeriesSound'
        /\ kept \in SUBSET Refs /\ \A m \in kept : Exists(m)
    <2>1. /\ series' \subseteq Series /\ events' \in Seq(Refs)
          /\ SeriesSound'
          /\ kept \in SUBSET Refs /\ \A m \in kept : Exists(m)
      BY JoinedSeries, ZenonT(40)
    <2>2. QED
      BY <2>1
  <1>2. /\ applications' \in [Refs -> Application \cup {None}] /\ applications'[ref] = new
        /\ \A m \in Refs : applications'[m] # None <=> (m = ref \/ Exists(m))
    BY <1>1, JoinedDocuments
  <1>3. ASSUME NEW m \in Refs, Exists(m)
        PROVE  /\ applications'[m].originalConfigVersion = applications[m].originalConfigVersion
               /\ applications'[m].currentConfigVersion = applications[m].currentConfigVersion
               /\ applications'[m].position = applications[m].position
    BY <1>1, <1>3, JoinedDocuments
  <1>4. ApplicationsKept
    BY <1>2, <1>3 DEF ApplicationsKept
  <1>5. ApplicationsSound'
    <2>1. ASSUME NEW m \in Refs, applications'[m] # None PROVE ApplicationSound(m)'
      <3>1. CASE m = ref
        BY <3>1, <1>2 DEF ApplicationSound
      <3>2. CASE m # ref
        <4>1. Exists(m)
          BY <2>1, <3>2, <1>2
        <4>2. ApplicationSound(m)
          BY <4>1 DEF Inv, ApplicationsSound
        <4>3. QED
          BY <4>1, <4>2, <1>3 DEF ApplicationSound
      <3>3. QED
        BY <3>1, <3>2
    <2>2. QED
      BY <2>1 DEF ApplicationsSound, Exists
  <1>6. IntakeTypeOK'
    BY <1>1, <1>2 DEF Inv, IntakeTypeOK
  <1>7. ResolutionsSound' /\ \A q \in Requests : q # r => resolution'[q] = resolution[q]
    BY CallsIdle DEF Inv
  <1>8. \A q \in Requests : q # r => FlowKept(q)
    BY <1>3 DEF FlowKept
  <1>9. FlowSound(r, flow[r], resolution[r])'
    BY EndedSound
  <1>10. QED
    BY <1>1, <1>4, <1>5, <1>6, <1>7, <1>8, <1>9, AllFlows

\* Application.new, from a resolution that was not for the cache.
LEMMA NewApplicationFacts ==
    ASSUME Inv, NEW r \in Requests, flow[r].at = "create", resolution[r].at = "done",
           NEW refs \in SUBSET Refs
    PROVE  /\ NewApplication(r, refs) \in Application
           /\ NewApplication(r, refs).refs = refs
           /\ NewApplication(r, refs).originalConfigVersion \in stored
           /\ NewApplication(r, refs).currentConfigVersion
                 = NewApplication(r, refs).originalConfigVersion
  <1>1. resolution[r].key = None
    BY DEF Inv, FlowsSound, FlowSound
  <1>2. ResolutionSound(resolution[r])
    BY ResolutionFields DEF Inv
  <1>3. resolution[r].version \in stored
    BY <1>1, <1>2 DEF ResolutionSound
  <1>4. resolution[r].version \in Versions
    BY <1>3 DEF Inv, ResolutionsSound, ResolutionTypeOK
  <1>5. QED
    BY <1>3, <1>4 DEF NewApplication, Application, Positions

LEMMA CommitSubmissionInv ==
    ASSUME Inv, NEW r \in Requests, CommitSubmission(r)
    PROVE  Inv'
  <1> DEFINE ref == flow[r].task.ref
             new == NewApplication(r, {ref})
  <1>1. /\ flow[r].at = "create" /\ resolution[r].at = "done" /\ flow[r].task.kind = "submit"
        /\ Calls(r, Idle) /\ UNCHANGED <<catalog, stored, cache, faults>>
        /\ UNCHANGED <<restarts, announced>>
    BY DEF CommitSubmission, At
  <1>2. ref \in Refs
    <2>1. flow[r].task \in Tasks[r]
      BY <1>1 DEF Inv, FlowsSound, FlowSound
    <2>2. QED
      BY <1>1, <2>1, TaskFacts
  <1>3. "ok" \in Answers /\ "conflict" \in Answers
    BY DEF Answers
  <1>4. CASE Exists(ref)
    <2>1. Answer(r, "conflict") /\ UNCHANGED <<applications, series, events>>
      BY <1>4 DEF CommitSubmission
    <2>2. ResolutionsSound' /\ \A q \in Requests : q # r => resolution'[q] = resolution[q]
      BY <1>1, CallsIdle DEF Inv
    <2>3. QED
      BY <1>1, <1>3, <2>1, <2>2, OnlyAnswer
  <1>5. CASE ~Exists(ref)
    <2>1. /\ applications' = [applications EXCEPT ![ref] = new]
          /\ series' = series \cup {[clientRefs |-> {ref}, latestClientRef |-> ref]}
          /\ events' = Append(events, ref) /\ Answer(r, "ok")
      BY <1>5 DEF CommitSubmission
    <2>2. /\ new \in Application /\ new.refs = {ref} /\ new.originalConfigVersion \in stored
          /\ new.currentConfigVersion = new.originalConfigVersion
      BY <1>1, <1>2, NewApplicationFacts
    <2>3. /\ flow' \in [Requests -> Flow] /\ flow'[r].at = "end"
          /\ \A q \in Requests : q # r => flow'[q] = flow[q]
      BY <2>1, <1>3, AnsweredFacts DEF Answer, Inv, IntakeTypeOK
    <2> HIDE DEF new, ref
    <2>4. Joined(ref, {}, new)
      BY <2>1 DEF Joined, Inv, IntakeTypeOK
    <2>5. PICK chain \in SUBSET series : chain = {}
      OBVIOUS
    <2>6. /\ {} = UNION {s.clientRefs : s \in chain}
          /\ \A s, u \in chain : s = u
          /\ new.refs = {} \cup {ref}
          /\ series' = (series \ chain) \cup
                          {[clientRefs |-> {} \cup {ref}, latestClientRef |-> ref]}
      <3>1. {} \cup {ref} = {ref} /\ series \ chain = series
        BY <2>5
      <3>2. QED
        BY <2>1, <2>2, <2>5, <3>1
    <2>7. PICK kept : kept = {}
      OBVIOUS
    <2>8. QED
      BY <1>1, <1>2, <1>5, <2>2, <2>3, <2>4, <2>6, <2>7, JoinedInv
  <1>6. QED
    BY <1>4, <1>5

\* Two series that end with the same application are one.
LEMMA OneChain ==
    ASSUME Inv, NEW ref \in Refs, NEW s \in series, NEW u \in series,
           s.latestClientRef = ref, u.latestClientRef = ref
    PROVE  s = u
  <1>1. ref \in s.clientRefs /\ ref \in u.clientRefs
    BY DEF Inv, SeriesSound
  <1>2. Exists(ref)
    BY <1>1 DEF Inv, SeriesSound, SeriesAreChains
  <1>3. PICK o \in series : \A w \in series : (ref \in w.clientRefs) = (w = o)
    BY <1>2 DEF Inv, SeriesSound, SeriesAreChains
  <1>4. QED
    BY <1>1, <1>3

LEMMA CommitReplacementInv ==
    ASSUME Inv, NEW r \in Requests, CommitReplacement(r)
    PROVE  Inv'
  <1> DEFINE t == flow[r].task
             chain == {s \in series : s.latestClientRef = t.previous}
             kept == UNION {s.clientRefs : s \in chain}
             members == kept \cup {t.ref}
             new == NewApplication(r, members)
             conflict == flow[r].touched \cap (kept \cup {t.previous}) # {}
  <1>1. /\ flow[r].at = "create" /\ resolution[r].at = "done" /\ t.kind = "replace"
        /\ Calls(r, Idle) /\ UNCHANGED <<catalog, stored, cache, faults>>
        /\ UNCHANGED <<restarts, announced>>
    BY DEF CommitReplacement, At
  <1>2. t \in Tasks[r] /\ t \in Task /\ t.ref \in Refs /\ t.previous \in Refs
    <2>1. t \in Tasks[r]
      BY <1>1 DEF Inv, FlowsSound, FlowSound
    <2>2. QED
      BY <1>1, <2>1, TaskFacts
  <1>3. ResolutionsSound' /\ \A q \in Requests : q # r => resolution'[q] = resolution[q]
    BY <1>1, CallsIdle DEF Inv
  <1>4. \/ \E answer \in {"conflict", "notFound"} :
              Answer(r, answer) /\ UNCHANGED <<applications, series, events>>
        \/ /\ flow' = [flow EXCEPT ![r] = [NewFlow EXCEPT !.at = "again", !.task = t]]
           /\ UNCHANGED <<applications, series, events>>
        \/ /\ ~Exists(t.ref)
           /\ applications' =
                [ref \in Refs |-> IF ref = t.ref THEN new
                                 ELSE IF ref \in kept THEN Linked(ref, members)
                                 ELSE applications[ref]]
           /\ series' = (series \ chain) \cup
                           {[clientRefs |-> members, latestClientRef |-> t.ref]}
           /\ events' = Append(events, t.ref)
           /\ flow' = [Touching(members, flow) EXCEPT ![r] = Answered("ok")]
    BY Zenon DEF CommitReplacement
  <1>5. CASE \E answer \in {"conflict", "notFound"} :
                Answer(r, answer) /\ UNCHANGED <<applications, series, events>>
    BY <1>1, <1>3, <1>5, OnlyAnswer DEF Answers
  <1>6. CASE /\ flow' = [flow EXCEPT ![r] = [NewFlow EXCEPT !.at = "again", !.task = t]]
             /\ UNCHANGED <<applications, series, events>>
    <2>1. PICK f \in Flow : /\ f = [NewFlow EXCEPT !.at = "again", !.task = t]
                            /\ f.at = "again" /\ f.task = t
      <3> DEFINE f == [NewFlow EXCEPT !.at = "again", !.task = t]
      <3> HIDE DEF t
      <3>1. f \in Flow /\ f.at = "again" /\ f.task = t
        BY <1>2 DEF NewFlow, Flow
      <3> HIDE DEF f
      <3>2. QED
        BY <3>1 DEF f
    <2>2. FlowSound(r, f, resolution[r])'
      BY <1>1, <1>2, <2>1 DEF FlowSound
    <2>3. flow' = [flow EXCEPT ![r] = f]
      BY <1>6, <2>1
    <2>4. QED
      BY <1>1, <1>3, <1>6, <2>2, <2>3, OneFlow
  <1>7. CASE /\ ~Exists(t.ref)
             /\ applications' =
                  [ref \in Refs |-> IF ref = t.ref THEN new
                                   ELSE IF ref \in kept THEN Linked(ref, members)
                                   ELSE applications[ref]]
             /\ series' = (series \ chain) \cup
                             {[clientRefs |-> members, latestClientRef |-> t.ref]}
             /\ events' = Append(events, t.ref)
             /\ flow' = [Touching(members, flow) EXCEPT ![r] = Answered("ok")]
    <2>1. chain \in SUBSET series /\ \A s, u \in chain : s = u
      <3>1. \A s \in chain : s \in series /\ s.latestClientRef = t.previous
        OBVIOUS
      <3> HIDE DEF chain
      <3>2. QED
        BY <3>1, <1>2, OneChain
    <2>2. members \in SUBSET Refs
      <3>1. \A s \in series : s.clientRefs \subseteq Refs
        BY DEF Inv, IntakeTypeOK, Series
      <3>2. QED
        BY <3>1, <1>2
    <2>3. Joined(t.ref, kept, new)
      BY <1>7 DEF Joined
    <2> HIDE DEF members, chain
    <2>4. /\ new \in Application /\ new.refs = members /\ new.originalConfigVersion \in stored
          /\ new.currentConfigVersion = new.originalConfigVersion
      BY <1>1, <2>2, NewApplicationFacts
    <2> HIDE DEF new
    <2>5. PICK ended \in Flow : ended = Answered("ok") /\ ended.at = "end"
      BY AnsweredFacts DEF Answers
    <2>6. /\ flow' = [Touching(members, flow) EXCEPT ![r] = ended]
          /\ Touching(members, flow) \in [Requests -> Flow]
      BY <1>7, <2>2, <2>5, TouchingFacts DEF Inv
    <2>7. /\ flow' \in [Requests -> Flow] /\ flow'[r].at = "end"
          /\ \A q \in Requests : q # r => flow'[q] = Touching(members, flow)[q]
      BY <2>5, <2>6
    <2>8. \A q \in Requests : q # r =>
             /\ flow'[q].at = flow[q].at /\ flow'[q].task = flow[q].task
             /\ flow'[q].doc = flow[q].doc /\ flow[q].touched \subseteq flow'[q].touched
      <3>1. \A q \in Requests :
               /\ Touching(members, flow)[q].at = flow[q].at
               /\ Touching(members, flow)[q].task = flow[q].task
               /\ Touching(members, flow)[q].doc = flow[q].doc
               /\ flow[q].touched \subseteq Touching(members, flow)[q].touched
        BY <2>2, TouchingFacts DEF Inv
      <3>2. QED
        BY <3>1, <2>7
    <2>9. PICK k : k = kept
      OBVIOUS
    <2>10. /\ k = UNION {s.clientRefs : s \in chain} /\ new.refs = k \cup {t.ref}
           /\ Joined(t.ref, k, new)
           /\ series' = (series \ chain) \cup
                           {[clientRefs |-> k \cup {t.ref}, latestClientRef |-> t.ref]}
      BY <1>7, <2>3, <2>4, <2>9 DEF members
    <2>11. ~Exists(t.ref)
      BY <1>7
    <2> HIDE DEF kept, t
    <2>12. QED
      BY <1>1, <1>2, <2>1, <2>4, <2>7, <2>8, <2>10, <2>11, JoinedInv, ZenonT(40)
  <1>8. QED
    BY <1>4, <1>5, <1>6, <1>7

----------------------------------------------------------------------------
(***************************************************************************)
(* The world around the requests                                           *)
(***************************************************************************)
LEMMA AnnounceInv ==
    ASSUME Inv, NEW v \in Versions, Announce(v)
    PROVE  Inv'
  <1>1. PICK status \in {"active", "draft"} : ProcessConfigVersion(v, status, {"grant"})
    BY DEF Announce
  <1>2. /\ announced \in 0 .. MaxEvents /\ announced < MaxEvents /\ announced' = announced + 1
        /\ UNCHANGED <<resolutionVars, applications, series, events, flow, restarts>>
    BY DEF Announce, Inv, IntakeTypeOK
  <1>3. announced' \in 0 .. MaxEvents
    <2>1. MaxEvents \in Nat
      BY IntakeAssumption
    <2>2. QED
      BY <1>2, <2>1
  <1>4. /\ CatalogSound' /\ Announced' = Announced \cup {v}
        /\ \A w \in Announced', f \in Files :
              FileOf(w, f)'.fetchStatus =
                 (IF w \in Announced THEN FileOf(w, f).fetchStatus ELSE "pending")
    <2>1. "grant" \in {"grant"}
      OBVIOUS
    <2>2. QED
      BY <1>1, <2>1, Announcing, ResolutionAssumption DEF Inv, ResolutionsSound
  <1>5. FetchedIsStored'
    <2>1. ASSUME NEW w \in Announced', FileOf(w, "grant")'.fetchStatus = "fetched"
          PROVE  w \in stored'
      BY <2>1, <1>2, <1>4, ResolutionAssumption
         DEF Inv, ResolutionsSound, FetchedIsStored, resolutionVars
    <2>2. QED
      BY <2>1 DEF FetchedIsStored
  <1>6. ResolutionTypeOK' /\ CacheSound'
    BY <1>2, <1>4 DEF Inv, ResolutionsSound, ResolutionTypeOK, CacheSound, resolutionVars,
                      CatalogSound
  <1>7. \A r \in Requests : ResolutionSound(resolution[r])'
    BY <1>2, <1>4 DEF Inv, ResolutionsSound, ResolutionSound, resolutionVars
  <1>8. ApplicationsSound' /\ SeriesSound' /\ ApplicationsKept
    BY <1>2, ApplicationsStay DEF Inv, resolutionVars
  <1>9. \A q \in Requests : FlowKept(q) /\ resolution'[q] = resolution[q]
    BY <1>2 DEF FlowKept, resolutionVars
  <1>10. FlowsSound'
    BY <1>8, <1>9, FlowKeptSound DEF Inv, FlowsSound
  <1>11. IntakeTypeOK'
    BY <1>2, <1>3 DEF Inv, IntakeTypeOK
  <1>12. QED
    BY <1>4, <1>5, <1>6, <1>7, <1>8, <1>10, <1>11 DEF Inv, ResolutionsSound

LEMMA OperatorFetchesInv ==
    ASSUME Inv, NEW v \in Versions, OperatorFetches(v)
    PROVE  Inv'
  <1>1. /\ stored' = stored \cup {v} /\ UNCHANGED <<catalog, cache, resolution, faults>>
        /\ UNCHANGED intakeVars
    BY DEF OperatorFetches, FetchConfigDefinitions
  <1>2. CatalogSound' /\ Announced' = Announced
    BY <1>1 DEF Inv, ResolutionsSound, CatalogSound, CatalogTypeOK, GrantFileHeld, Announced
  <1>3. ResolutionTypeOK' /\ CacheSound' /\ FetchedIsStored'
    BY <1>1, <1>2 DEF Inv, ResolutionsSound, ResolutionTypeOK, CacheSound, FetchedIsStored,
                      FileOf, CatalogSound
  <1>4. \A r \in Requests : ResolutionSound(resolution[r])'
    BY <1>1, <1>2 DEF Inv, ResolutionsSound, ResolutionSound
  <1>5. ApplicationsSound' /\ SeriesSound' /\ ApplicationsKept
    BY <1>1, ApplicationsStay DEF Inv, intakeVars
  <1>6. \A q \in Requests : FlowKept(q) /\ resolution'[q] = resolution[q]
    BY <1>1 DEF FlowKept, intakeVars
  <1>7. FlowsSound'
    BY <1>5, <1>6, FlowKeptSound DEF Inv, FlowsSound
  <1>8. IntakeTypeOK'
    BY <1>1 DEF Inv, IntakeTypeOK, intakeVars
  <1>9. QED
    BY <1>2, <1>3, <1>4, <1>5, <1>7, <1>8 DEF Inv, ResolutionsSound

LEMMA DecideInv ==
    ASSUME Inv, NEW ref \in Refs, Decide(ref)
    PROVE  Inv'
  <1> DEFINE new == [applications[ref] EXCEPT !.position = "decided"]
  <1>1. /\ Exists(ref) /\ applications' = [applications EXCEPT ![ref] = new]
        /\ flow' = Touching({ref}, flow)
        /\ UNCHANGED <<catalog, resolutionVars, series, events, restarts, announced>>
    BY DEF Decide
  <1>2. /\ new \in Application
        /\ new.originalConfigVersion = applications[ref].originalConfigVersion
        /\ new.currentConfigVersion = applications[ref].currentConfigVersion
        /\ new.refs = applications[ref].refs
    <2>1. applications[ref] \in Application
      BY <1>1 DEF Inv, IntakeTypeOK, Exists
    <2>2. QED
      BY <2>1 DEF Application, Positions
  <1>3. new # None
    BY <1>2, IntakeAssumption
  <1> HIDE DEF new
  <1>4. /\ applications' \in [Refs -> Application \cup {None}]
        /\ \A m \in Refs : applications'[m] = IF m = ref THEN new ELSE applications[m]
    BY <1>1, <1>2 DEF Inv, IntakeTypeOK
  <1>5. SeriesSound'
    BY <1>1, <1>2, <1>3, <1>4, SeriesStay DEF Exists
  <1>6. ApplicationsSound' /\ ApplicationsKept
    BY <1>1, <1>2, <1>3, <1>4
       DEF Inv, ApplicationsSound, ApplicationSound, ApplicationsKept, Exists, resolutionVars
  <1>7. ResolutionsSound' /\ resolution' = resolution
    BY <1>1, ResolutionsStay DEF Inv, resolutionVars
  <1>8. {ref} \in SUBSET Refs
    OBVIOUS
  <1>9. /\ flow' \in [Requests -> Flow]
        /\ \A q \in Requests :
              /\ flow'[q].at = flow[q].at /\ flow'[q].task = flow[q].task
              /\ flow'[q].doc = flow[q].doc /\ flow[q].touched \subseteq flow'[q].touched
              /\ InTransaction(q) => {ref} \subseteq flow'[q].touched
    BY <1>1, <1>8, TouchingFacts DEF Inv
  <1>10. \A q \in Requests : FlowKept(q)
    BY <1>4, <1>9 DEF FlowKept
  <1>11. FlowsSound'
    BY <1>6, <1>7, <1>10, FlowKeptSound DEF Inv, FlowsSound
  <1>12. IntakeTypeOK'
    BY <1>1, <1>4, <1>9 DEF Inv, IntakeTypeOK
  <1>13. QED
    BY <1>5, <1>6, <1>7, <1>11, <1>12 DEF Inv

LEMMA StopProcessInv ==
    ASSUME Inv, NEW p \in Processes, StopProcess(p)
    PROVE  Inv'
  <1>1. /\ restarts \in 0 .. MaxRestarts /\ restarts < MaxRestarts /\ restarts' = restarts + 1
        /\ cache' = [cache EXCEPT ![p] = <<>>]
        /\ resolution' = [r \in Requests |-> IF ProcessOf[r] = p THEN Idle ELSE resolution[r]]
        /\ UNCHANGED <<catalog, stored, faults, applications, series, events, announced>>
    BY DEF StopProcess, Restart, Inv, IntakeTypeOK
  <1>2. restarts' \in 0 .. MaxRestarts
    <2>1. MaxRestarts \in Nat
      BY IntakeAssumption
    <2>2. QED
      BY <1>1, <2>1
  <1>3. Idle \in Resolution /\ Idle.at = "idle" /\ Idle.key = None
    BY CalledFacts
  <1>4. PICK lost \in Flow : lost = Answered("lost") /\ lost.at = "end"
    BY AnsweredFacts DEF Answers
  <1>5. /\ flow' \in [Requests -> Flow]
        /\ \A r \in Requests :
              \/ /\ flow'[r] = flow[r]
                 /\ ProcessOf[r] = p => flow[r].at \in {"new", "end"}
              \/ flow'[r] = lost
    BY <1>4 DEF StopProcess, Inv, IntakeTypeOK
  <1>6. CatalogSound' /\ Announced' = Announced
    BY <1>1 DEF Inv, ResolutionsSound, CatalogSound, CatalogTypeOK, GrantFileHeld, Announced
  <1>7. FetchedIsStored'
    BY <1>1, <1>6 DEF Inv, ResolutionsSound, FetchedIsStored, FileOf
  <1>8. /\ cache' \in [Processes -> Seq(CacheEntry)] /\ CacheSound'
        /\ \A q \in Processes : Len(cache'[q]) <= MaxCacheEntries
    <2>1. PICK empty : empty = <<>>
      OBVIOUS
    <2>2. empty \in Seq(CacheEntry) /\ Len(empty) = 0 /\ DOMAIN empty = {}
      BY <2>1
    <2>3. cache \in [Processes -> Seq(CacheEntry)] /\ CacheSound
            /\ \A q \in Processes : Len(cache[q]) <= MaxCacheEntries
      BY DEF Inv, ResolutionsSound, ResolutionTypeOK
    <2>4. \A q \in Processes : cache'[q] = IF q = p THEN empty ELSE cache[q]
      BY <1>1, <2>1, <2>3
    <2>5. cache' \in [Processes -> Seq(CacheEntry)]
      BY <1>1, <2>1, <2>2, <2>3
    <2>6. CacheSound'
      BY <2>2, <2>3, <2>4 DEF CacheSound
    <2>7. MaxCacheEntries \in Nat \ {0}
      BY ResolutionAssumption
    <2>8. \A q \in Processes : Len(cache'[q]) <= MaxCacheEntries
      BY <2>2, <2>3, <2>4, <2>7
    <2>9. QED
      BY <2>5, <2>6, <2>8
  <1>9. resolution' \in [Requests -> Resolution]
    BY <1>1, <1>3 DEF Inv, ResolutionsSound, ResolutionTypeOK
  <1>10. ResolutionTypeOK'
    BY <1>1, <1>6, <1>8, <1>9 DEF Inv, ResolutionsSound, ResolutionTypeOK, CatalogSound
  <1>11. ASSUME NEW r \in Requests PROVE ResolutionSound(resolution[r])'
    <2>1. CASE ProcessOf[r] = p
      <3>1. resolution'[r].at = "idle" /\ resolution'[r].key = None
        BY <2>1, <1>1, <1>3
      <3>2. QED
        BY <3>1 DEF ResolutionSound, Found
    <2>2. CASE ProcessOf[r] # p
      <3>1. resolution'[r] = resolution[r] /\ ResolutionSound(resolution[r])
        BY <2>2, <1>1 DEF Inv, ResolutionsSound
      <3>2. QED
        BY <3>1, <1>1, <1>6 DEF ResolutionSound
    <2>3. QED
      BY <2>1, <2>2
  <1>12. ApplicationsSound' /\ SeriesSound' /\ ApplicationsKept
    BY <1>1, ApplicationsStay DEF Inv
  <1>13. ASSUME NEW r \in Requests PROVE FlowSound(r, flow[r], resolution[r])'
    <2>1. CASE flow'[r] = lost
      BY <2>1, <1>4, EndedSound
    <2>2. CASE flow'[r] = flow[r] /\ ProcessOf[r] # p
      <3>1. FlowKept(r) /\ resolution'[r] = resolution[r]
        BY <2>2, <1>1 DEF FlowKept
      <3>2. QED
        BY <3>1, <1>12, FlowKeptSound DEF Inv
    <2>3. CASE flow'[r] = flow[r] /\ ProcessOf[r] = p
      <3>1. flow'[r].at \in {"new", "end"} \/ flow'[r] = lost
        BY <2>3, <1>5
      <3>2. QED
        BY <3>1, <1>4 DEF FlowSound
    <2>4. QED
      BY <2>1, <2>2, <2>3, <1>5
  <1>14. IntakeTypeOK'
    BY <1>1, <1>2, <1>5 DEF Inv, IntakeTypeOK
  <1>15. QED
    BY <1>6, <1>7, <1>8, <1>10, <1>11, <1>12, <1>13, <1>14
       DEF Inv, ResolutionsSound, FlowsSound

----------------------------------------------------------------------------
LEMMA Initially ==
    ASSUME Init
    PROVE  Inv
  <1>1. /\ stored = {} /\ resolution = [r \in Requests |-> Idle] /\ faults = 0
        /\ cache = [p \in Processes |-> <<>>] /\ InitCatalog
        /\ applications = [ref \in Refs |-> None] /\ series = {} /\ events = <<>>
        /\ flow = [r \in Requests |-> NewFlow] /\ restarts = 0 /\ announced = 0
    BY DEF Init, InitResolution
  <1>2. CatalogSound /\ \A v \in Announced : FileOf(v, "grant").fetchStatus = "pending"
    BY <1>1, CatalogInitially, ResolutionAssumption
  <1>3. FetchedIsStored
    BY <1>2 DEF FetchedIsStored
  <1>4. /\ cache \in [Processes -> Seq(CacheEntry)] /\ CacheSound
        /\ \A p \in Processes : Len(cache[p]) <= MaxCacheEntries
    <2>1. PICK empty : empty = <<>>
      OBVIOUS
    <2>2. empty \in Seq(CacheEntry) /\ Len(empty) = 0 /\ DOMAIN empty = {}
      BY <2>1
    <2>3. cache = [p \in Processes |-> empty]
      BY <1>1, <2>1
    <2>4. MaxCacheEntries \in Nat
      BY ResolutionAssumption
    <2>5. QED
      BY <2>2, <2>3, <2>4 DEF CacheSound
  <1>5. Idle \in Resolution /\ Idle.at = "idle" /\ Idle.key = None
    BY CalledFacts
  <1>6. ResolutionTypeOK
    BY <1>1, <1>2, <1>4, <1>5, ResolutionAssumption DEF ResolutionTypeOK, CatalogSound
  <1>7. \A r \in Requests : ResolutionSound(resolution[r])
    BY <1>1, <1>5 DEF ResolutionSound, Found
  <1>8. NewFlow \in Flow /\ NewFlow.at = "new"
    BY DEF NewFlow, Flow
  <1>9. IntakeTypeOK
    <2>1. MaxRestarts \in Nat /\ MaxEvents \in Nat
      BY IntakeAssumption
    <2>2. events \in Seq(Refs)
      BY <1>1
    <2>3. QED
      BY <1>1, <1>8, <2>1, <2>2 DEF IntakeTypeOK
  <1>10. ApplicationsSound
    BY <1>1 DEF ApplicationsSound, Exists
  <1>11. SeriesSound
    BY <1>1 DEF SeriesSound, SeriesAreChains, Exists
  <1>12. FlowsSound
    BY <1>1, <1>8 DEF FlowsSound, FlowSound
  <1>13. QED
    BY <1>2, <1>3, <1>4, <1>6, <1>7, <1>9, <1>10, <1>11, <1>12 DEF Inv, ResolutionsSound

LEMMA Stuttering ==
    ASSUME Inv, UNCHANGED vars
    PROVE  Inv'
  <1>1. /\ UNCHANGED <<catalog, resolutionVars>> /\ resolution' = resolution /\ stored' = stored
        /\ UNCHANGED <<applications, series, events, flow, restarts, announced>>
    BY DEF vars, resolutionVars, intakeVars
  <1>2. ResolutionsSound'
    BY <1>1, ResolutionsStay DEF Inv
  <1>3. ApplicationsSound' /\ SeriesSound' /\ ApplicationsKept
    BY <1>1, ApplicationsStay DEF Inv
  <1>4. \A q \in Requests : FlowKept(q)
    BY <1>1 DEF FlowKept
  <1>5. FlowsSound'
    BY <1>1, <1>3, <1>4, FlowKeptSound DEF Inv, FlowsSound
  <1>6. IntakeTypeOK'
    BY <1>1 DEF Inv, IntakeTypeOK
  <1>7. QED
    BY <1>2, <1>3, <1>5, <1>6 DEF Inv

LEMMA Preserved ==
    ASSUME Inv, [Next]_vars
    PROVE  Inv'
  <1>1. ASSUME NEW r \in Requests, Accept(r) \/ Step(r) PROVE Inv'
    BY <1>1, AcceptInv, RunAgainInv, PersistInv, FailsInv, CommitSubmissionInv,
       CommitReplacementInv, ResolveInv DEF Step
  <1>2. ASSUME NEW v \in Versions, Announce(v) \/ OperatorFetches(v) PROVE Inv'
    BY <1>2, AnnounceInv, OperatorFetchesInv
  <1>3. ASSUME NEW ref \in Refs, Decide(ref) PROVE Inv'
    BY <1>3, DecideInv
  <1>4. ASSUME NEW p \in Processes, StopProcess(p) PROVE Inv'
    BY <1>4, StopProcessInv
  <1>5. ASSUME Finished \/ UNCHANGED vars PROVE Inv'
    BY <1>5, Stuttering DEF Finished
  <1>6. QED
    BY <1>1, <1>2, <1>3, <1>4, <1>5 DEF Next

\* A series only goes when CommitReplacement makes it longer.
LEMMA ChainsAreReplaced ==
    ASSUME Inv, [Next]_vars, NEW s \in series, s \notin series'
    PROVE  applications[s.latestClientRef].position \in AmendablePositions
  <1>1. series' # series
    OBVIOUS
  <1>2. ~UNCHANGED vars
    BY <1>1 DEF vars, intakeVars
  <1>3. PICK r \in Requests : CommitSubmission(r) \/ CommitReplacement(r)
    <2>1. ASSUME NEW r \in Requests,
                 \/ Accept(r) \/ RunAgain(r) \/ PersistResolvedVersion(r) \/ ResolutionFails(r)
                 \/ RefuseAnswers(r) \/ (Resolve(r) /\ UNCHANGED intakeVars)
          PROVE  FALSE
      BY <2>1, <1>1 DEF Accept, RunAgain, SubmitApplication, ReadApplication,
                        PersistResolvedVersion, ResolutionFails, RefuseAnswers, intakeVars
    <2>2. ASSUME NEW v \in Versions, Announce(v) \/ OperatorFetches(v) PROVE FALSE
      BY <2>2, <1>1 DEF Announce, OperatorFetches, intakeVars
    <2>3. ASSUME NEW ref \in Refs, Decide(ref) PROVE FALSE
      BY <2>3, <1>1 DEF Decide
    <2>4. ASSUME NEW p \in Processes, StopProcess(p) PROVE FALSE
      BY <2>4, <1>1 DEF StopProcess
    <2>5. ~Finished
      BY <1>2 DEF Finished
    <2>6. Next
      BY <1>2
    <2>7. QED
      BY <2>1, <2>2, <2>3, <2>4, <2>5, <2>6 DEF Next, Step
  <1>4. CASE CommitSubmission(r)
    <2>1. series \subseteq series'
      BY <1>4 DEF CommitSubmission
    <2>2. QED
      BY <2>1
  <1>5. CASE CommitReplacement(r)
    <2> DEFINE t == flow[r].task
               chain == {u \in series : u.latestClientRef = t.previous}
               kept == UNION {u.clientRefs : u \in chain}
               new == [clientRefs |-> kept \cup {t.ref}, latestClientRef |-> t.ref]
    <2>1. /\ flow[r].at = "create" /\ t.kind = "replace"
          /\ flow[r].touched \cap (kept \cup {t.previous}) = {}
          /\ series' = (series \ chain) \cup {new}
      BY <1>5, <1>1 DEF CommitReplacement
    <2>2. s.latestClientRef = t.previous /\ t.previous \notin flow[r].touched
      <3> HIDE DEF new, kept
      <3> QED
        BY <2>1
    <2>3. ReadSound(flow[r], resolution[r])
      BY <2>1 DEF Inv, FlowsSound, FlowSound
    <2>4. QED
      BY <2>1, <2>2, <2>3 DEF ReadSound
  <1>6. QED
    BY <1>3, <1>4, <1>5

----------------------------------------------------------------------------
\* The invariant holds of every behaviour.
LEMMA Invariance == Spec => []Inv
  <1>1. Init => Inv
    BY Initially
  <1>2. Inv /\ [Next]_vars => Inv'
    BY Preserved
  <1>3. QED
    BY <1>1, <1>2, PTL DEF Spec

(* Every variable keeps its type: caches within their limit, flows whose   *)
(* tasks are tasks, positions and versions that exist.                     *)
THEOREM TypeCorrect == Spec => []TypeOK
  <1>1. Inv => TypeOK
    BY DEF Inv, ResolutionsSound, IntakeTypeOK, TypeOK
  <1>2. QED
    BY <1>1, Invariance, PTL

(* The applications form chains, whatever submissions and replacements     *)
(* race: one series and one opened case for each, and members that refer   *)
(* to each other as linkSeries promises.                                   *)
THEOREM ApplicationsFormChains == Spec => []SeriesAreChains
  <1>1. Inv => SeriesAreChains
    BY DEF Inv, SeriesSound
  <1>2. QED
    BY <1>1, Invariance, PTL

(* Rolling forward stays within the major the application was submitted    *)
(* under, in the documents, in the caches and in what a request works with. *)
THEOREM RollForwardKeepsMajor == Spec => []MajorsNeverMix
  <1>1. Inv => MajorsNeverMix
    <2> SUFFICES ASSUME Inv PROVE MajorsNeverMix
      OBVIOUS
    <2>1. \A r \in Requests : At(r, "done") /\ resolution[r].want # None =>
                 MajorOf[resolution[r].definition] = MajorOf[resolution[r].want]
      BY ResolutionFields DEF Inv, ResolutionSound, At
    <2>2. QED
      BY <2>1 DEF MajorsNeverMix, Inv, ResolutionsSound, CacheSound, ApplicationsSound,
                  ApplicationSound
  <1>2. QED
    BY <1>1, Invariance, PTL

(* What is recorded as fetched is stored, and so is the definition every   *)
(* application was submitted under.                                        *)
THEOREM OriginalsAreStored == Spec => []OriginalIsStored
  <1>1. Inv => OriginalIsStored
    BY DEF Inv, ResolutionsSound, ApplicationsSound, ApplicationSound, OriginalIsStored
  <1>2. QED
    BY <1>1, Invariance, PTL

(* No application is replaced once a decision took it out of the positions *)
(* at which it may be: the write conflict stops a replacement that read    *)
(* the application before the decision.                                    *)
THEOREM ReplacementsAreAmendments == Spec => ReplacedWhileAmendable
  <1>1. Inv /\ [Next]_vars =>
          [\A s \in series : s \notin series' =>
             applications[s.latestClientRef].position \in AmendablePositions]_vars
    BY ChainsAreReplaced
  <1>2. QED
    BY <1>1, Invariance, PTL DEF Spec, ReplacedWhileAmendable
============================================================================
