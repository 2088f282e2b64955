------------------------ MODULE AgreementDefinitions ------------------------
(***************************************************************************)
(* How the agreements service gets the definition of an agreement: the     *)
(* version is resolved in the catalogue, its definition read from          *)
(* agreements__definitions or from S3 and compiled. Loads of one version   *)
(* in one process are shared, and a version that cannot be used for good   *)
(* makes the caller fall back to an older one.                             *)
(***************************************************************************)
EXTENDS ConfigCatalog

CONSTANTS Callers,    \* calls of loadAgreementDefinition
          Processes,  \* processes of the service
          ProcessOf,  \* the process a caller runs in
          MaxFaults   \* bound on failures injected into loads

ASSUME DefinitionsAssumption ==
    /\ {"grant", "agreement"} \subseteq Files
    /\ ProcessOf \in [Callers -> Processes]
    /\ MaxFaults \in Nat

VARIABLES definitions, \* agreements__definitions: the versions stored
          compiled,    \* per process: compiledDefinitions
          loads,       \* per process and version: loadsInFlight
          call,        \* per caller: its call of loadAgreementDefinition
          faults       \* failures injected so far

definitionVars == <<definitions, compiled, loads, call, faults>>

----------------------------------------------------------------------------
(* "Exact resolution is pinned; the others may fall back." *)
Resolutions == {"creation", "same-major", "exact"}

CanFallBack(resolution) == resolution # "exact"

Failures == {"permanent_error", "transient_error", "environment"}

(* A load under way: `seen` is the fetch status its target had when the    *)
(* load began, `failure` what is about to be recorded.                     *)
NoLoad == [at |-> "none", seen |-> "pending", failure |-> "none"]

Load == [at : {"none", "find", "read", "insert", "mark", "record"},
         seen : Statuses, failure : Failures \cup {"none"}]

NoCall == [at |-> "idle", want |-> None, resolution |-> "exact",
           attempted |-> {}, target |-> None]

Call == [at : {"idle", "exact", "latest", "wait", "loaded", "failed"},
         want : Versions \cup {None}, resolution : Resolutions,
         attempted : SUBSET Versions, target : Versions \cup {None}]

InitDefinitions ==
    /\ definitions = {}
    /\ compiled = [p \in Processes |-> {}]
    /\ loads = [p \in Processes |-> [v \in Versions |-> NoLoad]]
    /\ call = [c \in Callers |-> NoCall]
    /\ faults = 0

(* Only "same-major" skips the version itself. *)
Loading(want, resolution) ==
    [at |-> IF resolution = "same-major" THEN "latest" ELSE "exact",
     want |-> want, resolution |-> resolution, attempted |-> {}, target |-> None]

(* loadDefinitionForAgreement *)
LoadingForAgreement(configVersion, accepted) ==
    Loading(configVersion, IF accepted THEN "exact" ELSE "same-major")

LoadOf(p, v) == loads[p][v]

----------------------------------------------------------------------------
(* loadCompiled once a target is resolved: a target tried before ends the  *)
(* call, a compiled one is returned, a load under way is joined, and       *)
(* otherwise one begins unless the version is known to be unusable         *)
(* (guardFetchStatus), which a pinned call cannot get around.              *)
Begins(seen) == [at |-> "find", seen |-> seen, failure |-> "none"]

Unusable(v) == FileOf(v, "agreement").fetchStatus = "permanent_error"

Targeted(c, v, at) ==
    [call[c] EXCEPT !.at = at, !.target = v, !.attempted = @ \cup {v}]

TryLoad(c, v) ==
    LET p == ProcessOf[c] IN
    \/ /\ v = None \/ v \in call[c].attempted
       /\ call' = [call EXCEPT ![c].at = "failed"]
       /\ loads' = loads
    \/ /\ v # None /\ v \notin call[c].attempted /\ v \in compiled[p]
       /\ call' = [call EXCEPT ![c] = Targeted(c, v, "loaded")]
       /\ loads' = loads
    \/ /\ v # None /\ v \notin call[c].attempted /\ v \notin compiled[p]
       /\ IF LoadOf(p, v).at = "none" /\ Unusable(v)
          THEN /\ call' = [call EXCEPT ![c] = Targeted(c, v, "failed")]
               /\ loads' = loads
          ELSE /\ call' = [call EXCEPT ![c] = Targeted(c, v, "wait")]
               /\ loads' = IF LoadOf(p, v).at # "none" THEN loads
                           ELSE [loads EXCEPT ![p][v] =
                                   Begins(FileOf(v, "agreement").fetchStatus)]

(* resolveExact, and the first half of resolveCreation: the version itself *)
(* when it is active and not known to be unusable.                         *)
ResolveExact(c) ==
    LET v == call[c].want
        found == v \in Announced /\ FileOf(v, "agreement").has
        fits == found /\ catalog[v].status = "active" /\ ~Unusable(v) IN
    /\ call[c].at = "exact"
    /\ IF call[c].resolution = "exact"
       THEN TryLoad(c, IF found THEN v ELSE None)
       ELSE IF fits THEN TryLoad(c, v)
       ELSE call' = [call EXCEPT ![c].at = "latest"] /\ loads' = loads
    /\ UNCHANGED <<catalog, definitions, compiled, faults>>

\* Mutant: creation looks for the latest version of the major.
BoundNever(c) == None

(* resolveSameMajor, and the second half of resolveCreation, which never   *)
(* goes beyond the version asked for.                                      *)
Bound(c) == IF call[c].resolution = "creation" THEN call[c].want ELSE None

ResolveLatest(c) ==
    /\ call[c].at = "latest"
    /\ TryLoad(c, LatestUsable(MajorOf[call[c].want], Bound(c), "agreement"))
    /\ UNCHANGED <<catalog, definitions, compiled, faults>>

----------------------------------------------------------------------------
(* The load of v in p ends and every caller that waits for it goes on.     *)
Waiting(p, v) == {c \in Callers : /\ ProcessOf[c] = p /\ call[c].at = "wait"
                                  /\ call[c].target = v}

(* tryLoad's catch: the version is unusable for good and the caller may    *)
(* fall back, so it resolves again; any other failure is the caller's.     *)
AfterFailure(c, failure) ==
    IF CanFallBack(call[c].resolution) /\ failure = "permanent_error"
    THEN IF call[c].resolution = "creation" THEN "exact" ELSE "latest"
    ELSE "failed"

Settle(p, v, failure) ==
    /\ loads' = [loads EXCEPT ![p][v] = NoLoad]
    /\ call' = [c \in Callers |->
                  IF c \notin Waiting(p, v) THEN call[c]
                  ELSE [call[c] EXCEPT !.at =
                          IF failure = "none" THEN "loaded" ELSE AfterFailure(c, failure)]]

LoadGoes(p, v, at) ==
    /\ loads' = [loads EXCEPT ![p][v].at = at]
    /\ call' = call

(* The definition is compiled; its status is recorded unless it was known. *)
Succeeds(p, v) ==
    IF LoadOf(p, v).seen = "fetched"
    THEN /\ compiled' = [compiled EXCEPT ![p] = @ \cup {v}]
         /\ Settle(p, v, "none")
    ELSE /\ LoadGoes(p, v, "mark")
         /\ compiled' = compiled

(* classifyFailure: an S3 or definition failure is recorded, a setting     *)
(* that is missing in this deployment is not.                              *)
Fails(p, v) ==
    /\ faults < MaxFaults /\ faults' = faults + 1
    /\ \/ /\ Settle(p, v, "environment")
       \/ \E failure \in {"permanent_error", "transient_error"} :
            /\ loads' = [loads EXCEPT ![p][v].at = "record", ![p][v].failure = failure]
            /\ call' = call
    /\ compiled' = compiled

(* findStoredDefinition, and its compilation when it is there. *)
LoadFinds(p, v) ==
    /\ LoadOf(p, v).at = "find"
    /\ \/ v \in definitions /\ Succeeds(p, v) /\ faults' = faults
       \/ v \in definitions /\ Fails(p, v)
       \/ /\ v \notin definitions /\ LoadGoes(p, v, "read")
          /\ UNCHANGED <<compiled, faults>>
    /\ UNCHANGED <<catalog, definitions>>

(* fetchConfigFile and the compilation of what it returns. *)
LoadReads(p, v) ==
    /\ LoadOf(p, v).at = "read"
    /\ \/ LoadGoes(p, v, "insert") /\ UNCHANGED <<compiled, faults>>
       \/ Fails(p, v)
    /\ UNCHANGED <<catalog, definitions>>

\* Mutant: the definition is compiled and not inserted.
LoadInsertsNothing(p, v) ==
    /\ LoadOf(p, v).at = "insert"
    /\ definitions' = definitions
    /\ Succeeds(p, v)
    /\ UNCHANGED <<catalog, faults>>

(* insertAgreementDefinition: a version stored first by someone else is    *)
(* left as it is.                                                          *)
LoadInserts(p, v) ==
    /\ LoadOf(p, v).at = "insert"
    /\ definitions' = definitions \cup {v}
    /\ Succeeds(p, v)
    /\ UNCHANGED <<catalog, faults>>

LoadMarks(p, v) ==
    /\ LoadOf(p, v).at = "mark"
    /\ UpdateFetchStatus(v, "agreement", "fetched")
    /\ compiled' = [compiled EXCEPT ![p] = @ \cup {v}]
    /\ Settle(p, v, "none")
    /\ UNCHANGED <<definitions, faults>>

LoadRecords(p, v) ==
    /\ LoadOf(p, v).at = "record"
    /\ UpdateFetchStatus(v, "agreement", LoadOf(p, v).failure)
    /\ Settle(p, v, LoadOf(p, v).failure)
    /\ UNCHANGED <<definitions, compiled, faults>>

(* An operator stores the file a version lacks. No status is written. *)
StoreAgreementDefinition(v) ==
    /\ v \in Announced /\ FileOf(v, "agreement").has /\ v \notin definitions
    /\ definitions' = definitions \cup {v}
    /\ UNCHANGED <<catalog, compiled, loads, call, faults>>

LoadStep(p, v) ==
    \/ LoadFinds(p, v) \/ LoadReads(p, v) \/ LoadInserts(p, v)
    \/ LoadMarks(p, v) \/ LoadRecords(p, v)

DefinitionsTypeOK ==
    /\ CatalogTypeOK
    /\ definitions \subseteq Versions
    /\ compiled \in [Processes -> SUBSET Versions]
    /\ loads \in [Processes -> [Versions -> Load]]
    /\ call \in [Callers -> Call]
    /\ faults \in 0 .. MaxFaults

(* Whatever a process compiled, and whatever a call returned, is stored:   *)
(* another process, or this one after a restart, reads the same definition *)
(* without S3. A caller never waits for a load that is not under way.      *)
LoadedIsStored ==
    /\ \A p \in Processes : compiled[p] \subseteq definitions
    /\ \A c \in Callers :
         /\ call[c].at = "loaded" => call[c].target \in definitions
         /\ call[c].at = "wait" => LoadOf(ProcessOf[c], call[c].target).at # "none"
=============================================================================
