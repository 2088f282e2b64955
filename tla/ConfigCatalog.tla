--------------------------- MODULE ConfigCatalog ---------------------------
(***************************************************************************)
(* The catalogue of published configuration versions of one grant, the     *)
(* collection config_versions: the Config Broker announces a version, the  *)
(* grants and the agreements services look up which version to use and     *)
(* record how fetching its definition files went.                          *)
(*                                                                         *)
(* A version major.minor.patch is a number that grows with it, MajorOf its *)
(* major. A file's location in S3 and the text of an error are left out: a *)
(* version either has a file or does not, and S3 never changes a file.     *)
(***************************************************************************)
EXTENDS Integers, FiniteSets

CONSTANTS Versions,   \* published versions, numbers in the order of semver
          MajorOf,    \* the major of each version
          Files,      \* the definition files a version may have
          Published,  \* versions announced as active before the model starts
          None        \* no version, no row

(* Fetch statuses, best first: a version reads as its worst file.          *)
FetchStatus == <<"fetched", "pending", "transient_error", "permanent_error">>

Statuses == {FetchStatus[i] : i \in 1 .. 4}

FileState == [has : BOOLEAN, fetchStatus : Statuses, fetchAttempts : Nat]

Row == [status : {"active", "draft"}, files : [Files -> FileState],
        worstFetchStatus : Statuses]

ASSUME CatalogAssumption ==
    /\ Versions \subseteq Nat /\ IsFiniteSet(Versions)
    /\ MajorOf \in [Versions -> Nat]
    /\ \A v, w \in Versions : v < w => MajorOf[v] <= MajorOf[w]
    /\ Files # {} /\ Files \subseteq {"grant", "agreement", "payment"}
    /\ None \notin Versions /\ None \notin Row /\ Published \subseteq Versions

VARIABLE catalog      \* config_versions: one row per announced version

----------------------------------------------------------------------------
Rank(s) == CHOOSE i \in 1 .. 4 : FetchStatus[i] = s

(* withWorstFetchStatus, the stage that ends every update of a row. Only   *)
(* the files the version has count; it always has the grant's.             *)
Worst(files) ==
    LET had == {f \in Files : files[f].has} IN
    CHOOSE s \in Statuses :
        /\ \E f \in had : files[f].fetchStatus = s
        /\ \A f \in had : Rank(files[f].fetchStatus) <= Rank(s)

Stamped(status, files) ==
    [status |-> status, files |-> files, worstFetchStatus |-> Worst(files)]

NoFile == [has |-> FALSE, fetchStatus |-> "pending", fetchAttempts |-> 0]

Announced == {v \in Versions : catalog[v] # None}

(* processConfigVersion: an event that names a version, its status and its *)
(* manifest is recorded once every file in the manifest has been read and  *)
(* builds; an event that fails a check changes nothing here (its inbox row *)
(* fails or is tried again, see EventBox). Announcing a version again may  *)
(* change its status and add files, and keeps what is known of fetching.   *)
Upserted(row, status, files) ==
    Stamped(status,
            [f \in Files |->
               LET old == IF row = None THEN NoFile ELSE row.files[f] IN
               [has |-> old.has \/ f \in files,
                fetchStatus |-> old.fetchStatus,
                fetchAttempts |-> old.fetchAttempts]])

InitCatalog ==
    catalog = [v \in Versions |->
                 IF v \in Published THEN Upserted(None, "active", Files) ELSE None]

ProcessConfigVersion(v, status, files) ==
    catalog' = [catalog EXCEPT ![v] = Upserted(@, status, files)]

(* updateDefinitionFetchStatus: by grant and version only, whatever the    *)
(* row says by now; a failure counts, success forgets earlier failures.    *)
Marked(file, fetchStatus) ==
    [has |-> file.has, fetchStatus |-> fetchStatus,
     fetchAttempts |->
        IF fetchStatus = "fetched" THEN 0 ELSE file.fetchAttempts + 1]

UpdateFetchStatus(v, f, fetchStatus) ==
    LET row == catalog[v] IN
    catalog' = [catalog EXCEPT ![v] =
                  Stamped(row.status,
                          [row.files EXCEPT ![f] = Marked(@, fetchStatus)])]

----------------------------------------------------------------------------
Newest(vs) == IF vs = {} THEN None ELSE CHOOSE v \in vs : \A w \in vs : w <= v

ActiveVersions == {v \in Announced : catalog[v].status = "active"}

FileOf(v, f) == catalog[v].files[f]

(* findLatestActive: a failed version stays selectable, so that it is      *)
(* refused rather than silently passed over.                               *)
LatestActive == Newest(ActiveVersions)

\* Mutant: the major is not asked for.
LatestUnfailed(major) ==
    Newest({v \in ActiveVersions : FileOf(v, "grant").fetchStatus # "permanent_error"})

(* findLatestForMajor: within one major a failed version is passed over.   *)
LatestForMajor(major) ==
    Newest({v \in ActiveVersions :
              /\ MajorOf[v] = major
              /\ FileOf(v, "grant").fetchStatus # "permanent_error"})

(* findLatestUsableDefinition: the newest version of the major, up to a    *)
(* bound when one is given, that has the file and has not failed on it.    *)
LatestUsable(major, bound, f) ==
    Newest({v \in ActiveVersions :
              /\ MajorOf[v] = major
              /\ bound # None => v <= bound
              /\ FileOf(v, f).has
              /\ FileOf(v, f).fetchStatus # "permanent_error"})

CatalogTypeOK == catalog \in [Versions -> Row \cup {None}]
============================================================================
