------------------------ MODULE ConfigCatalogProofs ------------------------
(***************************************************************************)
(* What the services rely on when they look a version up: the newest of a  *)
(* set of versions is one of them, and a row of the catalogue stays a row, *)
(* with the grant's file, whatever is announced or recorded.               *)
(***************************************************************************)
EXTENDS ConfigCatalog, FiniteSetTheorems, TLAPS

\* Every row has the file of the grant, so its worst fetch status is defined.
GrantFileHeld == \A v \in Announced : catalog[v].files["grant"].has

CatalogSound == CatalogTypeOK /\ GrantFileHeld

----------------------------------------------------------------------------
\* A finite set of numbers has a largest one.
LEMMA LargestElement ==
    ASSUME NEW S \in SUBSET Nat, IsFiniteSet(S), S # {}
    PROVE  \E x \in S : \A y \in S : y <= x
  <1> DEFINE Bad == {U \in SUBSET S : U # {} /\ ~\E x \in U : \A y \in U : y <= x}
             R == StrictSubsetOrdering(S)
  <1> SUFFICES ASSUME Bad # {} PROVE FALSE
    OBVIOUS
  <1>1. Bad \subseteq FiniteSubsetsOf(S)
    BY FS_FiniteSubsetsOfFinite
  <1>2. PICK U \in Bad : \A V \in Bad : ~(<<V, U>> \in R)
    <2> HIDE DEF R, Bad
    <2> QED
      BY <1>1, WFMin, FS_StrictSubsetOrderingWellFounded DEF R
  <1>3. PICK x \in U : TRUE
    OBVIOUS
  <1> DEFINE V == U \ {x}
  <1>4. <<V, U>> \in R
    BY <1>3 DEF StrictSubsetOrdering
  <1>5. V = {} \/ \E m \in V : \A y \in V : y <= m
    BY <1>2, <1>4
  <1>6. CASE V = {}
    BY <1>6, <1>3
  <1>7. CASE \E m \in V : \A y \in V : y <= m
    <2>1. PICK m \in V : \A y \in V : y <= m
      BY <1>7
    <2>2. CASE x <= m
      BY <2>1, <2>2, <1>3
    <2>3. CASE m <= x
      BY <2>1, <2>3, <1>3
    <2>4. QED
      BY <2>2, <2>3, <1>3, <2>1
  <1>8. QED
    BY <1>5, <1>6, <1>7

\* The newest version of a set is a member of it that no other passes.
LEMMA NewestFacts ==
    ASSUME NEW vs \in SUBSET Versions
    PROVE  /\ vs = {} => Newest(vs) = None
           /\ vs # {} => Newest(vs) \in vs /\ \A w \in vs : w <= Newest(vs)
  <1>1. CASE vs = {}
    BY <1>1 DEF Newest
  <1>2. CASE vs # {}
    <2>1. vs \in SUBSET Nat /\ IsFiniteSet(vs)
      BY CatalogAssumption, FS_Subset
    <2>2. \E x \in vs : \A y \in vs : y <= x
      BY <2>1, <1>2, LargestElement
    <2>3. Newest(vs) = CHOOSE v \in vs : \A w \in vs : w <= v
      BY <1>2 DEF Newest
    <2>4. QED
      BY <2>2, <2>3, <1>2
  <1>3. QED
    BY <1>1, <1>2

\* findLatestActive, findLatestForMajor and findLatestUsableDefinition.
LEMMA LatestActiveFacts == LatestActive = None \/ LatestActive \in ActiveVersions
  BY NewestFacts DEF LatestActive, ActiveVersions, Announced

LEMMA LatestForMajorFacts ==
    ASSUME NEW major
    PROVE  \/ LatestForMajor(major) = None
           \/ /\ LatestForMajor(major) \in ActiveVersions
              /\ MajorOf[LatestForMajor(major)] = major
  <1> DEFINE vs == {v \in ActiveVersions :
                      /\ MajorOf[v] = major
                      /\ FileOf(v, "grant").fetchStatus # "permanent_error"}
  <1>1. vs \in SUBSET Versions
    BY DEF ActiveVersions, Announced
  <1>2. LatestForMajor(major) = Newest(vs)
    BY DEF LatestForMajor
  <1>3. Newest(vs) = None \/ Newest(vs) \in vs
    <2> HIDE DEF vs
    <2> QED
      BY <1>1, NewestFacts
  <1>4. QED
    BY <1>2, <1>3

LEMMA LatestUsableFacts ==
    ASSUME NEW major, NEW bound, NEW f
    PROVE  \/ LatestUsable(major, bound, f) = None
           \/ /\ LatestUsable(major, bound, f) \in ActiveVersions
              /\ MajorOf[LatestUsable(major, bound, f)] = major
              /\ bound # None => LatestUsable(major, bound, f) <= bound
  <1> DEFINE vs == {v \in ActiveVersions :
                      /\ MajorOf[v] = major
                      /\ bound # None => v <= bound
                      /\ FileOf(v, f).has
                      /\ FileOf(v, f).fetchStatus # "permanent_error"}
  <1>1. vs \in SUBSET Versions
    BY DEF ActiveVersions, Announced
  <1>2. LatestUsable(major, bound, f) = Newest(vs)
    BY DEF LatestUsable
  <1>3. Newest(vs) = None \/ Newest(vs) \in vs
    <2> HIDE DEF vs
    <2> QED
      BY <1>1, NewestFacts
  <1>4. QED
    BY <1>2, <1>3

LEMMA ActiveFacts ==
    ActiveVersions \subseteq Announced /\ Announced \subseteq Versions
  BY DEF ActiveVersions, Announced

----------------------------------------------------------------------------
LEMMA StatusFacts ==
    Statuses = {"fetched", "pending", "transient_error", "permanent_error"}
  <1>1. 1 .. 4 = {1, 2, 3, 4}
    OBVIOUS
  <1>2. Statuses = {FetchStatus[1], FetchStatus[2], FetchStatus[3], FetchStatus[4]}
    BY <1>1 DEF Statuses
  <1>3. QED
    BY <1>2 DEF FetchStatus

LEMMA RankFacts ==
    ASSUME NEW s \in Statuses
    PROVE  Rank(s) \in 1 .. 4
  <1>1. \E i \in 1 .. 4 : FetchStatus[i] = s
    BY DEF Statuses
  <1>2. QED
    BY <1>1 DEF Rank

\* withWorstFetchStatus yields a status when the version has a file.
LEMMA WorstType ==
    ASSUME NEW files \in [Files -> FileState], NEW g \in Files, files[g].has
    PROVE  Worst(files) \in Statuses
  <1> DEFINE had == {f \in Files : files[f].has}
             ranks == {Rank(files[f].fetchStatus) : f \in had}
  <1>1. \A f \in Files : files[f].fetchStatus \in Statuses
    BY DEF FileState
  <1>2. ranks \subseteq 1 .. 4
    BY <1>1, RankFacts
  <1>3. ranks \in SUBSET Nat /\ IsFiniteSet(ranks) /\ ranks # {}
    <2>1. IsFiniteSet(1 .. 4)
      <3>1. 1 \in Int /\ 4 \in Int
        OBVIOUS
      <3>2. QED
        BY <3>1, FS_Interval
    <2>2. 1 .. 4 \subseteq Nat
      OBVIOUS
    <2>3. Rank(files[g].fetchStatus) \in ranks
      OBVIOUS
    <2> HIDE DEF ranks
    <2>4. QED
      BY <1>2, <2>1, <2>2, <2>3, FS_Subset
  <1>4. PICK m \in ranks : \A n \in ranks : n <= m
    <2> HIDE DEF ranks
    <2> QED
      BY <1>3, LargestElement
  <1>5. PICK h \in had : m = Rank(files[h].fetchStatus)
    BY <1>4
  <1>6. \E s \in Statuses : /\ \E f \in had : files[f].fetchStatus = s
                            /\ \A f \in had : Rank(files[f].fetchStatus) <= Rank(s)
    BY <1>1, <1>4, <1>5
  <1>7. Worst(files) = CHOOSE s \in Statuses :
                          /\ \E f \in had : files[f].fetchStatus = s
                          /\ \A f \in had : Rank(files[f].fetchStatus) <= Rank(s)
    BY DEF Worst
  <1>8. QED
    BY <1>6, <1>7

\* An update of a row leaves a row; the stage that ends it changes no file.
LEMMA StampedType ==
    ASSUME NEW status \in {"active", "draft"}, NEW files \in [Files -> FileState],
           "grant" \in Files, files["grant"].has
    PROVE  /\ Stamped(status, files) \in Row
           /\ Stamped(status, files).files = files
           /\ Stamped(status, files).status = status
  <1>1. Worst(files) \in Statuses
    BY WorstType
  <1>2. QED
    BY <1>1 DEF Stamped, Row

\* An announcement keeps what is known of fetching.
LEMMA UpsertedFacts ==
    ASSUME NEW row \in Row \cup {None}, row # None => row.files["grant"].has,
           NEW status \in {"active", "draft"}, NEW files, "grant" \in files,
           "grant" \in Files
    PROVE  /\ Upserted(row, status, files) \in Row
           /\ Upserted(row, status, files).files["grant"].has
           /\ Upserted(row, status, files).status = status
           /\ \A f \in Files :
                 Upserted(row, status, files).files[f].fetchStatus =
                    (IF row = None THEN "pending" ELSE row.files[f].fetchStatus)
  <1> DEFINE old(f) == IF row = None THEN NoFile ELSE row.files[f]
             new == [f \in Files |-> [has |-> old(f).has \/ f \in files,
                                      fetchStatus |-> old(f).fetchStatus,
                                      fetchAttempts |-> old(f).fetchAttempts]]
  <1>1. NoFile \in FileState /\ NoFile.fetchStatus = "pending"
    BY StatusFacts DEF NoFile, FileState
  <1>2. \A f \in Files : old(f) \in FileState
    BY <1>1, CatalogAssumption DEF Row
  <1>3. new \in [Files -> FileState] /\ new["grant"].has
    <2> HIDE DEF old
    <2> QED
      BY <1>2 DEF FileState
  <1>4. \A f \in Files :
           new[f].fetchStatus = (IF row = None THEN "pending" ELSE row.files[f].fetchStatus)
    BY <1>1
  <1>5. Upserted(row, status, files) = Stamped(status, new)
    BY DEF Upserted
  <1> HIDE DEF new
  <1>6. QED
    BY <1>3, <1>4, <1>5, StampedType

\* A fetch that is recorded keeps a row a row.
LEMMA MarkedFacts ==
    ASSUME NEW row \in Row, row.files["grant"].has, "grant" \in Files,
           NEW f \in Files, NEW fetchStatus \in Statuses
    PROVE  LET new == Stamped(row.status, [row.files EXCEPT ![f] = Marked(@, fetchStatus)]) IN
           /\ new \in Row
           /\ new.files["grant"].has /\ new.status = row.status
           /\ \A g \in Files : new.files[g].fetchStatus =
                                  (IF g = f THEN fetchStatus ELSE row.files[g].fetchStatus)
  <1> DEFINE file == row.files[f]
             files == [row.files EXCEPT ![f] = Marked(file, fetchStatus)]
  <1>1. row.files \in [Files -> FileState] /\ row.status \in {"active", "draft"}
    BY DEF Row
  <1>2. file \in FileState
    BY <1>1
  <1>3. Marked(file, fetchStatus) \in FileState
    <2>1. (IF fetchStatus = "fetched" THEN 0 ELSE file.fetchAttempts + 1) \in Nat
      BY <1>2 DEF FileState
    <2> HIDE DEF file
    <2>2. QED
      BY <1>2, <2>1 DEF Marked, FileState
  <1>4. Marked(file, fetchStatus).has = file.has
          /\ Marked(file, fetchStatus).fetchStatus = fetchStatus
    BY DEF Marked
  <1>5. files \in [Files -> FileState] /\ files["grant"].has
    BY <1>1, <1>3, <1>4
  <1>6. \A g \in Files : files[g].fetchStatus =
                            (IF g = f THEN fetchStatus ELSE row.files[g].fetchStatus)
    BY <1>1, <1>4
  <1> HIDE DEF files
  <1>7. QED
    BY <1>1, <1>5, <1>6, StampedType DEF files

----------------------------------------------------------------------------
(***************************************************************************)
(* The two updates of the catalogue                                        *)
(***************************************************************************)
LEMMA Announcing ==
    ASSUME CatalogSound, "grant" \in Files, NEW v \in Versions,
           NEW status \in {"active", "draft"}, NEW files, "grant" \in files,
           ProcessConfigVersion(v, status, files)
    PROVE  /\ CatalogSound'
           /\ Announced' = Announced \cup {v}
           /\ \A w \in Announced', f \in Files :
                 FileOf(w, f)'.fetchStatus =
                    (IF w \in Announced THEN FileOf(w, f).fetchStatus ELSE "pending")
  <1> USE CatalogAssumption DEF CatalogSound
  <1> DEFINE new == Upserted(catalog[v], status, files)
  <1>1. /\ catalog[v] \in Row \cup {None}
        /\ catalog[v] # None => catalog[v].files["grant"].has
    BY DEF CatalogTypeOK, GrantFileHeld, Announced
  <1>2. /\ new \in Row /\ new.files["grant"].has
        /\ \A f \in Files :
              new.files[f].fetchStatus =
                 (IF catalog[v] = None THEN "pending" ELSE catalog[v].files[f].fetchStatus)
    BY <1>1, UpsertedFacts
  <1>3. catalog' = [catalog EXCEPT ![v] = new]
    BY DEF ProcessConfigVersion
  <1> HIDE DEF new
  <1>4. /\ CatalogTypeOK'
        /\ \A w \in Versions : catalog'[w] = IF w = v THEN new ELSE catalog[w]
    BY <1>2, <1>3 DEF CatalogTypeOK
  <1>5. Announced' = Announced \cup {v}
    BY <1>2, <1>4 DEF Announced
  <1>6. GrantFileHeld'
    BY <1>2, <1>4, <1>5 DEF GrantFileHeld, Announced
  <1>7. ASSUME NEW w \in Announced', NEW f \in Files
        PROVE  catalog'[w].files[f].fetchStatus =
                  (IF w \in Announced THEN catalog[w].files[f].fetchStatus ELSE "pending")
    BY <1>2, <1>4, <1>7 DEF Announced
  <1>8. QED
    BY <1>4, <1>5, <1>6, <1>7 DEF FileOf

LEMMA Recording ==
    ASSUME CatalogSound, "grant" \in Files, NEW v \in Announced, NEW f \in Files,
           NEW fetchStatus \in Statuses, UpdateFetchStatus(v, f, fetchStatus)
    PROVE  /\ CatalogSound'
           /\ Announced' = Announced
           /\ \A w \in Announced, g \in Files :
                 FileOf(w, g)'.fetchStatus =
                    (IF w = v /\ g = f THEN fetchStatus ELSE FileOf(w, g).fetchStatus)
  <1> USE CatalogAssumption DEF CatalogSound
  <1> DEFINE row == catalog[v]
             new == Stamped(row.status, [row.files EXCEPT ![f] = Marked(@, fetchStatus)])
  <1>1. v \in Versions /\ row \in Row /\ row.files["grant"].has
    BY DEF CatalogTypeOK, GrantFileHeld, Announced
  <1>2. /\ new \in Row /\ new.files["grant"].has
        /\ \A g \in Files : new.files[g].fetchStatus =
                               (IF g = f THEN fetchStatus ELSE row.files[g].fetchStatus)
    BY <1>1, MarkedFacts
  <1>3. catalog' = [catalog EXCEPT ![v] = new]
    BY DEF UpdateFetchStatus
  <1> HIDE DEF new
  <1>4. /\ CatalogTypeOK'
        /\ \A w \in Versions : catalog'[w] = IF w = v THEN new ELSE catalog[w]
    BY <1>1, <1>2, <1>3 DEF CatalogTypeOK
  <1>5. Announced' = Announced
    BY <1>1, <1>2, <1>4 DEF Announced
  <1>6. GrantFileHeld'
    BY <1>2, <1>4, <1>5 DEF GrantFileHeld, Announced
  <1>7. ASSUME NEW w \in Announced, NEW g \in Files
        PROVE  catalog'[w].files[g].fetchStatus =
                  (IF w = v /\ g = f THEN fetchStatus ELSE catalog[w].files[g].fetchStatus)
    BY <1>2, <1>4, <1>7 DEF Announced
  <1>8. QED
    BY <1>4, <1>5, <1>6, <1>7 DEF FileOf

LEMMA CatalogInitially ==
    ASSUME InitCatalog, "grant" \in Files
    PROVE  /\ CatalogSound
           /\ \A v \in Announced : FileOf(v, "grant").fetchStatus = "pending"
  <1> USE CatalogAssumption
  <1> DEFINE new == Upserted(None, "active", Files)
  <1>1. /\ new \in Row /\ new.files["grant"].has
        /\ new.files["grant"].fetchStatus = "pending"
    BY UpsertedFacts
  <1>2. catalog = [v \in Versions |-> IF v \in Published THEN new ELSE None]
    BY DEF InitCatalog
  <1> HIDE DEF new
  <1>3. QED
    BY <1>1, <1>2 DEF CatalogSound, CatalogTypeOK, GrantFileHeld, Announced, FileOf
============================================================================
