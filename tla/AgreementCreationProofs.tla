---------------------- MODULE AgreementCreationProofs ----------------------
(***************************************************************************)
(* Agreements are created once and from a definition that may be used, for *)
(* any number of processes, commands, versions and failures.               *)
(*                                                                         *)
(* The argument has two layers. A call of loadAgreementDefinition returns  *)
(* a version that is stored, of the major it was asked for and, when an    *)
(* agreement is created, not newer (DefinitionsSound): what it needs to    *)
(* know is that a load that has read its definition has stored it. A       *)
(* command keeps the call it made until it is answered (TasksSound), and   *)
(* the unique indexes do the rest.                                         *)
(*                                                                         *)
(* What a definition is compiled and run to, and the identities a new      *)
(* agreement and its transitions number, are modules of their own with no  *)
(* state in common; their proofs follow (IdentitiesInv, ProcessesInv).     *)
(***************************************************************************)
EXTENDS AgreementCreation, AgreementIdentities, AgreementProcesses, ConfigCatalogProofs,
        SequenceTheorems, WellFoundedInduction

LoadsSound ==
    \A p \in Processes, v \in Versions :
        /\ loads[p][v].at # "none" => v \in Announced
        /\ loads[p][v].at = "mark" => v \in definitions
        /\ loads[p][v].at = "record" =>
              loads[p][v].failure \in {"permanent_error", "transient_error"}

\* What a call asks for, and what it may be given.
CallsSound ==
    \A c \in Callers :
        /\ call[c].at \in {"exact", "latest", "wait", "loaded"} => call[c].want \in Versions
        /\ call[c].at \in {"wait", "loaded"} =>
              /\ call[c].target \in Versions
              /\ MajorOf[call[c].target] = MajorOf[call[c].want]
              /\ call[c].resolution = "creation" => call[c].target <= call[c].want

DefinitionsSound ==
    /\ CatalogSound
    /\ DefinitionsTypeOK
    /\ LoadsSound
    /\ CallsSound
    /\ LoadedIsStored

\* A call goes on with what it was asked, and one that has returned stays so.
CallsKept ==
    \A c \in Callers :
        /\ call'[c].want = call[c].want /\ call'[c].resolution = call[c].resolution
        /\ call[c].at = "loaded" => call'[c] = call[c]

----------------------------------------------------------------------------
(***************************************************************************)
(* One call moves                                                          *)
(***************************************************************************)
\* The loads after a step: none is forgotten that somebody waits for.
LoadsGrow ==
    /\ loads' \in [Processes -> [Versions -> Load]]
    /\ LoadsSound'
    /\ \A p \in Processes, v \in Versions : loads[p][v].at # "none" => loads'[p][v].at # "none"

\* A call goes on to wait for a load, or has its answer.
LEMMA CallMoves ==
    ASSUME DefinitionsSound, NEW c \in Callers, NEW t \in Call, call[c].at # "loaded",
           call' = [call EXCEPT ![c] = t],
           t.want = call[c].want, t.resolution = call[c].resolution, t.want \in Versions,
           t.at \in {"wait", "loaded"} =>
              /\ t.target \in Versions /\ MajorOf[t.target] = MajorOf[t.want]
              /\ t.resolution = "creation" => t.target <= t.want,
           t.at = "loaded" => t.target \in definitions,
           t.at = "wait" => loads'[ProcessOf[c]][t.target].at # "none",
           LoadsGrow, UNCHANGED <<catalog, definitions, compiled, faults>>
    PROVE  DefinitionsSound' /\ CallsKept
  <1> USE DefinitionsAssumption DEF DefinitionsSound
  <1>1. /\ call \in [Callers -> Call] /\ call' \in [Callers -> Call]
        /\ \A d \in Callers : call'[d] = IF d = c THEN t ELSE call[d]
    BY DEF DefinitionsTypeOK
  <1>2. CatalogSound'
    BY DEF CatalogSound, CatalogTypeOK, GrantFileHeld, Announced
  <1>3. DefinitionsTypeOK'
    BY <1>1, <1>2 DEF DefinitionsTypeOK, CatalogSound, LoadsGrow
  <1>4. CallsSound'
    BY <1>1 DEF CallsSound
  <1>5. LoadedIsStored'
    <2>1. \A p \in Processes : compiled'[p] \subseteq definitions'
      BY DEF LoadedIsStored
    <2>2. ASSUME NEW d \in Callers
          PROVE  /\ call'[d].at = "loaded" => call'[d].target \in definitions'
                 /\ call'[d].at = "wait" => loads'[ProcessOf[d]][call'[d].target].at # "none"
      <3>1. CASE d = c
        BY <3>1, <1>1
      <3>2. CASE d # c
        <4>1. call'[d] = call[d] /\ ProcessOf[d] \in Processes
          BY <3>2, <1>1
        <4>2. call[d].at = "wait" => call[d].target \in Versions
          BY DEF CallsSound
        <4>3. /\ call[d].at = "loaded" => call[d].target \in definitions
              /\ call[d].at = "wait" => loads[ProcessOf[d]][call[d].target].at # "none"
          BY DEF LoadedIsStored, LoadOf
        <4>4. QED
          BY <4>1, <4>2, <4>3 DEF LoadsGrow
      <3>3. QED
        BY <3>1, <3>2
    <2>3. QED
      BY <2>1, <2>2 DEF LoadedIsStored, LoadOf
  <1>6. CallsKept
    BY <1>1 DEF CallsKept
  <1>7. QED
    BY <1>2, <1>3, <1>4, <1>5, <1>6 DEF LoadsGrow

LEMMA LoadsStay ==
    ASSUME DefinitionsSound, loads' = loads, catalog' = catalog, definitions' = definitions
    PROVE  LoadsGrow
  BY DEF DefinitionsSound, DefinitionsTypeOK, LoadsGrow, LoadsSound, Announced

LEMMA StatusType ==
    ASSUME CatalogSound, NEW v \in Announced, NEW f \in Files
    PROVE  FileOf(v, f).fetchStatus \in Statuses
  <1>1. catalog[v] \in Row
    BY CatalogAssumption DEF CatalogSound, CatalogTypeOK, Announced
  <1>2. catalog[v].files[f] \in FileState
    BY <1>1 DEF Row
  <1>3. QED
    BY <1>2 DEF FileOf, FileState

\* A load begins for a version of the catalogue.
LEMMA LoadBegins ==
    ASSUME DefinitionsSound, NEW p \in Processes, NEW v \in Announced,
           loads' = [loads EXCEPT ![p][v] = Begins(FileOf(v, "agreement").fetchStatus)],
           catalog' = catalog, definitions' = definitions
    PROVE  LoadsGrow /\ loads'[p][v].at # "none"
  <1> USE DefinitionsAssumption DEF DefinitionsSound
  <1> DEFINE l == Begins(FileOf(v, "agreement").fetchStatus)
  <1>1. v \in Versions
    BY DEF Announced
  <1>2. FileOf(v, "agreement").fetchStatus \in Statuses
    BY StatusType
  <1>3. l \in Load /\ l.at = "find"
    BY <1>2 DEF Begins, Load
  <1> HIDE DEF l
  <1>4. /\ loads' \in [Processes -> [Versions -> Load]]
        /\ \A q \in Processes, w \in Versions :
              loads'[q][w] = IF q = p /\ w = v THEN l ELSE loads[q][w]
    BY <1>1, <1>3 DEF DefinitionsTypeOK, l
  <1>5. Announced' = Announced
    BY DEF Announced
  <1>6. LoadsSound'
    BY <1>3, <1>4, <1>5 DEF LoadsSound
  <1>7. QED
    BY <1>1, <1>3, <1>4, <1>6 DEF LoadsGrow

LEMMA TargetedType ==
    ASSUME DefinitionsSound, NEW c \in Callers, NEW v \in Versions,
           NEW at \in {"loaded", "failed", "wait"}
    PROVE  /\ Targeted(c, v, at) \in Call
           /\ Targeted(c, v, at).at = at /\ Targeted(c, v, at).target = v
           /\ Targeted(c, v, at).want = call[c].want
           /\ Targeted(c, v, at).resolution = call[c].resolution
  BY DEF DefinitionsSound, DefinitionsTypeOK, Targeted, Call

\* What loadCompiled may be given to load.
Fits(c, v) ==
    /\ v \in Announced
    /\ MajorOf[v] = MajorOf[call[c].want]
    /\ call[c].resolution = "creation" => v <= call[c].want

\* A version that cannot be had: the call tries the newest one, or has failed.
LEMMA CallFails ==
    ASSUME DefinitionsSound, NEW c \in Callers, call[c].at \in {"exact", "latest"},
           NEW at \in {"failed", "latest"}, call' = [call EXCEPT ![c].at = at],
           UNCHANGED <<catalog, definitions, compiled, loads, faults>>
    PROVE  DefinitionsSound' /\ CallsKept
  <1> DEFINE t == [call[c] EXCEPT !.at = at]
  <1>1. call[c] \in Call /\ call[c].want \in Versions /\ call' = [call EXCEPT ![c] = t]
    BY DEF DefinitionsSound, DefinitionsTypeOK, CallsSound
  <1>2. t \in Call /\ t.at = at /\ t.want = call[c].want /\ t.resolution = call[c].resolution
    BY <1>1 DEF Call
  <1> HIDE DEF t
  <1>3. LoadsGrow
    BY LoadsStay
  <1>4. QED
    BY <1>1, <1>2, <1>3, CallMoves

\* A call picks a version it may have and loads it, or finds it compiled.
LEMMA CallIsTargeted ==
    ASSUME DefinitionsSound, NEW c \in Callers, call[c].at \in {"exact", "latest"},
           NEW v, Fits(c, v), NEW at \in {"loaded", "failed", "wait"},
           call' = [call EXCEPT ![c] = Targeted(c, v, at)],
           at = "loaded" => v \in definitions,
           at = "wait" => loads'[ProcessOf[c]][v].at # "none",
           LoadsGrow, UNCHANGED <<catalog, definitions, compiled, faults>>
    PROVE  DefinitionsSound' /\ CallsKept
  <1> DEFINE t == Targeted(c, v, at)
  <1>1. v \in Versions /\ call[c].want \in Versions
    BY DEF Fits, Announced, DefinitionsSound, CallsSound
  <1>2. /\ t \in Call /\ t.at = at /\ t.target = v
        /\ t.want = call[c].want /\ t.resolution = call[c].resolution
    BY <1>1, TargetedType
  <1> HIDE DEF t
  <1>3. call' = [call EXCEPT ![c] = t]
    BY DEF t
  <1>4. /\ t.want \in Versions /\ t.target \in Versions
        /\ MajorOf[t.target] = MajorOf[t.want]
        /\ t.resolution = "creation" => t.target <= t.want
    BY <1>1, <1>2 DEF Fits
  <1>5. /\ t.at = "loaded" => t.target \in definitions
        /\ t.at = "wait" => loads'[ProcessOf[c]][t.target].at # "none"
    BY <1>2
  <1>6. QED
    BY <1>2, <1>3, <1>4, <1>5, CallMoves

LEMMA TryLoadSteps ==
    ASSUME DefinitionsSound, NEW c \in Callers, call[c].at \in {"exact", "latest"},
           NEW v, v = None \/ Fits(c, v), TryLoad(c, v),
           UNCHANGED <<catalog, definitions, compiled, faults>>
    PROVE  DefinitionsSound' /\ CallsKept
  <1> USE DefinitionsAssumption
  <1> DEFINE p == ProcessOf[c]
  <1>1. p \in Processes
    OBVIOUS
  <1>2. CASE call' = [call EXCEPT ![c].at = "failed"] /\ loads' = loads
    BY <1>2, CallFails
  <1>3. CASE /\ v # None /\ v \in compiled[p] /\ loads' = loads
             /\ call' = [call EXCEPT ![c] = Targeted(c, v, "loaded")]
    <2>1. v \in definitions
      BY <1>1, <1>3 DEF DefinitionsSound, LoadedIsStored
    <2>2. QED
      BY <1>3, <2>1, LoadsStay, CallIsTargeted
  <1>4. CASE /\ v # None /\ loads' = loads
             /\ call' = [call EXCEPT ![c] = Targeted(c, v, "failed")]
    BY <1>4, LoadsStay, CallIsTargeted
  <1>5. CASE /\ v # None /\ LoadOf(p, v).at # "none" /\ loads' = loads
             /\ call' = [call EXCEPT ![c] = Targeted(c, v, "wait")]
    BY <1>5, LoadsStay, CallIsTargeted DEF LoadOf
  <1>6. CASE /\ v # None
             /\ call' = [call EXCEPT ![c] = Targeted(c, v, "wait")]
             /\ loads' = [loads EXCEPT ![p][v] = Begins(FileOf(v, "agreement").fetchStatus)]
    <2>1. LoadsGrow /\ loads'[p][v].at # "none"
      BY <1>1, <1>6, LoadBegins DEF Fits
    <2>2. QED
      BY <1>6, <2>1, CallIsTargeted
  <1>7. QED
    BY <1>2, <1>3, <1>4, <1>5, <1>6 DEF TryLoad

LEMMA ResolveExactSteps ==
    ASSUME DefinitionsSound, NEW c \in Callers, ResolveExact(c)
    PROVE  DefinitionsSound' /\ CallsKept
  <1> USE CatalogAssumption
  <1> DEFINE v == call[c].want
  <1>1. call[c].at = "exact" /\ v \in Versions
          /\ UNCHANGED <<catalog, definitions, compiled, faults>>
    BY DEF ResolveExact, DefinitionsSound, CallsSound
  <1>2. v \in Announced => Fits(c, v)
    <2>1. v <= v
      BY <1>1
    <2>2. QED
      BY <2>1 DEF Fits
  <1>3. \/ TryLoad(c, None)
        \/ v \in Announced /\ TryLoad(c, v)
        \/ call' = [call EXCEPT ![c].at = "latest"] /\ loads' = loads
    BY DEF ResolveExact
  <1>4. CASE TryLoad(c, None)
    BY <1>1, <1>4, TryLoadSteps
  <1>5. CASE v \in Announced /\ TryLoad(c, v)
    BY <1>1, <1>2, <1>5, TryLoadSteps
  <1>6. CASE call' = [call EXCEPT ![c].at = "latest"] /\ loads' = loads
    BY <1>1, <1>6, CallFails
  <1>7. QED
    BY <1>3, <1>4, <1>5, <1>6

LEMMA ResolveLatestSteps ==
    ASSUME DefinitionsSound, NEW c \in Callers, ResolveLatest(c)
    PROVE  DefinitionsSound' /\ CallsKept
  <1> USE CatalogAssumption
  <1> DEFINE v == LatestUsable(MajorOf[call[c].want], Bound(c), "agreement")
  <1>1. /\ call[c].at = "latest" /\ call[c].want \in Versions /\ TryLoad(c, v)
        /\ UNCHANGED <<catalog, definitions, compiled, faults>>
    BY DEF ResolveLatest, DefinitionsSound, CallsSound
  <1>2. \/ v = None
        \/ /\ v \in ActiveVersions /\ MajorOf[v] = MajorOf[call[c].want]
           /\ Bound(c) # None => v <= Bound(c)
    BY LatestUsableFacts
  <1> HIDE DEF v
  <1>3. v = None \/ Fits(c, v)
    BY <1>1, <1>2, ActiveFacts DEF Fits, Bound
  <1>4. QED
    BY <1>1, <1>3, TryLoadSteps

----------------------------------------------------------------------------
(***************************************************************************)
(* A load moves                                                            *)
(***************************************************************************)
\* What a load leaves as it should be, whatever it does to the calls.
StoreKept ==
    /\ CatalogSound' /\ Announced' = Announced
    /\ definitions \subseteq definitions' /\ definitions' \subseteq Versions
    /\ compiled' \in [Processes -> SUBSET Versions]
    /\ \A p \in Processes : compiled'[p] \subseteq definitions'
    /\ faults' \in 0 .. MaxFaults

\* The load ends and every caller that waits for it goes on.
LEMMA Settles ==
    ASSUME DefinitionsSound, NEW p \in Processes, NEW v \in Versions, NEW failure,
           Settle(p, v, failure), StoreKept, failure = "none" => v \in definitions'
    PROVE  DefinitionsSound' /\ CallsKept
  <1> USE DefinitionsAssumption DEF DefinitionsSound
  <1> DEFINE next(c) == IF failure = "none" THEN "loaded" ELSE AfterFailure(c, failure)
  <1>1. NoLoad \in Load /\ NoLoad.at = "none"
    BY StatusFacts DEF NoLoad, Load
  <1>2. /\ loads' \in [Processes -> [Versions -> Load]]
        /\ \A q \in Processes, w \in Versions :
              loads'[q][w] = IF q = p /\ w = v THEN NoLoad ELSE loads[q][w]
    BY <1>1 DEF DefinitionsTypeOK, Settle
  <1>3. \A c \in Callers : next(c) \in {"loaded", "exact", "latest", "failed"}
    BY DEF AfterFailure
  <1>4. \A c \in Callers : (failure = "none" <=> next(c) = "loaded")
    BY DEF AfterFailure
  <1>5. call' = [c \in Callers |-> IF c \notin Waiting(p, v) THEN call[c]
                                   ELSE [call[c] EXCEPT !.at = next(c)]]
    BY DEF Settle
  <1> HIDE DEF next
  <1>6. ASSUME NEW c \in Callers
        PROVE  /\ call'[c] \in Call
               /\ c \notin Waiting(p, v) => call'[c] = call[c]
               /\ c \in Waiting(p, v) =>
                     /\ call'[c].at = next(c)
                     /\ call[c].at = "wait" /\ call[c].target = v
               /\ call'[c].want = call[c].want /\ call'[c].resolution = call[c].resolution
               /\ call'[c].target = call[c].target
    <2>1. call[c] \in Call
      BY DEF DefinitionsTypeOK
    <2>2. CASE c \notin Waiting(p, v)
      BY <2>1, <2>2, <1>5
    <2>3. CASE c \in Waiting(p, v)
      <3>1. call'[c] = [call[c] EXCEPT !.at = next(c)]
        BY <2>3, <1>5
      <3>2. call[c].at = "wait" /\ call[c].target = v
        BY <2>3 DEF Waiting
      <3>3. QED
        BY <3>1, <3>2, <2>1, <2>3, <1>3 DEF Call
    <2>4. QED
      BY <2>2, <2>3
  <1>7. call' \in [Callers -> Call]
    BY <1>5, <1>6
  <1>8. DefinitionsTypeOK'
    BY <1>2, <1>7 DEF DefinitionsTypeOK, StoreKept, CatalogSound
  <1>9. LoadsSound'
    BY <1>1, <1>2 DEF LoadsSound, StoreKept
  <1>10. CallsSound'
    <2> SUFFICES ASSUME NEW c \in Callers
                 PROVE  /\ call'[c].at \in {"exact", "latest", "wait", "loaded"} =>
                              call'[c].want \in Versions
                        /\ call'[c].at \in {"wait", "loaded"} =>
                              /\ call'[c].target \in Versions
                              /\ MajorOf[call'[c].target] = MajorOf[call'[c].want]
                              /\ call'[c].resolution = "creation" =>
                                    call'[c].target <= call'[c].want
      BY DEF CallsSound
    <2>1. CASE c \in Waiting(p, v)
      BY <2>1, <1>6 DEF CallsSound
    <2>2. CASE c \notin Waiting(p, v)
      BY <2>2, <1>6 DEF CallsSound
    <2>3. QED
      BY <2>1, <2>2
  <1>11. LoadedIsStored'
    <2>1. ASSUME NEW c \in Callers
          PROVE  /\ call'[c].at = "loaded" => call'[c].target \in definitions'
                 /\ call'[c].at = "wait" => loads'[ProcessOf[c]][call'[c].target].at # "none"
      <3>1. CASE c \in Waiting(p, v)
        BY <3>1, <1>3, <1>4, <1>6
      <3>2. CASE c \notin Waiting(p, v)
        <4>1. call'[c] = call[c] /\ ProcessOf[c] \in Processes
          BY <3>2, <1>6
        <4>2. call[c].at = "loaded" => call[c].target \in definitions'
          BY DEF LoadedIsStored, StoreKept
        <4>3. ASSUME call[c].at = "wait"
              PROVE  loads'[ProcessOf[c]][call[c].target].at # "none"
          <5>1. call[c].target \in Versions
            BY <4>3 DEF CallsSound
          <5>2. loads[ProcessOf[c]][call[c].target].at # "none"
            BY <4>3 DEF LoadedIsStored, LoadOf
          <5>3. ~(ProcessOf[c] = p /\ call[c].target = v)
            BY <4>3, <3>2 DEF Waiting
          <5>4. QED
            BY <5>1, <5>2, <5>3, <4>1, <1>2
        <4>4. QED
          BY <4>1, <4>2, <4>3
      <3>3. QED
        BY <3>1, <3>2
    <2>2. QED
      BY <2>1 DEF LoadedIsStored, LoadOf, StoreKept
  <1>12. CallsKept
    <2>1. \A c \in Callers : call[c].at = "loaded" => c \notin Waiting(p, v)
      BY DEF Waiting
    <2>2. QED
      BY <2>1, <1>6 DEF CallsKept
  <1>13. QED
    BY <1>8, <1>9, <1>10, <1>11, <1>12 DEF StoreKept

\* The load goes on and nobody hears of it yet.
LEMMA LoadMoves ==
    ASSUME DefinitionsSound, NEW p \in Processes, NEW v \in Versions, NEW l \in Load,
           loads' = [loads EXCEPT ![p][v] = l], call' = call, StoreKept,
           loads[p][v].at # "none", l.at # "none",
           l.at = "mark" => v \in definitions',
           l.at = "record" => l.failure \in {"permanent_error", "transient_error"}
    PROVE  DefinitionsSound' /\ CallsKept
  <1> USE DefinitionsAssumption DEF DefinitionsSound
  <1>1. /\ loads' \in [Processes -> [Versions -> Load]]
        /\ \A q \in Processes, w \in Versions :
              loads'[q][w] = IF q = p /\ w = v THEN l ELSE loads[q][w]
    BY DEF DefinitionsTypeOK
  <1>2. DefinitionsTypeOK'
    BY <1>1 DEF DefinitionsTypeOK, StoreKept, CatalogSound
  <1>3. LoadsSound'
    BY <1>1 DEF LoadsSound, StoreKept
  <1>4. CallsSound' /\ CallsKept
    BY DEF CallsSound, CallsKept
  <1>5. LoadedIsStored'
    <2>1. ASSUME NEW c \in Callers
          PROVE  /\ call[c].at = "loaded" => call[c].target \in definitions'
                 /\ call[c].at = "wait" => loads'[ProcessOf[c]][call[c].target].at # "none"
      <3>1. ProcessOf[c] \in Processes /\ (call[c].at = "wait" => call[c].target \in Versions)
        BY DEF CallsSound
      <3>2. /\ call[c].at = "loaded" => call[c].target \in definitions
            /\ call[c].at = "wait" => loads[ProcessOf[c]][call[c].target].at # "none"
        BY DEF LoadedIsStored, LoadOf
      <3>3. QED
        BY <3>1, <3>2, <1>1 DEF StoreKept
    <2>2. QED
      BY <2>1 DEF LoadedIsStored, LoadOf, StoreKept
  <1>6. QED
    BY <1>2, <1>3, <1>4, <1>5 DEF StoreKept

\* The same, for a step that only says where the load goes.
LEMMA LoadGoesSteps ==
    ASSUME DefinitionsSound, NEW p \in Processes, NEW v \in Versions,
           NEW at \in {"read", "insert", "mark"}, LoadGoes(p, v, at), StoreKept,
           loads[p][v].at # "none", at = "mark" => v \in definitions'
    PROVE  DefinitionsSound' /\ CallsKept
  <1> DEFINE l == [loads[p][v] EXCEPT !.at = at]
  <1>1. loads[p][v] \in Load
    BY DEF DefinitionsSound, DefinitionsTypeOK
  <1>2. l \in Load /\ l.at = at
    BY <1>1 DEF Load
  <1>3. loads' = [loads EXCEPT ![p][v] = l] /\ call' = call
    BY DEF LoadGoes
  <1> HIDE DEF l
  <1>4. QED
    BY <1>2, <1>3, LoadMoves

LEMMA SucceedsSteps ==
    ASSUME DefinitionsSound, NEW p \in Processes, NEW v \in Versions, Succeeds(p, v),
           loads[p][v].at # "none", v \in definitions',
           CatalogSound', Announced' = Announced,
           definitions \subseteq definitions', definitions' \subseteq Versions, faults' = faults
    PROVE  DefinitionsSound' /\ CallsKept
  <1>1. /\ faults' \in 0 .. MaxFaults
        /\ compiled \in [Processes -> SUBSET Versions]
        /\ \A q \in Processes : compiled[q] \subseteq definitions'
    BY DEF DefinitionsSound, DefinitionsTypeOK, LoadedIsStored
  <1>2. CASE compiled' = [compiled EXCEPT ![p] = @ \cup {v}] /\ Settle(p, v, "none")
    <2>1. StoreKept
      BY <1>1, <1>2 DEF StoreKept
    <2>2. QED
      BY <1>2, <2>1, Settles
  <1>3. CASE LoadGoes(p, v, "mark") /\ compiled' = compiled
    <2>1. StoreKept
      BY <1>1, <1>3 DEF StoreKept
    <2>2. QED
      BY <1>3, <2>1, LoadGoesSteps
  <1>4. QED
    BY <1>2, <1>3 DEF Succeeds

LEMMA FailsSteps ==
    ASSUME DefinitionsSound, NEW p \in Processes, NEW v \in Versions, Fails(p, v),
           loads[p][v].at # "none", UNCHANGED <<catalog, definitions>>
    PROVE  DefinitionsSound' /\ CallsKept
  <1>1. faults' \in 0 .. MaxFaults /\ compiled' = compiled
    <2>1. faults \in 0 .. MaxFaults /\ MaxFaults \in Nat
      BY DefinitionsAssumption DEF DefinitionsSound, DefinitionsTypeOK
    <2>2. faults < MaxFaults /\ faults' = faults + 1 /\ compiled' = compiled
      BY DEF Fails
    <2>3. QED
      BY <2>1, <2>2
  <1>2. StoreKept
    BY <1>1 DEF StoreKept, DefinitionsSound, DefinitionsTypeOK, LoadedIsStored, CatalogSound,
                CatalogTypeOK, GrantFileHeld, Announced
  <1>3. CASE Settle(p, v, "environment")
    BY <1>2, <1>3, Settles
  <1>4. ASSUME NEW failure \in {"permanent_error", "transient_error"},
               loads' = [loads EXCEPT ![p][v].at = "record", ![p][v].failure = failure],
               call' = call
        PROVE  DefinitionsSound' /\ CallsKept
    <2> DEFINE l == [loads[p][v] EXCEPT !.at = "record", !.failure = failure]
    <2>1. loads[p][v] \in Load /\ loads \in [Processes -> [Versions -> Load]]
      BY DEF DefinitionsSound, DefinitionsTypeOK
    <2>2. l \in Load /\ l.at = "record" /\ l.failure = failure
      BY <2>1 DEF Load, Failures
    <2>3. loads' = [loads EXCEPT ![p][v] = l]
      BY <2>1, <1>4
    <2> HIDE DEF l
    <2>4. QED
      BY <2>2, <2>3, <1>2, <1>4, LoadMoves
  <1>5. QED
    BY <1>3, <1>4 DEF Fails

LEMMA LoadSteps ==
    ASSUME DefinitionsSound, NEW p \in Processes, NEW v \in Versions, LoadStep(p, v)
    PROVE  DefinitionsSound' /\ CallsKept /\ definitions \subseteq definitions'
  <1> USE DEF LoadOf
  <1>1. /\ definitions \subseteq Versions /\ faults \in 0 .. MaxFaults
        /\ compiled \in [Processes -> SUBSET Versions]
        /\ \A q \in Processes : compiled[q] \subseteq definitions
    BY DEF DefinitionsSound, DefinitionsTypeOK, LoadedIsStored
  <1>2. catalog' = catalog => CatalogSound' /\ Announced' = Announced
    BY DEF DefinitionsSound, CatalogSound, CatalogTypeOK, GrantFileHeld, Announced
  <1>3. UNCHANGED <<catalog, definitions, compiled, faults>> => StoreKept
    BY <1>1, <1>2 DEF StoreKept
  <1>4. CASE LoadFinds(p, v)
    <2>1. /\ loads[p][v].at # "none" /\ UNCHANGED <<catalog, definitions>>
          /\ \/ v \in definitions /\ Succeeds(p, v) /\ faults' = faults
             \/ Fails(p, v)
             \/ LoadGoes(p, v, "read") /\ UNCHANGED <<compiled, faults>>
      BY <1>4 DEF LoadFinds
    <2>2. CASE v \in definitions /\ Succeeds(p, v) /\ faults' = faults
      BY <2>1, <2>2, <1>1, <1>2, SucceedsSteps
    <2>3. CASE Fails(p, v)
      BY <2>1, <2>3, FailsSteps
    <2>4. CASE LoadGoes(p, v, "read") /\ UNCHANGED <<compiled, faults>>
      BY <2>1, <2>4, <1>3, LoadGoesSteps
    <2>5. QED
      BY <2>1, <2>2, <2>3, <2>4
  <1>5. CASE LoadReads(p, v)
    <2>1. /\ loads[p][v].at # "none" /\ UNCHANGED <<catalog, definitions>>
          /\ \/ LoadGoes(p, v, "insert") /\ UNCHANGED <<compiled, faults>>
             \/ Fails(p, v)
      BY <1>5 DEF LoadReads
    <2>2. QED
      BY <2>1, <1>3, LoadGoesSteps, FailsSteps
  <1>6. CASE LoadInserts(p, v)
    <2>1. /\ loads[p][v].at # "none" /\ definitions' = definitions \cup {v}
          /\ Succeeds(p, v) /\ UNCHANGED <<catalog, faults>>
      BY <1>6 DEF LoadInserts
    <2>2. QED
      BY <2>1, <1>1, <1>2, SucceedsSteps
  <1>7. CASE LoadMarks(p, v)
    <2>1. /\ loads[p][v].at = "mark" /\ UpdateFetchStatus(v, "agreement", "fetched")
          /\ compiled' = [compiled EXCEPT ![p] = @ \cup {v}] /\ Settle(p, v, "none")
          /\ UNCHANGED <<definitions, faults>>
      BY <1>7 DEF LoadMarks
    <2>2. v \in Announced /\ v \in definitions
      BY <2>1 DEF DefinitionsSound, LoadsSound
    <2>3. CatalogSound' /\ Announced' = Announced
      BY <2>1, <2>2, Recording, StatusFacts, DefinitionsAssumption DEF DefinitionsSound
    <2>4. StoreKept
      BY <2>1, <2>2, <2>3, <1>1 DEF StoreKept
    <2>5. QED
      BY <2>1, <2>2, <2>4, Settles
  <1>8. CASE LoadRecords(p, v)
    <2> DEFINE failure == loads[p][v].failure
    <2>1. /\ loads[p][v].at = "record" /\ UpdateFetchStatus(v, "agreement", failure)
          /\ Settle(p, v, failure) /\ UNCHANGED <<definitions, compiled, faults>>
      BY <1>8 DEF LoadRecords
    <2>2. v \in Announced /\ failure \in {"permanent_error", "transient_error"}
      BY <2>1 DEF DefinitionsSound, LoadsSound
    <2> HIDE DEF failure
    <2>3. failure \in Statuses /\ failure # "none"
      BY <2>2, StatusFacts
    <2>4. CatalogSound' /\ Announced' = Announced
      BY <2>1, <2>2, <2>3, Recording, DefinitionsAssumption DEF DefinitionsSound
    <2>5. StoreKept
      BY <2>1, <2>4, <1>1 DEF StoreKept
    <2>6. QED
      BY <2>1, <2>3, <2>5, Settles
  <1>9. QED
    BY <1>4, <1>5, <1>6, <1>7, <1>8 DEF LoadStep

----------------------------------------------------------------------------
(***************************************************************************)
(* Commands and requests                                                   *)
(***************************************************************************)
\* What a caller in state t knows: a command that is not answered has a call
\* for the version it names, and one about to store has that call's result.
TaskSound(c, t) ==
    /\ t.at = "new" => t.asked = None
    /\ t.at \in {"load", "persist"} => t.asked \in Task
    /\ t.at \in {"load", "persist"} /\ t.asked.kind = "create" =>
          call[c].resolution = "creation" /\ call[c].want = t.asked.version
    /\ t.at = "load" /\ t.asked.kind = "open" => t.asked.ref \in Existing
    /\ t.at = "persist" =>
          t.asked.kind = "create" /\ call[c].at = "loaded" /\ t.number \in Numbers
    /\ t.at = "end" /\ t.result \in Numbers =>
          /\ t.asked.ref \in Existing
          /\ t.result = agreements[t.asked.ref].agreementNumber

TasksSound == \A c \in Callers : TaskSound(c, task[c])

CreationTypeOK ==
    /\ agreements \in [Refs -> Agreement \cup {None}]
    /\ versions \in Seq(Numbers) /\ audits \in Seq(Numbers)
    /\ events \in Seq([type : {"lifecycle", "created", "status"}, number : Numbers])
    /\ task \in [Callers -> TaskState]
    /\ restarts \in 0 .. MaxRestarts /\ announced \in 0 .. MaxEvents

Inv ==
    /\ DefinitionsSound
    /\ CreationTypeOK
    /\ TasksSound
    /\ NumbersAreUnique
    /\ RecordedOnce
    /\ CreatedFromUsable

\* Agreements are only added, and keep their number and their version.
AgreementsKept ==
    \A ref \in Existing :
        /\ ref \in Existing'
        /\ agreements'[ref].agreementNumber = agreements[ref].agreementNumber
        /\ agreements'[ref].configVersion = agreements[ref].configVersion

AskedKept == \A c \in Callers : task[c].asked # None => task'[c].asked = task[c].asked

\* What a caller knows stays true while its call keeps what it asked for.
LEMMA TaskSoundKept ==
    ASSUME NEW c \in Callers, NEW t, TaskSound(c, t), AgreementsKept,
           call'[c].want = call[c].want, call'[c].resolution = call[c].resolution,
           call[c].at = "loaded" => call'[c] = call[c]
    PROVE  TaskSound(c, t)'
  BY DEF TaskSound, AgreementsKept

\* No agreement is created and none forgets which command created it.
LEMMA FromUsableKept ==
    ASSUME CreatedFromUsable, AgreementsKept, AskedKept, definitions \subseteq definitions',
           Existing' = Existing
    PROVE  CreatedFromUsable'
  <1> SUFFICES ASSUME NEW ref \in Existing
               PROVE  /\ agreements'[ref].configVersion \in definitions'
                      /\ \E c \in Callers :
                           /\ task'[c].asked # None /\ task'[c].asked.kind = "create"
                           /\ task'[c].asked.ref = ref
                           /\ agreements'[ref].configVersion <= task'[c].asked.version
                           /\ MajorOf[agreements'[ref].configVersion]
                                = MajorOf[task'[c].asked.version]
    BY DEF CreatedFromUsable
  <1>1. agreements'[ref].configVersion = agreements[ref].configVersion
    BY DEF AgreementsKept
  <1>2. PICK c \in Callers :
           /\ task[c].asked # None /\ task[c].asked.kind = "create" /\ task[c].asked.ref = ref
           /\ agreements[ref].configVersion <= task[c].asked.version
           /\ MajorOf[agreements[ref].configVersion] = MajorOf[task[c].asked.version]
    BY DEF CreatedFromUsable
  <1>3. task'[c].asked = task[c].asked
    BY <1>2 DEF AskedKept
  <1>4. agreements[ref].configVersion \in definitions'
    BY DEF CreatedFromUsable
  <1>5. QED
    BY <1>1, <1>2, <1>3, <1>4

\* A step that creates nothing.
LEMMA NothingCreated ==
    ASSUME Inv, DefinitionsSound', definitions \subseteq definitions', CreationTypeOK',
           TasksSound', AskedKept, AgreementsKept, Existing' = Existing,
           UNCHANGED <<versions, events, audits>>
    PROVE  Inv'
  <1> USE DEF Inv
  <1>1. Used' = Used
    <2>1. \A ref \in Existing :
             agreements'[ref].agreementNumber = agreements[ref].agreementNumber
      BY DEF AgreementsKept
    <2>2. QED
      BY <2>1 DEF Used
  <1>2. NumbersAreUnique'
    BY DEF NumbersAreUnique, AgreementsKept
  <1>3. RecordedOnce'
    <2>1. \A x : /\ Times(x, versions') = Times(x, versions)
                 /\ Times(x, audits') = Times(x, audits)
                 /\ Times(x, events') = Times(x, events)
      OBVIOUS
    <2>2. \A n \in Numbers : TimesUsed(n)' = TimesUsed(n)
      BY <1>1 DEF TimesUsed
    <2>3. QED
      BY <2>1, <2>2 DEF RecordedOnce
  <1>4. CreatedFromUsable'
    BY FromUsableKept
  <1>5. QED
    BY <1>2, <1>3, <1>4

\* The task of one caller moves, and no agreement does.
LEMMA TaskMoves ==
    ASSUME Inv, NEW c \in Callers, NEW t \in TaskState, task' = [task EXCEPT ![c] = t],
           task[c].asked # None => t.asked = task[c].asked,
           TaskSound(c, t)', DefinitionsSound', definitions' = definitions,
           \A d \in Callers : d # c => call'[d] = call[d],
           UNCHANGED <<agreements, versions, events, audits, restarts, announced>>
    PROVE  Inv'
  <1> USE DEF Inv
  <1>1. /\ task' \in [Callers -> TaskState]
        /\ \A d \in Callers : task'[d] = IF d = c THEN t ELSE task[d]
    BY DEF CreationTypeOK
  <1>2. CreationTypeOK'
    BY <1>1 DEF CreationTypeOK
  <1>3. Existing' = Existing
    BY DEF Existing
  <1>4. AgreementsKept
    BY <1>3 DEF AgreementsKept
  <1>5. AskedKept
    BY <1>1 DEF AskedKept
  <1>6. TasksSound'
    <2> SUFFICES ASSUME NEW d \in Callers PROVE TaskSound(d, task[d])'
      BY DEF TasksSound
    <2>1. CASE d = c
      BY <2>1, <1>1 DEF TaskSound
    <2>2. CASE d # c
      <3>1. TaskSound(d, task[d]) /\ task'[d] = task[d]
        BY <2>2, <1>1 DEF TasksSound
      <3>2. call'[d] = call[d]
        BY <2>2
      <3>3. QED
        BY <3>1, <3>2, <1>3 DEF TaskSound
    <2>3. QED
      BY <2>1, <2>2
  <1>7. QED
    BY <1>2, <1>3, <1>4, <1>5, <1>6, NothingCreated

\* The same, for a caller that is answered.
LEMMA EndSteps ==
    ASSUME Inv, NEW c \in Callers, task[c].at # "new",
           NEW result \in Numbers \cup {None, "failed", "lost"}, End(c, result),
           result \in Numbers => /\ task[c].asked.ref \in Existing
                                 /\ result = agreements[task[c].asked.ref].agreementNumber,
           DefinitionsSound', definitions' = definitions,
           \A d \in Callers : d # c => call'[d] = call[d],
           UNCHANGED <<agreements, versions, events, audits, restarts, announced>>
    PROVE  Inv'
  <1>1. task[c] \in TaskState /\ 0 \in 0 .. MaxNumberAttempts
    BY CreationAssumption DEF Inv, CreationTypeOK
  <1>2. PICK t \in TaskState : t = [task[c] EXCEPT !.at = "end", !.number = None,
                                                 !.attempt = 0, !.result = result]
    BY <1>1 DEF TaskState
  <1>3. /\ task' = [task EXCEPT ![c] = t]
        /\ t.at = "end" /\ t.result = result /\ t.asked = task[c].asked
    BY <1>1, <1>2 DEF End, Inv, CreationTypeOK, TaskState
  <1>4. Existing' = Existing
    BY DEF Existing
  <1>5. TaskSound(c, t)'
    BY <1>3, <1>4 DEF TaskSound
  <1>6. QED
    BY <1>3, <1>5, TaskMoves

\* A caller makes its call: it is about a version that exists.
LEMMA CallsOut ==
    ASSUME Inv, NEW c \in Callers, NEW want \in Versions, NEW resolution \in Resolutions,
           Calls(c, Loading(want, resolution)),
           UNCHANGED <<catalog, definitions, compiled, loads, faults>>
    PROVE  /\ DefinitionsSound'
           /\ \A d \in Callers : d # c => call'[d] = call[d]
           /\ call'[c].want = want /\ call'[c].resolution = resolution
  <1> USE DefinitionsAssumption DEF Inv, DefinitionsSound
  <1> DEFINE t == Loading(want, resolution)
  <1>1. /\ t \in Call /\ t.at \in {"latest", "exact"}
        /\ t.want = want /\ t.resolution = resolution
    BY DEF Loading, Call
  <1>2. call' = [call EXCEPT ![c] = t]
    BY DEF Calls
  <1> HIDE DEF t
  <1>3. /\ call' \in [Callers -> Call]
        /\ \A d \in Callers : call'[d] = IF d = c THEN t ELSE call[d]
    BY <1>1, <1>2 DEF DefinitionsTypeOK
  <1>4. CatalogSound' /\ Announced' = Announced
    BY DEF CatalogSound, CatalogTypeOK, GrantFileHeld, Announced
  <1>5. DefinitionsTypeOK'
    BY <1>3, <1>4 DEF DefinitionsTypeOK, CatalogSound
  <1>6. LoadsSound'
    BY <1>4 DEF LoadsSound
  <1>7. CallsSound'
    BY <1>1, <1>3 DEF CallsSound
  <1>8. LoadedIsStored'
    BY <1>1, <1>3 DEF LoadedIsStored, LoadOf
  <1>9. QED
    BY <1>1, <1>3, <1>4, <1>5, <1>6, <1>7, <1>8

\* A caller's call is forgotten once it has failed.
LEMMA CallDropped ==
    ASSUME Inv, NEW c \in Callers, Calls(c, NoCall),
           UNCHANGED <<catalog, definitions, compiled, loads, faults>>
    PROVE  DefinitionsSound' /\ \A d \in Callers : d # c => call'[d] = call[d]
  <1> USE DefinitionsAssumption DEF Inv, DefinitionsSound
  <1>1. NoCall \in Call /\ NoCall.at = "idle"
    BY DEF NoCall, Call, Resolutions
  <1>2. /\ call' \in [Callers -> Call]
        /\ \A d \in Callers : call'[d] = IF d = c THEN NoCall ELSE call[d]
    BY <1>1 DEF DefinitionsTypeOK, Calls
  <1>3. CatalogSound' /\ Announced' = Announced
    BY DEF CatalogSound, CatalogTypeOK, GrantFileHeld, Announced
  <1>4. DefinitionsTypeOK'
    BY <1>2, <1>3 DEF DefinitionsTypeOK, CatalogSound
  <1>5. LoadsSound'
    BY <1>3 DEF LoadsSound
  <1>6. CallsSound'
    BY <1>1, <1>2 DEF CallsSound
  <1>7. LoadedIsStored'
    BY <1>1, <1>2 DEF LoadedIsStored, LoadOf
  <1>8. QED
    BY <1>2, <1>3, <1>4, <1>5, <1>6, <1>7

LEMMA DefinitionsUnchanged ==
    ASSUME DefinitionsSound, UNCHANGED <<catalog, definitions, compiled, loads, call>>,
           faults' \in 0 .. MaxFaults
    PROVE  DefinitionsSound'
  BY DEF DefinitionsSound, DefinitionsTypeOK, CatalogSound, CatalogTypeOK, GrantFileHeld,
         Announced, LoadsSound, CallsSound, LoadedIsStored, LoadOf

\* A fault is counted within its bound.
LEMMA FaultsType ==
    ASSUME Inv, faults < MaxFaults, faults' = faults + 1
    PROVE  faults' \in 0 .. MaxFaults
  <1>1. faults \in 0 .. MaxFaults /\ MaxFaults \in Nat
    BY DefinitionsAssumption DEF Inv, DefinitionsSound, DefinitionsTypeOK
  <1>2. QED
    BY <1>1

LEMMA AgreementFacts ==
    ASSUME Inv, NEW ref \in Existing
    PROVE  /\ ref \in Refs /\ agreements[ref] \in Agreement
           /\ agreements[ref].agreementNumber \in Numbers
           /\ agreements[ref].configVersion \in Versions
           /\ agreements[ref].accepted \in BOOLEAN
  BY DEF Inv, CreationTypeOK, Existing, Agreement

----------------------------------------------------------------------------
(***************************************************************************)
(* The steps of a caller                                                   *)
(***************************************************************************)
LEMMA BeginSteps ==
    ASSUME Inv, NEW c \in Callers, Begin(c)
    PROVE  Inv'
  <1> USE CreationAssumption
  <1>1. PICK a \in Tasks[c] : IF a.kind = "create" THEN FindBySourceIdentity(c, a)
                                                   ELSE OpenAgreement(c, a)
    BY DEF Begin
  <1>2. /\ task[c].at = "new" /\ task[c].asked = None /\ task[c] \in TaskState
        /\ task \in [Callers -> TaskState]
        /\ UNCHANGED <<catalog, definitions, compiled, loads, faults, agreements,
                       versions, events, audits, restarts, announced>>
    BY DEF Begin, Inv, CreationTypeOK, TasksSound, TaskSound
  <1>3. a \in Task /\ a # None
    OBVIOUS
  <1>4. faults' \in 0 .. MaxFaults
    BY <1>2 DEF Inv, DefinitionsSound, DefinitionsTypeOK
  <1>5. Existing' = Existing
    BY <1>2 DEF Existing
  <1>6. CASE a.kind = "create"
    <2>1. FindBySourceIdentity(c, a) /\ a.version \in Versions
      BY <1>1, <1>3, <1>6 DEF Task
    <2>2. CASE a.ref \in Existing
      <3>1. agreements[a.ref].agreementNumber \in Numbers
        BY <2>2, AgreementFacts
      <3>2. PICK t \in TaskState :
               t = [task[c] EXCEPT !.at = "end", !.asked = a,
                                   !.result = agreements[a.ref].agreementNumber]
        BY <3>1, <1>2, <1>3 DEF TaskState
      <3>3. /\ task' = [task EXCEPT ![c] = t] /\ call' = call
            /\ t.at = "end" /\ t.asked = a /\ t.result = agreements[a.ref].agreementNumber
        BY <2>1, <2>2, <3>2, <1>2 DEF FindBySourceIdentity, TaskState
      <3>4. DefinitionsSound'
        BY <3>3, <1>2, <1>4, DefinitionsUnchanged DEF Inv
      <3>5. TaskSound(c, t)'
        BY <2>2, <3>3, <1>2, <1>5 DEF TaskSound
      <3>6. QED
        BY <3>3, <3>4, <3>5, <1>2, TaskMoves
    <2>3. CASE a.ref \notin Existing
      <3>1. PICK t \in TaskState : t = [task[c] EXCEPT !.at = "load", !.asked = a]
        BY <1>2, <1>3 DEF TaskState
      <3>2. /\ task' = [task EXCEPT ![c] = t] /\ Calls(c, Loading(a.version, "creation"))
            /\ t.at = "load" /\ t.asked = a
        BY <2>1, <2>3, <3>1, <1>2 DEF FindBySourceIdentity, TaskState
      <3>3. "creation" \in Resolutions
        BY DEF Resolutions
      <3>4. /\ DefinitionsSound' /\ \A d \in Callers : d # c => call'[d] = call[d]
            /\ call'[c].want = a.version /\ call'[c].resolution = "creation"
        BY <2>1, <3>2, <3>3, <1>2, CallsOut
      <3>5. TaskSound(c, t)'
        BY <3>2, <3>4, <1>3, <1>6 DEF TaskSound
      <3>6. QED
        BY <3>2, <3>4, <3>5, <1>2, TaskMoves
    <2>4. QED
      BY <2>2, <2>3
  <1>7. CASE a.kind # "create"
    <2>1. OpenAgreement(c, a) /\ a.ref \in Refs
      BY <1>1, <1>3, <1>7 DEF Task
    <2>2. CASE agreements[a.ref] = None
      <3>1. PICK t \in TaskState :
               t = [task[c] EXCEPT !.at = "end", !.asked = a, !.result = "failed"]
        BY <1>2, <1>3 DEF TaskState
      <3>2. /\ task' = [task EXCEPT ![c] = t] /\ call' = call
            /\ t.at = "end" /\ t.asked = a /\ t.result = "failed"
        BY <2>1, <2>2, <3>1, <1>2 DEF OpenAgreement, TaskState
      <3>3. DefinitionsSound'
        BY <3>2, <1>2, <1>4, DefinitionsUnchanged DEF Inv
      <3>4. TaskSound(c, t)'
        BY <3>2 DEF TaskSound
      <3>5. QED
        BY <3>2, <3>3, <3>4, <1>2, TaskMoves
    <2>3. CASE agreements[a.ref] # None
      <3> DEFINE resolution == IF agreements[a.ref].accepted THEN "exact" ELSE "same-major"
                 want == agreements[a.ref].configVersion
      <3>1. PICK t \in TaskState : t = [task[c] EXCEPT !.at = "load", !.asked = a]
        BY <1>2, <1>3 DEF TaskState
      <3>2. /\ task' = [task EXCEPT ![c] = t] /\ Calls(c, Loading(want, resolution))
            /\ t.at = "load" /\ t.asked = a
        BY <2>1, <2>3, <3>1, <1>2 DEF OpenAgreement, LoadingForAgreement, TaskState
      <3>3. a.ref \in Existing
        BY <2>1, <2>3 DEF Existing
      <3>4. resolution \in Resolutions /\ want \in Versions
        BY <3>3, AgreementFacts DEF Resolutions
      <3> HIDE DEF resolution, want
      <3>5. DefinitionsSound' /\ \A d \in Callers : d # c => call'[d] = call[d]
        BY <3>2, <3>4, <1>2, CallsOut
      <3>6. TaskSound(c, t)'
        BY <3>2, <3>3, <1>3, <1>5, <1>7 DEF TaskSound
      <3>7. QED
        BY <3>2, <3>5, <3>6, <1>2, TaskMoves
    <2>4. QED
      BY <2>2, <2>3
  <1>8. QED
    BY <1>6, <1>7

LEMMA LoadFailedSteps ==
    ASSUME Inv, NEW c \in Callers, LoadFailed(c)
    PROVE  Inv'
  <1>1. /\ task[c].at = "load" /\ End(c, "failed") /\ Calls(c, NoCall)
        /\ UNCHANGED <<catalog, definitions, compiled, loads, faults, agreements,
                       versions, events, audits, restarts, announced>>
    BY DEF LoadFailed
  <1>2. DefinitionsSound' /\ \A d \in Callers : d # c => call'[d] = call[d]
    BY <1>1, CallDropped
  <1>3. "failed" \notin Numbers
    BY CreationAssumption
  <1>4. QED
    BY <1>1, <1>2, <1>3, EndSteps

LEMMA BuildSteps ==
    ASSUME Inv, NEW c \in Callers, BuildAgreement(c)
    PROVE  Inv'
  <1> USE CreationAssumption
  <1>1. /\ task[c].at = "load" /\ call[c].at = "loaded"
        /\ UNCHANGED <<catalog, definitions, compiled, loads, call, agreements,
                       versions, events, audits, restarts, announced>>
    BY DEF BuildAgreement
  <1>2. /\ task[c] \in TaskState /\ task[c].asked \in Task /\ TaskSound(c, task[c])
        /\ task \in [Callers -> TaskState]
    BY <1>1 DEF Inv, CreationTypeOK, TasksSound, TaskSound
  <1>3. CASE IsCreating(c) /\ faults' = faults /\
             \E n \in Numbers : task' = [task EXCEPT ![c].at = "persist", ![c].number = n,
                                                     ![c].attempt = 1]
    <2>1. PICK n \in Numbers : task' = [task EXCEPT ![c].at = "persist", ![c].number = n,
                                                    ![c].attempt = 1]
      BY <1>3
    <2>2. 1 \in 0 .. MaxNumberAttempts
      OBVIOUS
    <2>3. PICK t \in TaskState :
             t = [task[c] EXCEPT !.at = "persist", !.number = n, !.attempt = 1]
      BY <2>2, <1>2 DEF TaskState
    <2>4. /\ task' = [task EXCEPT ![c] = t]
          /\ t.at = "persist" /\ t.asked = task[c].asked /\ t.number = n
      BY <2>1, <2>3, <1>2 DEF TaskState
    <2>5. faults' \in 0 .. MaxFaults
      BY <1>3 DEF Inv, DefinitionsSound, DefinitionsTypeOK
    <2>6. DefinitionsSound'
      BY <2>5, <1>1, DefinitionsUnchanged DEF Inv
    <2>7. TaskSound(c, t)'
      BY <2>4, <1>1, <1>2, <1>3 DEF TaskSound, IsCreating
    <2>8. QED
      BY <2>4, <2>6, <2>7, <1>1, TaskMoves
  <1>4. CASE faults < MaxFaults /\ faults' = faults + 1 /\ End(c, "failed")
    <2>1. DefinitionsSound'
      BY <1>1, <1>4, FaultsType, DefinitionsUnchanged DEF Inv
    <2>2. QED
      BY <2>1, <1>1, <1>4, EndSteps
  <1>5. CASE /\ ~IsCreating(c) /\ faults' = faults
             /\ End(c, agreements[task[c].asked.ref].agreementNumber)
    <2>1. task[c].asked.kind = "open"
      BY <1>2, <1>5 DEF IsCreating, Task
    <2>2. task[c].asked.ref \in Existing
      BY <2>1, <1>1, <1>2 DEF TaskSound
    <2>3. agreements[task[c].asked.ref].agreementNumber \in Numbers
      BY <2>2, AgreementFacts
    <2>4. faults' \in 0 .. MaxFaults
      BY <1>5 DEF Inv, DefinitionsSound, DefinitionsTypeOK
    <2>5. DefinitionsSound'
      BY <2>4, <1>1, DefinitionsUnchanged DEF Inv
    <2>6. QED
      BY <2>2, <2>3, <2>5, <1>1, <1>5, EndSteps
  <1>6. QED
    BY <1>3, <1>4, <1>5 DEF BuildAgreement

LEMMA PersistFailsSteps ==
    ASSUME Inv, NEW c \in Callers, PersistFails(c)
    PROVE  Inv'
  <1>1. /\ task[c].at = "persist" /\ End(c, "failed")
        /\ faults < MaxFaults /\ faults' = faults + 1
        /\ UNCHANGED <<catalog, definitions, compiled, loads, call, agreements,
                       versions, events, audits, restarts, announced>>
    BY DEF PersistFails
  <1>2. DefinitionsSound'
    BY <1>1, FaultsType, DefinitionsUnchanged DEF Inv
  <1>3. "failed" \notin Numbers
    BY CreationAssumption
  <1>4. QED
    BY <1>1, <1>2, <1>3, EndSteps

----------------------------------------------------------------------------
(***************************************************************************)
(* An agreement is stored                                                  *)
(***************************************************************************)
LEMMA TimesType ==
    ASSUME NEW S, NEW s \in Seq(S), NEW x
    PROVE  IsFiniteSet({i \in DOMAIN s : s[i] = x}) /\ Times(x, s) \in Nat
  <1>1. DOMAIN s = 1 .. Len(s) /\ Len(s) \in Nat
    OBVIOUS
  <1>2. IsFiniteSet(1 .. Len(s))
    BY <1>1, FS_Interval
  <1>3. {i \in DOMAIN s : s[i] = x} \in SUBSET (1 .. Len(s))
    BY <1>1
  <1>4. IsFiniteSet({i \in DOMAIN s : s[i] = x})
    BY <1>2, <1>3, FS_Subset
  <1>5. QED
    BY <1>4, FS_CardinalityType DEF Times

\* An entry more in a list counts once, and for itself only.
LEMMA TimesAppend ==
    ASSUME NEW S, NEW s \in Seq(S), NEW e \in S, NEW x
    PROVE  Times(x, Append(s, e)) = Times(x, s) + (IF x = e THEN 1 ELSE 0)
  <1> DEFINE old == {i \in DOMAIN s : s[i] = x}
             new == {i \in DOMAIN Append(s, e) : Append(s, e)[i] = x}
  <1>1. IsFiniteSet(old) /\ Cardinality(old) \in Nat
    BY TimesType DEF Times
  <1>2. /\ Len(s) \in Nat /\ Len(s) + 1 \notin old
        /\ DOMAIN Append(s, e) = 1 .. Len(s) + 1 /\ DOMAIN s = 1 .. Len(s)
        /\ Append(s, e)[Len(s) + 1] = e
        /\ \A i \in 1 .. Len(s) : Append(s, e)[i] = s[i]
    OBVIOUS
  <1>3. Times(x, s) = Cardinality(old) /\ Times(x, Append(s, e)) = Cardinality(new)
    BY Zenon DEF Times
  <1>4. CASE x = e
    <2>1. new = old \cup {Len(s) + 1}
      BY <1>2, <1>4
    <2> HIDE DEF old, new
    <2>2. Cardinality(new) = Cardinality(old) + 1
      BY <2>1, <1>1, <1>2, FS_AddElement
    <2>3. QED
      BY <2>2, <1>1, <1>3, <1>4
  <1>5. CASE x # e
    <2>1. new = old
      BY <1>2, <1>5
    <2> HIDE DEF old, new
    <2>2. QED
      BY <2>1, <1>1, <1>3, <1>5
  <1>6. QED
    BY <1>4, <1>5

\* The three publications of an agreement, put in the outbox one by one.
LEMMA PublicationsAppended ==
    ASSUME NEW S, NEW s \in Seq(S), NEW a \in S, NEW b \in S, NEW c \in S
    PROVE  s \o <<a, b, c>> = Append(Append(Append(s, a), b), c)
  <1> DEFINE t == Append(Append(Append(s, a), b), c)
  <1>1. t \in Seq(S) /\ s \o <<a, b, c>> \in Seq(S)
    OBVIOUS
  <1>2. Len(t) = Len(s) + 3 /\ Len(s \o <<a, b, c>>) = Len(s) + 3
    OBVIOUS
  <1>3. \A i \in 1 .. Len(t) : t[i] = (s \o <<a, b, c>>)[i]
    OBVIOUS
  <1>4. QED
    BY <1>1, <1>2, <1>3, SeqEqual

\* persistAgreement puts each of its three publications in the outbox once.
LEMMA PublishedOnce ==
    ASSUME Inv, NEW n \in Numbers, events' = events \o Publications(n)
    PROVE  /\ events' \in Seq([type : {"lifecycle", "created", "status"}, number : Numbers])
           /\ \A m \in Numbers, type \in {"lifecycle", "created", "status"} :
                 Times([type |-> type, number |-> m], events') =
                    Times([type |-> type, number |-> m], events) + (IF m = n THEN 1 ELSE 0)
  <1> DEFINE S == [type : {"lifecycle", "created", "status"}, number : Numbers]
             a == [type |-> "lifecycle", number |-> n]
             b == [type |-> "created", number |-> n]
             c == [type |-> "status", number |-> n]
             e1 == Append(events, a)
             e2 == Append(e1, b)
  <1>1. a \in S /\ b \in S /\ c \in S
    OBVIOUS
  <1>2. ASSUME NEW m \in Numbers, NEW type \in {"lifecycle", "created", "status"}
        PROVE  LET x == [type |-> type, number |-> m] IN
               /\ (x = a) <=> (m = n /\ type = "lifecycle")
               /\ (x = b) <=> (m = n /\ type = "created")
               /\ (x = c) <=> (m = n /\ type = "status")
    OBVIOUS
  <1>3. events \in Seq(S)
    BY DEF Inv, CreationTypeOK
  <1>4. events' = events \o <<a, b, c>>
    BY DEF Publications
  <1> HIDE DEF S, a, b, c
  <1>5. e1 \in Seq(S) /\ e2 \in Seq(S) /\ Append(e2, c) \in Seq(S)
    BY <1>1, <1>3
  <1>6. events' = Append(e2, c)
    BY <1>1, <1>3, <1>4, PublicationsAppended
  <1> HIDE DEF e1, e2
  <1>7. ASSUME NEW x
        PROVE  /\ Times(x, events) \in Nat
               /\ Times(x, events') = Times(x, events) + (IF x = a THEN 1 ELSE 0)
                     + (IF x = b THEN 1 ELSE 0) + (IF x = c THEN 1 ELSE 0)
    <2>1. Times(x, events) \in Nat
      BY <1>3, TimesType
    <2>2. Times(x, e1) = Times(x, events) + (IF x = a THEN 1 ELSE 0)
      BY <1>1, <1>3, TimesAppend DEF e1
    <2>3. Times(x, e2) = Times(x, e1) + (IF x = b THEN 1 ELSE 0)
      BY <1>1, <1>5, TimesAppend DEF e2
    <2>4. Times(x, events') = Times(x, e2) + (IF x = c THEN 1 ELSE 0)
      BY <1>1, <1>5, <1>6, TimesAppend
    <2>5. QED
      BY <2>1, <2>2, <2>3, <2>4
  <1>8. ASSUME NEW m \in Numbers, NEW type \in {"lifecycle", "created", "status"}
        PROVE  Times([type |-> type, number |-> m], events') =
                  Times([type |-> type, number |-> m], events) + (IF m = n THEN 1 ELSE 0)
    <2>1. PICK x : x = [type |-> type, number |-> m]
      OBVIOUS
    <2>2. /\ (x = a) <=> (m = n /\ type = "lifecycle")
          /\ (x = b) <=> (m = n /\ type = "created")
          /\ (x = c) <=> (m = n /\ type = "status")
      BY <2>1, <1>2
    <2>3. Times(x, events') = Times(x, events) + (IF m = n THEN 1 ELSE 0)
      BY <2>2, <1>7
    <2>4. QED
      BY <2>1, <2>3
  <1>9. QED
    BY <1>5, <1>6, <1>8 DEF S

\* persistAgreement commits: the number and the application were free.
LEMMA PersistedSteps ==
    ASSUME Inv, NEW c \in Callers, NEW n \in Numbers, task[c].at = "persist",
           n \notin Used, task[c].asked.ref \notin Existing, Persisted(c, n),
           UNCHANGED <<catalog, definitions, compiled, loads, faults, call, restarts, announced>>
    PROVE  Inv'
  <1> USE CreationAssumption
  <1> DEFINE v == call[c].target
             ref == task[c].asked.ref
             new == [agreementNumber |-> n, configVersion |-> v, accepted |-> FALSE]
  <1>1. /\ task[c].asked \in Task /\ task[c].asked # None /\ task[c].asked.kind = "create"
        /\ call[c].at = "loaded" /\ call[c].resolution = "creation"
        /\ call[c].want = task[c].asked.version
        /\ task[c] \in TaskState /\ task \in [Callers -> TaskState]
    BY DEF Inv, CreationTypeOK, TasksSound, TaskSound
  <1>2. ref \in Refs
    BY <1>1 DEF Task
  <1>3. /\ v \in Versions /\ v \in definitions /\ v <= task[c].asked.version
        /\ MajorOf[v] = MajorOf[task[c].asked.version]
    BY <1>1 DEF Inv, DefinitionsSound, CallsSound, LoadedIsStored
  <1>4. agreements' = [agreements EXCEPT ![ref] = new]
    BY DEF Persisted
  <1>5. /\ new \in Agreement /\ new # None
        /\ new.agreementNumber = n /\ new.configVersion = v
    <2> HIDE DEF v
    <2>1. new \in Agreement
      BY <1>3 DEF Agreement
    <2>2. QED
      BY <2>1
  <1> HIDE DEF new, v, ref
  <1>6. /\ agreements' \in [Refs -> Agreement \cup {None}]
        /\ \A b \in Refs : agreements'[b] = IF b = ref THEN new ELSE agreements[b]
    BY <1>2, <1>4, <1>5 DEF Inv, CreationTypeOK
  <1>7. ref \notin Existing
    BY DEF ref
  <1>8. Existing' = Existing \cup {ref} /\ Existing \subseteq Refs
    BY <1>2, <1>5, <1>6 DEF Existing
  <1>9. Used' = Used \cup {n}
    <2>1. \A b \in Existing :
             agreements'[b].agreementNumber = agreements[b].agreementNumber
      BY <1>6, <1>7, <1>8
    <2>2. agreements'[ref].agreementNumber = n
      BY <1>2, <1>5, <1>6
    <2>3. QED
      BY <2>1, <2>2, <1>8 DEF Used
  <1>10. AgreementsKept
    BY <1>6, <1>7, <1>8 DEF AgreementsKept
  <1>11. PICK t \in TaskState : t = [task[c] EXCEPT !.at = "end", !.number = None,
                                                 !.attempt = 0, !.result = n]
    <2>1. 0 \in 0 .. MaxNumberAttempts
      OBVIOUS
    <2>2. QED
      BY <2>1, <1>1 DEF TaskState
  <1>12. /\ task' = [task EXCEPT ![c] = t]
         /\ t.at = "end" /\ t.result = n /\ t.asked = task[c].asked
    BY <1>1, <1>11 DEF Persisted, End, TaskState
  <1>13. /\ task' \in [Callers -> TaskState]
         /\ \A d \in Callers : task'[d] = IF d = c THEN t ELSE task[d]
    BY <1>1, <1>12
  <1>14. AskedKept
    BY <1>12, <1>13 DEF AskedKept
  <1>15. TasksSound'
    <2> SUFFICES ASSUME NEW d \in Callers PROVE TaskSound(d, task[d])'
      BY DEF TasksSound
    <2>1. CASE d = c
      <3>1. t.asked.ref = ref
        BY <1>12 DEF ref
      <3>2. TaskSound(c, t)'
        BY <3>1, <1>2, <1>5, <1>6, <1>8, <1>12 DEF TaskSound
      <3>3. QED
        BY <2>1, <3>2, <1>13 DEF TaskSound
    <2>2. CASE d # c
      <3>1. PICK u : u = task[d]
        OBVIOUS
      <3>2. TaskSound(d, u) /\ task'[d] = u
        BY <2>2, <3>1, <1>13 DEF Inv, TasksSound
      <3>3. TaskSound(d, u)'
        BY <3>2, <1>10, TaskSoundKept
      <3>4. QED
        BY <3>2, <3>3 DEF TaskSound
    <2>3. QED
      BY <2>1, <2>2
  <1>16. NumbersAreUnique'
    <2> SUFFICES ASSUME NEW a \in Existing', NEW b \in Existing',
                        agreements'[a].agreementNumber = agreements'[b].agreementNumber
                 PROVE  a = b
      BY DEF NumbersAreUnique
    <2>1. \A d \in Existing : agreements'[d] = agreements[d]
                                /\ agreements[d].agreementNumber # n
      BY <1>6, <1>7, <1>8 DEF Used
    <2>2. agreements'[ref].agreementNumber = n
      BY <1>2, <1>5, <1>6
    <2>3. QED
      BY <2>1, <2>2, <1>8 DEF Inv, NumbersAreUnique
  <1>17. versions' = Append(versions, n) /\ audits' = Append(audits, n)
           /\ events' = events \o Publications(n)
    BY DEF Persisted
  <1>18. /\ versions \in Seq(Numbers) /\ audits \in Seq(Numbers)
         /\ versions' \in Seq(Numbers) /\ audits' \in Seq(Numbers)
    BY <1>17 DEF Inv, CreationTypeOK
  <1>19. CreationTypeOK'
    BY <1>6, <1>13, <1>17, <1>18, PublishedOnce DEF Inv, CreationTypeOK
  <1>20. RecordedOnce'
    <2> SUFFICES ASSUME NEW m \in Numbers
                 PROVE  /\ Times(m, versions') = TimesUsed(m)'
                        /\ Times(m, audits') = TimesUsed(m)'
                        /\ \A type \in {"lifecycle", "created", "status"} :
                             Times([type |-> type, number |-> m], events') = TimesUsed(m)'
      BY DEF RecordedOnce
    <2>1. /\ TimesUsed(m) \in {0, 1}
          /\ TimesUsed(m)' = TimesUsed(m) + (IF m = n THEN 1 ELSE 0)
      BY <1>9 DEF TimesUsed
    <2>2. /\ Times(m, versions) = TimesUsed(m) /\ Times(m, audits) = TimesUsed(m)
          /\ \A type \in {"lifecycle", "created", "status"} :
                Times([type |-> type, number |-> m], events) = TimesUsed(m)
      BY DEF Inv, RecordedOnce
    <2>3. /\ Times(m, versions') = TimesUsed(m)' /\ Times(m, audits') = TimesUsed(m)'
      BY <2>1, <2>2, <1>17, <1>18, TimesAppend
    <2>4. ASSUME NEW type \in {"lifecycle", "created", "status"}
          PROVE  Times([type |-> type, number |-> m], events') = TimesUsed(m)'
      <3>1. Times([type |-> type, number |-> m], events') =
               Times([type |-> type, number |-> m], events) + (IF m = n THEN 1 ELSE 0)
        BY <1>17, PublishedOnce
      <3>2. QED
        BY <3>1, <2>1, <2>2
    <2>5. QED
      BY <2>3, <2>4
  <1>21. CreatedFromUsable'
    <2> SUFFICES ASSUME NEW b \in Existing'
                 PROVE  /\ agreements'[b].configVersion \in definitions'
                        /\ \E d \in Callers :
                             /\ task'[d].asked # None /\ task'[d].asked.kind = "create"
                             /\ task'[d].asked.ref = b
                             /\ agreements'[b].configVersion <= task'[d].asked.version
                             /\ MajorOf[agreements'[b].configVersion]
                                  = MajorOf[task'[d].asked.version]
      BY DEF CreatedFromUsable
    <2>1. CASE b = ref
      <3>1. agreements'[b].configVersion = v /\ task'[c].asked = task[c].asked
              /\ task[c].asked.ref = b
        BY <2>1, <1>2, <1>5, <1>6, <1>12, <1>13 DEF ref
      <3>2. QED
        BY <3>1, <1>1, <1>3
    <2>2. CASE b # ref
      <3>1. b \in Existing /\ agreements'[b] = agreements[b]
        BY <2>2, <1>6, <1>8
      <3>2. PICK d \in Callers :
               /\ task[d].asked # None /\ task[d].asked.kind = "create" /\ task[d].asked.ref = b
               /\ agreements[b].configVersion <= task[d].asked.version
               /\ MajorOf[agreements[b].configVersion] = MajorOf[task[d].asked.version]
        BY <3>1 DEF Inv, CreatedFromUsable
      <3>3. task'[d].asked = task[d].asked
        BY <3>2, <1>14 DEF AskedKept
      <3>4. agreements[b].configVersion \in definitions
        BY <3>1 DEF Inv, CreatedFromUsable
      <3>5. QED
        BY <3>1, <3>2, <3>3, <3>4
    <2>3. QED
      BY <2>1, <2>2
  <1>22. DefinitionsSound'
    <2>1. faults' \in 0 .. MaxFaults
      BY DEF Inv, DefinitionsSound, DefinitionsTypeOK
    <2>2. QED
      BY <2>1, DefinitionsUnchanged DEF Inv
  <1>23. QED
    BY <1>15, <1>16, <1>19, <1>20, <1>21, <1>22 DEF Inv

LEMMA PersistSteps ==
    ASSUME Inv, NEW c \in Callers, PersistAgreement(c)
    PROVE  Inv'
  <1> USE CreationAssumption
  <1>1. /\ task[c].at = "persist" /\ task[c].number \in Numbers /\ task[c] \in TaskState
        /\ task \in [Callers -> TaskState] /\ TaskSound(c, task[c])
        /\ UNCHANGED <<catalog, definitions, compiled, loads, faults, call, restarts, announced>>
    BY DEF PersistAgreement, Inv, CreationTypeOK, TasksSound, TaskSound
  <1>2. DefinitionsSound'
    <2>1. faults' \in 0 .. MaxFaults
      BY <1>1 DEF Inv, DefinitionsSound, DefinitionsTypeOK
    <2>2. QED
      BY <2>1, <1>1, DefinitionsUnchanged DEF Inv
  <1>3. CASE Redraw(c) /\ UNCHANGED <<agreements, versions, events, audits>>
    <2>1. CASE task[c].attempt < MaxNumberAttempts /\
               \E n \in Numbers :
                  task' = [task EXCEPT ![c].number = n, ![c].attempt = @ + 1]
      <3>1. PICK n \in Numbers : task' = [task EXCEPT ![c].number = n, ![c].attempt = @ + 1]
        BY <2>1
      <3>2. task[c].attempt \in 0 .. MaxNumberAttempts
        BY <1>1 DEF TaskState
      <3>3. task[c].attempt + 1 \in 0 .. MaxNumberAttempts
        BY <3>2, <2>1
      <3>4. PICK t \in TaskState :
               t = [task[c] EXCEPT !.number = n, !.attempt = task[c].attempt + 1]
        BY <3>3, <1>1 DEF TaskState
      <3>5. /\ task' = [task EXCEPT ![c] = t]
            /\ t.at = "persist" /\ t.number = n /\ t.asked = task[c].asked
        BY <3>1, <3>4, <1>1 DEF TaskState
      <3>6. TaskSound(c, t)'
        BY <3>5, <1>1 DEF TaskSound
      <3>7. QED
        BY <3>5, <3>6, <1>1, <1>2, <1>3, TaskMoves
    <2>2. CASE End(c, "failed")
      BY <2>2, <1>1, <1>2, <1>3, EndSteps
    <2>3. QED
      BY <2>1, <2>2, <1>3 DEF Redraw
  <1>4. CASE /\ task[c].asked.ref \in Existing
             /\ End(c, agreements[task[c].asked.ref].agreementNumber)
             /\ UNCHANGED <<agreements, versions, events, audits>>
    <2>1. agreements[task[c].asked.ref].agreementNumber \in Numbers
      BY <1>4, AgreementFacts
    <2>2. QED
      BY <2>1, <1>1, <1>2, <1>4, EndSteps
  <1>5. CASE /\ task[c].number \notin Used /\ task[c].asked.ref \notin Existing
             /\ Persisted(c, task[c].number)
    BY <1>1, <1>5, PersistedSteps
  <1>6. QED
    BY <1>3, <1>4, <1>5 DEF PersistAgreement

----------------------------------------------------------------------------
(***************************************************************************)
(* The rest of the system                                                  *)
(***************************************************************************)
\* Steps that leave the callers' tasks and the agreements alone.
LEMMA TasksUnchanged ==
    ASSUME Inv, DefinitionsSound', definitions \subseteq definitions', CallsKept,
           CreationTypeOK', UNCHANGED <<agreements, versions, events, audits, task>>
    PROVE  Inv'
  <1>1. Existing' = Existing
    BY DEF Existing
  <1>2. AgreementsKept /\ AskedKept
    BY <1>1 DEF AgreementsKept, AskedKept
  <1>3. TasksSound'
    <2> SUFFICES ASSUME NEW c \in Callers PROVE TaskSound(c, task[c])'
      BY DEF TasksSound
    <2>1. PICK u : u = task[c]
      OBVIOUS
    <2>2. TaskSound(c, u)
      BY <2>1 DEF Inv, TasksSound
    <2>3. TaskSound(c, u)'
      BY <2>2, <1>2, TaskSoundKept DEF CallsKept
    <2>4. QED
      BY <2>1, <2>3 DEF TaskSound
  <1>4. QED
    BY <1>1, <1>2, <1>3, NothingCreated

LEMMA LoadDefinitionSteps ==
    ASSUME Inv,
           \/ \E p \in Processes, v \in Versions : LoadDefinition(p, v)
           \/ \E c \in Callers : (ResolveExact(c) \/ ResolveLatest(c)) /\ UNCHANGED creationVars
    PROVE  Inv'
  <1>1. UNCHANGED <<agreements, versions, events, audits, task, restarts, announced>>
    BY DEF LoadDefinition, creationVars
  <1>2. CreationTypeOK'
    BY <1>1 DEF Inv, CreationTypeOK
  <1>3. DefinitionsSound' /\ CallsKept /\ definitions \subseteq definitions'
    <2>1. CASE \E p \in Processes, v \in Versions : LoadDefinition(p, v)
      BY <2>1, LoadSteps DEF LoadDefinition, Inv
    <2>2. CASE \E c \in Callers : ResolveExact(c) \/ ResolveLatest(c)
      <3>1. definitions' = definitions
        BY <2>2 DEF ResolveExact, ResolveLatest
      <3>2. QED
        BY <2>2, <3>1, ResolveExactSteps, ResolveLatestSteps DEF Inv
    <2>3. QED
      BY <2>1, <2>2
  <1>4. QED
    BY <1>1, <1>2, <1>3, TasksUnchanged

LEMMA AcceptSteps ==
    ASSUME Inv, NEW ref \in Refs, AcceptAgreement(ref)
    PROVE  Inv'
  <1> USE CreationAssumption
  <1>1. /\ ref \in Existing
        /\ agreements' = [agreements EXCEPT ![ref].accepted = TRUE]
        /\ UNCHANGED <<catalog, definitions, compiled, loads, call, faults>>
        /\ UNCHANGED <<versions, events, audits, task, restarts, announced>>
    BY DEF AcceptAgreement, definitionVars
  <1>2. agreements[ref] \in Agreement
    BY <1>1, AgreementFacts
  <1>3. PICK a \in Agreement : a = [agreements[ref] EXCEPT !.accepted = TRUE]
    BY <1>2 DEF Agreement
  <1>4. /\ agreements' = [agreements EXCEPT ![ref] = a] /\ a # None
        /\ a.agreementNumber = agreements[ref].agreementNumber
        /\ a.configVersion = agreements[ref].configVersion
    BY <1>1, <1>2, <1>3 DEF Agreement
  <1>5. /\ agreements' \in [Refs -> Agreement \cup {None}]
        /\ \A b \in Refs : agreements'[b] = IF b = ref THEN a ELSE agreements[b]
    BY <1>4 DEF Inv, CreationTypeOK
  <1>6. CreationTypeOK'
    BY <1>1, <1>5 DEF Inv, CreationTypeOK
  <1>7. Existing' = Existing
    BY <1>1, <1>4, <1>5 DEF Existing
  <1>8. AgreementsKept /\ AskedKept
    BY <1>1, <1>4, <1>5, <1>7 DEF AgreementsKept, AskedKept, Existing
  <1>9. TasksSound'
    <2> SUFFICES ASSUME NEW c \in Callers PROVE TaskSound(c, task[c])'
      BY DEF TasksSound
    <2>1. PICK u : u = task[c]
      OBVIOUS
    <2>2. TaskSound(c, u)
      BY <2>1 DEF Inv, TasksSound
    <2>3. TaskSound(c, u)'
      BY <2>2, <1>1, <1>8, TaskSoundKept
    <2>4. QED
      BY <2>1, <2>3, <1>1 DEF TaskSound
  <1>10. DefinitionsSound'
    <2>1. faults' \in 0 .. MaxFaults
      BY <1>1 DEF Inv, DefinitionsSound, DefinitionsTypeOK
    <2>2. QED
      BY <2>1, <1>1, DefinitionsUnchanged DEF Inv
  <1>11. QED
    BY <1>1, <1>6, <1>7, <1>8, <1>9, <1>10, NothingCreated

\* The catalogue learns of a version, or an operator stores its definition.
LEMMA CatalogSteps ==
    ASSUME Inv, NEW v \in Versions, Announce(v) \/ OperatorStores(v)
    PROVE  Inv'
  <1>1. /\ announced < MaxEvents /\ announced' = announced + 1
        /\ UNCHANGED <<compiled, loads, call, faults>>
        /\ UNCHANGED <<agreements, versions, events, audits, task, restarts>>
    BY DEF Announce, OperatorStores, StoreAgreementDefinition, definitionVars
  <1>2. CreationTypeOK'
    <2>1. announced \in 0 .. MaxEvents /\ MaxEvents \in Nat
      BY CreationAssumption DEF Inv, CreationTypeOK
    <2>2. announced' \in 0 .. MaxEvents
      BY <2>1, <1>1
    <2>3. QED
      BY <2>2, <1>1 DEF Inv, CreationTypeOK
  <1>3. /\ CatalogSound' /\ Announced \subseteq Announced'
        /\ definitions \subseteq definitions' /\ definitions' \subseteq Versions
    <2>1. CASE Announce(v)
      <3>1. PICK status \in {"active", "draft"}, files \in {{"grant"}, {"grant", "agreement"}} :
               ProcessConfigVersion(v, status, files)
        BY <2>1 DEF Announce
      <3>2. "grant" \in files /\ "grant" \in Files /\ CatalogSound
        BY DefinitionsAssumption DEF Inv, DefinitionsSound
      <3>3. CatalogSound' /\ Announced' = Announced \cup {v}
        BY <3>1, <3>2, Announcing
      <3>4. definitions' = definitions /\ definitions \subseteq Versions
        BY <2>1 DEF Announce, definitionVars, Inv, DefinitionsSound, DefinitionsTypeOK
      <3>5. QED
        BY <3>3, <3>4
    <2>2. CASE OperatorStores(v)
      <3>1. catalog' = catalog /\ definitions' = definitions \cup {v}
              /\ definitions \subseteq Versions
        BY <2>2 DEF OperatorStores, StoreAgreementDefinition, Inv, DefinitionsSound,
                    DefinitionsTypeOK
      <3>2. CatalogSound' /\ Announced' = Announced
        BY <3>1 DEF Inv, DefinitionsSound, CatalogSound, CatalogTypeOK, GrantFileHeld, Announced
      <3>3. QED
        BY <3>1, <3>2
    <2>3. QED
      BY <2>1, <2>2
  <1>4. DefinitionsTypeOK'
    BY <1>1, <1>3 DEF Inv, DefinitionsSound, DefinitionsTypeOK, CatalogSound
  <1>5. LoadsSound'
    BY <1>1, <1>3 DEF Inv, DefinitionsSound, LoadsSound
  <1>6. CallsSound' /\ CallsKept
    BY <1>1 DEF Inv, DefinitionsSound, CallsSound, CallsKept
  <1>7. LoadedIsStored'
    BY <1>1, <1>3 DEF Inv, DefinitionsSound, LoadedIsStored, LoadOf
  <1>8. DefinitionsSound'
    BY <1>3, <1>4, <1>5, <1>6, <1>7 DEF DefinitionsSound
  <1>9. QED
    BY <1>1, <1>2, <1>3, <1>6, <1>8, TasksUnchanged

\* A process stops: nobody is left waiting for a load of it.
LEMMA StopSteps ==
    ASSUME Inv, NEW p \in Processes, StopProcess(p)
    PROVE  Inv'
  <1> USE CreationAssumption, DefinitionsAssumption
  <1>1. /\ restarts < MaxRestarts /\ restarts' = restarts + 1
        /\ compiled' = [compiled EXCEPT ![p] = {}]
        /\ loads' = [loads EXCEPT ![p] = [v \in Versions |-> NoLoad]]
        /\ call' = [c \in Callers |-> IF ProcessOf[c] = p THEN NoCall ELSE call[c]]
        /\ task' = [c \in Callers |->
                      IF ProcessOf[c] = p /\ task[c].at \in {"load", "persist"}
                      THEN [task[c] EXCEPT !.at = "end", !.result = "lost"] ELSE task[c]]
        /\ UNCHANGED <<catalog, definitions, faults, agreements, versions, events, audits,
                       announced>>
    BY DEF StopProcess
  <1>2. NoLoad \in Load /\ NoLoad.at = "none" /\ NoCall \in Call /\ NoCall.at = "idle"
    BY StatusFacts DEF NoLoad, Load, NoCall, Call, Resolutions
  <1>3. /\ compiled' \in [Processes -> SUBSET Versions]
        /\ \A q \in Processes : compiled'[q] \subseteq definitions
    BY <1>1 DEF Inv, DefinitionsSound, DefinitionsTypeOK, LoadedIsStored
  <1>4. /\ loads' \in [Processes -> [Versions -> Load]]
        /\ \A q \in Processes, v \in Versions :
              loads'[q][v] = IF q = p THEN NoLoad ELSE loads[q][v]
    BY <1>1, <1>2 DEF Inv, DefinitionsSound, DefinitionsTypeOK
  <1>5. /\ call' \in [Callers -> Call]
        /\ \A c \in Callers : call'[c] = IF ProcessOf[c] = p THEN NoCall ELSE call[c]
    BY <1>1, <1>2 DEF Inv, DefinitionsSound, DefinitionsTypeOK
  <1>6. ASSUME NEW c \in Callers
        PROVE  /\ task'[c] \in TaskState /\ task'[c].asked = task[c].asked
               /\ \/ task'[c] = task[c] /\ ~(ProcessOf[c] = p /\ task[c].at \in {"load", "persist"})
                  \/ task'[c].at = "end" /\ task'[c].result = "lost"
    <2>1. task[c] \in TaskState
      BY DEF Inv, CreationTypeOK
    <2>2. CASE ProcessOf[c] = p /\ task[c].at \in {"load", "persist"}
      <3>1. task'[c] = [task[c] EXCEPT !.at = "end", !.result = "lost"]
        BY <2>2, <1>1
      <3>2. QED
        BY <3>1, <2>1 DEF TaskState
    <2>3. CASE ~(ProcessOf[c] = p /\ task[c].at \in {"load", "persist"})
      BY <2>1, <2>3, <1>1
    <2>4. QED
      BY <2>2, <2>3
  <1>7. task' \in [Callers -> TaskState]
    BY <1>1, <1>6
  <1>8. CreationTypeOK'
    <2>1. restarts \in 0 .. MaxRestarts /\ MaxRestarts \in Nat
      BY DEF Inv, CreationTypeOK
    <2>2. restarts' \in 0 .. MaxRestarts
      <3>1. restarts < MaxRestarts /\ restarts' = restarts + 1
        BY <1>1
      <3> HIDE CreationAssumption, DefinitionsAssumption
      <3>2. QED
        BY <2>1, <3>1
    <2>3. QED
      BY <2>2, <1>1, <1>7 DEF Inv, CreationTypeOK
  <1>9. CatalogSound' /\ Announced' = Announced
    BY <1>1 DEF Inv, DefinitionsSound, CatalogSound, CatalogTypeOK, GrantFileHeld, Announced
  <1>10. DefinitionsSound'
    <2> USE DEF Inv, DefinitionsSound
    <2>1. DefinitionsTypeOK'
      BY <1>1, <1>3, <1>4, <1>5, <1>9 DEF DefinitionsTypeOK, CatalogSound
    <2>2. LoadsSound'
      BY <1>1, <1>2, <1>4, <1>9 DEF LoadsSound
    <2>3. CallsSound'
      BY <1>2, <1>5 DEF CallsSound
    <2>4. LoadedIsStored'
      <3>1. ASSUME NEW c \in Callers
            PROVE  /\ call'[c].at = "loaded" => call'[c].target \in definitions
                   /\ call'[c].at = "wait" => loads'[ProcessOf[c]][call'[c].target].at # "none"
        <4>1. CASE ProcessOf[c] = p
          BY <4>1, <1>2, <1>5
        <4>2. CASE ProcessOf[c] # p
          <5>1. call'[c] = call[c] /\ ProcessOf[c] \in Processes
            BY <4>2, <1>5
          <5>2. /\ call[c].at = "loaded" => call[c].target \in definitions
                /\ call[c].at = "wait" => loads[ProcessOf[c]][call[c].target].at # "none"
            BY DEF LoadedIsStored, LoadOf
          <5>3. call[c].at = "wait" => call[c].target \in Versions
            BY DEF CallsSound
          <5>4. QED
            BY <4>2, <5>1, <5>2, <5>3, <1>4
        <4>3. QED
          BY <4>1, <4>2
      <3>2. QED
        BY <3>1, <1>1, <1>3 DEF LoadedIsStored, LoadOf
    <2>5. QED
      BY <2>1, <2>2, <2>3, <2>4, <1>9
  <1>11. Existing' = Existing
    BY <1>1 DEF Existing
  <1>12. AgreementsKept /\ AskedKept
    BY <1>1, <1>6, <1>11 DEF AgreementsKept, AskedKept
  <1>13. TasksSound'
    <2> SUFFICES ASSUME NEW c \in Callers PROVE TaskSound(c, task[c])'
      BY DEF TasksSound
    <2>1. CASE task'[c] = task[c] /\ ~(ProcessOf[c] = p /\ task[c].at \in {"load", "persist"})
      <3>1. TaskSound(c, task[c])
        BY DEF Inv, TasksSound
      <3>2. task[c].at \in {"load", "persist"} => call'[c] = call[c]
        BY <2>1, <1>5
      <3>3. QED
        BY <2>1, <3>1, <3>2, <1>1, <1>11 DEF TaskSound
    <2>2. CASE task'[c].at = "end" /\ task'[c].result = "lost"
      BY <2>2 DEF TaskSound
    <2>3. QED
      BY <2>1, <2>2, <1>6
  <1>14. QED
    BY <1>1, <1>8, <1>10, <1>11, <1>12, <1>13, NothingCreated

----------------------------------------------------------------------------
(***************************************************************************)
(* The theorems                                                            *)
(***************************************************************************)
LEMMA Initially == Init => Inv
  <1> SUFFICES ASSUME Init PROVE Inv
    OBVIOUS
  <1> USE CreationAssumption, DefinitionsAssumption
  <1>1. /\ InitCatalog /\ agreements = [ref \in Refs |-> None]
        /\ versions = <<>> /\ events = <<>> /\ audits = <<>>
        /\ task = [c \in Callers |-> NewTask] /\ restarts = 0 /\ announced = 0
        /\ definitions = {} /\ compiled = [p \in Processes |-> {}]
        /\ loads = [p \in Processes |-> [v \in Versions |-> NoLoad]]
        /\ call = [c \in Callers |-> NoCall] /\ faults = 0
    BY DEF Init, InitDefinitions
  <1>2. NoLoad \in Load /\ NoLoad.at = "none" /\ NoCall \in Call /\ NoCall.at = "idle"
    BY StatusFacts DEF NoLoad, Load, NoCall, Call, Resolutions
  <1>3. NewTask \in TaskState /\ NewTask.at = "new" /\ NewTask.asked = None
    <2>1. 0 \in 0 .. MaxNumberAttempts
      OBVIOUS
    <2>2. QED
      BY <2>1 DEF NewTask, TaskState
  <1>4. DefinitionsSound
    <2>1. CatalogSound
      BY <1>1, CatalogInitially
    <2>2. DefinitionsTypeOK
      BY <2>1, <1>1, <1>2 DEF DefinitionsTypeOK, CatalogSound
    <2>3. LoadsSound /\ CallsSound /\ LoadedIsStored
      BY <1>1, <1>2 DEF LoadsSound, CallsSound, LoadedIsStored
    <2>4. QED
      BY <2>1, <2>2, <2>3 DEF DefinitionsSound
  <1>5. CreationTypeOK
    BY <1>1, <1>3 DEF CreationTypeOK
  <1>6. TasksSound
    BY <1>1, <1>3 DEF TasksSound, TaskSound
  <1>7. Existing = {} /\ Used = {}
    BY <1>1 DEF Existing, Used
  <1>8. NumbersAreUnique /\ CreatedFromUsable
    BY <1>7 DEF NumbersAreUnique, CreatedFromUsable
  <1>9. RecordedOnce
    <2>1. ASSUME NEW x PROVE Times(x, <<>>) = 0
      <3>1. {i \in DOMAIN <<>> : <<>>[i] = x} = {}
        OBVIOUS
      <3>2. QED
        BY <3>1, FS_EmptySet DEF Times
    <2>2. \A n \in Numbers : TimesUsed(n) = 0
      BY <1>7 DEF TimesUsed
    <2>3. QED
      BY <2>1, <2>2, <1>1 DEF RecordedOnce
  <1>10. QED
    BY <1>4, <1>5, <1>6, <1>8, <1>9 DEF Inv

LEMMA InvStep == Inv /\ [Next]_vars => Inv'
  <1> SUFFICES ASSUME Inv, [Next]_vars PROVE Inv'
    OBVIOUS
  <1>1. CASE UNCHANGED vars
    <2>1. UNCHANGED <<catalog, definitions, compiled, loads, call, faults>>
            /\ UNCHANGED <<agreements, versions, events, audits, task, restarts, announced>>
      BY <1>1 DEF vars, definitionVars, creationVars
    <2>2. DefinitionsSound'
      <3>1. faults' \in 0 .. MaxFaults
        BY <2>1 DEF Inv, DefinitionsSound, DefinitionsTypeOK
      <3>2. QED
        BY <3>1, <2>1, DefinitionsUnchanged DEF Inv
    <2>3. CreationTypeOK' /\ CallsKept
      BY <2>1 DEF Inv, CreationTypeOK, CallsKept
    <2>4. QED
      BY <2>1, <2>2, <2>3, TasksUnchanged
  <1>2. ASSUME NEW c \in Callers, Begin(c) \/ Step(c) PROVE Inv'
    BY <1>2, BeginSteps, LoadFailedSteps, BuildSteps, PersistSteps, PersistFailsSteps,
       LoadDefinitionSteps DEF Step
  <1>3. QED
    BY <1>1, <1>2, LoadDefinitionSteps, AcceptSteps, CatalogSteps, StopSteps
       DEF Next, Finished

LEMMA Invariance == Spec => []Inv
  BY Initially, InvStep, PTL DEF Spec

\* The catalogue, the loads, the calls and the agreements keep their types.
THEOREM TypeCorrect == Spec => []TypeOK
  <1>1. Inv => TypeOK
    BY DEF Inv, DefinitionsSound, CreationTypeOK, TypeOK
  <1>2. QED
    BY <1>1, Invariance, PTL

\* insertAgreementDefinition comes before the cache and before the answer: what
\* a process has compiled and what a call has returned is in the database,
\* whichever process stopped, and loadsInFlight never strands a caller.
THEOREM LoadedDefinitionsAreStored == Spec => []LoadedIsStored
  <1>1. Inv => LoadedIsStored
    BY DEF Inv, DefinitionsSound
  <1>2. QED
    BY <1>1, Invariance, PTL

\* A command delivered several times, in several processes, with numbers that
\* collide and transactions that fail, leaves one agreement, one first version,
\* one set of events and one audit record, and every answer names it.
THEOREM CreationIsExactlyOnce == Spec => []CreatedOnce
  <1>1. Inv => CreatedOnce
    BY DEF Inv, CreatedOnce, AnswersAreStored, TasksSound, TaskSound
  <1>2. QED
    BY <1>1, Invariance, PTL

\* resolveCreation falls back within the major of the command's version and
\* never beyond it, however the catalogue changes while it is loading.
THEOREM CreationFallsBack == Spec => []CreatedFromUsable
  <1>1. Inv => CreatedFromUsable
    BY DEF Inv
  <1>2. QED
    BY <1>1, Invariance, PTL

-----------------------------------------------------------------------------
(***************************************************************************)
(* Identities.  The ordinals of a namespace are the ones in its history,   *)
(* none above its sequence: a new one is above all of them, and the new    *)
(* ones of one candidate differ.                                           *)
(***************************************************************************)
EntriesAreHistory ==
    \A n \in Namespaces : \A i \in DOMAIN Current(n) :
        [of |-> n, id |-> Current(n)[i].id, born |-> Current(n)[i].born] \in history

Recorded(n) == IF version = 0 THEN 0 ELSE values.sequence[n]

SequenceIsAbove ==
    /\ version = 0 => history = {}
    /\ \A n \in Namespaces : Recorded(n) \in Nat
    /\ \A x \in history :
          x.of \in Namespaces /\ x.id \in Nat /\ x.id <= Recorded(x.of)

IdentityOfOne == \A x, y \in history : x.of = y.of /\ x.id = y.id => x.born = y.born

LinesNameEntries ==
    \A i \in DOMAIN values.lines : \A k \in DOMAIN values.lines[i] :
         LET line == values.lines[i][k] IN
         \E e \in DOMAIN values.entries[line.of] :
            values.entries[line.of][e] = [id |-> line.id, born |-> line.born]

IdentitiesInv ==
    /\ version \in Nat
    /\ EntriesAreHistory /\ SequenceIsAbove /\ IdentityOfOne /\ LinesNameEntries

\* A nonempty set of naturals has a least element.
LEMMA LeastElement ==
    ASSUME NEW S \in SUBSET Nat, S # {}
    PROVE  \E x \in S : \A y \in S : x <= y
  <1> DEFINE R == {ss \in Nat \X Nat : ss[1] < ss[2]}
  <1>1. IsWellFoundedOn(R, Nat)
    BY NatLessThanWellFounded, Zenon DEF OpToRel
  <1>2. PICK x \in S : \A y \in S : ~(<<y, x>> \in R)
    <2> HIDE DEF R
    <2> QED
      BY <1>1, WFMin
  <1>3. \A y \in S : ~(y < x)
    BY <1>2
  <1>4. QED
    BY <1>3

\* A set of numbers with a bound has a largest one, or is empty: MaxOf is above
\* its numbers.
LEMMA MaxOfIsAbove ==
    ASSUME NEW S \in SUBSET Nat, NEW b \in Nat, \A m \in S : m <= b
    PROVE  MaxOf(S) \in Nat /\ \A m \in S : m <= MaxOf(S)
  <1> DEFINE Above == {x \in Nat : \A m \in S : m <= x}
  <1>1. PICK l \in Above : \A x \in Above : l <= x
    <2>1. Above \subseteq Nat /\ b \in Above
      OBVIOUS
    <2> HIDE DEF Above
    <2>2. QED
      BY <2>1, LeastElement
  <1>2. l \in S \cup {0}
    <2>1. SUFFICES ASSUME l \notin S, l # 0 PROVE FALSE
      OBVIOUS
    <2>2. l \in Nat /\ \A m \in S : m <= l /\ m \in Nat
      OBVIOUS
    <2>3. l - 1 \in Nat /\ ~(l <= l - 1)
      BY <2>1, <2>2
    <2>4. \A m \in S : m <= l - 1
      BY <2>1, <2>2
    <2>5. l - 1 \in Above
      BY <2>3, <2>4
    <2>6. QED
      BY <1>1, <2>3, <2>5
  <1>3. \E n \in S \cup {0} : \A m \in S : m <= n
    BY <1>2
  <1> DEFINE P(n) == n \in S \cup {0} /\ \A m \in S : m <= n
  <1>4. P(MaxOf(S))
    <2>1. \E n : P(n)
      BY <1>3
    <2>2. MaxOf(S) = CHOOSE n : P(n)
      BY Zenon DEF MaxOf
    <2> HIDE DEF P
    <2>3. QED
      BY <2>1, <2>2
  <1>5. MaxOf(S) \in S \cup {0} /\ \A m \in S : m <= MaxOf(S)
    BY <1>4, Zenon
  <1>6. S \cup {0} \subseteq Nat
    OBVIOUS
  <1>7. QED
    BY <1>5, <1>6, Zenon

Unnumbered(c, n, i) == {j \in 1 .. (i - 1) : c.entries[n][j].id = Missing}

\* The entries without an identity are counted.
LEMMA NumbersGrow ==
    ASSUME NEW c, NEW n, NEW i \in Nat \ {0}
    PROVE  /\ IsFiniteSet(Unnumbered(c, n, i))
           /\ Cardinality(Unnumbered(c, n, i)) \in 0 .. (i - 1)
           /\ \A j \in 1 .. (i - 1) :
                 c.entries[n][j].id = Missing =>
                     Cardinality(Unnumbered(c, n, j)) < Cardinality(Unnumbered(c, n, i))
  <1>1. ASSUME NEW k \in Nat \ {0}
        PROVE  /\ IsFiniteSet(Unnumbered(c, n, k))
               /\ Cardinality(Unnumbered(c, n, k)) \in 0 .. (k - 1)
    <2>1. IsFiniteSet(1 .. (k - 1)) /\ Cardinality(1 .. (k - 1)) = k - 1
      BY FS_Interval
    <2>2. Unnumbered(c, n, k) \subseteq 1 .. (k - 1)
      BY DEF Unnumbered
    <2>3. /\ IsFiniteSet(Unnumbered(c, n, k))
          /\ Cardinality(Unnumbered(c, n, k)) <= k - 1
      BY <2>1, <2>2, FS_Subset
    <2>4. QED
      BY <2>3, FS_CardinalityType
  <1>2. ASSUME NEW j \in 1 .. (i - 1), c.entries[n][j].id = Missing
        PROVE  Cardinality(Unnumbered(c, n, j)) < Cardinality(Unnumbered(c, n, i))
    <2>1. IsFiniteSet(Unnumbered(c, n, j)) /\ IsFiniteSet(Unnumbered(c, n, i))
      BY <1>1
    <2>2. j \in Unnumbered(c, n, i) /\ j \notin Unnumbered(c, n, j)
      BY <1>2 DEF Unnumbered
    <2>3. Unnumbered(c, n, j) \subseteq Unnumbered(c, n, i)
      BY DEF Unnumbered
    <2>4. QED
      BY <2>1, <2>2, <2>3, FS_Subset, FS_CardinalityType
  <1>3. QED
    BY <1>1, <1>2

\* What a candidate gives, as the assumption on the constants has it.
LEMMA CandidateFacts ==
    ASSUME NEW c \in Candidates, NEW n \in Namespaces
    PROVE  /\ Len(c.entries[n]) \in Nat
           /\ DOMAIN c.entries[n] = 1 .. Len(c.entries[n])
           /\ \A i \in DOMAIN c.entries[n] : c.entries[n][i].id \in Nat \cup {Missing}
  <1>1. IsList(c.entries[n]) /\ Ids(c.entries[n]) \subseteq Nat \cup {Missing}
    BY IdentitiesAssumption
  <1>2. Len(c.entries[n]) \in Nat /\ DOMAIN c.entries[n] = 1 .. Len(c.entries[n])
    BY <1>1, LenProperties DEF IsList
  <1>3. \A i \in DOMAIN c.entries[n] : c.entries[n][i].id \in Nat \cup {Missing}
    BY <1>1 DEF Ids
  <1>4. QED
    BY <1>2, <1>3

LEMMA MaterialisedEntries ==
    ASSUME NEW c, NEW n \in Namespaces
    PROVE  /\ DOMAIN Materialised(c)[n] = DOMAIN c.entries[n]
           /\ \A i \in DOMAIN c.entries[n] :
                 /\ Materialised(c)[n][i] = [id |-> Identity(c, n, i), born |-> Born(c, n, i)]
                 /\ Materialised(c)[n][i].id = Identity(c, n, i)
                 /\ Materialised(c)[n][i].born = Born(c, n, i)
  <1>1. Materialised(c)[n] = [i \in DOMAIN c.entries[n] |->
                               [id |-> Identity(c, n, i), born |-> Born(c, n, i)]]
    BY DEF Materialised
  <1>2. QED
    BY <1>1

\* What a kept entry is it was already: its identity is in the history with the
\* same birth. requireExistingIdentity finds it among the current entries.
LEMMA KeptIsInHistory ==
    ASSUME EntriesAreHistory, NEW c \in Candidates, KnownIdentities(c),
           NEW n \in Namespaces, NEW i \in DOMAIN c.entries[n],
           c.entries[n][i].id # Missing
    PROVE  [of |-> n, id |-> Identity(c, n, i), born |-> Born(c, n, i)] \in history
  <1> DEFINE given == c.entries[n][i].id
  <1>1. given \in Ids(Current(n))
    BY DEF KnownIdentities, Ids
  <1>2. PICK k \in DOMAIN Current(n) : Current(n)[k].id = given
    BY <1>1 DEF Ids
  <1> DEFINE kept == CHOOSE j \in DOMAIN Current(n) : Current(n)[j].id = given
  <1>3. kept \in DOMAIN Current(n) /\ Current(n)[kept].id = given
    BY <1>2
  <1>4. Identity(c, n, i) = given /\ Born(c, n, i) = Current(n)[kept].born
    BY DEF Identity, Born
  <1> HIDE DEF kept, given
  <1>5. QED
    BY <1>3, <1>4 DEF EntriesAreHistory

\* The next ordinal is one more than the recorded one.
LEMMA NextIsRecordedAndOne ==
    ASSUME SequenceIsAbove, NEW n \in Namespaces
    PROVE  Recorded(n) \in Nat /\ NextOrdinal(n) = Recorded(n) + 1
  <1>1. Recorded(n) \in Nat
    BY DEF SequenceIsAbove
  <1>2. NextOrdinal(n) = Recorded(n) + 1
    BY DEF NextOrdinal, Recorded
  <1>3. QED
    BY <1>1, <1>2

\* A new entry is numbered above the history and in the order of the candidate.
LEMMA NewIsNumbered ==
    ASSUME SequenceIsAbove, NEW c \in Candidates, NEW n \in Namespaces,
           NEW i \in DOMAIN c.entries[n], c.entries[n][i].id = Missing
    PROVE  /\ Identity(c, n, i) \in Nat
           /\ Identity(c, n, i) >= NextOrdinal(n)
           /\ Identity(c, n, i) < NextOrdinal(n) + i
           /\ Identity(c, n, i) = NextOrdinal(n) + Cardinality(Unnumbered(c, n, i))
  <1>1. i \in Nat \ {0}
    BY CandidateFacts
  <1>2. Cardinality(Unnumbered(c, n, i)) \in 0 .. (i - 1)
    BY <1>1, NumbersGrow
  <1>3. Identity(c, n, i) = NextOrdinal(n) + Cardinality(Unnumbered(c, n, i))
    BY DEF Identity, Unnumbered
  <1>4. QED
    BY <1>1, <1>2, <1>3, NextIsRecordedAndOne

\* Two new entries of one candidate have different identities.
LEMMA NewDiffer ==
    ASSUME SequenceIsAbove, NEW c \in Candidates, NEW n \in Namespaces,
           NEW i \in DOMAIN c.entries[n], c.entries[n][i].id = Missing,
           NEW j \in DOMAIN c.entries[n], c.entries[n][j].id = Missing,
           Identity(c, n, i) = Identity(c, n, j)
    PROVE  i = j
  <1>1. ASSUME NEW a \in DOMAIN c.entries[n], c.entries[n][a].id = Missing,
               NEW b \in DOMAIN c.entries[n], c.entries[n][b].id = Missing, b < a
        PROVE  Identity(c, n, b) < Identity(c, n, a)
    <2>1. a \in Nat \ {0} /\ b \in 1 .. (a - 1) /\ b \in Nat \ {0}
      BY <1>1, CandidateFacts
    <2>2. Cardinality(Unnumbered(c, n, b)) < Cardinality(Unnumbered(c, n, a))
      BY <1>1, <2>1, NumbersGrow
    <2>3. /\ Cardinality(Unnumbered(c, n, a)) \in Nat
          /\ Cardinality(Unnumbered(c, n, b)) \in Nat
      BY <2>1, NumbersGrow
    <2>4. QED
      BY <1>1, <2>2, <2>3, NewIsNumbered, NextIsRecordedAndOne
  <1>2. i \in Nat /\ j \in Nat
    BY CandidateFacts
  <1>3. ~(i < j) /\ ~(j < i)
    BY <1>1, NewIsNumbered
  <1>4. QED
    BY <1>2, <1>3

\* The entries a candidate brings into the history.
EntriesIn(c, n) ==
    {[of |-> n, id |-> Materialised(c)[n][i].id, born |-> Materialised(c)[n][i].born] :
        i \in DOMAIN c.entries[n]}

EntriesOf(c) == UNION {EntriesIn(c, n) : n \in Namespaces}

LEMMA EntriesOfCandidate ==
    ASSUME NEW c \in Candidates
    PROVE  \A x : x \in EntriesOf(c) <=>
                  \E n \in Namespaces : \E i \in DOMAIN c.entries[n] :
                      x = [of |-> n, id |-> Identity(c, n, i), born |-> Born(c, n, i)]
  <1>1. ASSUME NEW n \in Namespaces, NEW i \in DOMAIN c.entries[n]
        PROVE  [of |-> n, id |-> Materialised(c)[n][i].id, born |-> Materialised(c)[n][i].born]
                  = [of |-> n, id |-> Identity(c, n, i), born |-> Born(c, n, i)]
    <2>1. /\ Materialised(c)[n][i].id = Identity(c, n, i)
          /\ Materialised(c)[n][i].born = Born(c, n, i)
      BY MaterialisedEntries
    <2>2. QED
      BY <2>1, Zenon
  <1>2. ASSUME NEW n \in Namespaces, NEW x
        PROVE  x \in EntriesIn(c, n) <=>
                  \E i \in DOMAIN c.entries[n] :
                      x = [of |-> n, id |-> Identity(c, n, i), born |-> Born(c, n, i)]
    <2>1. x \in EntriesIn(c, n) <=>
             \E i \in DOMAIN c.entries[n] :
                 x = [of |-> n, id |-> Materialised(c)[n][i].id,
                      born |-> Materialised(c)[n][i].born]
      BY Zenon DEF EntriesIn
    <2>2. QED
      BY <1>1, <2>1, Zenon
  <1>3. \A x : x \in EntriesOf(c) <=> \E n \in Namespaces : x \in EntriesIn(c, n)
    BY DEF EntriesOf
  <1>4. QED
    BY <1>2, <1>3

\* Every entry of an accepted candidate has a natural number below the new
\* sequence; it is in the history, or it is numbered above it.
LEMMA NewSequence ==
    ASSUME IdentitiesInv, NEW c \in Candidates, Materialise(c), NEW n \in Namespaces
    PROVE  /\ Recorded(n)' \in Nat
           /\ Recorded(n) <= Recorded(n)'
           /\ \A i \in DOMAIN c.entries[n] :
                 Identity(c, n, i) \in Nat /\ Identity(c, n, i) <= Recorded(n)'
  <1> DEFINE given == Ids(Materialised(c)[n])
             numbers == {Recorded(n)} \cup given
             bound == Recorded(n) + 1 + Len(c.entries[n])
  <1>1. /\ version \in Nat /\ Recorded(n) \in Nat /\ SequenceIsAbove
        /\ NextOrdinal(n) = Recorded(n) + 1
    BY NextIsRecordedAndOne DEF IdentitiesInv
  <1>2. ASSUME NEW i \in DOMAIN c.entries[n]
        PROVE  Identity(c, n, i) \in Nat /\ Identity(c, n, i) <= bound
    <2>1. Len(c.entries[n]) \in Nat /\ i \in 1 .. Len(c.entries[n])
      BY CandidateFacts
    <2>2. CASE c.entries[n][i].id = Missing
      BY <2>1, <2>2, <1>1, NewIsNumbered DEF IdentitiesInv
    <2>3. CASE c.entries[n][i].id # Missing
      <3>1. [of |-> n, id |-> Identity(c, n, i), born |-> Born(c, n, i)] \in history
        BY <2>3, KeptIsInHistory DEF IdentitiesInv, Materialise, Accepts
      <3>2. Identity(c, n, i) \in Nat /\ Identity(c, n, i) <= Recorded(n)
        BY <3>1 DEF IdentitiesInv, SequenceIsAbove
      <3>3. QED
        BY <3>2, <2>1, <1>1
    <2>4. QED
      BY <2>2, <2>3
  <1>3. \A i \in DOMAIN c.entries[n] : Identity(c, n, i) \in given
    BY MaterialisedEntries DEF Ids
  <1>4. \A m \in given : \E i \in DOMAIN c.entries[n] : m = Identity(c, n, i)
    BY MaterialisedEntries DEF Ids
  <1>5. bound \in Nat /\ \A m \in numbers : m \in Nat /\ m <= bound
    <2>1. bound \in Nat /\ Recorded(n) <= bound
      BY <1>1, CandidateFacts
    <2>2. \A m \in given : m \in Nat /\ m <= bound
      BY <1>2, <1>4
    <2>3. \A m \in numbers : m = Recorded(n) \/ m \in given
      OBVIOUS
    <2> HIDE DEF given, numbers, bound
    <2>4. QED
      BY <1>1, <2>1, <2>2, <2>3
  <1>6. Recorded(n)' = MaxOf(numbers)
    <2>1. version' # 0
      BY <1>1 DEF Materialise
    <2>2. values'.sequence = Sequence(IF version = 0 THEN [m \in Namespaces |-> 0]
                                      ELSE values.sequence, Materialised(c))
      BY DEF Materialise, Reconciled
    <2>3. (IF version = 0 THEN [m \in Namespaces |-> 0] ELSE values.sequence)[n] = Recorded(n)
      BY DEF Recorded
    <2>4. values'.sequence[n] = MaxOf(numbers)
      BY <2>2, <2>3 DEF Sequence
    <2>5. QED
      BY <2>1, <2>4 DEF Recorded
  <1> HIDE DEF given, numbers, bound
  <1>7. MaxOf(numbers) \in Nat /\ \A m \in numbers : m <= MaxOf(numbers)
    BY <1>5, MaxOfIsAbove
  <1>8. Recorded(n) \in numbers /\ \A i \in DOMAIN c.entries[n] : Identity(c, n, i) \in numbers
    BY <1>3 DEF numbers
  <1>9. QED
    BY <1>1, <1>2, <1>6, <1>7, <1>8

\* An entry of an accepted candidate was in the history, or it is new and its
\* identity is above those there.
LEMMA OldOrNew ==
    ASSUME IdentitiesInv, NEW c \in Candidates, Accepts(c), NEW n \in Namespaces,
           NEW i \in DOMAIN c.entries[n]
    PROVE  \/ [of |-> n, id |-> Identity(c, n, i), born |-> Born(c, n, i)] \in history
           \/ /\ c.entries[n][i].id = Missing
              /\ Born(c, n, i) = <<version + 1, i>>
              /\ Identity(c, n, i) \in Nat /\ Identity(c, n, i) > Recorded(n)
  <1>1. CASE c.entries[n][i].id = Missing
    <2>1. Born(c, n, i) = <<version + 1, i>>
      BY <1>1 DEF Born
    <2>2. SequenceIsAbove
      BY DEF IdentitiesInv
    <2>3. Identity(c, n, i) \in Nat /\ Identity(c, n, i) > Recorded(n)
      BY <1>1, <2>2, NewIsNumbered, NextIsRecordedAndOne
    <2>4. QED
      BY <1>1, <2>1, <2>3
  <1>2. CASE c.entries[n][i].id # Missing
    BY <1>2, KeptIsInHistory DEF IdentitiesInv, Accepts
  <1>3. QED
    BY <1>1, <1>2

LEMMA MaterialiseKeepsIdentities ==
    ASSUME IdentitiesInv, NEW c \in Candidates, Materialise(c)
    PROVE  IdentityOfOne'
  <1>1. history' = history \cup EntriesOf(c) /\ Accepts(c)
    BY DEF Materialise, EntriesOf, EntriesIn
  <1>2. \A x \in history : x.of \in Namespaces /\ x.id \in Nat /\ x.id <= Recorded(x.of)
    BY DEF IdentitiesInv, SequenceIsAbove
  <1>3. \A x, y \in history : x.of = y.of /\ x.id = y.id => x.born = y.born
    BY DEF IdentitiesInv, IdentityOfOne
  <1> DEFINE New(x) == \E i \in DOMAIN c.entries[x.of] :
                          /\ x.of \in Namespaces /\ c.entries[x.of][i].id = Missing
                          /\ x.id = Identity(c, x.of, i) /\ x.born = <<version + 1, i>>
                          /\ x.id \in Nat /\ x.id > Recorded(x.of)
  <1>4. ASSUME NEW x \in history', x \notin history
        PROVE  New(x)
    <2>1. x \in EntriesOf(c)
      BY <1>1, <1>4
    <2>2. PICK n \in Namespaces : \E i \in DOMAIN c.entries[n] :
             x = [of |-> n, id |-> Identity(c, n, i), born |-> Born(c, n, i)]
      BY <2>1, EntriesOfCandidate
    <2> PICK i \in DOMAIN c.entries[n] :
             x = [of |-> n, id |-> Identity(c, n, i), born |-> Born(c, n, i)]
      BY <2>2
    <2>3. /\ c.entries[n][i].id = Missing /\ Born(c, n, i) = <<version + 1, i>>
          /\ Identity(c, n, i) \in Nat /\ Identity(c, n, i) > Recorded(n)
      BY <1>1, <1>4, <2>2, OldOrNew
    <2>4. x.of = n /\ x.id = Identity(c, n, i) /\ x.born = Born(c, n, i)
      BY <2>2
    <2>5. QED
      BY <2>3, <2>4
  <1>5. ASSUME NEW x \in history', NEW y \in history', x.of = y.of, x.id = y.id
        PROVE  x.born = y.born
    <2>1. CASE x \in history /\ y \in history
      BY <1>3, <1>5, <2>1
    <2>2. CASE x \notin history /\ y \notin history
      <3>1. PICK i \in DOMAIN c.entries[x.of] :
               /\ x.of \in Namespaces /\ c.entries[x.of][i].id = Missing
               /\ x.id = Identity(c, x.of, i) /\ x.born = <<version + 1, i>>
        BY <1>4, <2>2
      <3>2. PICK j \in DOMAIN c.entries[x.of] :
               /\ c.entries[x.of][j].id = Missing
               /\ y.id = Identity(c, x.of, j) /\ y.born = <<version + 1, j>>
        BY <1>4, <1>5, <2>2
      <3>3. i = j
        BY <1>5, <3>1, <3>2, NewDiffer DEF IdentitiesInv
      <3>4. QED
        BY <3>1, <3>2, <3>3
    <2>3. ASSUME NEW o \in history, NEW w \in history', w \notin history,
                 o.of = w.of, o.id = w.id
          PROVE  FALSE
      <3>1. w.id \in Nat /\ w.id > Recorded(w.of) /\ w.of \in Namespaces
        BY <1>4, <2>3
      <3>2. o.id <= Recorded(o.of) /\ Recorded(w.of) \in Nat
        BY <1>2, <3>1 DEF IdentitiesInv, SequenceIsAbove
      <3>3. QED
        BY <2>3, <3>1, <3>2
    <2>4. QED
      BY <1>5, <2>1, <2>2, <2>3
  <1>6. QED
    BY <1>5 DEF IdentityOfOne

LEMMA MaterialiseKeepsSequence ==
    ASSUME IdentitiesInv, NEW c \in Candidates, Materialise(c)
    PROVE  SequenceIsAbove'
  <1>1. history' = history \cup EntriesOf(c) /\ version' # 0
    BY DEF Materialise, EntriesOf, EntriesIn, IdentitiesInv
  <1>2. ASSUME NEW x \in history'
        PROVE  x.of \in Namespaces /\ x.id \in Nat /\ x.id <= Recorded(x.of)'
    <2>1. CASE x \in history
      <3>1. x.of \in Namespaces /\ x.id \in Nat /\ x.id <= Recorded(x.of)
        BY <2>1 DEF IdentitiesInv, SequenceIsAbove
      <3>2. Recorded(x.of) \in Nat
        BY <3>1 DEF IdentitiesInv, SequenceIsAbove
      <3>3. Recorded(x.of)' \in Nat /\ Recorded(x.of) <= Recorded(x.of)'
        BY <3>1, NewSequence
      <3>4. QED
        BY <3>1, <3>2, <3>3
    <2>2. CASE x \in EntriesOf(c)
      <3>1. PICK n \in Namespaces : \E i \in DOMAIN c.entries[n] :
               x = [of |-> n, id |-> Identity(c, n, i), born |-> Born(c, n, i)]
        BY <2>2, EntriesOfCandidate
      <3>2. PICK i \in DOMAIN c.entries[n] : x.of = n /\ x.id = Identity(c, n, i)
        BY <3>1
      <3>3. QED
        BY <3>2, NewSequence
    <2>3. QED
      BY <1>1, <1>2, <2>1, <2>2
  <1>3. \A n \in Namespaces : Recorded(n)' \in Nat
    BY NewSequence
  <1>4. QED
    BY <1>1, <1>2, <1>3 DEF SequenceIsAbove

LEMMA MaterialiseKeepsEntries ==
    ASSUME IdentitiesInv, NEW c \in Candidates, Materialise(c)
    PROVE  EntriesAreHistory' /\ LinesNameEntries'
  <1>1. /\ history' = history \cup EntriesOf(c) /\ version' # 0
        /\ values' = Reconciled(c) /\ KnownReferences(c)
    BY DEF Materialise, EntriesOf, EntriesIn, IdentitiesInv, Accepts
  <1>2. ASSUME NEW n \in Namespaces
        PROVE  Current(n)' = Materialised(c)[n] /\ values'.entries[n] = Materialised(c)[n]
    BY <1>1 DEF Current, Reconciled
  <1>3. EntriesAreHistory'
    <2>1. SUFFICES ASSUME NEW n \in Namespaces, NEW i \in DOMAIN Materialised(c)[n]
                   PROVE  [of |-> n, id |-> Materialised(c)[n][i].id,
                           born |-> Materialised(c)[n][i].born] \in history'
      BY <1>2 DEF EntriesAreHistory
    <2>2. i \in DOMAIN c.entries[n]
      BY <2>1, MaterialisedEntries
    <2>3. /\ Materialised(c)[n][i].id = Identity(c, n, i)
          /\ Materialised(c)[n][i].born = Born(c, n, i)
      BY <2>2, MaterialisedEntries
    <2>4. [of |-> n, id |-> Identity(c, n, i), born |-> Born(c, n, i)] \in EntriesOf(c)
      BY <2>2, EntriesOfCandidate
    <2>5. QED
      BY <1>1, <2>3, <2>4
  <1>4. LinesNameEntries'
    <2>1. SUFFICES ASSUME NEW i \in DOMAIN values'.lines, NEW k \in DOMAIN values'.lines[i]
                   PROVE  \E e \in DOMAIN values'.entries[values'.lines[i][k].of] :
                             values'.entries[values'.lines[i][k].of][e] =
                                [id |-> values'.lines[i][k].id, born |-> values'.lines[i][k].born]
      BY DEF LinesNameEntries
    <2> DEFINE line == c.lines[i][k]
               meant == CHOOSE j \in Meant(c, line) : TRUE
    <2>2. /\ i \in DOMAIN c.lines /\ k \in DOMAIN c.lines[i]
          /\ values'.lines[i][k] = Line(c, line)
      BY <1>1, <2>1 DEF Reconciled
    <2>3. Meant(c, line) # {} /\ line.of \in Namespaces
      BY <1>1, <2>2, IdentitiesAssumption DEF KnownReferences
    <2>4. meant \in Meant(c, line)
      BY <2>3
    <2>5. meant \in DOMAIN c.entries[line.of]
      BY <2>4 DEF Meant
    <2>6. /\ values'.lines[i][k].of = line.of
          /\ values'.lines[i][k].id = Identity(c, line.of, meant)
          /\ values'.lines[i][k].born = Born(c, line.of, meant)
      BY <2>2 DEF Line
    <2> HIDE DEF line, meant
    <2>7. /\ meant \in DOMAIN values'.entries[line.of]
          /\ values'.entries[line.of][meant] =
                [id |-> Identity(c, line.of, meant), born |-> Born(c, line.of, meant)]
      BY <1>2, <2>3, <2>5, MaterialisedEntries
    <2>8. QED
      BY <2>6, <2>7
  <1>5. QED
    BY <1>3, <1>4

LEMMA IdentitiesInvariant == IdentitiesSpec => []IdentitiesInv
  <1>1. IdentitiesInit => IdentitiesInv
    BY DEF IdentitiesInit, NoValues, IdentitiesInv, EntriesAreHistory, SequenceIsAbove,
           IdentityOfOne, LinesNameEntries, Current, Recorded
  <1>2. IdentitiesInv /\ [IdentitiesNext]_identityVars => IdentitiesInv'
    <2>1. ASSUME IdentitiesInv, NEW c \in Candidates, Materialise(c)
          PROVE  IdentitiesInv'
      <3>1. version' \in Nat
        BY <2>1 DEF Materialise, IdentitiesInv
      <3>2. QED
        BY <2>1, <3>1, MaterialiseKeepsEntries, MaterialiseKeepsSequence,
           MaterialiseKeepsIdentities DEF IdentitiesInv
    <2>2. ASSUME IdentitiesInv, UNCHANGED identityVars
          PROVE  IdentitiesInv'
      <3>1. values' = values /\ version' = version /\ history' = history
        BY <2>2 DEF identityVars
      <3>2. EntriesAreHistory'
        BY <2>2, <3>1 DEF IdentitiesInv, EntriesAreHistory, Current
      <3>3. SequenceIsAbove'
        BY <2>2, <3>1 DEF IdentitiesInv, SequenceIsAbove, Recorded
      <3>4. IdentityOfOne' /\ LinesNameEntries'
        BY <2>2, <3>1 DEF IdentitiesInv, IdentityOfOne, LinesNameEntries
      <3>5. QED
        BY <2>2, <3>1, <3>2, <3>3, <3>4 DEF IdentitiesInv
    <2>3. QED
      BY <2>1, <2>2 DEF IdentitiesNext
  <1>3. QED
    BY <1>1, <1>2, PTL DEF IdentitiesSpec

\* For any candidates and any number of transitions: materialiseCreationIdentities
\* and reconcileTransitionIdentities never give an identity twice, because the
\* recorded sequence is never below an ordinal once used, and every payment line
\* names an entry that is there.
THEOREM IdentitiesStayForever == IdentitiesSpec => []IdentitiesAreForever
  <1>1. IdentitiesInv => IdentitiesAreForever
    BY DEF IdentitiesInv, IdentityOfOne, LinesNameEntries, IdentitiesAreForever
  <1>2. QED
    BY <1>1, IdentitiesInvariant, PTL

-----------------------------------------------------------------------------
(***************************************************************************)
(* Processes.  What a run has done so far is what compilation looked at:   *)
(* the outputs are those of the processes before the next one, no handler  *)
(* ran before the values of its transition were read, and what a handler   *)
(* staged it worked out from them.                                         *)
(***************************************************************************)
IsFinal(outcome) ==
    \/ outcome \in {"done", "bad gateway", "bad data"}
    \/ outcome = "unresolved" /\ HasBareAccess
    \/ /\ outcome = "no page"
       /\ \E s \in DOMAIN definition.states : definition.states[s].page \notin definition.pages

OutcomesSound ==
    /\ outcomes \in Seq(Range(outcomes))
    /\ \A i \in DOMAIN outcomes : IsFinal(outcomes[i])

AgreementSound ==
    agreement # Absent =>
        /\ DOMAIN agreement = {"state", "producers", "paid", "valued"}
        /\ agreement.state \in DOMAIN definition.states
        /\ \A v \in Outputs : agreement.producers[v] <= 1
        /\ \A i \in DOMAIN agreement.paid : agreement.paid[i] = agreement.valued

\* The sequence that runs is one that was compiled.
RunSound ==
    /\ DOMAIN run = DOMAIN NoRun
    /\ IsSequence(run.processes) /\ run.at \in 1 .. (Len(run.processes) + 1)
    /\ run.location \in {"create", "page", "transition"}
    /\ \E s \in CollectSequences(definition) :
          /\ s.location = run.location /\ s.processes = run.processes
          /\ run.location = "create" => s.produced = definition.create.values
    /\ run.location = "transition" =>
          /\ agreement # Absent /\ run.name \in DOMAIN State.on
          /\ run.processes = State.on[run.name].processes

HasRun == 1 .. (run.at - 1)

OutputsSound ==
    /\ DOMAIN run.outputs = {run.processes[j] : j \in HasRun}
    /\ \A j \in HasRun :
          run.outputs[run.processes[j]] = definition.processes[run.processes[j]].gives

StagedSound ==
    /\ IsSequence(run.staged)
    /\ \A i \in DOMAIN run.staged : run.staged[i] = run.candidate
    /\ run.candidate = Absent => run.staged = <<>>
    /\ run.location # "transition" => run.staged = <<>>
    /\ run.location = "transition" /\ run.candidate = Absent =>
          \A j \in HasRun : ~IsHandler(definition, run.processes[j])

ProcessesInv ==
    /\ definition \in Definitions
    /\ phase \in {"idle", "running"} => Compiles(definition)
    /\ OutcomesSound /\ AgreementSound
    /\ phase = "running" => RunSound /\ OutputsSound /\ StagedSound

-----------------------------------------------------------------------------
LEMMA SameDefinition ==
    ASSUME definition' = definition
    PROVE  /\ HasBareAccess' = HasBareAccess
           /\ Compiles(definition)' = Compiles(definition)
           /\ \A o : IsFinal(o)' = IsFinal(o)
  <1>1. HasBareAccess' = HasBareAccess
    BY DEF HasBareAccess
  <1>2. QED
    BY <1>1 DEF IsFinal

\* A sequence with one more element.
LEMMA OneMore ==
    ASSUME NEW s, s \in Seq(Range(s)), NEW e
    PROVE  /\ Append(s, e) \in Seq(Range(Append(s, e)))
           /\ Len(s) \in Nat /\ DOMAIN s = 1 .. Len(s)
           /\ Len(Append(s, e)) = Len(s) + 1
           /\ DOMAIN Append(s, e) = 1 .. (Len(s) + 1)
           /\ \A i \in DOMAIN s : Append(s, e)[i] = s[i]
           /\ Append(s, e)[Len(s) + 1] = e
  <1> DEFINE S == Range(s) \cup {e}
             t == Append(s, e)
  <1>1. s \in Seq(S) /\ e \in S
    BY SeqMonotonic
  <1> HIDE DEF S
  <1>2. /\ t \in Seq(S) /\ Len(t) = Len(s) + 1 /\ Len(s) \in Nat
        /\ DOMAIN s = 1 .. Len(s) /\ DOMAIN t = 1 .. (Len(s) + 1)
        /\ \A i \in 1 .. Len(s) : t[i] = s[i]
        /\ t[Len(s) + 1] = e
    BY <1>1, AppendProperties, LenProperties
  <1> HIDE DEF t
  <1>3. t \in [1 .. Len(t) -> Range(t)]
    <2>1. \A i \in 1 .. Len(t) : t[i] \in Range(t)
      BY <1>2 DEF Range
    <2>2. t \in [1 .. Len(t) -> S]
      BY <1>2, LenProperties
    <2>3. QED
      BY <2>1, <2>2
  <1>4. t \in Seq(Range(t))
    BY <1>2, <1>3 DEF Seq
  <1>5. QED
    BY <1>2, <1>4 DEF t

\* The sequence that runs was compiled, and so was everything before.
LEMMA RunFacts ==
    ASSUME ProcessesInv, phase = "running"
    PROVE  /\ Compiles(definition) /\ RunSound /\ OutputsSound /\ StagedSound
           /\ Len(run.processes) \in Nat /\ DOMAIN run.processes = 1 .. Len(run.processes)
           /\ run.at \in Nat \ {0} /\ run.at <= Len(run.processes) + 1
           /\ AtEnd <=> run.at = Len(run.processes) + 1
           /\ ~AtEnd => run.at \in DOMAIN run.processes
  <1>1. Compiles(definition) /\ RunSound /\ OutputsSound /\ StagedSound
    BY DEF ProcessesInv
  <1>2. run.processes \in Seq(Range(run.processes))
    BY <1>1 DEF RunSound, IsSequence
  <1>3. Len(run.processes) \in Nat /\ DOMAIN run.processes = 1 .. Len(run.processes)
    BY <1>2, LenProperties
  <1>4. QED
    BY <1>1, <1>3 DEF RunSound, AtEnd

LEMMA ProcessFacts ==
    ASSUME ProcessesInv, phase = "running", NEW i \in DOMAIN run.processes
    PROVE  /\ run.processes[i] \in DOMAIN definition.processes
           /\ ValidProcess(run.processes[i], definition.processes[run.processes[i]])
           /\ \A a \in definition.processes[run.processes[i]].reads :
                  a.form \in {"static", "bare"}
           /\ definition.processes[run.processes[i]].reads # Absent
           /\ \A j \in 1 .. (i - 1) :
                 /\ run.processes[j] # run.processes[i]
                 /\ definition.processes[run.processes[i]].gives
                      \cap definition.processes[run.processes[j]].gives = {}
           /\ run.location = "create" =>
                 definition.processes[run.processes[i]].gives \cap definition.create.values = {}
           /\ \A a \in definition.processes[run.processes[i]].reads : a.form = "static" =>
                 /\ \E j \in 1 .. (i - 1) : run.processes[j] = a.process
                 /\ a.output # Absent => a.output \in definition.processes[a.process].gives
           /\ definition.processes[run.processes[i]].type = "handler" =>
                 run.location = "transition"
           /\ definition.processes[run.processes[i]].type \in {"endpoint", "handler"}
  <1>1. Compiles(definition) /\ definition \in Definitions
    BY RunFacts DEF ProcessesInv
  <1>2. PICK s \in CollectSequences(definition) :
           /\ s.location = run.location /\ s.processes = run.processes
           /\ run.location = "create" => s.produced = definition.create.values
    BY RunFacts DEF RunSound
  <1>3. ValidSequence(definition, s)
    BY <1>1 DEF Compiles
  <1> DEFINE key == run.processes[i]
             p == definition.processes[key]
  <1>4. /\ key \in DOMAIN definition.processes
        /\ \A j \in 1 .. (i - 1) : run.processes[j] # key
        /\ \A a \in Dependencies(p.reads) :
              /\ \E j \in 1 .. (i - 1) : run.processes[j] = a.process
              /\ a.output # Absent => a.output \in definition.processes[a.process].gives
        /\ p.gives \cap GivenBefore(definition, s, i) = {}
        /\ p.type = "handler" => run.location = "transition"
    BY <1>2, <1>3 DEF ValidSequence
  <1>5. ValidProcess(key, p)
    BY <1>1, <1>4 DEF Compiles
  <1>6. IsReads(p.reads) /\ p.type \in {"endpoint", "handler"}
    BY <1>1, <1>4, ProcessesAssumption
  <1>7. \A a \in p.reads : a.form \in {"static", "bare"}
    BY <1>5, <1>6 DEF ValidProcess, IsMapping, IsStatic, IsReads, Forms
  <1>8. \A j \in 1 .. (i - 1) : definition.processes[run.processes[j]].gives
                                 \subseteq GivenBefore(definition, s, i)
    BY <1>2 DEF GivenBefore
  <1>9. run.location = "create" =>
          definition.create.values \subseteq GivenBefore(definition, s, i)
    BY <1>2 DEF GivenBefore
  <1>10. \A a \in p.reads : a.form = "static" => a \in Dependencies(p.reads)
    BY DEF Dependencies
  <1> HIDE DEF p, key
  <1>11. \A j \in 1 .. (i - 1) :
           p.gives \cap definition.processes[run.processes[j]].gives = {}
    BY <1>4, <1>8
  <1>12. run.location = "create" => p.gives \cap definition.create.values = {}
    BY <1>4, <1>9
  <1>13. p.reads # Absent
    BY <1>6 DEF IsReads
  <1>14. QED
    BY <1>4, <1>5, <1>6, <1>7, <1>10, <1>11, <1>12, <1>13 DEF p, key

\* Of outputs, what has run gave what the definition says it gives.
LEMMA OutputFacts ==
    ASSUME ProcessesInv, phase = "running", NEW j \in HasRun, NEW a,
           run.processes[j] = a.process,
           a.output # Absent => a.output \in definition.processes[a.process].gives
    PROVE  /\ a.process \in DOMAIN run.outputs
           /\ a.output # Absent => a.output \in run.outputs[a.process]
  <1>1. OutputsSound
    BY RunFacts
  <1>2. QED
    BY <1>1 DEF OutputsSound

\* The reads of the next process that do not resolve are bare.
LEMMA UnresolvedReads ==
    ASSUME ProcessesInv, phase = "running", ~AtEnd, ~Resolves(Process.reads, run.outputs)
    PROVE  HasBareAccess
  <1> DEFINE key == run.processes[run.at]
             p == definition.processes[key]
  <1>1. run.at \in DOMAIN run.processes
    BY RunFacts
  <1>2. /\ key \in DOMAIN definition.processes /\ p.reads # Absent
        /\ \A a \in p.reads : a.form \in {"static", "bare"}
        /\ \A a \in p.reads : a.form = "static" =>
                 /\ \E j \in 1 .. (run.at - 1) : run.processes[j] = a.process
                 /\ a.output # Absent => a.output \in definition.processes[a.process].gives
    BY <1>1, ProcessFacts
  <1>3. PICK a \in p.reads : ~(/\ a.process \in DOMAIN run.outputs
                               /\ a.output # Absent => a.output \in run.outputs[a.process])
    BY DEF Resolves, Process
  <1>4. a.form # "static"
    BY <1>2, <1>3, OutputFacts DEF HasRun
  <1>5. ReadsBare(p.reads)
    BY <1>2, <1>4 DEF ReadsBare
  <1>6. QED
    BY <1>2, <1>5 DEF HasBareAccess

\* So are the values' that are read before a handler or at the end.
LEMMA UnresolvedValues ==
    ASSUME ProcessesInv, phase = "running", Pending, Values # Absent,
           ~Resolves(Values, run.outputs)
    PROVE  HasBareAccess
  <1> DEFINE t == [from |-> agreement.state, name |-> run.name, transition |-> State.on[run.name]]
  <1>1. /\ definition \in Definitions /\ Compiles(definition)
        /\ agreement # Absent /\ agreement.state \in DOMAIN definition.states
        /\ run.name \in DOMAIN State.on /\ run.processes = State.on[run.name].processes
    BY RunFacts DEF ProcessesInv, AgreementSound, RunSound, Pending
  <1>2. t \in Transitions(definition)
    BY <1>1 DEF Transitions, State
  <1>3. ValidValues(definition, State.on[run.name])
    BY <1>1, <1>2 DEF Compiles
  <1>4. IsReads(Values)
    BY <1>1, ProcessesAssumption DEF Values, State
  <1>5. /\ IsMapping(Values) /\ IsStatic(Values)
        /\ \A a \in Dependencies(Values) :
             /\ a.process \in DOMAIN definition.processes
             /\ a.output # Absent => a.output \in definition.processes[a.process].gives
             /\ \E i \in DOMAIN run.processes :
                  /\ run.processes[i] = a.process
                  /\ \A j \in 1 .. i : ~IsHandler(definition, run.processes[j])
    BY <1>1, <1>3 DEF ValidValues, Values
  <1>6. PICK a \in Values : ~(/\ a.process \in DOMAIN run.outputs
                              /\ a.output # Absent => a.output \in run.outputs[a.process])
    BY DEF Resolves
  <1>7. a.form # "static"
    <2> SUFFICES ASSUME a.form = "static" PROVE FALSE
      OBVIOUS
    <2>1. a \in Dependencies(Values)
      BY <1>6 DEF Dependencies
    <2>2. PICK i \in DOMAIN run.processes :
             /\ run.processes[i] = a.process
             /\ \A j \in 1 .. i : ~IsHandler(definition, run.processes[j])
      BY <1>5, <2>1
    <2>3. ~(i < run.at)
      <3>1. a.output # Absent => a.output \in definition.processes[a.process].gives
        BY <1>5, <2>1
      <3>2. i < run.at => i \in HasRun
        BY <2>2, RunFacts DEF HasRun
      <3>3. QED
        BY <1>6, <2>2, <3>1, <3>2, OutputFacts
    <2>4. ~AtEnd /\ run.at \in DOMAIN run.processes /\ run.at \in 1 .. i
      BY <2>2, <2>3, RunFacts
    <2>5. Process.type = "handler"
      BY <2>4 DEF Pending
    <2>6. IsHandler(definition, run.processes[run.at])
      BY <2>4, <2>5, ProcessFacts DEF IsHandler, Process
    <2>7. QED
      BY <2>2, <2>4, <2>6
  <1>8. ReadsBare(Values)
    BY <1>4, <1>5, <1>6, <1>7 DEF ReadsBare, IsReads, Forms, IsMapping, IsStatic
  <1>9. t.transition.values = Values
    BY DEF Values
  <1>10. QED
    BY <1>2, <1>8, <1>9 DEF HasBareAccess

-----------------------------------------------------------------------------
\* A run ends, and everything but how it ended is kept or shown to be sound.
LEMMA EndKeeps ==
    ASSUME ProcessesInv, Compiles(definition), definition' = definition, phase' = "idle",
           NEW outcome, IsFinal(outcome), outcomes' = Append(outcomes, outcome), AgreementSound'
    PROVE  ProcessesInv'
  <1>1. /\ Compiles(definition)' /\ definition' \in Definitions
        /\ \A o : IsFinal(o)' = IsFinal(o)
    BY SameDefinition DEF ProcessesInv
  <1>2. /\ outcomes \in Seq(Range(outcomes))
        /\ \A i \in DOMAIN outcomes : IsFinal(outcomes[i])
    BY DEF ProcessesInv, OutcomesSound
  <1>3. OutcomesSound'
    <2>1. /\ outcomes' \in Seq(Range(outcomes'))
          /\ Len(outcomes) \in Nat /\ DOMAIN outcomes = 1 .. Len(outcomes)
          /\ DOMAIN outcomes' = 1 .. (Len(outcomes) + 1)
          /\ \A i \in DOMAIN outcomes : outcomes'[i] = outcomes[i]
          /\ outcomes'[Len(outcomes) + 1] = outcome
      BY <1>2, OneMore
    <2>2. ASSUME NEW i \in DOMAIN outcomes'
          PROVE  IsFinal(outcomes'[i])
      <3>1. CASE i \in DOMAIN outcomes
        BY <1>2, <2>1, <3>1
      <3>2. CASE i \notin DOMAIN outcomes
        <4>1. i = Len(outcomes) + 1
          BY <2>1, <2>2, <3>2
        <4>2. QED
          BY <2>1, <4>1
      <3>3. QED
        BY <3>1, <3>2
    <2>3. ASSUME NEW i \in DOMAIN outcomes'
          PROVE  IsFinal(outcomes[i])'
      BY <2>2, <2>3, SameDefinition DEF IsFinal
    <2>4. QED
      BY <2>1, <2>3 DEF OutcomesSound
  <1>4. QED
    BY <1>1, <1>3 DEF ProcessesInv

\* A run goes on, or begins.
LEMMA RunKeeps ==
    ASSUME ProcessesInv, Compiles(definition), definition' = definition, phase' = "running",
           outcomes' = outcomes, agreement' = agreement,
           RunSound', OutputsSound', StagedSound'
    PROVE  ProcessesInv'
  <1>1. /\ Compiles(definition)' /\ definition' \in Definitions
        /\ \A o : IsFinal(o)' = IsFinal(o)
    BY SameDefinition DEF ProcessesInv
  <1>2. OutcomesSound'
    BY <1>1 DEF ProcessesInv, OutcomesSound
  <1>3. AgreementSound'
    BY DEF ProcessesInv, AgreementSound
  <1>4. QED
    BY <1>1, <1>2, <1>3 DEF ProcessesInv

LEMMA CompileKeeps ==
    ASSUME ProcessesInv, Compile
    PROVE  ProcessesInv'
  <1>1. /\ phase' = IF Compiles(definition) THEN "idle" ELSE "refused"
        /\ definition' = definition /\ outcomes' = outcomes /\ agreement' = agreement
    BY DEF Compile
  <1>2. /\ Compiles(definition)' = Compiles(definition) /\ definition' \in Definitions
        /\ \A o : IsFinal(o)' = IsFinal(o)
    BY <1>1, SameDefinition DEF ProcessesInv
  <1>3. OutcomesSound'
    BY <1>1, <1>2 DEF ProcessesInv, OutcomesSound
  <1>4. AgreementSound'
    BY <1>1 DEF ProcessesInv, AgreementSound
  <1>5. QED
    BY <1>1, <1>2, <1>3, <1>4 DEF ProcessesInv

LEMMA StartKeeps ==
    ASSUME ProcessesInv, NEW location \in {"create", "page", "transition"}, NEW name,
           NEW processes, IsSequence(processes), Starts(location, name, processes),
           NEW s \in CollectSequences(definition),
           s.location = location, s.processes = processes,
           location = "create" => s.produced = definition.create.values,
           location = "transition" =>
               /\ agreement # Absent /\ name \in DOMAIN State.on
               /\ processes = State.on[name].processes
    PROVE  ProcessesInv'
  <1>1. /\ phase = "idle" /\ phase' = "running" /\ Compiles(definition)
        /\ run' = [NoRun EXCEPT !.location = location, !.name = name, !.processes = processes]
        /\ definition' = definition /\ agreement' = agreement /\ outcomes' = outcomes
    BY DEF Starts, ProcessesInv
  <1>2. /\ DOMAIN run' = DOMAIN NoRun /\ run'.location = location /\ run'.name = name
        /\ run'.processes = processes /\ run'.at = 1 /\ run'.outputs = <<>>
        /\ run'.candidate = Absent /\ run'.staged = <<>>
    BY <1>1 DEF NoRun
  <1>3. Len(processes) \in Nat
    BY LenProperties DEF IsSequence
  <1>4. RunSound'
    <2>1. State' = State /\ CollectSequences(definition)' = CollectSequences(definition)
      BY <1>1 DEF State
    <2>2. QED
      BY <1>1, <1>2, <1>3, <2>1 DEF RunSound, IsSequence
  <1>5. HasRun' = {} /\ DOMAIN run'.outputs = {}
    BY <1>2 DEF HasRun
  <1>6. OutputsSound'
    BY <1>5 DEF OutputsSound
  <1>7. StagedSound'
    BY <1>2, <1>5 DEF StagedSound, IsSequence, Range
  <1>8. QED
    BY <1>1, <1>4, <1>6, <1>7, RunKeeps

LEMMA StartsKeep ==
    ASSUME ProcessesInv,
           \/ StartCreation
           \/ \E page \in definition.pages : StartPage(page)
           \/ agreement # Absent /\ \E name \in DOMAIN State.on : StartAction(name)
    PROVE  ProcessesInv'
  <1>1. definition \in Definitions /\ AgreementSound
    BY DEF ProcessesInv
  <1>2. CASE StartCreation
    <2> DEFINE s == [location |-> "create", processes |-> definition.create.processes,
                     produced |-> definition.create.values]
    <2>1. s \in CollectSequences(definition)
      BY DEF CollectSequences
    <2>2. IsSequence(definition.create.processes)
      BY <1>1, ProcessesAssumption
    <2>3. Starts("create", Absent, definition.create.processes)
      BY <1>2 DEF StartCreation
    <2>4. QED
      BY <2>1, <2>2, <2>3, StartKeeps
  <1>3. ASSUME NEW page, StartPage(page)
        PROVE  ProcessesInv'
    <2> DEFINE s == [location |-> "page", processes |-> State.processes, produced |-> {}]
    <2>1. agreement.state \in DOMAIN definition.states
      BY <1>1, <1>3 DEF StartPage, AgreementSound
    <2>2. s \in CollectSequences(definition)
      BY <2>1 DEF CollectSequences, State
    <2>3. IsSequence(State.processes)
      BY <1>1, <2>1, ProcessesAssumption DEF State
    <2>4. Starts("page", page, State.processes)
      BY <1>3 DEF StartPage
    <2>5. QED
      BY <2>2, <2>3, <2>4, StartKeeps
  <1>4. ASSUME NEW name, agreement # Absent, StartAction(name)
        PROVE  ProcessesInv'
    <2> DEFINE t == [from |-> agreement.state, name |-> name, transition |-> State.on[name]]
               s == [location |-> "transition", processes |-> t.transition.processes,
                     produced |-> {}]
    <2>1. agreement.state \in DOMAIN definition.states /\ name \in DOMAIN State.on
      BY <1>1, <1>4 DEF StartAction, AgreementSound
    <2>2. t \in Transitions(definition)
      BY <2>1 DEF Transitions, State
    <2>3. s \in CollectSequences(definition)
      BY <2>2 DEF CollectSequences
    <2>4. IsSequence(State.on[name].processes)
      BY <1>1, <2>1, ProcessesAssumption DEF State
    <2>5. Starts("transition", name, State.on[name].processes)
      BY <1>4 DEF StartAction
    <2>6. QED
      BY <1>4, <2>1, <2>3, <2>4, <2>5, StartKeeps
  <1>5. QED
    BY <1>2, <1>3, <1>4

\* What fails before a run begins is the caller's, or the page of the state.
LEMMA UnstartedKeeps ==
    ASSUME ProcessesInv, CreationMappingFails \/ NoPageForState
    PROVE  ProcessesInv'
  <1>1. /\ phase = "idle" /\ phase' = "idle" /\ definition' = definition
        /\ agreement' = agreement /\ Compiles(definition)
    BY DEF CreationMappingFails, NoPageForState, ProcessesInv
  <1>2. AgreementSound'
    BY <1>1 DEF ProcessesInv, AgreementSound
  <1>3. CASE CreationMappingFails
    <2>1. IsFinal("bad data") /\ outcomes' = Append(outcomes, "bad data")
      BY <1>3 DEF CreationMappingFails, IsFinal
    <2>2. QED
      BY <1>1, <1>2, <2>1, EndKeeps
  <1>4. CASE NoPageForState
    <2>1. agreement.state \in DOMAIN definition.states
      BY <1>4 DEF NoPageForState, ProcessesInv, AgreementSound
    <2>2. IsFinal("no page") /\ outcomes' = Append(outcomes, "no page")
      BY <1>4, <2>1 DEF NoPageForState, IsFinal, State
    <2>3. QED
      BY <1>1, <1>2, <2>2, EndKeeps
  <1>5. QED
    BY <1>3, <1>4

\* A run that fails leaves the agreement as it was.
LEMMA FailedRunKeeps ==
    ASSUME ProcessesInv, phase = "running", NEW outcome, Ends(outcome), IsFinal(outcome),
           UNCHANGED <<definition, agreement>>
    PROVE  ProcessesInv'
  <1>1. /\ phase' = "idle" /\ outcomes' = Append(outcomes, outcome)
        /\ definition' = definition /\ agreement' = agreement /\ Compiles(definition)
    BY DEF Ends, ProcessesInv
  <1>2. AgreementSound'
    BY <1>1 DEF ProcessesInv, AgreementSound
  <1>3. QED
    BY <1>1, <1>2, EndKeeps

LEMMA ResolveKeeps ==
    ASSUME ProcessesInv, ResolveCandidate
    PROVE  ProcessesInv'
  <1>1. phase = "running" /\ Pending /\ UNCHANGED <<definition, agreement>>
    BY DEF ResolveCandidate
  <1>2. CASE /\ run' = [run EXCEPT !.candidate = run.outputs]
             /\ UNCHANGED <<phase, outcomes>>
    <2>1. Compiles(definition) /\ RunSound /\ OutputsSound /\ StagedSound
      BY <1>1, RunFacts
    <2>2. /\ DOMAIN run' = DOMAIN NoRun /\ run'.location = run.location /\ run'.name = run.name
          /\ run'.processes = run.processes /\ run'.at = run.at /\ run'.outputs = run.outputs
          /\ run'.candidate = run.outputs /\ run'.staged = run.staged
      BY <1>2, <2>1 DEF RunSound, NoRun
    <2>3. State' = State /\ CollectSequences(definition)' = CollectSequences(definition)
      BY <1>1 DEF State
    <2>4. RunSound'
      BY <1>1, <2>1, <2>2, <2>3 DEF RunSound, IsSequence
    <2>5. HasRun' = HasRun
      BY <2>2 DEF HasRun
    <2>6. OutputsSound'
      BY <1>1, <2>1, <2>2, <2>5 DEF OutputsSound
    <2>7. run.staged = <<>> /\ run.location = "transition" /\ DOMAIN run.staged = {}
      BY <1>1, <2>1 DEF Pending, StagedSound
    <2>8. \A j \in HasRun : ~IsHandler(definition, run.processes[j])
      BY <1>1, <2>1, <2>7 DEF Pending, StagedSound
    <2>9. StagedSound'
      BY <1>1, <2>1, <2>2, <2>5, <2>7, <2>8 DEF StagedSound, IsSequence, IsHandler
    <2>10. QED
      BY <1>1, <1>2, <2>1, <2>4, <2>6, <2>9, RunKeeps
  <1>3. CASE Values # Absent /\ ~Resolves(Values, run.outputs) /\ Ends("unresolved")
    <2>1. IsFinal("unresolved")
      BY <1>1, <1>3, UnresolvedValues DEF IsFinal
    <2>2. QED
      BY <1>1, <1>3, <2>1, FailedRunKeeps
  <1>4. QED
    BY <1>2, <1>3 DEF ResolveCandidate

\* A process that has run is one more that has.
LEMMA RecordKeeps ==
    ASSUME ProcessesInv, phase = "running", ~AtEnd, NEW staged \in {<<>>, <<run.candidate>>},
           RecordResult(run.processes[run.at], Process.gives, staged),
           UNCHANGED <<definition, agreement, phase, outcomes>>,
           IsHandler(definition, run.processes[run.at]) => ~Pending,
           staged # <<>> => Process.type = "handler" /\ ~Pending
    PROVE  ProcessesInv'
  <1> DEFINE key == run.processes[run.at]
             output == Process.gives
  <1>1. /\ Compiles(definition) /\ RunSound /\ OutputsSound /\ StagedSound
        /\ run.at \in 1 .. Len(run.processes) /\ run.at \in DOMAIN run.processes
        /\ Len(run.processes) \in Nat
    BY RunFacts
  <1>2. PICK outputs : outputs = [k \in DOMAIN run.outputs \cup {key} |->
                                    IF k = key THEN output ELSE run.outputs[k]]
    OBVIOUS
  <1>3. run' = [run EXCEPT !.at = run.at + 1, !.staged = run.staged \o staged,
                           !.outputs = outputs]
    BY <1>2 DEF RecordResult
  <1>4. /\ DOMAIN run' = DOMAIN NoRun /\ run'.location = run.location /\ run'.name = run.name
        /\ run'.processes = run.processes /\ run'.at = run.at + 1 /\ run'.outputs = outputs
        /\ run'.candidate = run.candidate /\ run'.staged = run.staged \o staged
    BY <1>1, <1>3 DEF RunSound, NoRun
  <1>5. State' = State /\ CollectSequences(definition)' = CollectSequences(definition)
    BY DEF State
  <1>6. RunSound'
    BY <1>1, <1>4, <1>5 DEF RunSound, IsSequence
  <1>7. HasRun' = HasRun \cup {run.at} /\ run.at \notin HasRun
    BY <1>1, <1>4 DEF HasRun
  <1>8. \A j \in HasRun : run.processes[j] # key
    BY <1>1, ProcessFacts DEF HasRun
  <1>9. OutputsSound'
    <2>1. DOMAIN run'.outputs = {run'.processes[j] : j \in HasRun'}
      BY <1>1, <1>2, <1>4, <1>7 DEF OutputsSound
    <2>2. ASSUME NEW j \in HasRun'
          PROVE  run'.outputs[run'.processes[j]] = definition.processes[run'.processes[j]].gives
      <3>1. CASE j = run.at
        BY <1>2, <1>4, <3>1 DEF Process
      <3>2. CASE j \in HasRun
        BY <1>1, <1>2, <1>4, <1>8, <3>2 DEF OutputsSound
      <3>3. QED
        BY <1>7, <2>2, <3>1, <3>2
    <2>3. QED
      BY <2>1, <2>2 DEF OutputsSound
  <1>10. run.staged \in Seq(Range(run.staged)) /\ Len(run.staged) \in Nat
    BY <1>1, LenProperties DEF StagedSound, IsSequence
  <1>11. \/ run'.staged = run.staged
         \/ /\ run'.staged = Append(run.staged, run.candidate)
            /\ Process.type = "handler" /\ ~Pending
    <2>1. CASE staged = <<>>
      BY <1>4, <1>10, <2>1, ConcatEmptySeq
    <2>2. CASE staged # <<>>
      <3>1. staged = <<run.candidate>>
        BY <2>2
      <3> DEFINE S == Range(run.staged) \cup {run.candidate}
      <3>2. run.staged \in Seq(S) /\ run.candidate \in S
        BY <1>10, SeqMonotonic
      <3>3. Append(run.staged, run.candidate) = run.staged \o <<run.candidate>>
        BY <3>2, AppendIsConcat
      <3>4. QED
        BY <1>4, <2>2, <3>1, <3>3
    <2>3. QED
      BY <2>1, <2>2
  <1>12. run.location = "transition" \/ Process.type # "handler"
    BY <1>1, ProcessFacts DEF Process
  <1>13. /\ IsSequence(run'.staged)
         /\ \A i \in DOMAIN run'.staged : run'.staged[i] = run'.candidate
    <2>1. CASE run'.staged = run.staged
      BY <1>1, <1>4, <2>1 DEF StagedSound
    <2>2. CASE run'.staged = Append(run.staged, run.candidate)
      <3>1. /\ IsSequence(run'.staged)
            /\ DOMAIN run.staged = 1 .. Len(run.staged)
            /\ DOMAIN run'.staged = 1 .. (Len(run.staged) + 1)
            /\ \A i \in DOMAIN run.staged : run'.staged[i] = run.staged[i]
            /\ run'.staged[Len(run.staged) + 1] = run.candidate
        BY <1>10, <2>2, OneMore DEF IsSequence
      <3>2. QED
        BY <1>1, <1>4, <1>10, <3>1 DEF StagedSound
    <2>3. QED
      BY <1>11, <2>1, <2>2
  <1>14. run.candidate = Absent \/ run.location # "transition" => run'.staged = <<>>
    BY <1>1, <1>11, <1>12 DEF StagedSound, Pending
  <1>15. run.location = "transition" /\ run.candidate = Absent =>
            \A j \in HasRun' : ~IsHandler(definition, run.processes[j])
    <2>1. run.location = "transition" /\ run.candidate = Absent =>
             ~IsHandler(definition, run.processes[run.at])
      BY DEF Pending, IsHandler, Process
    <2>2. QED
      BY <1>1, <1>7, <2>1 DEF StagedSound
  <1>16. StagedSound'
    BY <1>4, <1>13, <1>14, <1>15 DEF StagedSound, IsHandler, IsSequence
  <1>17. QED
    BY <1>1, <1>6, <1>9, <1>16, RunKeeps

LEMMA EndpointKeeps ==
    ASSUME ProcessesInv, RunEndpoint
    PROVE  ProcessesInv'
  <1>1. /\ phase = "running" /\ ~AtEnd /\ Process.type = "endpoint"
        /\ UNCHANGED <<definition, agreement>>
    BY DEF RunEndpoint
  <1>2. ~IsHandler(definition, run.processes[run.at])
    BY <1>1 DEF IsHandler, Process
  <1>3. CASE ~Resolves(Process.reads, run.outputs)
    <2>1. IsFinal("unresolved") /\ Ends("unresolved")
      BY <1>1, <1>3, UnresolvedReads DEF RunEndpoint, IsFinal
    <2>2. QED
      BY <1>1, <2>1, FailedRunKeeps
  <1>4. CASE Resolves(Process.reads, run.outputs)
    BY <1>1, <1>2, <1>4, RecordKeeps DEF RunEndpoint
  <1>5. QED
    BY <1>3, <1>4

LEMMA HandlerKeeps ==
    ASSUME ProcessesInv, RunHandler
    PROVE  ProcessesInv'
  <1>1. /\ phase = "running" /\ ~AtEnd /\ ~Pending /\ Process.type = "handler"
        /\ RecordResult(run.processes[run.at], {}, <<run.candidate>>)
        /\ UNCHANGED <<definition, agreement, phase, outcomes>>
    BY DEF RunHandler
  <1>2. run.at \in DOMAIN run.processes
    BY <1>1, RunFacts
  <1>3. Process.gives = {}
    BY <1>1, <1>2, ProcessFacts DEF ValidProcess, Process
  <1>4. QED
    BY <1>1, <1>3, RecordKeeps

LEMMA FailuresKeep ==
    ASSUME ProcessesInv, CandidateInvalid \/ EndpointFails \/ HandlerFails
    PROVE  ProcessesInv'
  <1>1. /\ phase = "running" /\ UNCHANGED <<definition, agreement>>
        /\ Ends("bad data") \/ Ends("bad gateway")
    BY DEF CandidateInvalid, EndpointFails, HandlerFails
  <1>2. IsFinal("bad data") /\ IsFinal("bad gateway")
    BY DEF IsFinal
  <1>3. QED
    BY <1>1, <1>2, FailedRunKeeps

-----------------------------------------------------------------------------
\* No value of a creation has two producers, and a required one has one.
LEMMA ProducersFacts ==
    ASSUME ProcessesInv, phase = "running", AtEnd, run.location = "create", NEW v
    PROVE  /\ Cardinality(Producers(v)) <= 1
           /\ v \in RequiredValues => Producers(v) # {}
  <1> DEFINE n == Len(run.processes)
             gives(j) == definition.processes[run.processes[j]].gives
  <1>1. /\ n \in Nat /\ HasRun = 1 .. n /\ DOMAIN run.processes = 1 .. n
        /\ DOMAIN run.outputs = {run.processes[j] : j \in 1 .. n}
        /\ \A j \in 1 .. n : run.outputs[run.processes[j]] = gives(j)
        /\ Compiles(definition)
    BY RunFacts DEF HasRun, OutputsSound
  <1>2. /\ \A i \in 1 .. n : \A j \in 1 .. (i - 1) : gives(i) \cap gives(j) = {}
        /\ \A i \in 1 .. n : gives(i) \cap definition.create.values = {}
    BY <1>1, ProcessFacts
  <1>3. \A i, j \in 1 .. n : v \in gives(i) /\ v \in gives(j) => i = j
    <2> SUFFICES ASSUME NEW i \in 1 .. n, NEW j \in 1 .. n, v \in gives(i), v \in gives(j), i # j
                 PROVE  FALSE
      OBVIOUS
    <2> HIDE DEF gives
    <2>1. i \in 1 .. (j - 1) \/ j \in 1 .. (i - 1)
      BY <1>1
    <2>2. QED
      BY <1>2, <2>1
  <1>4. \A x, y \in Producers(v) : x = y
    <2>1. \A x \in Producers(v) :
             \/ \E i \in 1 .. n : x = run.processes[i] /\ v \in gives(i)
             \/ x = "values" /\ v \in definition.create.values
      BY <1>1 DEF Producers
    <2>2. \A i \in 1 .. n : v \in gives(i) => v \notin definition.create.values
      BY <1>2
    <2> HIDE DEF gives, n
    <2>3. QED
      BY <1>3, <2>1, <2>2
  <1>5. Producers(v) = {} \/ \E x : Producers(v) = {x}
    BY <1>4
  <1>6. Cardinality(Producers(v)) <= 1
    <2>1. CASE Producers(v) = {}
      BY <2>1, FS_EmptySet
    <2>2. ASSUME NEW x, Producers(v) = {x}
          PROVE  Cardinality(Producers(v)) <= 1
      <3>1. Cardinality({x}) = 1
        BY FS_Singleton
      <3>2. QED
        BY <2>2, <3>1
    <2>3. QED
      BY <1>5, <2>1, <2>2
  <1>7. ASSUME v \in RequiredValues
        PROVE  Producers(v) # {}
    <2>1. PICK s \in CollectSequences(definition) :
             /\ s.location = run.location /\ s.processes = run.processes
             /\ run.location = "create" => s.produced = definition.create.values
      BY RunFacts DEF RunSound
    <2>2. ValidSequence(definition, s)
      BY <1>1, <2>1 DEF Compiles
    <2>3. v \in GivenBefore(definition, s, n + 1)
      BY <1>7, <2>1, <2>2 DEF ValidSequence
    <2>4. v \in definition.create.values \/ \E j \in 1 .. n : v \in gives(j)
      BY <1>1, <2>1, <2>3 DEF GivenBefore
    <2>5. QED
      BY <1>1, <2>4 DEF Producers
  <1>8. QED
    BY <1>6, <1>7

LEMMA FinishCreationKeeps ==
    ASSUME ProcessesInv, FinishCreation
    PROVE  ProcessesInv'
  <1>1. /\ phase = "running" /\ AtEnd /\ run.location = "create"
        /\ definition' = definition /\ run.staged = <<>> /\ Compiles(definition)
    BY RunFacts DEF FinishCreation, StagedSound
  <1>2. \A v \in RequiredValues : Producers(v) # {}
    BY <1>1, ProducersFacts
  <1>3. /\ agreement' = [state |-> definition.create.target,
                         producers |-> [v \in Outputs |-> Cardinality(Producers(v))],
                         paid |-> <<>>, valued |-> Absent]
        /\ Ends("done")
    BY <1>1, <1>2 DEF FinishCreation
  <1>4. definition.create.target \in DOMAIN definition.states
    BY <1>1 DEF Compiles, ValidReferences
  <1>5. \A v \in Outputs : Cardinality(Producers(v)) <= 1
    BY <1>1, ProducersFacts
  <1>6. AgreementSound'
    <2> DEFINE counts == [v \in Outputs |-> Cardinality(Producers(v))]
    <2>1. \A v \in Outputs : counts[v] <= 1
      BY <1>5
    <2> HIDE DEF counts
    <2>2. agreement' = [state |-> definition.create.target, producers |-> counts,
                        paid |-> <<>>, valued |-> Absent]
      BY <1>3 DEF counts
    <2>3. QED
      BY <1>1, <1>4, <2>1, <2>2 DEF AgreementSound
  <1>7. IsFinal("done") /\ phase' = "idle" /\ outcomes' = Append(outcomes, "done")
    BY <1>3 DEF IsFinal, Ends
  <1>8. QED
    BY <1>1, <1>6, <1>7, EndKeeps

LEMMA FinishPageKeeps ==
    ASSUME ProcessesInv, FinishPage
    PROVE  ProcessesInv'
  <1>1. /\ phase = "running" /\ run.location = "page" /\ run.staged = <<>>
        /\ UNCHANGED <<definition, agreement>>
    BY RunFacts DEF FinishPage, StagedSound
  <1>2. Ends("done") /\ IsFinal("done")
    BY <1>1 DEF FinishPage, IsFinal
  <1>3. QED
    BY <1>1, <1>2, FailedRunKeeps

LEMMA FinishTransitionKeeps ==
    ASSUME ProcessesInv, FinishTransition
    PROVE  ProcessesInv'
  <1>1. /\ phase = "running" /\ run.location = "transition" /\ definition' = definition
        /\ Compiles(definition) /\ RunSound /\ StagedSound
    BY RunFacts DEF FinishTransition
  <1>2. /\ agreement # Absent /\ run.name \in DOMAIN State.on
        /\ DOMAIN agreement = {"state", "producers", "paid", "valued"}
        /\ agreement.state \in DOMAIN definition.states
        /\ \A v \in Outputs : agreement.producers[v] <= 1
    BY <1>1 DEF RunSound, ProcessesInv, AgreementSound
  <1> DEFINE t == [from |-> agreement.state, name |-> run.name, transition |-> State.on[run.name]]
  <1>3. t \in Transitions(definition)
    BY <1>2 DEF Transitions, State
  <1>4. State.on[run.name].target \in DOMAIN definition.states
    BY <1>1, <1>3 DEF Compiles, ValidReferences
  <1>5. agreement' = [agreement EXCEPT !.state = State.on[run.name].target,
                                       !.paid = run.staged, !.valued = run.candidate]
    BY DEF FinishTransition
  <1>6. /\ DOMAIN agreement' = {"state", "producers", "paid", "valued"}
        /\ agreement'.state = State.on[run.name].target
        /\ agreement'.producers = agreement.producers
        /\ agreement'.paid = run.staged /\ agreement'.valued = run.candidate
    BY <1>2, <1>5
  <1>7. AgreementSound'
    BY <1>1, <1>2, <1>4, <1>6 DEF AgreementSound, StagedSound
  <1>8. IsFinal("done") /\ phase' = "idle" /\ outcomes' = Append(outcomes, "done")
    BY DEF IsFinal, FinishTransition, Ends
  <1>9. QED
    BY <1>1, <1>7, <1>8, EndKeeps

LEMMA ProcessesInitially == ProcessesInit => ProcessesInv
  BY DEF ProcessesInit, ProcessesInv, OutcomesSound, AgreementSound, Range

LEMMA ProcessesUnchanged == ProcessesInv /\ UNCHANGED processVars => ProcessesInv'
  <1> SUFFICES ASSUME ProcessesInv, UNCHANGED processVars PROVE ProcessesInv'
    OBVIOUS
  <1>1. /\ definition' = definition /\ phase' = phase /\ run' = run
        /\ agreement' = agreement /\ outcomes' = outcomes
    BY DEF processVars
  <1>2. /\ Compiles(definition)' = Compiles(definition) /\ definition' \in Definitions
        /\ \A o : IsFinal(o)' = IsFinal(o)
    BY <1>1, SameDefinition DEF ProcessesInv
  <1>3. OutcomesSound'
    BY <1>1, <1>2 DEF ProcessesInv, OutcomesSound
  <1>4. AgreementSound'
    BY <1>1 DEF ProcessesInv, AgreementSound
  <1>5. phase' = "running" => RunSound' /\ OutputsSound' /\ StagedSound'
    <2>1. /\ State' = State /\ HasRun' = HasRun
          /\ CollectSequences(definition)' = CollectSequences(definition)
      BY <1>1 DEF State, HasRun
    <2>2. QED
      BY <1>1, <2>1 DEF ProcessesInv, RunSound, OutputsSound, StagedSound, IsHandler, IsSequence
  <1>6. QED
    BY <1>1, <1>2, <1>3, <1>4, <1>5 DEF ProcessesInv

LEMMA ProcessesInvariant == ProcessesSpec => []ProcessesInv
  <1>1. ProcessesInv /\ [ProcessesNext]_processVars => ProcessesInv'
    <2> SUFFICES ASSUME ProcessesInv, [ProcessesNext]_processVars
                 PROVE  ProcessesInv'
      OBVIOUS
    <2>1. CASE Compile
      BY <2>1, CompileKeeps
    <2>2. CASE \/ StartCreation
               \/ \E page \in definition.pages : StartPage(page)
               \/ agreement # Absent /\ \E name \in DOMAIN State.on : StartAction(name)
      BY <2>2, StartsKeep
    <2>3. CASE CreationMappingFails \/ NoPageForState
      BY <2>3, UnstartedKeeps
    <2>4. CASE ResolveCandidate
      BY <2>4, ResolveKeeps
    <2>5. CASE RunEndpoint
      BY <2>5, EndpointKeeps
    <2>6. CASE RunHandler
      BY <2>6, HandlerKeeps
    <2>7. CASE CandidateInvalid \/ EndpointFails \/ HandlerFails
      BY <2>7, FailuresKeep
    <2>8. CASE FinishCreation
      BY <2>8, FinishCreationKeeps
    <2>9. CASE FinishPage
      BY <2>9, FinishPageKeeps
    <2>10. CASE FinishTransition
      BY <2>10, FinishTransitionKeeps
    <2>11. CASE UNCHANGED processVars
      BY <2>11, ProcessesUnchanged
    <2>12. QED
      BY <2>1, <2>2, <2>3, <2>4, <2>5, <2>6, <2>7, <2>8, <2>9, <2>10, <2>11 DEF ProcessesNext
  <1>2. QED
    BY <1>1, ProcessesInitially, PTL DEF ProcessesSpec

\* Whatever definitions there are, one that compiles does not fail for a reason
\* of its own: what its mappings read has run, nothing is staged where nothing
\* is committed, and each value of the agreement has one producer.
THEOREM CompiledDefinitionsAlwaysRun == ProcessesSpec => []CompiledDefinitionsRun
  <1>1. ProcessesInv => CompiledDefinitionsRun
    BY DEF ProcessesInv, OutcomesSound, IsFinal, AgreementSound, CompiledDefinitionsRun
  <1>2. QED
    BY <1>1, ProcessesInvariant, PTL

\* The values of a transition are read once, before its first handler, so that
\* every payment its handlers stage is of the agreement that is stored.
THEOREM StagedIsStored == ProcessesSpec => []StagedAsStored
  <1>1. ProcessesInv => StagedAsStored
    BY DEF ProcessesInv, AgreementSound, StagedAsStored
  <1>2. QED
    BY <1>1, ProcessesInvariant, PTL
============================================================================
