------------------------- MODULE AgreementProcesses -------------------------
(***************************************************************************)
(* An agreement definition is compiled when it is loaded and its processes *)
(* run later: when an agreement is created, shown or acted on. Processes   *)
(* of a sequence run in order; an endpoint process calls a service and     *)
(* maps its answer to named outputs, a handler stages work for the commit. *)
(* A later mapping reads the outputs of earlier processes, and what it may *)
(* read is only checked when the definition is compiled.                   *)
(*                                                                         *)
(* A mapping is the set of its accesses to $.outputs; what it takes from   *)
(* the application, the agreement or a response is data of the caller.     *)
(***************************************************************************)
EXTENDS Naturals, Sequences, FiniteSets, Functions

CONSTANTS Handlers,     \* agreementProcessHandlers: the registered handlers
          Outputs,      \* processOutputSchemas: the known agreement values
          Definitions,  \* definitions to compile
          Absent,       \* undefined
          MaxRuns       \* bound on sequences run

RequiredValues == {"actions", "items"}

Forms == {"static", "dynamic", "bare", "invalid"}

IsReads(reads) == reads # Absent /\ \A a \in reads : a.form \in Forms

IsSequence(processes) == processes \in Seq(Range(processes))

(* What the schema of a definition lets through; whether it compiles is    *)
(* another matter.                                                         *)
ASSUME ProcessesAssumption ==
    /\ RequiredValues \subseteq Outputs /\ MaxRuns \in Nat
    /\ \A d \in Definitions :
         /\ \A key \in DOMAIN d.processes : /\ IsReads(d.processes[key].reads)
                                            /\ d.processes[key].type \in {"endpoint", "handler"}
         /\ IsSequence(d.create.processes)
         /\ \A s \in DOMAIN d.states :
              /\ IsSequence(d.states[s].processes)
              /\ \A n \in DOMAIN d.states[s].on :
                   LET t == d.states[s].on[n] IN
                   IsSequence(t.processes) /\ (t.values = Absent \/ IsReads(t.values))

VARIABLES definition, \* the definition
          phase,      \* compiling, refused, idle or running
          run,        \* the sequence that runs
          agreement,  \* the agreement, once it is created
          outcomes    \* how the runs ended

processVars == <<definition, phase, run, agreement, outcomes>>

----------------------------------------------------------------------------
(* How a mapping gets at outputs: by $.outputs.key.name or by $lookup with *)
(* a literal key ("static"), with a computed or a hidden key ("dynamic"),  *)
(* or by a JSONata path that begins with the name outputs and not with $   *)
(* ("bare"), which findProcessOutputDependencies does not look at. An      *)
(* expression that does not parse, or a collection without its items, is   *)
(* "invalid".                                                              *)
Access(form, process, output) == [form |-> form, process |-> process, output |-> output]

(* validateProcessMapping *)
IsMapping(reads) == \A a \in reads : a.form # "invalid"

IsStatic(reads) == \A a \in reads : a.form # "dynamic"

\* Mutant: a lookup is not a dependency.
NoDependencies(reads) == {}

Dependencies(reads) == {a \in reads : a.form = "static"}

(* An access resolves when its process has run and produced the output.    *)
Resolves(reads, outputs) ==
    \A a \in reads : /\ a.process \in DOMAIN outputs
                     /\ a.output # Absent => a.output \in outputs[a.process]

----------------------------------------------------------------------------
(* findUnknownMappingField: an endpoint maps to values agreements have;    *)
(* the input of a handler may not have a field its schema lacks, and the   *)
(* registered handlers take none.                                          *)
KnownFields(p) ==
    /\ p.type = "endpoint" => p.gives \subseteq Outputs
    /\ p.type = "handler" => p.reads = {}

(* compileProcess, and what the schema wants of a process. *)
ValidProcess(key, p) ==
    /\ IsMapping(p.reads) /\ IsStatic(p.reads) /\ KnownFields(p)
    /\ p.type = "endpoint" => p.gives # {}
    /\ p.type = "handler" => key \in Handlers /\ p.gives = {}

Transitions(d) == UNION {{[from |-> s, name |-> n, transition |-> d.states[s].on[n]] :
                            n \in DOMAIN d.states[s].on} : s \in DOMAIN d.states}

(* collectSequences *)
CollectSequences(d) ==
    {[location |-> "create", processes |-> d.create.processes, produced |-> d.create.values]}
    \cup {[location |-> "page", processes |-> d.states[s].processes, produced |-> {}] :
            s \in DOMAIN d.states}
    \cup {[location |-> "transition", processes |-> t.transition.processes,
           produced |-> {}] : t \in Transitions(d)}

GivenBefore(d, s, i) ==
    s.produced \cup UNION {d.processes[s.processes[j]].gives : j \in 1 .. (i - 1)}

(* validateSequence: a process is defined and occurs once, what it reads   *)
(* is produced earlier, what it gives nobody else gives, and a handler is  *)
(* where it is allowed. Creation gives every value an agreement must have. *)
ValidSequence(d, s) ==
    /\ \A i \in DOMAIN s.processes :
         LET key == s.processes[i] IN
         /\ key \in DOMAIN d.processes
         /\ \A j \in 1 .. (i - 1) : s.processes[j] # key
         /\ \A a \in Dependencies(d.processes[key].reads) :
              /\ \E j \in 1 .. (i - 1) : s.processes[j] = a.process
              /\ a.output # Absent => a.output \in d.processes[a.process].gives
         /\ d.processes[key].gives \cap GivenBefore(d, s, i) = {}
         /\ d.processes[key].type = "handler" => s.location = "transition"
    /\ s.location = "create" =>
         RequiredValues \subseteq GivenBefore(d, s, Len(s.processes) + 1)

IsHandler(d, key) == key \in DOMAIN d.processes /\ d.processes[key].type = "handler"

(* assertDependenciesBeforeHandlers: the values of a transition are read   *)
(* by its first handler, so what they read is produced before it.          *)
ValidValues(d, t) ==
    t.values # Absent =>
        /\ IsMapping(t.values) /\ IsStatic(t.values)
        /\ \A a \in Dependencies(t.values) :
             /\ a.process \in DOMAIN d.processes
             /\ a.output # Absent => a.output \in d.processes[a.process].gives
             /\ \E i \in DOMAIN t.processes :
                  /\ t.processes[i] = a.process
                  /\ \A j \in 1 .. i : ~IsHandler(d, t.processes[j])

(* findReferenceErrors *)
ValidReferences(d) ==
    /\ d.create.target \in DOMAIN d.states
    /\ \A t \in Transitions(d) :
         /\ t.transition.target \in DOMAIN d.states
         /\ t.transition.page # Absent => t.transition.page \in d.pages

(* The constructor of AgreementDefinition and compileCreationMappings: the *)
(* schema wants the state "accepted".                                      *)
Compiles(d) ==
    /\ "accepted" \in DOMAIN d.states
    /\ ValidReferences(d)
    /\ \A t \in Transitions(d) : ValidValues(d, t.transition)
    /\ \A key \in DOMAIN d.processes : ValidProcess(key, d.processes[key])
    /\ \A s \in CollectSequences(d) : ValidSequence(d, s)
    /\ d.create.values \subseteq Outputs

----------------------------------------------------------------------------
NoRun == [location |-> "none", name |-> Absent, processes |-> <<>>, at |-> 1,
          outputs |-> <<>>, candidate |-> Absent, staged |-> <<>>]

ProcessesInit ==
    /\ definition \in Definitions
    /\ phase = "compiling" /\ run = NoRun /\ agreement = Absent /\ outcomes = <<>>

Compile ==
    /\ phase = "compiling"
    /\ phase' = IF Compiles(definition) THEN "idle" ELSE "refused"
    /\ UNCHANGED <<definition, run, agreement, outcomes>>

Ends(outcome) ==
    /\ phase' = "idle" /\ run' = NoRun
    /\ outcomes' = Append(outcomes, outcome)

Starts(location, name, processes) ==
    /\ phase = "idle" /\ Len(outcomes) < MaxRuns
    /\ phase' = "running"
    /\ run' = [NoRun EXCEPT !.location = location, !.name = name, !.processes = processes]
    /\ UNCHANGED <<definition, agreement, outcomes>>

State == definition.states[agreement.state]

StartCreation ==
    /\ agreement = Absent
    /\ Starts("create", Absent, definition.create.processes)

(* resolveCreationMappings: the application is mapped before a process     *)
(* runs, and its data may not give what the definition maps from it.       *)
CreationMappingFails ==
    /\ phase = "idle" /\ Len(outcomes) < MaxRuns /\ agreement = Absent
    /\ outcomes' = Append(outcomes, "bad data")
    /\ UNCHANGED <<definition, phase, run, agreement>>

(* A page of the state, of one of its transitions, or the document. *)
AllowedPages ==
    ({State.page} \cup {State.on[n].page : n \in DOMAIN State.on}
       \cup ({"document"} \cap definition.pages)) \ {Absent}

StartPage(page) ==
    /\ agreement # Absent /\ page \in AllowedPages
    /\ Starts("page", page, State.processes)

(* resolvePageForState: the page of the current state must be configured,  *)
(* which compilation does not ask.                                         *)
NoPageForState ==
    /\ phase = "idle" /\ Len(outcomes) < MaxRuns
    /\ agreement # Absent /\ State.page \notin definition.pages
    /\ outcomes' = Append(outcomes, "no page")
    /\ UNCHANGED <<definition, phase, run, agreement>>

StartAction(name) ==
    /\ agreement # Absent /\ name \in DOMAIN State.on
    /\ Starts("transition", name, State.on[name].processes)

Values == State.on[run.name].values

AtEnd == run.at > Len(run.processes)

Process == definition.processes[run.processes[run.at]]

\* Mutant: the values are resolved before every handler.
AlwaysPending ==
    /\ run.location = "transition" /\ (~AtEnd => Process.type = "handler")
    /\ run.candidate # run.outputs

(* resolveWhenPending: the values of a transition are resolved before the  *)
(* first handler, or after the last process, and never again.              *)
Pending ==
    /\ run.location = "transition" /\ run.candidate = Absent
    /\ ~AtEnd => Process.type = "handler"

(* resolveCandidate: the candidate is the outputs its values were taken    *)
(* from.                                                                   *)
ResolveCandidate ==
    /\ phase = "running" /\ Pending
    /\ IF Values = Absent \/ Resolves(Values, run.outputs)
       THEN /\ run' = [run EXCEPT !.candidate = run.outputs]
            /\ UNCHANGED <<phase, outcomes>>
       ELSE Ends("unresolved")
    /\ UNCHANGED <<definition, agreement>>

(* The candidate of a transition is not an agreement, or it changes what   *)
(* an agreement keeps: its scheme, name, applicant and application.        *)
CandidateInvalid ==
    /\ phase = "running" /\ Pending /\ Values # Absent
    /\ Resolves(Values, run.outputs)
    /\ Ends("bad data")
    /\ UNCHANGED <<definition, agreement>>

RecordResult(key, output, staged) ==
    run' = [run EXCEPT !.at = @ + 1, !.staged = @ \o staged,
              !.outputs = [k \in DOMAIN @ \cup {key} |-> IF k = key THEN output ELSE @[k]]]

(* compileEndpoint's function: the request is mapped, the service called   *)
(* and its answer mapped to every output, or the run fails.                *)
RunEndpoint ==
    /\ phase = "running" /\ ~AtEnd /\ Process.type = "endpoint"
    /\ IF Resolves(Process.reads, run.outputs)
       THEN /\ RecordResult(run.processes[run.at], Process.gives, <<>>)
            /\ UNCHANGED <<phase, outcomes>>
       ELSE Ends("unresolved")
    /\ UNCHANGED <<definition, agreement>>

(* The call fails, or its answer does not map to the outputs. *)
EndpointFails ==
    /\ phase = "running" /\ ~AtEnd /\ Process.type = "endpoint"
    /\ Resolves(Process.reads, run.outputs)
    /\ Ends("bad gateway")
    /\ UNCHANGED <<definition, agreement>>

(* executeHandler: the handler is given the agreement with its candidate   *)
(* values and stages one operation.                                        *)
RunHandler ==
    /\ phase = "running" /\ ~AtEnd /\ ~Pending /\ Process.type = "handler"
    /\ RecordResult(run.processes[run.at], {}, <<run.candidate>>)
    /\ UNCHANGED <<definition, agreement, phase, outcomes>>

HandlerFails ==
    /\ phase = "running" /\ ~AtEnd /\ ~Pending /\ Process.type = "handler"
    /\ Ends("bad data")
    /\ UNCHANGED <<definition, agreement>>

Producers(value) ==
    {k \in DOMAIN run.outputs : value \in run.outputs[k]}
      \cup (IF value \in definition.create.values THEN {"values"} ELSE {})

(* compileAgreementCreation's function: nothing may be staged, and the     *)
(* assembled values are validated. Of two producers the later would win.   *)
FinishCreation ==
    /\ phase = "running" /\ AtEnd /\ run.location = "create"
    /\ IF run.staged # <<>> THEN Ends("unsupported") /\ agreement' = agreement
       ELSE IF \E v \in RequiredValues : Producers(v) = {}
       THEN Ends("invalid") /\ agreement' = agreement
       ELSE /\ agreement' = [state |-> definition.create.target,
                             producers |-> [v \in Outputs |-> Cardinality(Producers(v))],
                             paid |-> <<>>, valued |-> Absent]
            /\ Ends("done")
    /\ UNCHANGED definition

FinishPage ==
    /\ phase = "running" /\ AtEnd /\ run.location = "page"
    /\ Ends(IF run.staged # <<>> THEN "unsupported" ELSE "done")
    /\ UNCHANGED <<definition, agreement>>

(* compileAgreementActionExecution's function, and its commit. *)
FinishTransition ==
    /\ phase = "running" /\ AtEnd /\ ~Pending /\ run.location = "transition"
    /\ agreement' = [agreement EXCEPT !.state = State.on[run.name].target,
                       !.paid = run.staged, !.valued = run.candidate]
    /\ Ends("done")
    /\ UNCHANGED definition

ProcessesNext ==
    \/ Compile
    \/ StartCreation \/ CreationMappingFails
    \/ NoPageForState
    \/ \E page \in definition.pages : StartPage(page)
    \/ agreement # Absent /\ \E name \in DOMAIN State.on : StartAction(name)
    \/ ResolveCandidate \/ CandidateInvalid
    \/ RunEndpoint \/ EndpointFails \/ RunHandler \/ HandlerFails
    \/ FinishCreation \/ FinishPage \/ FinishTransition

ProcessesSpec == ProcessesInit /\ [][ProcessesNext]_processVars

----------------------------------------------------------------------------
ReadsBare(reads) == reads # Absent /\ \E a \in reads : a.form = "bare"

HasBareAccess ==
    \/ \E key \in DOMAIN definition.processes : ReadsBare(definition.processes[key].reads)
    \/ \E t \in Transitions(definition) : ReadsBare(t.transition.values)

(* A definition that compiles never fails for a reason of its own: every   *)
(* mapping finds the outputs it reads, nothing is staged where nothing can *)
(* be committed, the agreement that is created has each value from one     *)
(* producer and is in a state the definition knows. Only a service fails   *)
(* or the data is bad; a bare access may be unresolved and the page of a   *)
(* state missing, which compilation does not look at.                      *)
CompiledDefinitionsRun ==
    /\ \A i \in DOMAIN outcomes :
         \/ outcomes[i] \in {"done", "bad gateway", "bad data"}
         \/ outcomes[i] = "unresolved" /\ HasBareAccess
         \/ /\ outcomes[i] = "no page"
            /\ \E s \in DOMAIN definition.states :
                 definition.states[s].page \notin definition.pages
    /\ agreement # Absent =>
         /\ agreement.state \in DOMAIN definition.states
         /\ \A v \in Outputs : agreement.producers[v] <= 1

(* What a handler staged for the commit was worked out from the values the *)
(* agreement ends with: a payment is of the agreement that is stored.      *)
StagedAsStored ==
    agreement # Absent =>
        \A i \in DOMAIN agreement.paid : agreement.paid[i] = agreement.valued
=============================================================================
