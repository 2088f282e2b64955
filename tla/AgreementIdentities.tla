------------------------ MODULE AgreementIdentities ------------------------
(***************************************************************************)
(* The revenue actions, capital items and instalments of an agreement have *)
(* stable identities: an ordinal in a namespace of their own. Creation     *)
(* numbers the candidates it is given; a transition keeps the entries it   *)
(* names and numbers the rest, and payment lines refer to entries by their *)
(* identity, or by a name that is only good inside one candidate.          *)
(*                                                                         *)
(* An identity "action:3" is the number 3 in the namespace "action". What  *)
(* an entry says (code, dates, parcel, quantity) is left out.              *)
(***************************************************************************)
EXTENDS Naturals, Sequences, FiniteSets

CONSTANTS Candidates,     \* candidate values that mappings may produce
          Missing,        \* no identity, no reference
          MaxTransitions  \* bound on transitions

Namespaces == {"action", "item", "instalment"}

Ids(entries) == {entries[i].id : i \in DOMAIN entries}

IsList(s) == s \in Seq({s[i] : i \in DOMAIN s})

(* What agreementValueCandidateSchema lets through: ordinals are natural   *)
(* numbers and a line belongs to one of the namespaces.                    *)
ASSUME IdentitiesAssumption ==
    /\ MaxTransitions \in Nat /\ Missing \notin Nat
    /\ \A c \in Candidates :
         /\ \A n \in Namespaces : /\ IsList(c.entries[n])
                                  /\ Ids(c.entries[n]) \subseteq Nat \cup {Missing}
         /\ \A i \in DOMAIN c.lines : \A k \in DOMAIN c.lines[i] :
              c.lines[i][k].of \in Namespaces

VARIABLES values,  \* the values of the agreement
          version, \* the version of the agreement, 0 before it is created
          history  \* every entry it ever had

identityVars == <<values, version, history>>

----------------------------------------------------------------------------
(* A candidate entry may name an identity and may be given a reference; a  *)
(* candidate line refers to an entry by reference or by identity.          *)
MaxOf(numbers) == CHOOSE n \in numbers \cup {0} : \A m \in numbers : m <= n

\* Mutant: the recorded sequence is forgotten.
SequenceInUse(recorded, entries) ==
    [n \in Namespaces |-> MaxOf(Ids(entries[n]))]

(* resolveAgreementIdentitySequence: the highest ordinal ever recorded or  *)
(* in use, which the constructor of every Agreement works out again.       *)
Sequence(recorded, entries) ==
    [n \in Namespaces |-> MaxOf({recorded[n]} \cup Ids(entries[n]))]

(* nextAgreementIdentityOrdinal, and 1 in creation. *)
NextOrdinal(n) == IF version = 0 THEN 1 ELSE values.sequence[n] + 1

(* allocateIdentity: entries without an identity are numbered in order. *)
Identity(c, n, i) ==
    LET entry == c.entries[n][i] IN
    IF entry.id # Missing THEN entry.id
    ELSE NextOrdinal(n) + Cardinality({j \in 1 .. (i - 1) : c.entries[n][j].id = Missing})

(* agreementValueCandidateSchema: what creation is given names no identity *)
(* and its lines refer by name.                                            *)
IsCandidate(c) ==
    version = 0 =>
        /\ \A n \in Namespaces : Ids(c.entries[n]) \subseteq {Missing}
        /\ \A i \in DOMAIN c.lines : \A k \in DOMAIN c.lines[i] : c.lines[i][k].by = "ref"

Current(n) == IF version = 0 THEN <<>> ELSE values.entries[n]

(* requireExistingIdentity *)
KnownIdentities(c) ==
    \A n \in Namespaces : Ids(c.entries[n]) \ {Missing} \subseteq Ids(Current(n))

(* recordCandidateReference *)
UniqueReferences(c) ==
    \A n \in Namespaces : \A i, j \in DOMAIN c.entries[n] :
        c.entries[n][i].ref # Missing /\ c.entries[n][i].ref = c.entries[n][j].ref => i = j

(* What an entry is apart from its identity: the version and the place it  *)
(* was first given at.                                                     *)
Born(c, n, i) ==
    IF c.entries[n][i].id = Missing THEN <<version + 1, i>>
    ELSE LET kept == CHOOSE k \in DOMAIN Current(n) : Current(n)[k].id = c.entries[n][i].id
         IN Current(n)[kept].born

Materialised(c) ==
    [n \in Namespaces |-> [i \in DOMAIN c.entries[n] |->
        [id |-> Identity(c, n, i), born |-> Born(c, n, i)]]]

(* The entries a line may mean: resolveCreationLineItem and                *)
(* resolveTransitionLineItem.                                              *)
Meant(c, line) ==
    {i \in DOMAIN c.entries[line.of] :
       IF line.by = "ref" THEN c.entries[line.of][i].ref = line.value
       ELSE Identity(c, line.of, i) = line.value}

KnownReferences(c) ==
    \A i \in DOMAIN c.lines : \A k \in DOMAIN c.lines[i] : Meant(c, c.lines[i][k]) # {}

Line(c, line) ==
    LET i == CHOOSE j \in Meant(c, line) : TRUE IN
    [of |-> line.of, id |-> Identity(c, line.of, i), born |-> Born(c, line.of, i),
     amount |-> line.amount]

Total(lines) ==
    LET sum[i \in 0 .. Len(lines)] == IF i = 0 THEN 0 ELSE sum[i - 1] + lines[i].amount
    IN  sum[Len(lines)]

(* agreementValueSchema: identities are unique, line items refer to        *)
(* entries, and an instalment is the sum of its lines.                     *)
ValidAgreementValues(v, totals) ==
    /\ \A n \in Namespaces : Cardinality(Ids(v.entries[n])) = Len(v.entries[n])
    /\ \A i \in DOMAIN v.lines :
         /\ totals[i] = Total(v.lines[i])
         /\ \A k \in DOMAIN v.lines[i] :
              v.lines[i][k].id \in Ids(v.entries[v.lines[i][k].of])

Reconciled(c) ==
    LET entries == Materialised(c) IN
    [entries |-> entries,
     lines |-> [i \in DOMAIN c.lines |->
                  [k \in DOMAIN c.lines[i] |-> Line(c, c.lines[i][k])]],
     sequence |-> Sequence(IF version = 0 THEN [n \in Namespaces |-> 0]
                           ELSE values.sequence, entries)]

----------------------------------------------------------------------------
NoValues == [entries |-> [n \in Namespaces |-> <<>>], lines |-> <<>>,
             sequence |-> [n \in Namespaces |-> 0]]

IdentitiesInit == values = NoValues /\ version = 0 /\ history = {}

Accepts(c) ==
    /\ IsCandidate(c) /\ KnownIdentities(c) /\ UniqueReferences(c) /\ KnownReferences(c)
    /\ ValidAgreementValues(Reconciled(c), c.totals)

(* materialiseCreationIdentities and reconcileTransitionIdentities: what   *)
(* is not valid fails the creation or the transition and changes nothing.  *)
Materialise(c) ==
    /\ version <= MaxTransitions /\ Accepts(c)
    /\ values' = Reconciled(c)
    /\ version' = version + 1
    /\ history' = history \cup UNION {{[of |-> n, id |-> Materialised(c)[n][i].id,
                                        born |-> Materialised(c)[n][i].born] :
                                         i \in DOMAIN c.entries[n]} : n \in Namespaces}

IdentitiesNext == \E c \in Candidates : Materialise(c)

IdentitiesSpec == IdentitiesInit /\ [][IdentitiesNext]_identityVars

----------------------------------------------------------------------------
(* An identity is for ever: it never stands for one entry in one version   *)
(* of the agreement and for another in a later one, though entries come    *)
(* and go. Every payment line names the entry it was written for.          *)
IdentitiesAreForever ==
    /\ \A x, y \in history : x.of = y.of /\ x.id = y.id => x.born = y.born
    /\ \A i \in DOMAIN values.lines : \A k \in DOMAIN values.lines[i] :
         LET line == values.lines[i][k] IN
         \E e \in DOMAIN values.entries[line.of] :
            values.entries[line.of][e] = [id |-> line.id, born |-> line.born]
=============================================================================
