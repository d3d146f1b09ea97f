------------------------------- MODULE Ledger -------------------------------
(***************************************************************************)
(* What an enrollment in the identity history means.  An entry is an       *)
(* identity and whether it is active.  No two entries of a valid ledger    *)
(* share a generation, so a ledger is the set of its active and the set of *)
(* its retired identities.  Module EnrollLoop checks the loops of the code *)
(* over the vector of entries against these definitions.                   *)
(***************************************************************************)
EXTENDS FiniteSets, Naturals

CONSTANTS
    Identities,   \* definitions an operator may write
    MaxEntries    \* entries that fit into the ledger file

ASSUME IdentitiesAssumption ==
    \A i \in Identities : DOMAIN i = {"kind", "id", "generation", "fingerprint"}
ASSUME MaxEntriesAssumption == MaxEntries \in Nat

Ids(identities) == {i.id : i \in identities}

\* Authority::parse reads a file, and admits every id at most once.
Authorities ==
    {a \in SUBSET Identities : IsFiniteSet(a) /\ \A i, j \in a : i.id = j.id => i = j}

Ledgers == [active : SUBSET Identities, retired : SUBSET Identities]

EmptyLedger == [active |-> {}, retired |-> {}]

Entries(l) == l.active \cup l.retired

ValidLedger(l) ==
    /\ l.active \cap l.retired = {}
    /\ \A d, e \in Entries(l) :
          /\ d.generation = e.generation => d = e
          /\ d.id = e.id => d.kind = e.kind
    /\ \A d, e \in l.active : d.id = e.id => d = e

\* Identities that are not active with exactly this definition.
Fresh(l, requested) == requested \ l.active

\* Mutants: a superseded generation may be enrolled again; an id may change
\* its kind.
AcceptsOldGeneration(l, requested) ==
    /\ \A i \in Fresh(l, requested) :
          /\ i.id \in Ids(l.retired) => i.id \in Ids(l.active)
          /\ \A e \in Entries(l) : e.id = i.id => e.kind = i.kind
          /\ \A e \in l.active : e.generation # i.generation
          /\ \A j \in Fresh(l, requested) : j.generation = i.generation => j = i
    /\ Cardinality(Entries(l) \cup requested) <= MaxEntries

AcceptsOtherKind(l, requested) ==
    /\ \A i \in Fresh(l, requested) :
          /\ i.id \in Ids(l.retired) => i.id \in Ids(l.active)
          /\ \A e \in Entries(l) : e.generation # i.generation
          /\ \A j \in Fresh(l, requested) : j.generation = i.generation => j = i
    /\ Cardinality(Entries(l) \cup requested) <= MaxEntries

\* The requested identities may be enrolled: what is new keeps the kind of its
\* id, whose last entry is active, and brings a generation never seen before;
\* and the ledger does not outgrow its file.
Accepts(l, requested) ==
    /\ \A i \in Fresh(l, requested) :
          /\ i.id \in Ids(l.retired) => i.id \in Ids(l.active)
          /\ \A e \in Entries(l) : e.id = i.id => e.kind = i.kind
          /\ \A e \in Entries(l) : e.generation # i.generation
          /\ \A j \in Fresh(l, requested) : j.generation = i.generation => j = i
    /\ Cardinality(Entries(l) \cup requested) <= MaxEntries

\* Mutant: what is no longer defined stays active.
EnrolledKeepsRemoved(l, requested) ==
    [active |-> l.active \cup requested, retired |-> l.retired]

\* The ledger after a successful enrollment.
Enrolled(l, requested) ==
    [active |-> requested, retired |-> l.retired \cup (l.active \ requested)]
=============================================================================
