----------------------------- MODULE EnrollLoop -----------------------------
(***************************************************************************)
(* Ledger::enroll as the code runs it: over the vector of entries, one     *)
(* requested identity after the other, in the order of their ids.  Each    *)
(* turn sees the entries the turns before it retired and pushed.           *)
(***************************************************************************)
EXTENDS Ledger, Sequences

CONSTANT MaxLength   \* longest ledger file an operator starts from

ASSUME EnrollAssumption ==
    /\ MaxLength \in Nat
    /\ \A i \in Identities : i.id \in Nat   \* ids are numbered in their order

VARIABLES
    entries,   \* Ledger::entries
    todo,      \* the requested identities the loop has still to look at
    changed,   \* enroll's local of that name
    result,    \* "running", "ok" or "refused"
    before,    \* the entries that were read
    asked      \* the identities that were requested

enrollVars == <<entries, todo, changed, result, before, asked>>

EntryValues == [identity : Identities, active : BOOLEAN]

\* What a vector of entries says, as a ledger.
Meaning(s) ==
    [active |-> {e.identity : e \in {s[k] : k \in {n \in DOMAIN s : s[n].active}}},
     retired |-> {e.identity : e \in {s[k] : k \in {n \in DOMAIN s : ~s[n].active}}}]

\* Mutant: an entry is compared with its neighbour only.
ValidateNeighbours(s) ==
    /\ Len(s) <= MaxEntries
    /\ \A k \in DOMAIN s : \A n \in {k - 1} \cap DOMAIN s :
          /\ s[n].identity.generation # s[k].identity.generation
          /\ s[n].identity.id = s[k].identity.id =>
                s[n].identity.kind = s[k].identity.kind /\ ~s[n].active

\* Ledger::validate.
Validate(s) ==
    /\ Len(s) <= MaxEntries
    /\ \A k \in DOMAIN s : \A n \in 1 .. (k - 1) :
          /\ s[n].identity.generation # s[k].identity.generation
          /\ s[n].identity.id = s[k].identity.id =>
                s[n].identity.kind = s[k].identity.kind /\ ~s[n].active

\* rposition: the last entry of an id, 0 if there is none.
Previous(id) ==
    LET at == {k \in DOMAIN entries : entries[k].identity.id = id}
    IN  IF at = {} THEN 0 ELSE CHOOSE k \in at : \A n \in at : n <= k

EnrollInit ==
    /\ \E n \in 0 .. MaxLength : before \in [1 .. n -> EntryValues]
    /\ asked \in Authorities
    /\ entries = before
    /\ todo = asked
    /\ changed = FALSE
    /\ result = IF Validate(before) THEN "running" ELSE "refused"

Turn == result = "running" /\ todo # {}
\* The requested identities are looked at in the order of their ids.
Id == CHOOSE i \in todo : \A j \in todo : i.id <= j.id
Old == entries[Previous(Id.id)]

\* The turn returns an error.
Refuse ==
    /\ Turn
    /\ \/ Previous(Id.id) # 0 /\ (~Old.active \/ Old.identity.kind # Id.kind)
       \/ Previous(Id.id) # 0 /\ Old.identity.generation = Id.generation /\ Old.identity # Id
       \/ /\ ~(Previous(Id.id) # 0 /\ Old.identity = Id)
          /\ \/ \E k \in DOMAIN entries : entries[k].identity.generation = Id.generation
             \/ Len(entries) + 1 > MaxEntries
    /\ result' = "refused"
    /\ UNCHANGED <<entries, todo, changed, before, asked>>

\* The identity is enrolled as it is.
Continue ==
    /\ Turn
    /\ Previous(Id.id) # 0 /\ Old.active /\ Old.identity = Id
    /\ todo' = todo \ {Id}
    /\ UNCHANGED <<entries, changed, result, before, asked>>

\* Mutant: the entry that is replaced stays active.
PushEntryOnly ==
    /\ Turn
    /\ Previous(Id.id) # 0 => Old.active /\ Old.identity.kind = Id.kind
    /\ \A k \in DOMAIN entries : entries[k].identity.generation # Id.generation
    /\ Len(entries) + 1 <= MaxEntries
    /\ entries' = Append(entries, [identity |-> Id, active |-> TRUE])
    /\ changed' = TRUE
    /\ todo' = todo \ {Id}
    /\ UNCHANGED <<result, before, asked>>

\* The entry before it, if any, is retired and a new one is pushed.
PushEntry ==
    /\ Turn
    /\ Previous(Id.id) # 0 => Old.active /\ Old.identity.kind = Id.kind
    /\ \A k \in DOMAIN entries : entries[k].identity.generation # Id.generation
    /\ Len(entries) + 1 <= MaxEntries
    /\ entries' = Append([k \in DOMAIN entries |->
                             IF k = Previous(Id.id) THEN [entries[k] EXCEPT !.active = FALSE]
                             ELSE entries[k]],
                         [identity |-> Id, active |-> TRUE])
    /\ changed' = TRUE
    /\ todo' = todo \ {Id}
    /\ UNCHANGED <<result, before, asked>>

Dropped(k) == entries[k].active /\ entries[k].identity.id \notin Ids(asked)

\* The loop over the entries that are no longer requested.
RetireDropped ==
    /\ result = "running" /\ todo = {}
    /\ entries' = [k \in DOMAIN entries |->
                      IF Dropped(k) THEN [entries[k] EXCEPT !.active = FALSE] ELSE entries[k]]
    /\ changed' = (changed \/ \E k \in DOMAIN entries : Dropped(k))
    /\ result' = "ok"
    /\ UNCHANGED <<todo, before, asked>>

Done == result # "running" /\ UNCHANGED enrollVars

EnrollNext == Refuse \/ Continue \/ PushEntry \/ RetireDropped \/ Done

EnrollSpec == EnrollInit /\ [][EnrollNext]_enrollVars
-----------------------------------------------------------------------------
\* For every ledger file validate lets through, the loops enroll exactly the
\* requests Accepts allows and leave exactly the ledger Enrolled describes;
\* changed is set exactly when the file has to be written, and what is written
\* is valid to the next reader.
LoopEnrolls ==
    /\ result = "ok" =>
          /\ Accepts(Meaning(before), asked)
          /\ Meaning(entries) = Enrolled(Meaning(before), asked)
          /\ changed <=> Enrolled(Meaning(before), asked) # Meaning(before)
          /\ Validate(entries)
    /\ result = "refused" /\ Validate(before) => ~Accepts(Meaning(before), asked)

\* A vector validate lets through is a valid ledger: in particular the last
\* entry of an id is the active one, if any is.
ValidateImpliesValid ==
    Validate(entries) =>
       /\ ValidLedger(Meaning(entries))
       /\ \A i \in Meaning(entries).active : entries[Previous(i.id)] = [identity |-> i, active |-> TRUE]
=============================================================================
