---------------------- MODULE ServerConnectionsProofs ----------------------
(***************************************************************************)
(* ServerConnections for any finite set of connections, any principals,    *)
(* any limits, and any number of edits and clock ticks.                    *)
(***************************************************************************)
EXTENDS ServerConnections, FiniteSetTheorems, TLAPS

-----------------------------------------------------------------------------
(* The inductive invariant.                                                *)

\* The counters are only known to be numbers here; their ranges follow from
\* PermitsAccounted.
NatTypes ==
    /\ file \in Files
    /\ now \in 0 .. MaxTime
    /\ listener \in {"open", "dead"}
    /\ failures \in 0 .. (MaxFailures - 1)
    /\ permits \in Nat
    /\ counts \in [Principals -> Nat]
    /\ pc \in [Conns -> Stages]
    /\ who \in [Conns -> Principals \cup {NoPrincipal}]
    /\ view \in [Conns -> Files]
    /\ begun \in [Conns -> 0 .. MaxEdits]
    /\ outcome \in [Conns -> Outcomes]

\* A principal is pinned from its admission to the end of the connection.
Pinned == {"prepared", "recheck", "revalidate", "release", "final"}
PinInv ==
    \A c \in Conns :
        /\ pc[c] \in Pinned => who[c] \in Principals
        /\ pc[c] \notin Pinned \cup {"finish"} => who[c] = NoPrincipal

\* The result was encoded no later than now, and what the release is decided
\* on was read after that and has the enrolled identities.
ReadInv ==
    \A c \in Conns :
        /\ begun[c] <= file.version
        /\ pc[c] = "final" => view[c].same /\ view[c].version >= begun[c]
        /\ outcome[c] = "success" => pc[c] = "finish" /\ who[c] \in Principals

IInv == NatTypes /\ PinInv /\ PermitsAccounted /\ ReadInv /\ ReleaseIsCurrent

-----------------------------------------------------------------------------
(* Sets of connections and their sizes.                                    *)

\* The connections that hold a permit of p.
Held(p) == {c \in Open : who[c] = p}

\* There are finitely many connections, so their permits can be counted.
LEMMA Counting ==
    /\ \A S \in SUBSET Conns : IsFiniteSet(S) /\ Cardinality(S) \in Nat
    /\ \A S \in SUBSET Conns, c \in Conns : c \notin S => Cardinality(S \cup {c}) = Cardinality(S) + 1
    /\ \A S \in SUBSET Conns : \A c \in S :
          Cardinality(S \ {c}) = Cardinality(S) - 1 /\ Cardinality(S) >= 1
<1>1. ASSUME NEW S \in SUBSET Conns PROVE IsFiniteSet(S) /\ Cardinality(S) \in Nat
    BY ConnsAssumption, FS_Subset, FS_CardinalityType
<1>2. ASSUME NEW S \in SUBSET Conns, NEW c \in Conns, c \notin S
      PROVE  Cardinality(S \cup {c}) = Cardinality(S) + 1
    BY <1>1, <1>2, FS_AddElement
<1>3. ASSUME NEW S \in SUBSET Conns, NEW c \in S
      PROVE  Cardinality(S \ {c}) = Cardinality(S) - 1 /\ Cardinality(S) >= 1
    <2>1. Cardinality(S \ {c}) = Cardinality(S) - 1
        BY <1>1, FS_RemoveElement
    <2>2. Cardinality(S \ {c}) \in Nat /\ Cardinality(S) \in Nat
        BY <1>1
    <2> QED
        BY <2>1, <2>2
<1> QED
    BY <1>1, <1>2, <1>3

-----------------------------------------------------------------------------
(* What a step of a connection does to the permits.                        *)

\* Connection c goes on, or will finish, and keeps what it holds.
Proceeds(c) ==
    /\ pc[c] \notin {"new", "closed"}
    /\ \E w \in Stages \ {"new", "closed"} : pc' = [pc EXCEPT ![c] = w]
    /\ UNCHANGED <<file, now, listener, failures, permits, counts, who>>

\* These are the steps of an exchange that keep what the connection holds.
LEMMA ProceedsEffect ==
    ASSUME NEW c \in Conns
    PROVE  /\ Handshake(c) \/ ReadPrepare(c) \/ ReadCall(c) => Proceeds(c)
           /\ Load(c, "load", "admit") \/ Load(c, "recheck", "revalidate") => Proceeds(c)
           /\ Load(c, "release", "final") \/ Revalidate(c) \/ Release(c) => Proceeds(c)
           /\ CallFails(c) \/ RevalidateFails(c) => Proceeds(c)
           /\ \A p \in Principals : RefuseAdmission(c, p) => Proceeds(c)
<1> USE DEF Proceeds, Stages, Goto, Failing
<1>1. Handshake(c) \/ ReadPrepare(c) \/ ReadCall(c) => Proceeds(c)
    BY DEF Handshake, ReadPrepare, ReadCall
<1>2. Load(c, "load", "admit") \/ Load(c, "recheck", "revalidate") => Proceeds(c)
    BY DEF Load
<1>3. Load(c, "release", "final") \/ Revalidate(c) \/ Release(c) => Proceeds(c)
    BY DEF Load, Revalidate, Release
<1>4. CallFails(c) \/ RevalidateFails(c) => Proceeds(c)
    BY DEF CallFails, RevalidateFails
<1>5. \A p \in Principals : RefuseAdmission(c, p) => Proceeds(c)
    BY DEF RefuseAdmission
<1> QED
    BY <1>1, <1>2, <1>3, <1>4, <1>5

-----------------------------------------------------------------------------
(* Every step preserves each part.                                         *)

\* The permits that are free and those of the open connections add up, and
\* so do the counters of the principals.
LEMMA PermitsStep ==
    IInv /\ [Next]_vars => PermitsAccounted' /\ permits' \in Nat /\ counts' \in [Principals -> Nat]
<1> SUFFICES ASSUME IInv, [Next]_vars
             PROVE  PermitsAccounted' /\ permits' \in Nat /\ counts' \in [Principals -> Nat]
    OBVIOUS
<1> DEFINE Goal == PermitsAccounted /\ permits \in Nat /\ counts \in [Principals -> Nat]
<1>0. /\ permits \in Nat /\ counts \in [Principals -> Nat]
      /\ pc = [c \in Conns |-> pc[c]] /\ who = [c \in Conns |-> who[c]]
      /\ MaxActive \in Nat /\ MaxPrincipal \in Nat
    BY BoundsAssumption DEF IInv, NatTypes
<1>1. /\ permits + Cardinality(Open) = MaxActive
      /\ \A p \in Principals : counts[p] = Cardinality(Held(p)) /\ counts[p] <= MaxPrincipal
    BY DEF IInv, PermitsAccounted, Held
<1>2. /\ Open \in SUBSET Conns /\ Cardinality(Open) \in Nat
      /\ \A p \in Principals : Held(p) \in SUBSET Conns /\ Cardinality(Held(p)) \in Nat
    BY Counting DEF Open, Held
<1>3. ASSUME Open' = Open, \A p \in Principals : Held(p)' = Held(p), UNCHANGED <<permits, counts>>
      PROVE  Goal'
    BY <1>0, <1>1, <1>3 DEF PermitsAccounted, Held
<1>4. CASE Edit \/ Tick \/ AcceptFails \/ UNCHANGED vars
    <2>1. UNCHANGED <<pc, who, permits, counts>>
        BY <1>4 DEF Edit, Tick, AcceptFails, vars, connVars
    <2> QED
        BY <1>3, <2>1 DEF Open, Held
<1>5. ASSUME NEW c \in Conns, Proceeds(c) PROVE Goal'
    <2>1. Open' = Open
        <3>1. pc[c] \notin {"new", "closed"} /\ pc'[c] \notin {"new", "closed"}
            BY <1>0, <1>5 DEF Proceeds
        <3>2. \A d \in Conns : d # c => pc'[d] = pc[d]
            BY <1>0, <1>5 DEF Proceeds
        <3> QED
            BY <3>1, <3>2 DEF Open
    <2> QED
        BY <1>3, <1>5, <2>1 DEF Proceeds, Held
<1>6. ASSUME NEW c \in Conns, Accept(c) PROVE Goal'
    <2>1. c \notin Open /\ Open' = Open \cup {c} /\ who[c] \notin Principals
        BY <1>0, <1>6, NoPrincipalAssumption DEF Accept, Open, IInv, PinInv, Pinned
    <2>2. \A p \in Principals : Held(p)' = Held(p)
        BY <1>6, <2>1 DEF Accept, Held
    <2>3. Cardinality(Open') = Cardinality(Open) + 1 /\ permits > 0 /\ permits' = permits - 1
        BY <1>2, <1>6, <2>1, Counting DEF Accept
    <2> QED
        <3>1. permits' + Cardinality(Open') = MaxActive /\ permits' \in Nat
            BY <1>0, <1>1, <1>2, <2>3
        <3>2. counts' = counts /\ \A p \in Principals : counts'[p] = Cardinality(Held(p)')
            BY <1>1, <1>6, <2>2 DEF Accept
        <3> QED
            BY <1>0, <1>1, <3>1, <3>2 DEF PermitsAccounted, Held
<1>7. ASSUME NEW c \in Conns, AcceptSaturated(c) PROVE Goal'
    <2>1. Open' = Open
        BY <1>0, <1>7 DEF AcceptSaturated, Open
    <2> QED
        BY <1>3, <1>7, <2>1 DEF AcceptSaturated, Held
<1>8. ASSUME NEW c \in Conns, NEW p \in Principals, Admit(c, p) PROVE Goal'
    <2>1. Open' = Open /\ c \in Open /\ who[c] \notin Principals
        BY <1>0, <1>8, NoPrincipalAssumption DEF Admit, Goto, Open, IInv, PinInv, Pinned
    <2>2. who' = [who EXCEPT ![c] = p] /\ counts' = [counts EXCEPT ![p] = @ + 1]
        BY <1>8 DEF Admit
    <2>3. Held(p)' = Held(p) \cup {c} /\ c \notin Held(p)
        BY <1>0, <2>1, <2>2 DEF Held, Open
    <2>4. ASSUME NEW q \in Principals, q # p PROVE Held(q)' = Held(q)
        BY <1>0, <2>1, <2>2, <2>4 DEF Held, Open
    <2>5. Cardinality(Held(p)') = counts[p] + 1 /\ counts[p] + 1 <= MaxPrincipal
        BY <1>0, <1>1, <1>2, <1>8, <2>3, Counting DEF Admit
    <2>6. \A q \in Principals : counts'[q] = Cardinality(Held(q)') /\ counts'[q] <= MaxPrincipal
        BY <1>0, <1>1, <2>2, <2>4, <2>5
    <2> QED
        BY <1>0, <1>1, <1>8, <2>1, <2>2, <2>6 DEF Admit, PermitsAccounted, Held
<1>9. ASSUME NEW c \in Open, Close(c) PROVE Goal'
    <2>0. c \in Conns
        BY DEF Open
    <2>1. /\ pc' = [pc EXCEPT ![c] = "closed"] /\ who' = [who EXCEPT ![c] = NoPrincipal]
          /\ permits' = permits + 1
          /\ counts' = [p \in Principals |-> IF who[c] = p THEN counts[p] - 1 ELSE counts[p]]
        BY <1>9 DEF Close, Forget
    <2>2. Open' = Open \ {c}
        BY <1>0, <2>0, <2>1 DEF Open
    <2>3. Cardinality(Open') = Cardinality(Open) - 1
        BY <1>2, <2>2, Counting
    <2>4. ASSUME NEW p \in Principals
          PROVE  counts'[p] = Cardinality(Held(p)') /\ counts'[p] <= MaxPrincipal /\ counts'[p] \in Nat
        <3>1. CASE who[c] = p
            <4>1. Held(p)' = Held(p) \ {c} /\ c \in Held(p)
                BY <1>0, <2>0, <2>1, <2>2, <3>1, NoPrincipalAssumption DEF Held, Open
            <4>2. Cardinality(Held(p)') = Cardinality(Held(p)) - 1 /\ Cardinality(Held(p)) >= 1
                BY <1>2, <4>1, Counting
            <4> QED
                BY <1>0, <1>1, <2>1, <3>1, <4>2
        <3>2. CASE who[c] # p
            <4>1. Held(p)' = Held(p)
                BY <1>0, <2>0, <2>1, <2>2, <3>2, NoPrincipalAssumption DEF Held, Open
            <4> QED
                BY <1>0, <1>1, <2>1, <3>2, <4>1
        <3> QED
            BY <3>1, <3>2
    <2>5. counts' \in [Principals -> Nat]
        BY <2>1, <2>4
    <2>6. permits' + Cardinality(Open') = MaxActive /\ permits' \in Nat
        BY <1>0, <1>1, <1>2, <2>1, <2>3 DEF PermitsAccounted
    <2> QED
        BY <2>4, <2>5, <2>6 DEF PermitsAccounted, Held
<1>10. CASE ListenerDies
    <2>1. /\ pc' = [c \in Conns |-> IF c \in Open THEN "closed" ELSE pc[c]]
          /\ permits' = permits + Cardinality(Open)
          /\ counts' = [p \in Principals |-> counts[p] - Cardinality(Held(p))]
        BY <1>10 DEF ListenerDies, Held
    <2>2. Open' = {} /\ \A p \in Principals : Held(p)' = {}
        BY <2>1 DEF Open, Held
    <2>3. Cardinality(Open') = 0 /\ \A p \in Principals : Cardinality(Held(p)') = 0
        BY <2>2, FS_EmptySet
    <2>4. \A p \in Principals : counts'[p] = 0
        BY <1>0, <1>1, <2>1
    <2>5. permits' = MaxActive /\ counts' \in [Principals -> Nat]
        BY <1>0, <1>1, <1>2, <2>1, <2>4
    <2> QED
        BY <1>0, <2>3, <2>4, <2>5 DEF PermitsAccounted, Held
<1>11. ASSUME NEW c \in Conns, Finish(c) \/ Drop(c) PROVE Goal'
    BY <1>9, <1>11 DEF Finish, Drop, Open
<1> QED
    BY <1>4, <1>5, <1>6, <1>7, <1>8, <1>10, <1>11, ProceedsEffect DEF Next, Exchange

\* Every step assigns values of the right kind, and a connection is pinned
\* from its admission on.
LEMMA TypesStep == IInv /\ [Next]_vars => NatTypes' /\ PinInv'
<1> SUFFICES ASSUME IInv, [Next]_vars PROVE NatTypes' /\ PinInv'
    OBVIOUS
<1> DEFINE Goal == NatTypes /\ PinInv
<1>0. permits' \in Nat /\ counts' \in [Principals -> Nat]
    BY PermitsStep
<1>1. NatTypes /\ PinInv
    BY DEF IInv
<1>2. NoView \in Files
    BY BoundsAssumption DEF NoView, Files
<1> USE <1>0, <1>1, <1>2, BoundsAssumption DEF NatTypes, PinInv, Pinned, Stages, Outcomes
<1>3. CASE Edit
    BY <1>3 DEF Edit, connVars
<1>4. CASE Tick
    BY <1>4 DEF Tick, connVars
<1>5. CASE AcceptFails
    BY <1>5 DEF AcceptFails, connVars
<1>6. CASE ListenerDies
    <2>1. \A c \in Conns : pc'[c] \in {"new", "closed"}
        BY <1>6 DEF ListenerDies, Open
    <2>2. pc' \in [Conns -> Stages]
        BY <1>6, <2>1 DEF ListenerDies
    <2>3. /\ who' = [c \in Conns |-> NoPrincipal] /\ view' = [c \in Conns |-> NoView]
          /\ begun' = [c \in Conns |-> 0] /\ outcome' = [c \in Conns |-> "none"]
          /\ listener' = "dead" /\ UNCHANGED <<file, now, failures>>
        BY <1>6 DEF ListenerDies
    <2> QED
        BY <2>1, <2>2, <2>3
<1>7. ASSUME NEW c \in Conns, Accept(c) PROVE Goal'
    BY <1>7 DEF Accept
<1>8. ASSUME NEW c \in Conns, AcceptSaturated(c) PROVE Goal'
    BY <1>8 DEF AcceptSaturated
<1>9. ASSUME NEW c \in Conns, Handshake(c) PROVE Goal'
    BY <1>9 DEF Handshake, Goto
<1>10. ASSUME NEW c \in Conns, ReadPrepare(c) PROVE Goal'
    BY <1>10 DEF ReadPrepare, Goto
<1>11. ASSUME NEW c \in Conns, ReadCall(c) PROVE Goal'
    BY <1>11 DEF ReadCall, Goto
<1>12. ASSUME NEW c \in Conns, CallFails(c) PROVE Goal'
    BY <1>12 DEF CallFails, Failing
<1>13. ASSUME NEW c \in Conns, Load(c, "load", "admit") PROVE Goal'
    BY <1>13 DEF Load, Goto
<1>14. ASSUME NEW c \in Conns, Load(c, "recheck", "revalidate") PROVE Goal'
    BY <1>14 DEF Load, Goto
<1>15. ASSUME NEW c \in Conns, Load(c, "release", "final") PROVE Goal'
    BY <1>15 DEF Load, Goto
<1>16. ASSUME NEW c \in Conns, NEW p \in Principals, Admit(c, p) PROVE Goal'
    BY <1>16 DEF Admit, Goto
<1>17. ASSUME NEW c \in Conns, NEW p \in Principals, RefuseAdmission(c, p) PROVE Goal'
    BY <1>17 DEF RefuseAdmission, Failing
<1>18. ASSUME NEW c \in Conns, Revalidate(c) PROVE Goal'
    <2>1. file.version \in 0 .. MaxEdits
        BY DEF Files
    <2> QED
        BY <1>18, <2>1 DEF Revalidate, Goto
<1>19. ASSUME NEW c \in Conns, RevalidateFails(c) PROVE Goal'
    BY <1>19 DEF RevalidateFails, Failing
<1>20. ASSUME NEW c \in Conns, Release(c) PROVE Goal'
    BY <1>20 DEF Release, Goto
<1>21. ASSUME NEW c \in Conns, Finish(c) \/ Drop(c) PROVE Goal'
    <2>1. /\ pc' = [pc EXCEPT ![c] = "closed"]
          /\ who' = [who EXCEPT ![c] = NoPrincipal]
          /\ view' = [view EXCEPT ![c] = NoView]
          /\ begun' = [begun EXCEPT ![c] = 0]
          /\ outcome' = [outcome EXCEPT ![c] = "none"]
          /\ UNCHANGED <<file, now, listener, failures>>
        BY <1>21 DEF Finish, Drop, Close, Forget
    <2> QED
        BY <2>1
<1>22. CASE UNCHANGED vars
    BY <1>22 DEF vars, connVars
<1> QED
    BY <1>3, <1>4, <1>5, <1>6, <1>7, <1>8, <1>9, <1>10, <1>11, <1>12, <1>13,
        <1>14, <1>15, <1>16, <1>17, <1>18, <1>19, <1>20, <1>21, <1>22
        DEF Next, Exchange

\* A release is decided on an authority read after the result was encoded.
LEMMA ReleaseStep == IInv /\ [Next]_vars => ReadInv' /\ ReleaseIsCurrent'
<1> SUFFICES ASSUME IInv, [Next]_vars PROVE ReadInv' /\ ReleaseIsCurrent'
    OBVIOUS
<1> DEFINE Goal == ReadInv /\ ReleaseIsCurrent
<1>0. /\ file.version \in Nat /\ now \in Nat
      /\ begun \in [Conns -> Nat] /\ outcome \in [Conns -> Outcomes]
      /\ view \in [Conns -> Files] /\ who = [c \in Conns |-> who[c]]
      /\ pc = [c \in Conns |-> pc[c]]
    BY BoundsAssumption DEF IInv, NatTypes, Files
<1>1. ReadInv /\ ReleaseIsCurrent
    BY DEF IInv
<1> USE <1>0, <1>1 DEF ReadInv, ReleaseIsCurrent
<1>2. ASSUME UNCHANGED connVars, file'.version >= file.version, file'.version \in Nat PROVE Goal'
    BY <1>2 DEF connVars
<1>3. CASE Edit
    BY <1>2, <1>3, BoundsAssumption DEF Edit, Files
<1>4. CASE Tick \/ AcceptFails \/ UNCHANGED vars
    BY <1>2, <1>4 DEF Tick, AcceptFails, vars
<1>5. CASE ListenerDies
    <2>1. \A c \in Conns : pc'[c] \in {"new", "closed"}
        BY <1>5 DEF ListenerDies, Open
    <2> QED
        BY <1>5, <2>1 DEF ListenerDies
<1>6. ASSUME NEW c \in Conns, Accept(c) \/ AcceptSaturated(c) PROVE Goal'
    BY <1>6 DEF Accept, AcceptSaturated
<1>7. ASSUME NEW c \in Conns, Handshake(c) \/ ReadPrepare(c) \/ ReadCall(c) PROVE Goal'
    BY <1>7 DEF Handshake, ReadPrepare, ReadCall, Goto
<1>8. ASSUME NEW c \in Conns, Failing(c) PROVE Goal'
    BY <1>8 DEF Failing
<1>9. ASSUME NEW c \in Conns, NEW from, NEW to, from # "finish", Load(c, from, to) PROVE Goal'
    BY <1>9 DEF Load, Goto
<1>10. ASSUME NEW c \in Conns, NEW p \in Principals, Admit(c, p) PROVE Goal'
    BY <1>10 DEF Admit, Goto
<1>11. ASSUME NEW c \in Conns, Revalidate(c) PROVE Goal'
    BY <1>11 DEF Revalidate, Goto
<1>12. ASSUME NEW c \in Conns, Release(c) PROVE Goal'
    <2>1. who[c] \in Principals /\ pc[c] = "final"
        BY <1>12 DEF Release, Goto, IInv, PinInv, Pinned
    <2>2. view[c].until[who[c]] > 0
        BY <1>12, <2>1, BoundsAssumption DEF Release, Granted, Files
    <2> QED
        BY <1>12, <2>1, <2>2 DEF Release, Goto
<1>13. ASSUME NEW c \in Conns, Close(c), UNCHANGED file PROVE Goal'
    BY <1>13 DEF Close, Forget, Outcomes
<1> QED
    BY <1>3, <1>4, <1>5, <1>6, <1>7, <1>8, <1>9, <1>10, <1>11, <1>12, <1>13
        DEF Next, Exchange, CallFails, RefuseAdmission, RevalidateFails, Finish, Drop

-----------------------------------------------------------------------------
(* The theorems.                                                           *)

\* The server starts with every permit free and no connection.
LEMMA InitHolds == Init => IInv
<1> SUFFICES ASSUME Init PROVE IInv
    OBVIOUS
<1>1. NatTypes
    <2>1. NoView \in Files
        BY BoundsAssumption DEF NoView, Files
    <2> QED
        BY <2>1, BoundsAssumption DEF Init, NatTypes, Stages, Outcomes
<1>2. PinInv
    BY DEF Init, PinInv, Pinned
<1>3. PermitsAccounted
    <2>1. Open = {} /\ \A p \in Principals : Held(p) = {}
        BY DEF Init, Open, Held
    <2>2. Cardinality(Open) = 0 /\ \A p \in Principals : Cardinality(Held(p)) = 0
        BY <2>1, FS_EmptySet
    <2>3. permits = MaxActive /\ (\A p \in Principals : counts[p] = 0)
        BY DEF Init
    <2> QED
        BY <2>2, <2>3, BoundsAssumption DEF PermitsAccounted, Held
<1>4. ReadInv /\ ReleaseIsCurrent
    BY DEF Init, ReadInv, ReleaseIsCurrent
<1> QED
    BY <1>1, <1>2, <1>3, <1>4 DEF IInv

\* The inductive invariant holds in every state.
THEOREM Invariance == Spec => []IInv
<1>1. IInv /\ [Next]_vars => IInv'
    BY TypesStep, PermitsStep, ReleaseStep DEF IInv
<1> QED
    BY InitHolds, <1>1, PTL DEF Spec

\* Every variable keeps its type: the semaphores never hold more permits than
\* they were made with, and no counter goes below zero or above its limit.
THEOREM TypeCorrect == Spec => []TypeOK
<1>1. ASSUME IInv PROVE TypeOK
    <2>1. permits \in 0 .. MaxActive
        <3>1. Cardinality(Open) \in Nat
            BY Counting DEF Open
        <3>2. permits + Cardinality(Open) = MaxActive /\ permits \in Nat /\ MaxActive \in Nat
            BY <1>1, BoundsAssumption DEF IInv, NatTypes, PermitsAccounted
        <3> QED
            BY <3>1, <3>2
    <2>2. counts \in [Principals -> 0 .. MaxPrincipal]
        <3>1. counts \in [Principals -> Nat] /\ \A p \in Principals : counts[p] <= MaxPrincipal
            BY <1>1 DEF IInv, NatTypes, PermitsAccounted
        <3> QED
            BY <3>1, BoundsAssumption
    <2> QED
        BY <1>1, <2>1, <2>2 DEF IInv, NatTypes, TypeOK
<1> QED
    BY Invariance, <1>1, PTL

\* The permits of the global semaphore and of every principal are exactly
\* those of the connections that are open, whatever way connections end.
THEOREM PermitsAddUp == Spec => []PermitsAccounted
<1>1. IInv => PermitsAccounted
    BY DEF IInv
<1> QED
    BY Invariance, <1>1, PTL

\* No success is released on an authority older than the encoded result, on
\* other identities than the enrolled ones or without an enabled grant.
THEOREM ReleasedOnCurrent == Spec => []ReleaseIsCurrent
<1>1. IInv => ReleaseIsCurrent
    BY DEF IInv
<1> QED
    BY Invariance, <1>1, PTL
=============================================================================
