--------------------------- MODULE DbSourcesProofs ---------------------------
(***************************************************************************)
(* DbSources for any processes, profiles, calls and ports, and any number  *)
(* of faults.                                                              *)
(***************************************************************************)
EXTENDS DbSources, TLAPS

-----------------------------------------------------------------------------
(* The inductive invariant.                                                *)

\* The two halves of OneBuild: a call that builds holds the permit of its
\* source, which is not there yet; whoever holds a permit builds.
PermitInv == \A c \in Calls : pc[c] \in Building => builder[Src(c)] = c /\ Src(c) \notin cell
HolderInv == \A s \in Sources : builder[s] # None => pc[builder[s]] \in Building

\* A permit is held by a call on that source.
BuilderInv == \A s \in Sources : builder[s] # None => Src(builder[s]) = s

\* A process that has left has no call that runs and no source.
DeadInv ==
    /\ \A c \in Calls : ProcOf[c] \notin alive => pc[c] \in Ended
    /\ \A s \in cell : s[1] \in alive

\* A call that queries has found its source in the cell.
UserInv == \A c \in Calls : pc[c] \in {"schema", "query"} => Src(c) \in cell

\* The sources with a tunnel object are the tunnelled ones that are in their
\* cell or being built, past the opening of the tunnel.
Built(s) ==
    \/ s \in cell
    \/ builder[s] # None /\ pc[builder[s]] \in Building \ {"tunnel"}
TunnelInv == tunnels = {s \in Sources : Tunnelled(s) /\ Built(s)}

\* A master listens on the port of its source, and its source still has the
\* tunnel unless the master was left behind.
ListenInv ==
    \A n \in Ports : listener[n] # None =>
        /\ Port(listener[n]) = n
        /\ listener[n] \notin stuck => listener[n] \in tunnels

\* The port of a source with a tunnel is its own until its master ends.
OwnPortInv == \A s \in tunnels : listener[Port(s)] = s \/ s \in lost

\* Only a source that has got as far as connecting has a connection.
Connected(s) ==
    \/ s \in cell
    \/ builder[s] # None /\ pc[builder[s]] \in {"read only", "publish"}
ConnInv == \A s \in Sources : conn[s] # None => Connected(s)

BuildInv == PermitInv /\ HolderInv /\ BuilderInv /\ DeadInv /\ UserInv
MasterInv == TunnelInv /\ ListenInv /\ OwnPortInv
IInv == SourcesTypeOK /\ BuildInv /\ MasterInv /\ ConnInv /\ ThroughOwnTunnel
-----------------------------------------------------------------------------
(* What the operators of the model give.                                   *)

\* The source of a call belongs to the call's process, and the port of a
\* tunnelled source is a port.
LEMMA SourceFacts ==
    /\ \A c \in Calls : Src(c) \in Sources /\ Src(c)[1] = ProcOf[c] /\ ProcOf[c] \in Procs
    /\ \A s \in Sources : s[1] \in Procs /\ (Tunnelled(s) <=> Port(s) \in Ports)
    /\ None \notin Sources /\ None \notin Calls
<1>1. \A c \in Calls : Src(c) \in Sources /\ Src(c)[1] = ProcOf[c] /\ ProcOf[c] \in Procs
    BY SourcesAssumption DEF Src, Sources
<1>2. \A s \in Sources : s[1] \in Procs /\ s[2] \in Profiles
    BY DEF Sources
<1>3. \A s \in Sources : Tunnelled(s) <=> Port(s) \in Ports
    BY <1>2 DEF Tunnelled, Port, Ports
<1> QED
    BY <1>1, <1>2, <1>3, SourcesAssumption

\* What the end of the tunnels of `set` leaves, whether ssh -O exit works or
\* not: every master of a dropped tunnel is gone or known to be stuck, and
\* every other master is as it was or counted as lost.
Dropped(set) ==
    /\ tunnels' = tunnels \ set
    /\ conn' \in [Sources -> Connections \cup {None}]
    /\ \A s \in Sources : conn'[s] # None => conn'[s] = conn[s] /\ s \notin set
    /\ listener' \in [Ports -> Sources \cup {None}]
    /\ \A n \in Ports : listener'[n] # None =>
          /\ listener'[n] = listener[n]
          /\ listener[n] \in set \cap tunnels => listener[n] \in stuck'
    /\ \A n \in Ports : listener'[n] = listener[n] \/ listener[n] \in lost' \cup set
    /\ stuck \subseteq stuck' /\ stuck' \subseteq Sources
    /\ lost \subseteq lost' /\ lost' \subseteq Sources
    /\ faults' \in 0 .. MaxFaults

\* Severing keeps a connection as it was or ends it.
LEMMA SeverEffect ==
    ASSUME NEW set, NEW masters, SourcesTypeOK, Sever(set, masters)
    PROVE  /\ conn' \in [Sources -> Connections \cup {None}]
           /\ \A s \in Sources : conn'[s] # None => conn'[s] = conn[s] /\ s \notin set
BY DEF Sever, SourcesTypeOK

\* A fault is counted within its bound.
LEMMA FaultEffect == SourcesTypeOK /\ Fault => faults' \in 0 .. MaxFaults
BY SourcesAssumption DEF SourcesTypeOK, Fault

\* Dropping the tunnels of `set`, by Drop for SshTunnel.
LEMMA DropEffect ==
    ASSUME NEW set \in SUBSET Sources, SourcesTypeOK, ListenInv, DropTunnel(set)
    PROVE  Dropped(set)
<1>1. Reached(set) \subseteq Sources
    BY DEF Reached, SourcesTypeOK
<1>2. ASSUME NEW n \in Ports, listener[n] # None, listener[n] \in set \cap tunnels
      PROVE  listener[n] \in Reached(set)
    BY <1>2 DEF Reached, ListenInv
<1>3. CASE Close(set)
    <2>1. Sever(set, Reached(set))
        BY <1>3 DEF Close
    <2>2. \A n \in Ports : listener'[n] = IF listener[n] \in Reached(set) THEN None ELSE listener[n]
        BY <1>3 DEF Close
    <2>3. listener' \in [Ports -> Sources \cup {None}]
        BY <1>3 DEF Close, SourcesTypeOK
    <2>4. UNCHANGED <<stuck, faults>> /\ lost' = lost \cup (Reached(set) \ set) /\ tunnels' = tunnels \ set
        BY <1>3 DEF Close
    <2> QED
        BY <1>1, <1>2, <2>1, <2>2, <2>3, <2>4, SeverEffect DEF Dropped, SourcesTypeOK
<1>4. CASE CloseFails(set)
    <2>1. Sever(set, {}) /\ Fault
        BY <1>4 DEF CloseFails
    <2>2. /\ UNCHANGED <<listener, lost>> /\ tunnels' = tunnels \ set
          /\ stuck' = stuck \cup (Reached(set) \cap set)
        BY <1>4 DEF CloseFails
    <2> QED
        BY <1>1, <1>2, <2>1, <2>2, SeverEffect, FaultEffect DEF Dropped, SourcesTypeOK
<1> QED
    BY <1>3, <1>4 DEF DropTunnel

\* A master that dies by itself drops no tunnel object.
LEMMA DeathEffect ==
    ASSUME NEW n \in Ports, SourcesTypeOK, MasterDies(n)
    PROVE  Dropped({})
<1>1. Sever({}, {listener[n]}) /\ Fault
    BY DEF MasterDies
<1>2. /\ lost' = lost \cup {listener[n]} /\ UNCHANGED <<tunnels, stuck>>
      /\ listener' = [listener EXCEPT ![n] = None] /\ listener[n] # None
    BY DEF MasterDies
<1> QED
    BY <1>1, <1>2, SeverEffect, FaultEffect DEF Dropped, SourcesTypeOK

\* A kill leaves every master of the process stuck.
LEMMA KillEffect ==
    ASSUME NEW p \in Procs, SourcesTypeOK, Kill(p)
    PROVE  Dropped({s \in Sources : s[1] = p})
<1>1. Sever({s \in Sources : s[1] = p}, {}) /\ Fault
    BY DEF Kill
<1>2. /\ tunnels' = {s \in tunnels : s[1] # p} /\ UNCHANGED <<listener, lost>>
      /\ stuck' = stuck \cup {s \in tunnels : s[1] = p}
    BY DEF Kill
<1>3. tunnels' = tunnels \ {s \in Sources : s[1] = p}
    BY <1>2 DEF SourcesTypeOK
<1> QED
    BY <1>1, <1>2, <1>3, SeverEffect, FaultEffect DEF Dropped, SourcesTypeOK

-----------------------------------------------------------------------------
(* Every step preserves each part.                                         *)

\* Every step assigns values of the right kind.
LEMMA TypesStep == IInv /\ [Next]_vars => SourcesTypeOK'
<1> SUFFICES ASSUME IInv, [Next]_vars PROVE SourcesTypeOK'
    OBVIOUS
<1> USE SourceFacts DEF IInv, SourcesTypeOK, Building, Ended, Goto
<1>1. ASSUME NEW c \in Calls, Use(c) PROVE SourcesTypeOK'
    BY <1>1 DEF Use, machine
<1>2. ASSUME NEW c \in Calls, Get(c) PROVE SourcesTypeOK'
    BY <1>2 DEF Get, machine
<1>3. ASSUME NEW c \in Calls, OpenTunnel(c) PROVE SourcesTypeOK'
    <2>1. CASE Tunnelled(Src(c))
        <3>1. Port(Src(c)) \in Ports
            BY <2>1
        <3>2. /\ listener' = [listener EXCEPT ![Port(Src(c))] = Src(c)]
              /\ tunnels' = tunnels \cup {Src(c)}
              /\ stuck' = stuck \ {Src(c)} /\ lost' = lost \ {Src(c)}
            BY <1>3, <2>1 DEF OpenTunnel
        <3> QED
            BY <1>3, <3>1, <3>2 DEF OpenTunnel
    <2>2. CASE ~Tunnelled(Src(c))
        BY <1>3, <2>2 DEF OpenTunnel, machine
    <2> QED
        BY <2>1, <2>2
<1>4. ASSUME NEW c \in Calls, TunnelFails(c) PROVE SourcesTypeOK'
    BY <1>4 DEF TunnelFails, machine
<1>5. ASSUME NEW c \in Calls, ResolvePassword(c) PROVE SourcesTypeOK'
    BY <1>5 DEF ResolvePassword, machine
<1>6. \A s \in Sources : Far(s) # None => Far(s) \in Sources
    BY DEF Far
<1>7. ASSUME NEW c \in Calls, Connect(c) PROVE SourcesTypeOK'
    <2>1. [readonly |-> FALSE, via |-> Far(Src(c))] \in Connections
        BY <1>6, <1>7 DEF Connect, Connections
    <2> QED
        BY <1>7, <2>1 DEF Connect, machine
<1>8. ASSUME NEW c \in Calls, NEW b \in BOOLEAN, OnPool(c, b)
      PROVE  conn' \in [Sources -> Connections \cup {None}]
    <2>1. conn[Src(c)] = None => [readonly |-> b, via |-> Far(Src(c))] \in Connections
        BY <1>6, <1>8 DEF OnPool, Connections
    <2>2. conn[Src(c)] # None =>
            [readonly |-> conn[Src(c)].readonly \/ b, via |-> conn[Src(c)].via] \in Connections
        BY <1>8 DEF Connections
    <2> QED
        BY <1>8, <2>1, <2>2 DEF OnPool
<1>9. ASSUME NEW c \in Calls, SetReadOnly(c) PROVE SourcesTypeOK'
    BY <1>8, <1>9 DEF SetReadOnly, machine
<1>10. ASSUME NEW c \in Calls, Publish(c) PROVE SourcesTypeOK'
    BY <1>10 DEF Publish, machine
<1>11. ASSUME NEW c \in Calls, BuildFails(c) PROVE SourcesTypeOK'
    <2>1. Dropped({Src(c)})
        BY <1>11, DropEffect DEF BuildFails, MasterInv
    <2> QED
        BY <1>11, <2>1 DEF BuildFails, Dropped
<1>12. ASSUME NEW c \in Calls, ReadSchema(c) PROVE SourcesTypeOK'
    BY <1>8, <1>12 DEF ReadSchema, machine
<1>13. ASSUME NEW c \in Calls, RunQuery(c) PROVE SourcesTypeOK'
    BY <1>8, <1>13 DEF RunQuery, machine
<1>14. ASSUME NEW c \in Calls, CallFails(c) PROVE SourcesTypeOK'
    BY <1>14 DEF CallFails, machine
<1>15. ASSUME NEW c \in Calls, Timeout(c) PROVE SourcesTypeOK'
    <2>1. CASE builder[Src(c)] = c
        <3>1. Dropped({Src(c)})
            BY <1>15, <2>1, DropEffect DEF Timeout, MasterInv
        <3>2. builder' = [builder EXCEPT ![Src(c)] = None] /\ pc' = [pc EXCEPT ![c] = "timeout"]
            BY <1>15, <2>1 DEF Timeout
        <3> QED
            BY <1>15, <3>1, <3>2 DEF Timeout, Dropped
    <2>2. CASE builder[Src(c)] # c
        BY <1>15, <2>2 DEF Timeout, machine
    <2> QED
        BY <2>1, <2>2
<1>16. ASSUME NEW s \in Sources, ConnectionEnds(s) PROVE SourcesTypeOK'
    BY <1>16, FaultEffect DEF ConnectionEnds, machine
<1>17. ASSUME NEW n \in Ports, MasterDies(n) PROVE SourcesTypeOK'
    BY <1>17, DeathEffect DEF MasterDies, Dropped
<1>18. ASSUME NEW p \in Procs, Shutdown(p) PROVE SourcesTypeOK'
    <2>1. Dropped({s \in Sources : s[1] = p})
        BY <1>18, DropEffect DEF Shutdown, MasterInv
    <2> QED
        BY <1>18, <2>1 DEF Shutdown, Leave, Dropped
<1>19. ASSUME NEW p \in Procs, Kill(p) PROVE SourcesTypeOK'
    BY <1>19, KillEffect DEF Kill, Leave, Dropped
<1>20. CASE UNCHANGED vars
    BY <1>20 DEF vars, machine
<1> QED
    BY <1>1, <1>2, <1>3, <1>4, <1>5, <1>7, <1>9, <1>10, <1>11, <1>12, <1>13,
        <1>14, <1>15, <1>16, <1>17, <1>18, <1>19, <1>20 DEF Next

-----------------------------------------------------------------------------
(* What a step does to the cells, the permits and the calls.               *)

\* The call that builds goes on.
Advances(c) ==
    /\ pc[c] \in Building
    /\ \E w \in Building \ {"tunnel"} : pc' = [pc EXCEPT ![c] = w]
    /\ UNCHANGED <<alive, cell, builder>>

\* The call that builds ends and gives the permit back.
Abandons(c) ==
    /\ pc[c] \in Building
    /\ \E w \in Ended : pc' = [pc EXCEPT ![c] = w]
    /\ builder' = [builder EXCEPT ![Src(c)] = None]
    /\ UNCHANGED <<alive, cell>>

\* A call that does not build goes on, with a source from the cell, or ends.
Serves(c) ==
    /\ pc[c] \in {"get", "schema", "query"}
    /\ \E w \in Ended \cup {"schema", "query"} :
         pc' = [pc EXCEPT ![c] = w] /\ (w \notin Ended => Src(c) \in cell)
    /\ UNCHANGED <<alive, cell, builder>>

\* Every step of a call is one of these, takes a permit or publishes.
LEMMA CallStep ==
    ASSUME NEW c \in Calls, BuildInv
    PROVE  /\ OpenTunnel(c) \/ ResolvePassword(c) \/ Connect(c) \/ SetReadOnly(c) => Advances(c)
           /\ TunnelFails(c) \/ BuildFails(c) => Abandons(c)
           /\ Use(c) \/ ReadSchema(c) \/ RunQuery(c) \/ CallFails(c) => Serves(c)
           /\ Timeout(c) => IF builder[Src(c)] = c THEN Abandons(c) ELSE Serves(c)
<1> USE DEF Goto
<1>1. OpenTunnel(c) \/ ResolvePassword(c) \/ Connect(c) \/ SetReadOnly(c) => Advances(c)
    BY DEF OpenTunnel, ResolvePassword, Connect, SetReadOnly, Advances, Building
<1>2. TunnelFails(c) \/ BuildFails(c) => Abandons(c)
    BY DEF TunnelFails, BuildFails, Abandons, Building, Ended
<1>3. Use(c) \/ ReadSchema(c) \/ RunQuery(c) \/ CallFails(c) => Serves(c)
    BY DEF Use, ReadSchema, RunQuery, CallFails, Serves, Ended, BuildInv, UserInv
<1>4. ASSUME Timeout(c) PROVE IF builder[Src(c)] = c THEN Abandons(c) ELSE Serves(c)
    <2>1. CASE builder[Src(c)] = c
        <3>1. pc[c] \in Building
            BY <2>1, SourceFacts DEF BuildInv, HolderInv
        <3> QED
            BY <1>4, <2>1, <3>1 DEF Timeout, Abandons, Ended
    <2>2. CASE builder[Src(c)] # c
        <3>1. pc[c] \notin Building
            BY <2>2 DEF BuildInv, PermitInv
        <3> QED
            BY <1>4, <2>2, <3>1 DEF Timeout, Serves, Building, Ended
    <2> QED
        BY <2>1, <2>2
<1> QED
    BY <1>1, <1>2, <1>3, <1>4

\* A source is built by the one call that holds its permit, and what runs
\* runs in a process that is alive.  None of this depends on the tunnels.
LEMMA BuildStep == IInv /\ [Next]_vars => BuildInv'
<1> SUFFICES ASSUME IInv, [Next]_vars PROVE BuildInv'
    OBVIOUS
<1>0. builder \in [Sources -> Calls \cup {None}] /\ pc = [c \in Calls |-> pc[c]] /\ BuildInv
    BY DEF IInv, SourcesTypeOK
<1> USE <1>0, SourceFacts DEF BuildInv, Building, Ended
<1>1. ASSUME NEW c \in Calls, Get(c) PROVE BuildInv'
    <2> USE <1>1 DEF Get, Goto
    <2>1. PermitInv'
        BY DEF PermitInv
    <2>2. HolderInv'
        BY DEF HolderInv
    <2>3. BuilderInv' /\ DeadInv' /\ UserInv'
        BY DEF BuilderInv, DeadInv, UserInv
    <2> QED
        BY <2>1, <2>2, <2>3
<1>2. ASSUME NEW c \in Calls, Advances(c) PROVE BuildInv'
    <2> USE <1>2 DEF Advances
    <2>1. PermitInv'
        BY DEF PermitInv
    <2>2. HolderInv'
        BY DEF HolderInv
    <2>3. BuilderInv' /\ DeadInv' /\ UserInv'
        BY DEF BuilderInv, DeadInv, UserInv
    <2> QED
        BY <2>1, <2>2, <2>3
<1>3. ASSUME NEW c \in Calls, Abandons(c) PROVE BuildInv'
    <2> USE <1>3 DEF Abandons
    <2>1. PermitInv'
        <3> SUFFICES ASSUME NEW d \in Calls, pc'[d] \in Building
                     PROVE  builder'[Src(d)] = d /\ Src(d) \notin cell'
            BY DEF PermitInv
        <3>1. d # c /\ pc[d] \in Building
            OBVIOUS
        <3> QED
            BY <3>1 DEF PermitInv
    <2>2. HolderInv'
        <3>1. \A s \in Sources : s # Src(c) => builder[s] # c
            BY DEF BuilderInv
        <3> QED
            BY <3>1 DEF HolderInv
    <2>3. BuilderInv' /\ DeadInv' /\ UserInv'
        BY DEF BuilderInv, DeadInv, UserInv
    <2> QED
        BY <2>1, <2>2, <2>3
<1>4. ASSUME NEW c \in Calls, Serves(c) PROVE BuildInv'
    <2> USE <1>4 DEF Serves
    <2>1. PermitInv'
        BY DEF PermitInv
    <2>2. HolderInv'
        BY DEF HolderInv
    <2>3. BuilderInv' /\ DeadInv' /\ UserInv'
        BY DEF BuilderInv, DeadInv, UserInv
    <2> QED
        BY <2>1, <2>2, <2>3
<1>5. ASSUME NEW c \in Calls, Publish(c) PROVE BuildInv'
    <2> USE <1>5 DEF Publish, Goto
    <2>1. PermitInv'
        BY DEF PermitInv
    <2>2. HolderInv'
        <3>1. \A s \in Sources : s # Src(c) => builder[s] # c
            BY DEF BuilderInv
        <3> QED
            BY <3>1 DEF HolderInv
    <2>3. BuilderInv' /\ DeadInv' /\ UserInv'
        BY DEF BuilderInv, DeadInv, UserInv
    <2> QED
        BY <2>1, <2>2, <2>3
<1>6. ASSUME NEW p \in Procs, Leave(p) PROVE BuildInv'
    <2> USE <1>6 DEF Leave
    <2>1. PermitInv'
        BY DEF PermitInv
    <2>2. HolderInv'
        BY DEF HolderInv, BuilderInv
    <2>3. BuilderInv' /\ DeadInv' /\ UserInv'
        BY DEF BuilderInv, DeadInv, UserInv
    <2> QED
        BY <2>1, <2>2, <2>3
<1>7. CASE UNCHANGED <<alive, cell, builder, pc>>
    BY <1>7 DEF PermitInv, HolderInv, BuilderInv, DeadInv, UserInv
<1> QED
    BY <1>1, <1>2, <1>3, <1>4, <1>5, <1>6, <1>7, CallStep DEF Next, vars,
        ConnectionEnds, MasterDies, Shutdown, Kill

\* Which sources a step adds to those that are built, or past connecting,
\* and which it takes away.
LEMMA BuiltEffect ==
    ASSUME IInv
    PROVE  /\ \A c \in Calls : Get(c) \/ Serves(c) \/ Publish(c) =>
                \A s \in Sources : (Built(s)' <=> Built(s)) /\ (Connected(s)' <=> Connected(s))
           /\ \A c \in Calls : Advances(c) =>
                \A s \in Sources : /\ Built(s)' <=> Built(s) \/ s = Src(c)
                                   /\ s # Src(c) => (Connected(s)' <=> Connected(s))
           /\ \A c \in Calls : Abandons(c) =>
                \A s \in Sources : /\ Built(s)' <=> Built(s) /\ s # Src(c)
                                   /\ s # Src(c) => (Connected(s)' <=> Connected(s))
           /\ \A p \in Procs : Leave(p) =>
                \A s \in Sources : /\ Built(s)' <=> Built(s) /\ s[1] # p
                                   /\ s[1] # p => (Connected(s)' <=> Connected(s))
<1>0. builder \in [Sources -> Calls \cup {None}] /\ pc = [c \in Calls |-> pc[c]] /\ BuildInv
    BY DEF IInv, SourcesTypeOK
<1>1. \A c \in Calls : pc[c] \in Building => \A s \in Sources : builder[s] = c <=> s = Src(c)
    BY <1>0, SourceFacts DEF BuildInv, BuilderInv, PermitInv
<1>2. \A c \in Calls : pc[c] \notin Building => \A s \in Sources : builder[s] # c
    BY <1>0, SourceFacts DEF BuildInv, HolderInv
<1> USE <1>0, SourceFacts DEF Built, Connected
<1>3. ASSUME NEW c \in Calls, Get(c) \/ Serves(c) \/ Publish(c), NEW s \in Sources
      PROVE  (Built(s)' <=> Built(s)) /\ (Connected(s)' <=> Connected(s))
    <2>1. CASE Get(c)
        <3>1. pc[c] \notin Building /\ builder[s] # c
            BY <1>2, <2>1 DEF Get, Building
        <3> QED
            BY <2>1, <3>1 DEF Get, Goto, Building
    <2>2. CASE Serves(c)
        <3>1. pc[c] \notin Building /\ builder[s] # c
            BY <1>2, <2>2 DEF Serves, Building
        <3> QED
            BY <2>2, <3>1 DEF Serves, Building
    <2>3. CASE Publish(c)
        <3>1. builder[s] = c <=> s = Src(c)
            BY <1>1, <2>3 DEF Publish, Building
        <3>2. CASE s = Src(c)
            BY <2>3, <3>1, <3>2 DEF Publish, Building
        <3>3. CASE s # Src(c)
            BY <2>3, <3>1, <3>3 DEF Publish, Goto, Building
        <3> QED
            BY <3>2, <3>3
    <2> QED
        BY <1>3, <2>1, <2>2, <2>3
<1>4. ASSUME NEW c \in Calls, Advances(c), NEW s \in Sources
      PROVE  /\ Built(s)' <=> Built(s) \/ s = Src(c)
             /\ s # Src(c) => (Connected(s)' <=> Connected(s))
    <2>1. cell' = cell /\ builder' = builder
        BY <1>4 DEF Advances
    <2>2. CASE s = Src(c)
        <3>1. builder[s] = c /\ pc'[c] \in Building \ {"tunnel"}
            BY <1>1, <1>4, <2>2 DEF Advances
        <3> QED
            BY <2>1, <2>2, <3>1
    <2>3. CASE s # Src(c)
        <3>1. builder[s] # None => pc'[builder[s]] = pc[builder[s]]
            BY <1>1, <1>4, <2>3 DEF Advances
        <3> QED
            BY <2>1, <2>3, <3>1
    <2> QED
        BY <2>2, <2>3
<1>5. ASSUME NEW c \in Calls, Abandons(c), NEW s \in Sources
      PROVE  /\ Built(s)' <=> Built(s) /\ s # Src(c)
             /\ s # Src(c) => (Connected(s)' <=> Connected(s))
    <2>1. CASE s = Src(c)
        <3>1. s \notin cell' /\ builder'[s] = None
            BY <1>5, <2>1 DEF Abandons, BuildInv, PermitInv
        <3> QED
            BY <2>1, <3>1
    <2>2. CASE s # Src(c)
        <3>1. cell' = cell /\ builder'[s] = builder[s]
            BY <1>5, <2>2 DEF Abandons
        <3>2. builder[s] # None => pc'[builder[s]] = pc[builder[s]]
            BY <1>1, <1>5, <2>2 DEF Abandons
        <3> QED
            BY <2>2, <3>1, <3>2
    <2> QED
        BY <2>1, <2>2
<1>6. ASSUME NEW p \in Procs, Leave(p), NEW s \in Sources
      PROVE  /\ Built(s)' <=> Built(s) /\ s[1] # p
             /\ s[1] # p => (Connected(s)' <=> Connected(s))
    <2>1. CASE s[1] = p
        BY <1>6, <2>1 DEF Leave
    <2>2. CASE s[1] # p
        <3>1. (s \in cell' <=> s \in cell) /\ builder'[s] = builder[s]
            BY <1>6, <2>2 DEF Leave
        <3>2. builder[s] # None => ProcOf[builder[s]] # p
            BY <2>2 DEF BuildInv, BuilderInv
        <3>3. builder[s] # None => pc'[builder[s]] = pc[builder[s]]
            BY <1>6, <3>2 DEF Leave
        <3> QED
            BY <2>2, <3>1, <3>3
    <2> QED
        BY <2>1, <2>2
<1> QED
    BY <1>3, <1>4, <1>5, <1>6

\* Ending tunnels together with their sources, or masters by themselves,
\* keeps what is known of tunnels, masters and connections.
LEMMA DropPreserves ==
    ASSUME NEW set \in SUBSET Sources, IInv, Dropped(set),
           \A s \in Sources : Built(s)' <=> Built(s) /\ s \notin set,
           \A s \in Sources \ set : Connected(s)' <=> Connected(s)
    PROVE  MasterInv' /\ ConnInv' /\ ThroughOwnTunnel'
<1> USE SourceFacts DEF IInv, MasterInv
<1>1. TunnelInv'
    BY DEF TunnelInv, Dropped
<1>2. ListenInv'
    BY DEF ListenInv, Dropped, SourcesTypeOK
<1>3. OwnPortInv'
    <2> SUFFICES ASSUME NEW s \in tunnels \ set PROVE listener'[Port(s)] = s \/ s \in lost'
        BY DEF OwnPortInv, Dropped
    <2>1. Port(s) \in Ports
        BY DEF TunnelInv
    <2> QED
        BY <2>1 DEF OwnPortInv, Dropped
<1>4. ConnInv'
    BY DEF ConnInv, Dropped
<1>5. ThroughOwnTunnel'
    BY DEF ThroughOwnTunnel, Dropped
<1> QED
    BY <1>1, <1>2, <1>3, <1>4, <1>5

\* A source that is past connecting reaches its own database, or its master
\* has ended.
LEMMA FarIsOwn ==
    ASSUME IInv, NEW s \in Sources, Built(s), Far(s) # None
    PROVE  Far(s) = s \/ s \in lost
BY DEF Far, IInv, MasterInv, TunnelInv, OwnPortInv

\* A statement on the pool of a source that is built goes to its own database.
LEMMA PoolEffect ==
    ASSUME IInv, NEW c \in Calls, NEW b \in BOOLEAN, OnPool(c, b), Built(Src(c)), lost' = lost
    PROVE  /\ ThroughOwnTunnel'
           /\ \A s \in Sources : s # Src(c) => conn'[s] = conn[s]
<1>1. \A s \in Sources : s # Src(c) => conn'[s] = conn[s]
    BY SourceFacts DEF OnPool, IInv, SourcesTypeOK
<1>2. conn'[Src(c)] # None => conn'[Src(c)].via = Src(c) \/ Src(c) \in lost
    <2>1. CASE conn[Src(c)] = None
        <3>1. Far(Src(c)) # None /\ conn'[Src(c)] = [readonly |-> b, via |-> Far(Src(c))]
            BY <2>1, SourceFacts DEF OnPool, IInv, SourcesTypeOK
        <3> QED
            BY <3>1, FarIsOwn, SourceFacts
    <2>2. CASE conn[Src(c)] # None
        <3>1. conn'[Src(c)].via = conn[Src(c)].via
            BY <2>2, SourceFacts DEF OnPool, IInv, SourcesTypeOK
        <3> QED
            BY <2>2, <3>1, SourceFacts DEF IInv, ThroughOwnTunnel
    <2> QED
        BY <2>1, <2>2
<1> QED
    BY <1>1, <1>2 DEF IInv, ThroughOwnTunnel

\* A step that leaves the tunnels, the masters and the connections of other
\* sources alone, and builds and ends nothing.
LEMMA QuietPreserves ==
    ASSUME IInv, UNCHANGED <<tunnels, machine>>,
           \A s \in Sources : Built(s)' <=> Built(s),
           \A s \in Sources : Connected(s) => Connected(s)',
           \A s \in Sources : conn'[s] = conn[s] \/ Connected(s)'
    PROVE  MasterInv' /\ ConnInv'
<1>1. TunnelInv'
    BY DEF IInv, MasterInv, TunnelInv
<1>2. ListenInv' /\ OwnPortInv'
    BY DEF IInv, MasterInv, ListenInv, OwnPortInv, machine
<1>3. ConnInv'
    BY DEF IInv, ConnInv
<1> QED
    BY <1>1, <1>2, <1>3 DEF MasterInv

\* Tunnels and masters stay matched, and every connection goes through the
\* tunnel of its own source.
LEMMA MasterStep == IInv /\ [Next]_vars => MasterInv' /\ ConnInv' /\ ThroughOwnTunnel'
<1> SUFFICES ASSUME IInv, [Next]_vars PROVE MasterInv' /\ ConnInv' /\ ThroughOwnTunnel'
    OBVIOUS
<1> DEFINE Goal == MasterInv /\ ConnInv /\ ThroughOwnTunnel
<1>0. BuildInv /\ MasterInv /\ ConnInv /\ ThroughOwnTunnel /\ SourcesTypeOK
    BY DEF IInv
<1>a. \A c \in Calls : pc[c] \in Building \ {"tunnel"} => Built(Src(c))
    BY <1>0, SourcesAssumption DEF BuildInv, PermitInv, Built, Building
<1>b. \A c \in Calls : pc[c] = "tunnel" => ~Built(Src(c))
    BY <1>0 DEF BuildInv, PermitInv, Built, Building
<1>c. \A c \in Calls : pc[c] \in {"tunnel", "password", "connect"} => ~Connected(Src(c))
    BY <1>0 DEF BuildInv, PermitInv, Connected, Building
<1>d. \A c \in Calls : pc[c] \in {"schema", "query"} => Built(Src(c)) /\ Connected(Src(c))
    BY <1>0 DEF BuildInv, UserInv, Built, Connected
<1>e. ASSUME NEW c \in Calls, Serves(c) \/ Get(c) \/ Publish(c),
             UNCHANGED <<tunnels, machine, conn>>
      PROVE  Goal'
    BY <1>0, <1>e, BuiltEffect, QuietPreserves DEF ThroughOwnTunnel, machine
<1>1. ASSUME NEW c \in Calls, Use(c) \/ CallFails(c) PROVE Goal'
    BY <1>0, <1>1, <1>e, CallStep DEF Use, CallFails
<1>2. ASSUME NEW c \in Calls, Get(c) PROVE Goal'
    BY <1>2, <1>e DEF Get
<1>3. ASSUME NEW c \in Calls, Publish(c) PROVE Goal'
    BY <1>3, <1>e DEF Publish
<1>4. ASSUME NEW c \in Calls, TunnelFails(c) PROVE Goal'
    <2>1. \A s \in Sources : (Built(s)' <=> Built(s)) /\ (Connected(s) => Connected(s)')
        BY <1>0, <1>4, <1>b, <1>c, CallStep, BuiltEffect DEF TunnelFails
    <2> QED
        BY <1>0, <1>4, <2>1, QuietPreserves DEF TunnelFails, ThroughOwnTunnel, machine
<1>5. ASSUME NEW c \in Calls, ResolvePassword(c) PROVE Goal'
    <2>1. pc[c] = "password" /\ UNCHANGED <<tunnels, machine, conn>>
        BY <1>5 DEF ResolvePassword
    <2>2. \A s \in Sources : (Built(s)' <=> Built(s)) /\ (Connected(s) => Connected(s)')
        BY <1>0, <1>5, <2>1, <1>a, <1>c, CallStep, BuiltEffect DEF Building
    <2> QED
        BY <1>0, <2>1, <2>2, QuietPreserves DEF ThroughOwnTunnel, machine
<1>6. ASSUME NEW c \in Calls, Connect(c) PROVE Goal'
    <2>1. pc[c] = "connect" /\ UNCHANGED <<tunnels, machine, builder, cell>> /\ Far(Src(c)) # None
        BY <1>6 DEF Connect
    <2>2. Built(Src(c)) /\ ~Connected(Src(c)) /\ pc[c] \in Building
        BY <2>1, <1>a, <1>c DEF Building
    <2>3. \A s \in Sources : (Built(s)' <=> Built(s)) /\ (Connected(s) => Connected(s)')
        BY <1>0, <1>6, <2>2, CallStep, BuiltEffect
    <2>4. Connected(Src(c))'
        <3>1. builder[Src(c)] = c /\ pc'[c] = "read only"
            BY <1>0, <1>6, <2>2 DEF BuildInv, PermitInv, Connect, Goto, SourcesTypeOK
        <3> QED
            BY <2>1, <3>1, SourceFacts DEF Connected
    <2>5. conn' = [conn EXCEPT ![Src(c)] = [readonly |-> FALSE, via |-> Far(Src(c))]]
        BY <1>6 DEF Connect
    <2>6. MasterInv' /\ ConnInv'
        BY <1>0, <2>1, <2>3, <2>4, <2>5, QuietPreserves DEF SourcesTypeOK
    <2>7. ThroughOwnTunnel'
        <3>1. Far(Src(c)) = Src(c) \/ Src(c) \in lost
            BY <2>1, <2>2, FarIsOwn, SourceFacts
        <3> QED
            BY <1>0, <2>1, <2>5, <3>1, SourceFacts DEF ThroughOwnTunnel, SourcesTypeOK, machine
    <2> QED
        BY <2>6, <2>7
<1>7. ASSUME NEW c \in Calls, SetReadOnly(c) PROVE Goal'
    <2>1. pc[c] = "read only" /\ UNCHANGED <<tunnels, machine, builder, cell>> /\ OnPool(c, TRUE)
        BY <1>7 DEF SetReadOnly
    <2>2. Built(Src(c)) /\ pc[c] \in Building
        BY <2>1, <1>a DEF Building
    <2>3. Connected(Src(c))'
        <3>1. builder[Src(c)] = c /\ pc'[c] = "publish"
            BY <1>0, <1>7, <2>2 DEF BuildInv, PermitInv, SetReadOnly, Goto, SourcesTypeOK
        <3> QED
            BY <2>1, <3>1, SourceFacts DEF Connected
    <2>4. \A s \in Sources : (Built(s)' <=> Built(s)) /\ (Connected(s) => Connected(s)')
        BY <1>0, <1>7, <2>2, <2>3, CallStep, BuiltEffect
    <2>5. ThroughOwnTunnel' /\ \A s \in Sources : s # Src(c) => conn'[s] = conn[s]
        BY <2>1, <2>2, PoolEffect DEF machine
    <2> QED
        BY <2>1, <2>3, <2>4, <2>5, QuietPreserves
<1>8. ASSUME NEW c \in Calls, ReadSchema(c) \/ RunQuery(c) PROVE Goal'
    <2>1. pc[c] \in {"schema", "query"} /\ UNCHANGED <<tunnels, machine>> /\ OnPool(c, FALSE)
        BY <1>8 DEF ReadSchema, RunQuery
    <2>2. Built(Src(c)) /\ Connected(Src(c))
        BY <2>1, <1>d
    <2>3. \A s \in Sources : (Built(s)' <=> Built(s)) /\ (Connected(s)' <=> Connected(s))
        BY <1>0, <1>8, CallStep, BuiltEffect
    <2>4. ThroughOwnTunnel' /\ \A s \in Sources : s # Src(c) => conn'[s] = conn[s]
        BY <2>1, <2>2, PoolEffect DEF machine
    <2> QED
        BY <2>1, <2>2, <2>3, <2>4, QuietPreserves
<1>9. ASSUME NEW c \in Calls, OpenTunnel(c) PROVE Goal'
    <2>0. pc[c] = "tunnel" /\ conn' = conn /\ Src(c) \in Sources
        BY <1>9, SourceFacts DEF OpenTunnel
    <2>1. \A s \in Sources : /\ Built(s)' <=> Built(s) \/ s = Src(c)
                             /\ Connected(s) => Connected(s)'
        BY <1>0, <1>9, <2>0, <1>c, CallStep, BuiltEffect
    <2>2. ConnInv'
        BY <1>0, <2>0, <2>1 DEF ConnInv
    <2>3. CASE Tunnelled(Src(c))
        <3>1. /\ listener[Port(Src(c))] = None
              /\ listener' = [listener EXCEPT ![Port(Src(c))] = Src(c)]
              /\ tunnels' = tunnels \cup {Src(c)}
              /\ stuck' = stuck \ {Src(c)} /\ lost' = lost \ {Src(c)}
            BY <1>9, <2>3 DEF OpenTunnel
        <3>2. Port(Src(c)) \in Ports
            BY <2>0, <2>3, SourceFacts
        <3>3. TunnelInv'
            BY <1>0, <2>0, <2>1, <2>3, <3>1 DEF MasterInv, TunnelInv
        <3>4. ListenInv'
            BY <1>0, <2>0, <3>1, <3>2, SourceFacts DEF MasterInv, ListenInv, SourcesTypeOK
        <3>5. OwnPortInv'
            <4> SUFFICES ASSUME NEW s \in tunnels, s # Src(c)
                         PROVE  listener'[Port(s)] = s \/ s \in lost'
                BY <1>0, <3>1, <3>2 DEF OwnPortInv, SourcesTypeOK
            <4>1. Port(s) \in Ports /\ s \in Sources
                BY <1>0, SourceFacts DEF MasterInv, TunnelInv
            <4>2. listener[Port(s)] = s \/ s \in lost
                BY <1>0 DEF MasterInv, OwnPortInv
            <4> QED
                BY <1>0, <3>1, <4>1, <4>2, SourceFacts DEF SourcesTypeOK
        <3>6. conn[Src(c)] = None
            BY <1>0, <1>c, <2>0 DEF ConnInv
        <3>7. ThroughOwnTunnel'
            BY <1>0, <2>0, <3>1, <3>6 DEF ThroughOwnTunnel
        <3> QED
            BY <2>2, <3>3, <3>4, <3>5, <3>7 DEF MasterInv
    <2>4. CASE ~Tunnelled(Src(c))
        <3>1. UNCHANGED <<tunnels, machine>>
            BY <1>9, <2>4 DEF OpenTunnel
        <3>2. TunnelInv'
            BY <1>0, <2>1, <2>4, <3>1 DEF MasterInv, TunnelInv
        <3>3. ListenInv' /\ OwnPortInv' /\ ThroughOwnTunnel'
            BY <1>0, <2>0, <3>1 DEF MasterInv, ListenInv, OwnPortInv, ThroughOwnTunnel, machine
        <3> QED
            BY <2>2, <3>2, <3>3 DEF MasterInv
    <2> QED
        BY <2>3, <2>4
<1>10. ASSUME NEW c \in Calls, Abandons(c), DropTunnel({Src(c)}) PROVE Goal'
    <2>1. Src(c) \in Sources
        BY SourceFacts
    <2>2. Dropped({Src(c)})
        BY <1>0, <1>10, <2>1, DropEffect DEF MasterInv
    <2> QED
        BY <1>10, <2>1, <2>2, BuiltEffect, DropPreserves
<1>11. ASSUME NEW c \in Calls, BuildFails(c) PROVE Goal'
    BY <1>0, <1>10, <1>11, CallStep DEF BuildFails
<1>12. ASSUME NEW c \in Calls, Timeout(c) PROVE Goal'
    <2>1. CASE builder[Src(c)] = c
        BY <1>0, <1>10, <1>12, <2>1, CallStep DEF Timeout
    <2>2. CASE builder[Src(c)] # c
        BY <1>0, <1>e, <1>12, <2>2, CallStep DEF Timeout
    <2> QED
        BY <2>1, <2>2
<1>13. ASSUME NEW s \in Sources, ConnectionEnds(s) PROVE Goal'
    <2>1. UNCHANGED <<tunnels, machine, builder, cell, pc>> /\ conn' = [conn EXCEPT ![s] = None]
        BY <1>13 DEF ConnectionEnds
    <2>2. MasterInv'
        BY <1>0, <2>1 DEF MasterInv, TunnelInv, Built, ListenInv, OwnPortInv, machine
    <2>3. ConnInv'
        BY <1>0, <2>1 DEF ConnInv, Connected, SourcesTypeOK
    <2>4. ThroughOwnTunnel'
        BY <1>0, <2>1 DEF ThroughOwnTunnel, SourcesTypeOK, machine
    <2> QED
        BY <2>2, <2>3, <2>4
<1>14. ASSUME NEW n \in Ports, MasterDies(n) PROVE Goal'
    <2>1. \A s \in Sources : (Built(s)' <=> Built(s)) /\ (Connected(s)' <=> Connected(s))
        BY <1>14 DEF MasterDies, Built, Connected
    <2>2. Dropped({})
        BY <1>0, <1>14, DeathEffect
    <2> QED
        BY <2>1, <2>2, DropPreserves
<1>15. ASSUME NEW p \in Procs, Leave(p), Dropped({s \in Sources : s[1] = p}) PROVE Goal'
    BY <1>15, BuiltEffect, DropPreserves
<1>16. ASSUME NEW p \in Procs, Shutdown(p) PROVE Goal'
    <2>1. Dropped({s \in Sources : s[1] = p})
        BY <1>0, <1>16, DropEffect DEF Shutdown, MasterInv
    <2> QED
        BY <1>15, <1>16, <2>1 DEF Shutdown
<1>17. ASSUME NEW p \in Procs, Kill(p) PROVE Goal'
    BY <1>0, <1>15, <1>17, KillEffect DEF Kill
<1>18. CASE UNCHANGED vars
    BY <1>0, <1>18 DEF vars, machine, MasterInv, TunnelInv, Built, ListenInv,
        OwnPortInv, ConnInv, Connected, ThroughOwnTunnel
<1> QED
    BY <1>1, <1>2, <1>3, <1>4, <1>5, <1>6, <1>7, <1>8, <1>9, <1>11, <1>12,
        <1>13, <1>14, <1>16, <1>17, <1>18 DEF Next

-----------------------------------------------------------------------------
(* The theorems.                                                           *)

\* Nothing is built, listens or is connected when the processes start.
LEMMA InitHolds == Init => IInv
<1> SUFFICES ASSUME Init PROVE IInv
    OBVIOUS
<1>1. SourcesTypeOK
    BY SourcesAssumption DEF Init, SourcesTypeOK, Building
<1>2. BuildInv
    BY SourceFacts DEF Init, BuildInv, PermitInv, HolderInv, BuilderInv, DeadInv,
        UserInv, Building, Ended
<1>3. MasterInv /\ ConnInv /\ ThroughOwnTunnel
    BY DEF Init, MasterInv, TunnelInv, Built, ListenInv, OwnPortInv, ConnInv,
        ThroughOwnTunnel
<1> QED
    BY <1>1, <1>2, <1>3 DEF IInv

\* The inductive invariant holds in every state.
THEOREM Invariance == Spec => []IInv
<1>1. IInv /\ [Next]_vars => IInv'
    BY TypesStep, BuildStep, MasterStep DEF IInv
<1> QED
    BY InitHolds, <1>1, PTL DEF Spec

\* Every variable keeps its type.
THEOREM TypeCorrect == Spec => []SourcesTypeOK
<1>1. IInv => SourcesTypeOK
    BY DEF IInv
<1> QED
    BY Invariance, <1>1, PTL

\* LazySource::get builds a source once at a time, and not again once it is
\* there, whatever fails, times out or is killed.
THEOREM BuiltOnce == Spec => []OneBuild
<1>1. IInv => OneBuild
    BY DEF IInv, BuildInv, PermitInv, HolderInv, OneBuild
<1> QED
    BY Invariance, <1>1, PTL

\* No failed build, timeout or exit leaves an ssh master behind, unless ssh
\* -O exit failed or the process was killed.
THEOREM NoLeak == Spec => []NoTunnelLeak
<1>1. ASSUME IInv PROVE NoTunnelLeak
    <2> SUFFICES ASSUME NEW n \in Ports, listener[n] \notin stuck \cup {None}
                 PROVE  /\ listener[n] \in tunnels /\ listener[n][1] \in alive
                        /\ Built(listener[n])
        BY DEF NoTunnelLeak, Built
    <2>1. listener[n] \in tunnels
        BY <1>1 DEF IInv, MasterInv, ListenInv
    <2>2. listener[n] \in Sources /\ Built(listener[n])
        BY <1>1, <2>1 DEF IInv, MasterInv, TunnelInv
    <2>3. listener[n][1] \in alive
        <3>1. CASE listener[n] \in cell
            BY <1>1, <3>1 DEF IInv, BuildInv, DeadInv
        <3>2. CASE builder[listener[n]] # None
            <4>1. /\ builder[listener[n]] \in Calls
                  /\ Src(builder[listener[n]]) = listener[n]
                  /\ pc[builder[listener[n]]] \in Building
                BY <1>1, <2>2, <3>2 DEF IInv, SourcesTypeOK, BuildInv, BuilderInv, HolderInv
            <4>2. ProcOf[builder[listener[n]]] \in alive
                BY <1>1, <4>1 DEF IInv, BuildInv, DeadInv, Building, Ended
            <4> QED
                BY <4>1, <4>2, SourceFacts
        <3> QED
            BY <2>2, <3>1, <3>2 DEF Built
    <2> QED
        BY <2>1, <2>2, <2>3
<1> QED
    BY Invariance, <1>1, PTL

\* A connection goes to the database of its own profile and process as long
\* as its ssh master lives, whoever else was given the same local port.
THEOREM OwnTunnel == Spec => []ThroughOwnTunnel
<1>1. IInv => ThroughOwnTunnel
    BY DEF IInv
<1> QED
    BY Invariance, <1>1, PTL
=============================================================================
