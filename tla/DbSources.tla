----------------------------- MODULE DbSources -----------------------------
(***************************************************************************)
(* The database sources of gaze-lens processes: built by the first call    *)
(* that needs one, behind a OnceCell; a build opens an ssh tunnel if the   *)
(* profile has one, connects through its local port and makes the session  *)
(* read only.  The source keeps the tunnel and a pool of one connection,   *)
(* which the pool replaces when it is gone.                                *)
(*                                                                         *)
(* A tunnel is a master process that `ssh -f` leaves in the background: it *)
(* belongs to the machine, listens on the local port and outlives a        *)
(* process that is killed.  SshTunnel::open blocks its thread, so no       *)
(* timeout fires inside it.                                                *)
(***************************************************************************)
EXTENDS Naturals, FiniteSets

CONSTANTS
    Procs,       \* gaze-lens processes
    Profiles,    \* database profiles of the configuration they share
    Calls,       \* tool calls
    ProcOf,      \* ProcOf[c]: the process that runs call c
    ProfileOf,   \* ProfileOf[c]: its argument `profile`
    PortOf,      \* PortOf[f]: local_port of f, or Direct
    Direct,      \* neither ssh_host nor local_port
    None,        \* no listener, no builder, no connection
    MaxFaults    \* bound on faults

Sources == Procs \X Profiles
Ports == {PortOf[f] : f \in Profiles} \ {Direct}

ASSUME SourcesAssumption ==
    /\ ProcOf \in [Calls -> Procs] /\ ProfileOf \in [Calls -> Profiles]
    /\ MaxFaults \in Nat
    /\ None \notin Sources \cup Calls

VARIABLES
    alive,      \* processes that run
    listener,   \* listener[n]: the source whose ssh master listens on port n
    cell,       \* sources that are in their OnceCell
    builder,    \* builder[s]: the call that holds the OnceCell's permit
    tunnels,    \* sources with a live SshTunnel object
    conn,       \* conn[s]: the connection in the pool of s
    pc,         \* pc[c]
    faults,     \* faults so far
    stuck,      \* sources whose ssh -O exit failed, or whose process was killed
    lost        \* sources whose master ended before they did

machine == <<listener, stuck, lost>>
vars == <<alive, cell, builder, tunnels, conn, pc, faults, machine>>

Src(c) == <<ProcOf[c], ProfileOf[c]>>
Port(s) == PortOf[s[2]]
Tunnelled(s) == Port(s) # Direct
Building == {"tunnel", "password", "connect", "read only", "publish"}
Ended == {"done", "failed", "timeout", "gone"}
Connections == [readonly : BOOLEAN, via : Sources]

Goto(c, where) == pc' = [pc EXCEPT ![c] = where]
Fault == faults < MaxFaults /\ faults' = faults + 1

\* Where a connection of s ends up: at the far end of whatever listens on its
\* local port, or at the configured host itself.
Far(s) == IF Tunnelled(s) THEN listener[Port(s)] ELSE s

Init ==
    /\ alive = Procs
    /\ listener = [n \in Ports |-> None]
    /\ cell = {} /\ tunnels = {}
    /\ builder = [s \in Sources |-> None]
    /\ conn = [s \in Sources |-> None]
    /\ pc = [c \in Calls |-> "get"]
    /\ faults = 0 /\ stuck = {} /\ lost = {}

-----------------------------------------------------------------------------
(* SshTunnel.                                                              *)

\* The masters that the control sockets of `set` lead to.  A socket is named
\* after the port and the process: profiles of one process with the same
\* port share it.
Reached(set) ==
    {listener[n] : n \in {n \in Ports : listener[n] # None
                            /\ \E s \in set \cap tunnels : Port(s) = n /\ s[1] = listener[n][1]}}

\* What goes through a master ends with it, and with its source.
Sever(set, masters) ==
    conn' = [s \in Sources |->
               IF s \in set THEN None
               ELSE IF conn[s] # None /\ Tunnelled(s)
                    THEN IF conn[s].via \in masters THEN None ELSE conn[s]
                    ELSE conn[s]]

\* Drop for SshTunnel: ssh -O exit ends the master behind the socket and the
\* socket is removed.
Close(set) ==
    /\ tunnels' = tunnels \ set
    /\ listener' = [n \in Ports |-> IF listener[n] \in Reached(set) THEN None ELSE listener[n]]
    /\ lost' = lost \cup (Reached(set) \ set)
    /\ Sever(set, Reached(set))
    /\ UNCHANGED <<stuck, faults>>

\* ... which may fail: the master is kept, and so is the socket.
CloseFails(set) ==
    /\ Reached(set) # {} /\ Fault
    /\ tunnels' = tunnels \ set
    /\ stuck' = stuck \cup (Reached(set) \cap set)
    /\ Sever(set, {})
    /\ UNCHANGED <<listener, lost>>

DropTunnel(set) == Close(set) \/ CloseFails(set)

-----------------------------------------------------------------------------
(* LazySource::get: get_or_try_init.                                       *)

Use(c) ==
    /\ pc[c] = "get" /\ Src(c) \in cell
    /\ Goto(c, "schema")
    /\ UNCHANGED <<alive, cell, builder, tunnels, conn, faults, machine>>

\* Mutant: every call that finds the cell empty builds.
GetBuildsAtOnce(c) ==
    /\ pc[c] = "get" /\ Src(c) \notin cell
    /\ builder' = [builder EXCEPT ![Src(c)] = c]
    /\ Goto(c, "tunnel")
    /\ UNCHANGED <<alive, cell, tunnels, conn, faults, machine>>

\* One caller builds, the others wait for the permit.
Get(c) ==
    /\ pc[c] = "get" /\ Src(c) \notin cell /\ builder[Src(c)] = None
    /\ builder' = [builder EXCEPT ![Src(c)] = c]
    /\ Goto(c, "tunnel")
    /\ UNCHANGED <<alive, cell, tunnels, conn, faults, machine>>

\* Mutant: ssh stays up when it cannot bind the port.
OpenTunnelAnyway(c) ==
    /\ pc[c] = "tunnel"
    /\ IF Tunnelled(Src(c))
       THEN /\ listener' = [listener EXCEPT ![Port(Src(c))] = IF @ = None THEN Src(c) ELSE @]
            /\ tunnels' = tunnels \cup {Src(c)}
       ELSE UNCHANGED <<listener, tunnels>>
    /\ Goto(c, "password")
    /\ UNCHANGED <<alive, cell, builder, conn, faults, stuck, lost>>

\* runtime_plan and SshTunnel::open with ExitOnForwardFailure=yes.
OpenTunnel(c) ==
    /\ pc[c] = "tunnel"
    /\ IF Tunnelled(Src(c))
       THEN /\ listener[Port(Src(c))] = None
            /\ listener' = [listener EXCEPT ![Port(Src(c))] = Src(c)]
            /\ tunnels' = tunnels \cup {Src(c)}
            /\ stuck' = stuck \ {Src(c)} /\ lost' = lost \ {Src(c)}
       ELSE UNCHANGED <<tunnels, machine>>
    /\ Goto(c, "password")
    /\ UNCHANGED <<alive, cell, builder, conn, faults>>

\* LocalPortInUse; or the profile has one of ssh_host and local_port only, the
\* host is not a login host, or ssh cannot be started or log in.
TunnelFails(c) ==
    /\ pc[c] = "tunnel"
    /\ builder' = [builder EXCEPT ![Src(c)] = None]
    /\ Goto(c, "failed")
    /\ UNCHANGED <<alive, cell, tunnels, conn, faults, machine>>

\* validate_readonly_profile and resolve_password.
ResolvePassword(c) ==
    /\ pc[c] = "password"
    /\ Goto(c, "connect")
    /\ UNCHANGED <<alive, cell, builder, tunnels, conn, faults, machine>>

\* connect_with_target_password: a pool of one connection.
Connect(c) ==
    /\ pc[c] = "connect" /\ Far(Src(c)) # None
    /\ conn' = [conn EXCEPT ![Src(c)] = [readonly |-> FALSE, via |-> Far(Src(c))]]
    /\ Goto(c, "read only")
    /\ UNCHANGED <<alive, cell, builder, tunnels, faults, machine>>

\* A statement of call c on the pool of its source, which opens a new
\* connection if the one it had is gone.
OnPool(c, readonly) ==
    LET s == Src(c)
    IN  /\ conn[s] # None \/ Far(s) # None
        /\ conn' = [conn EXCEPT ![s] =
                      IF @ = None THEN [readonly |-> readonly, via |-> Far(s)]
                      ELSE [readonly |-> @.readonly \/ readonly, via |-> @.via]]

\* SET SESSION TRANSACTION READ ONLY, on the connection the pool hands out.
SetReadOnly(c) ==
    /\ pc[c] = "read only"
    /\ OnPool(c, TRUE)
    /\ Goto(c, "publish")
    /\ UNCHANGED <<alive, cell, builder, tunnels, faults, machine>>

\* RuntimeDbSource owns the tunnel from here on.
Publish(c) ==
    /\ pc[c] = "publish"
    /\ cell' = cell \cup {Src(c)}
    /\ builder' = [builder EXCEPT ![Src(c)] = None]
    /\ Goto(c, "schema")
    /\ UNCHANGED <<alive, tunnels, conn, faults, machine>>

\* Mutant: the tunnel is kept for the next attempt.
BuildFailsKeepingTunnel(c) ==
    /\ pc[c] \in {"password", "connect", "read only"} /\ Fault
    /\ builder' = [builder EXCEPT ![Src(c)] = None]
    /\ conn' = [conn EXCEPT ![Src(c)] = None]
    /\ Goto(c, "failed")
    /\ UNCHANGED <<alive, cell, tunnels, machine>>

\* The password, the connection or the statement fails: the future returns
\* an error, the tunnel is dropped and the cell stays empty.
BuildFails(c) ==
    /\ pc[c] \in {"password", "connect", "read only"}
    /\ builder' = [builder EXCEPT ![Src(c)] = None]
    /\ DropTunnel({Src(c)})
    /\ Goto(c, "failed")
    /\ UNCHANGED <<alive, cell>>

-----------------------------------------------------------------------------
(* DbSourceWrapper::dispatch.                                              *)

\* The schema is read and the query compiled; then the source reads the
\* schema again and runs the statement.
ReadSchema(c) ==
    /\ pc[c] = "schema"
    /\ OnPool(c, FALSE)
    /\ Goto(c, "query")
    /\ UNCHANGED <<alive, cell, builder, tunnels, faults, machine>>

RunQuery(c) ==
    /\ pc[c] = "query"
    /\ OnPool(c, FALSE)
    /\ Goto(c, "done")
    /\ UNCHANGED <<alive, cell, builder, tunnels, faults, machine>>

\* An error of the database, an unknown table or column, or nothing listens.
CallFails(c) ==
    /\ pc[c] \in {"schema", "query"}
    /\ Goto(c, "failed")
    /\ UNCHANGED <<alive, cell, builder, tunnels, conn, faults, machine>>

\* The timeout around the source drops the future at an await: if it builds,
\* its tunnel is dropped, and the permit goes to the next caller.
Timeout(c) ==
    /\ pc[c] \in {"get", "password", "connect", "read only", "schema", "query"}
    /\ IF builder[Src(c)] = c
       THEN /\ builder' = [builder EXCEPT ![Src(c)] = None]
            /\ DropTunnel({Src(c)})
       ELSE UNCHANGED <<builder, conn, tunnels, machine, faults>>
    /\ Goto(c, "timeout")
    /\ UNCHANGED <<alive, cell>>

-----------------------------------------------------------------------------
(* Faults, and the end of a process.                                       *)

\* The server closes the connection, or the pool retires it for its age.
ConnectionEnds(s) ==
    /\ conn[s] # None /\ Fault
    /\ conn' = [conn EXCEPT ![s] = None]
    /\ UNCHANGED <<alive, cell, builder, tunnels, pc, machine>>

\* The ssh master ends by itself, and with it what went through it.
MasterDies(n) ==
    /\ listener[n] # None /\ Fault
    /\ lost' = lost \cup {listener[n]}
    /\ listener' = [listener EXCEPT ![n] = None]
    /\ Sever({}, {listener[n]})
    /\ UNCHANGED <<alive, cell, builder, tunnels, pc, stuck>>

Leave(p) ==
    /\ alive' = alive \ {p}
    /\ cell' = {s \in cell : s[1] # p}
    /\ builder' = [s \in Sources |-> IF s[1] = p THEN None ELSE builder[s]]
    /\ pc' = [c \in Calls |-> IF ProcOf[c] = p /\ pc[c] \notin Ended THEN "gone" ELSE pc[c]]

\* serve returns: the session and the futures of its calls, each of which
\* waits at an await, are dropped.
Shutdown(p) ==
    /\ p \in alive
    /\ \A c \in Calls : ProcOf[c] = p => pc[c] \notin {"tunnel", "publish"}
    /\ Leave(p)
    /\ DropTunnel({s \in Sources : s[1] = p})

\* The process is killed: nothing is dropped.
Kill(p) ==
    /\ p \in alive /\ Fault
    /\ Leave(p)
    /\ tunnels' = {s \in tunnels : s[1] # p}
    /\ stuck' = stuck \cup {s \in tunnels : s[1] = p}
    /\ Sever({s \in Sources : s[1] = p}, {})
    /\ UNCHANGED <<listener, lost>>

Next ==
    \/ \E c \in Calls :
        \/ Use(c) \/ Get(c)
        \/ OpenTunnel(c) \/ TunnelFails(c) \/ ResolvePassword(c) \/ Connect(c)
        \/ SetReadOnly(c) \/ Publish(c) \/ BuildFails(c)
        \/ ReadSchema(c) \/ RunQuery(c) \/ CallFails(c) \/ Timeout(c)
    \/ \E s \in Sources : ConnectionEnds(s)
    \/ \E n \in Ports : MasterDies(n)
    \/ \E p \in Procs : Shutdown(p) \/ Kill(p)

Spec == Init /\ [][Next]_vars

-----------------------------------------------------------------------------
(* Properties.                                                             *)

\* Every variable keeps its type.
SourcesTypeOK ==
    /\ alive \subseteq Procs
    /\ listener \in [Ports -> Sources \cup {None}]
    /\ cell \subseteq Sources /\ tunnels \subseteq Sources
    /\ builder \in [Sources -> Calls \cup {None}]
    /\ conn \in [Sources -> Connections \cup {None}]
    /\ pc \in [Calls -> Building \cup Ended \cup {"get", "schema", "query"}]
    /\ faults \in 0 .. MaxFaults
    /\ stuck \cup lost \subseteq Sources

\* No build and no exit leaks a tunnel: a master that listens belongs to a
\* source in its cell or to the call that builds it, unless ending it failed
\* or its process was killed.  A port is thus never refused because of an
\* earlier attempt of the same process that failed or was timed out.
NoTunnelLeak ==
    \A n \in Ports : listener[n] \notin stuck \cup {None} =>
        LET s == listener[n]
        IN  /\ s \in tunnels /\ s[1] \in alive
            /\ s \in cell \/ (builder[s] # None /\ pc[builder[s]] \in Building \ {"tunnel"})

\* A source is built by one call at a time and not again once it is there,
\* whatever fails or times out in between.
OneBuild ==
    /\ \A c \in Calls : pc[c] \in Building => builder[Src(c)] = c /\ Src(c) \notin cell
    /\ \A s \in Sources : builder[s] # None => pc[builder[s]] \in Building

\* Profiles or processes that were given the same local port never read each
\* other's database: a connection goes through the source's own tunnel, as
\* long as its master lives.
ThroughOwnTunnel ==
    \A s \in Sources : conn[s] # None => conn[s].via = s \/ s \in lost

-----------------------------------------------------------------------------
(* What the documentation says and the code does not do.                   *)

\* "DB queries - sqlx-backed (MySQL / Postgres / SQLite). Read-only.": the
\* statement of a call runs in a session that was made read only.
QueriesReadOnly ==
    [][\A c \in Calls : pc[c] = "query" /\ pc'[c] = "done" => conn'[Src(c)].readonly]_vars
=============================================================================
