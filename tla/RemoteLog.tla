------------------------------ MODULE RemoteLog ------------------------------
(***************************************************************************)
(* The remote log transport: a privacy proxy that serves one agent request *)
(* at a time under a deadline thread, and the raw log service it dials.    *)
(*                                                                         *)
(* Each request makes at most one exchange.  Blocking work cannot be       *)
(* cancelled on either side: a keyring or trust-root job of the proxy and  *)
(* a reader of the service run on after the future that waited for them is *)
(* gone.  The operator edits the grants file meanwhile; an edit revokes    *)
(* the proxy's grant or restores it (an expiry is a revocation).  Names,   *)
(* tokens, TLS and the lines themselves are abstracted away.               *)
(***************************************************************************)
EXTENDS Naturals, FiniteSets

CONSTANTS
    Requests,    \* tool calls of the agent
    MaxPermits,  \* active connections of the service: 8 in the code
    MaxEdits,    \* bound on the operator's edits of the grants file
    Startup,     \* the admission that covers the start of the proxy
    Idle         \* State::Idle

ASSUME RemoteBounds == MaxPermits \in Nat /\ MaxEdits \in Nat
ASSUME RequestsFinite == IsFiniteSet(Requests)
ASSUME OwnersDistinct == Startup \notin Requests /\ Idle \notin Requests /\ Startup # Idle

VARIABLES
    proxy,    \* the proxy process: "down", "starting" or "up"
    dog,      \* Idle, or the owner of State::Running
    due,      \* the deadline of that owner has passed
    thread,   \* the deadline thread: "none", "awake", or in one of its two waits
    req,      \* req[r]: where to_call_tool_result stands for r
    jobs,     \* requests whose keyring or trust-root job is still running
    budget,   \* free permits of local_blocking's budget
    service,  \* the service process: "up" or "down"
    free,     \* free permits of the service
    conn,     \* conn[r]: the connection task of r's exchange
    worker,   \* worker[r]: its blocking reader
    edits,    \* edits of the grants file so far
    readAt    \* readAt[r]: edits when the reader read the log

dogVars == <<dog, due, thread>>
proxyVars == <<proxy, dogVars, req, jobs, budget>>
serviceVars == <<service, free, conn, worker, readAt>>
vars == <<proxyVars, serviceVars, edits>>

\* Stages of a request: with the source at work, admitted, and all.  A request
\* that is cancelled or under way when its process dies counts as "failed".
Exchanging == {"token", "token_job", "roots", "roots_job", "dial", "connect", "sent", "decoded"}
InFlight == Exchanging \cup {"ok", "error"}
Stages == InFlight \cup {"new", "refused", "cancelled", "answered", "failed"}
Active == {"accepted", "called", "working", "responding", "sent"}
Reading == {"authorize", "read", "reauthorize", "done"}

\* Edits alternate between revoking and restoring the grant.
Allowed(e) == e % 2 = 0

-----------------------------------------------------------------------------
Init ==
    /\ proxy = "down"
    /\ dog = Idle
    /\ due = FALSE
    /\ thread = "none"
    /\ req = [r \in Requests |-> "new"]
    /\ jobs = {}
    /\ budget = 1
    /\ service = "up"
    /\ free = MaxPermits
    /\ conn = [r \in Requests |-> "none"]
    /\ worker = [r \in Requests |-> "none"]
    /\ edits = 0
    /\ readAt = [r \in Requests |-> 0]

-----------------------------------------------------------------------------
(* The admission owner and its deadline thread.                            *)

\* admit_for: only from Idle; starts a new deadline and wakes the thread.
Admit(owner) ==
    /\ dog = Idle
    /\ dog' = owner
    /\ due' = FALSE
    /\ thread' = "awake"

\* The process is gone: its threads, futures and blocking jobs with it.
Terminated ==
    /\ proxy' = "down"
    /\ dog' = Idle
    /\ due' = FALSE
    /\ thread' = "none"
    /\ req' = [r \in Requests |->
                  IF req[r] \in InFlight \cup {"cancelled"} THEN "failed" ELSE req[r]]
    /\ jobs' = {}
    /\ budget' = 1

\* Mutant: complete disarms whatever the clock says.
CompleteLate ==
    /\ dog' = Idle
    /\ due' = FALSE
    /\ thread' = "awake"

\* Admission::complete in time.  When the deadline has passed it terminates
\* the process instead, see CompleteTooLate.
Complete ==
    /\ ~due
    /\ dog' = Idle
    /\ UNCHANGED due
    /\ thread' = "awake"

\* The monotonic clock reaches the deadline of the owner.
DeadlinePasses ==
    /\ dog # Idle /\ ~due
    /\ due' = TRUE
    /\ UNCHANGED <<proxy, dog, thread, req, jobs, budget, serviceVars, edits>>

\* wait_timeout returns: at the deadline it was given, which may be that of an
\* owner that completed since.
WaitTimesOut ==
    /\ thread = "wait_timeout"
    /\ thread' = "awake"
    /\ UNCHANGED <<proxy, dog, due, req, jobs, budget, serviceVars, edits>>

\* A turn of the thread's loop that goes back to waiting.
ThreadWaits ==
    /\ thread = "awake" /\ ~(dog # Idle /\ due)
    /\ thread' = IF dog = Idle THEN "wait" ELSE "wait_timeout"
    /\ UNCHANGED <<proxy, dog, due, req, jobs, budget, serviceVars, edits>>

\* A turn that finds the deadline passed: _exit(124).
ThreadTerminates ==
    /\ thread = "awake" /\ dog # Idle /\ due
    /\ Terminated
    /\ UNCHANGED <<serviceVars, edits>>

-----------------------------------------------------------------------------
(* The proxy: serve, and a tool call of the agent.                         *)

\* enable() spawns the thread, then the startup is admitted.
StartProxy ==
    /\ proxy = "down"
    /\ proxy' = "starting"
    /\ Admit(Startup)
    /\ UNCHANGED <<req, jobs, budget, serviceVars, edits>>

\* The session is prepared and the startup completes.
ProxyReady ==
    /\ proxy = "starting"
    /\ Complete
    /\ proxy' = "up"
    /\ UNCHANGED <<req, jobs, budget, serviceVars, edits>>

\* A failed start, a signal, the agent gone, or a panic (fixed_panic_hook).
ProxyExits ==
    /\ proxy # "down"
    /\ Terminated
    /\ UNCHANGED <<serviceVars, edits>>

Step(r, from, to) == req[r] = from /\ req' = [req EXCEPT ![r] = to]

\* Mutant: a request is admitted beside the one that runs.
BeginBeside(r) ==
    /\ proxy = "up"
    /\ Step(r, "new", "token")
    /\ dog' = r /\ due' = FALSE /\ thread' = "awake"
    /\ UNCHANGED <<proxy, jobs, budget, serviceVars, edits>>

\* to_call_tool_result up to the source: the admission is granted.
Begin(r) ==
    /\ proxy = "up"
    /\ Step(r, "new", "token")
    /\ Admit(r)
    /\ UNCHANGED <<proxy, jobs, budget, serviceVars, edits>>

\* Contention is answered at once, without a queue.
Refuse(r) ==
    /\ proxy = "up" /\ dog # Idle
    /\ Step(r, "new", "refused")
    /\ UNCHANGED <<proxy, dogVars, jobs, budget, serviceVars, edits>>

\* RemoteConfig::token from the environment.
EnvToken(r) ==
    /\ Step(r, "token", "roots")
    /\ UNCHANGED <<proxy, dogVars, jobs, budget, serviceVars, edits>>

\* local_blocking: the keyring read, or bounded_file on the trust root.
StartJob(r) ==
    /\ \/ Step(r, "token", "token_job")
       \/ Step(r, "roots", "roots_job")
    /\ budget > 0
    /\ budget' = budget - 1
    /\ jobs' = jobs \cup {r}
    /\ UNCHANGED <<proxy, dogVars, serviceVars, edits>>

\* The blocking job ends and only then returns its permit; whoever still waits
\* for it goes on, or fails with it.
JobEnds(r) ==
    /\ r \in jobs
    /\ jobs' = jobs \ {r}
    /\ budget' = budget + 1
    /\ \/ Step(r, "token_job", "roots")
       \/ Step(r, "roots_job", "dial")
       \/ req[r] \in {"token_job", "roots_job"} /\ req' = [req EXCEPT ![r] = "error"]
       \/ req[r] \notin {"token_job", "roots_job"} /\ UNCHANGED req
    /\ UNCHANGED <<proxy, dogVars, serviceVars, edits>>

\* The TCP connection is in the service's backlog.
Dial(r) ==
    /\ service = "up"
    /\ Step(r, "dial", "connect")
    /\ conn' = [conn EXCEPT ![r] = "backlog"]
    /\ UNCHANGED <<proxy, dogVars, jobs, budget, service, free, worker, readAt, edits>>

\* The fixed dialogue up to the client's half-close, on both sides: the service
\* has decoded the call and seen that nothing follows it.
Dialogue(r) ==
    /\ Step(r, "connect", "sent")
    /\ conn[r] = "accepted"
    /\ conn' = [conn EXCEPT ![r] = "called"]
    /\ UNCHANGED <<proxy, dogVars, jobs, budget, service, free, worker, readAt, edits>>

\* decode_response accepts the frame; the body is not used yet.
ReadResponse(r) ==
    /\ conn[r] \in {"sent", "closed"}
    /\ Step(r, "sent", "decoded")
    /\ UNCHANGED <<proxy, dogVars, jobs, budget, serviceVars, edits>>

\* The service's close_notify arrived: the body goes to redaction and audit.
CleanClose(r) ==
    /\ conn[r] = "closed"
    /\ Step(r, "decoded", "ok")
    /\ UNCHANGED <<proxy, dogVars, jobs, budget, serviceVars, edits>>

\* Any rejection or timeout of the exchange, the budget of local_blocking
\* exhausted included; or redaction or audit fails.
ExchangeFails(r) ==
    /\ req[r] \in Exchanging \cup {"ok"}
    /\ req' = [req EXCEPT ![r] = "error"]
    /\ UNCHANGED <<proxy, dogVars, jobs, budget, serviceVars, edits>>

\* complete(), then the response is handed over.
Answer(r) ==
    /\ Step(r, "ok", "answered") \/ Step(r, "error", "failed")
    /\ Complete
    /\ UNCHANGED <<proxy, jobs, budget, serviceVars, edits>>

\* complete() after the deadline.
CompleteTooLate ==
    /\ due
    /\ \/ proxy = "starting"
       \/ \E r \in Requests : req[r] \in {"ok", "error"}
    /\ Terminated
    /\ UNCHANGED <<serviceVars, edits>>

\* Mutant: dropping the admission disarms it.
CancelDisarms(r) ==
    /\ req[r] \in InFlight
    /\ req' = [req EXCEPT ![r] = "cancelled"]
    /\ dog' = Idle /\ due' = FALSE /\ thread' = "awake"
    /\ UNCHANGED <<proxy, jobs, budget, serviceVars, edits>>

\* The future of the call is dropped.  Admission has no Drop: supervision stays.
Cancel(r) ==
    /\ req[r] \in InFlight
    /\ req' = [req EXCEPT ![r] = "cancelled"]
    /\ UNCHANGED <<proxy, dogVars, jobs, budget, serviceVars, edits>>

-----------------------------------------------------------------------------
(* The service.                                                            *)

\* serve takes a connection and a permit, or closes the socket at once.
Accept(r) ==
    /\ service = "up"
    /\ conn[r] = "backlog"
    /\ conn' = [conn EXCEPT ![r] = IF free > 0 THEN "accepted" ELSE "aborted"]
    /\ free' = IF free > 0 THEN free - 1 ELSE free
    /\ UNCHANGED <<proxyVars, service, worker, readAt, edits>>

\* The permit moves into the blocking reader.
SpawnReader(r) ==
    /\ conn[r] = "called"
    /\ conn' = [conn EXCEPT ![r] = "working"]
    /\ worker' = [worker EXCEPT ![r] = "authorize"]
    /\ UNCHANGED <<proxyVars, service, free, readAt, edits>>

\* authorized_tail, first check, on the grants file as it is now.
Authorize(r) ==
    /\ worker[r] = "authorize" /\ Allowed(edits)
    /\ worker' = [worker EXCEPT ![r] = "read"]
    /\ UNCHANGED <<proxyVars, service, free, conn, readAt, edits>>

\* tail.
ReadLog(r) ==
    /\ worker[r] = "read"
    /\ worker' = [worker EXCEPT ![r] = "reauthorize"]
    /\ readAt' = [readAt EXCEPT ![r] = edits]
    /\ UNCHANGED <<proxyVars, service, free, conn, edits>>

\* Mutant: the grants are not read again after the log.
ReauthorizeSkipped(r) ==
    /\ worker[r] = "reauthorize"
    /\ worker' = [worker EXCEPT ![r] = "done"]
    /\ UNCHANGED <<proxyVars, service, free, conn, readAt, edits>>

\* authorized_tail, second check: the file is read again.
Reauthorize(r) ==
    /\ worker[r] = "reauthorize" /\ Allowed(edits)
    /\ worker' = [worker EXCEPT ![r] = "done"]
    /\ UNCHANGED <<proxyVars, service, free, conn, readAt, edits>>

\* A check or the read fails (files are unreadable, malformed, unknown too):
\* the closure returns and drops the permit.
ReaderFails(r) ==
    /\ worker[r] \in {"authorize", "read", "reauthorize"}
    /\ worker' = [worker EXCEPT ![r] = "ended"]
    /\ free' = free + 1
    /\ conn' = [conn EXCEPT ![r] = IF @ = "working" THEN "aborted" ELSE @]
    /\ UNCHANGED <<proxyVars, service, readAt, edits>>

\* The reader's result and permit go to the connection that waits for them...
TakeBody(r) ==
    /\ worker[r] = "done" /\ conn[r] = "working"
    /\ worker' = [worker EXCEPT ![r] = "ended"]
    /\ conn' = [conn EXCEPT ![r] = "responding"]
    /\ UNCHANGED <<proxyVars, service, free, readAt, edits>>

\* ... or are dropped with the join handle nobody holds.
DropBody(r) ==
    /\ worker[r] = "done" /\ conn[r] # "working"
    /\ worker' = [worker EXCEPT ![r] = "ended"]
    /\ free' = free + 1
    /\ UNCHANGED <<proxyVars, service, conn, readAt, edits>>

WriteResponse(r) ==
    /\ conn[r] = "responding"
    /\ conn' = [conn EXCEPT ![r] = "sent"]
    /\ UNCHANGED <<proxyVars, service, free, worker, readAt, edits>>

\* shutdown, the end of connection(): its permit is dropped.
CloseConnection(r) ==
    /\ conn[r] = "sent"
    /\ conn' = [conn EXCEPT ![r] = "closed"]
    /\ free' = free + 1
    /\ UNCHANGED <<proxyVars, service, worker, readAt, edits>>

\* Mutant: the permit belongs to the connection and goes with it.
AbortDropsPermit(r) ==
    /\ conn[r] \in Active
    /\ conn' = [conn EXCEPT ![r] = "aborted"]
    /\ free' = free + 1
    /\ UNCHANGED <<proxyVars, service, worker, readAt, edits>>

\* A rejected frame, an unclean end of the peer, or the 5, 10 or 30 s timeout.
\* The permit is dropped unless a reader has it.
AbortConnection(r) ==
    /\ conn[r] \in Active
    /\ conn' = [conn EXCEPT ![r] = "aborted"]
    /\ free' = IF conn[r] = "working" THEN free ELSE free + 1
    /\ UNCHANGED <<proxyVars, service, worker, readAt, edits>>

\* accept failed, or the operator stops the service: connections end, readers
\* with the process, and a new process has a new semaphore.
ServiceStops ==
    /\ service = "up"
    /\ service' = "down"
    /\ conn' = [r \in Requests |->
                   IF conn[r] \in Active \cup {"backlog"} THEN "aborted" ELSE conn[r]]
    /\ worker' = [r \in Requests |->
                     IF worker[r] \in Reading THEN "ended" ELSE worker[r]]
    /\ free' = MaxPermits
    /\ UNCHANGED <<proxyVars, readAt, edits>>

ServiceStarts ==
    /\ service = "down"
    /\ service' = "up"
    /\ UNCHANGED <<proxyVars, free, conn, worker, readAt, edits>>

EditGrants ==
    /\ edits < MaxEdits
    /\ edits' = edits + 1
    /\ UNCHANGED <<proxyVars, serviceVars>>

-----------------------------------------------------------------------------
Watchdog == DeadlinePasses \/ WaitTimesOut \/ ThreadWaits \/ ThreadTerminates

ProxyStep(r) ==
    \/ Begin(r) \/ Refuse(r) \/ EnvToken(r) \/ StartJob(r) \/ JobEnds(r) \/ Dial(r)
    \/ Dialogue(r) \/ ReadResponse(r) \/ CleanClose(r) \/ ExchangeFails(r)
    \/ Answer(r) \/ Cancel(r)

ServiceStep(r) ==
    \/ Accept(r) \/ SpawnReader(r) \/ Authorize(r) \/ ReadLog(r) \/ Reauthorize(r)
    \/ ReaderFails(r) \/ TakeBody(r) \/ DropBody(r) \/ WriteResponse(r)
    \/ CloseConnection(r) \/ AbortConnection(r)

Next ==
    \/ Watchdog \/ StartProxy \/ ProxyReady \/ ProxyExits \/ CompleteTooLate
    \/ ServiceStops \/ ServiceStarts \/ EditGrants
    \/ \E r \in Requests : ProxyStep(r) \/ ServiceStep(r)

Spec == Init /\ [][Next]_vars

\* Time passes, a timed wait returns, and a woken thread runs.  Nothing is
\* assumed of the request, the service, or any blocking job.
FairSpec ==
    /\ Spec
    /\ WF_vars(DeadlinePasses)
    /\ WF_vars(WaitTimesOut)
    /\ WF_vars(ThreadWaits)
    /\ WF_vars(ThreadTerminates)

-----------------------------------------------------------------------------
\* Every variable has its type; the permits stay within their budgets.
TypeOK ==
    /\ proxy \in {"down", "starting", "up"}
    /\ dog \in Requests \cup {Startup, Idle}
    /\ due \in BOOLEAN
    /\ thread \in {"none", "awake", "wait", "wait_timeout"}
    /\ req \in [Requests -> Stages]
    /\ jobs \subseteq Requests
    /\ budget \in {0, 1}
    /\ service \in {"up", "down"}
    /\ free \in 0 .. MaxPermits
    /\ conn \in [Requests -> Active \cup {"none", "backlog", "closed", "aborted"}]
    /\ worker \in [Requests -> Reading \cup {"none", "ended"}]
    /\ edits \in 0 .. MaxEdits
    /\ readAt \in [Requests -> 0 .. MaxEdits]

\* The proxy works on one request at a time and the deadline that runs is that
\* request's: to_call_tool_result admits before it dispatches, and nothing but
\* the completion of the owner (not its cancellation) lets another one in.
OneAtATime == \A r \in Requests : req[r] \in InFlight => dog = r

\* Exchanges that occupy the service.
Holders == {r \in Requests : conn[r] \in Active \/ worker[r] \in Reading}

\* A permit is out exactly for every live connection and every reader that
\* still runs, cancelled or not (service.rs: "Keep admission in the actual
\* worker"), and the same for local jobs: background work stays bounded.
BackgroundBounded ==
    /\ free + Cardinality(Holders) = MaxPermits
    /\ budget + Cardinality(jobs) = 1

\* Revocation discards output: a body the service writes, or the proxy redacts,
\* comes from a read at or after which the grant was still in force once more.
ReadUnderGrant ==
    \A r \in Requests :
        conn[r] \in {"responding", "sent", "closed"} \/ req[r] \in {"ok", "answered"}
            => \E e \in readAt[r] .. edits : Allowed(e)

\* Once a deadline has passed the process dies, however late the request tries
\* to complete and wherever the deadline thread was waiting.
OverdueDies == due ~> (proxy = "down")

\* "cancellation/unwind cannot disarm active supervision": a proxy in which a
\* request was cancelled is brought down.
CancelledDies == \A r \in Requests : (req[r] = "cancelled") ~> (proxy = "down")
=============================================================================
