--------------------------- MODULE RemoteLogProofs ---------------------------
(***************************************************************************)
(* RemoteLog for any finite set of requests, any number of permits and any *)
(* number of edits of the grants file.                                     *)
(***************************************************************************)
EXTENDS RemoteLog, FiniteSetTheorems, TLAPS

-----------------------------------------------------------------------------
(* The inductive invariant.                                                *)

\* The counters are only known to be numbers here; their ranges follow from
\* BackgroundBounded.
NatTypes ==
    /\ proxy \in {"down", "starting", "up"}
    /\ dog \in Requests \cup {Startup, Idle}
    /\ due \in BOOLEAN
    /\ thread \in {"none", "awake", "wait", "wait_timeout"}
    /\ req \in [Requests -> Stages]
    /\ jobs \subseteq Requests
    /\ budget \in Nat
    /\ service \in {"up", "down"}
    /\ free \in Nat
    /\ conn \in [Requests -> Active \cup {"none", "backlog", "closed", "aborted"}]
    /\ worker \in [Requests -> Reading \cup {"none", "ended"}]
    /\ edits \in 0 .. MaxEdits
    /\ readAt \in [Requests -> 0 .. MaxEdits]

\* Only the startup is supervised while the proxy starts.
StartInv == proxy = "starting" => dog = Startup

\* Which connection and which reader a request can have.
Early == {"new", "token", "token_job", "roots", "roots_job", "dial", "refused"}
Got == {"decoded", "ok", "answered"}
StageInv ==
    \A r \in Requests :
        /\ req[r] \in Early => conn[r] = "none"
        /\ req[r] \in Got => worker[r] = "ended"
        /\ conn[r] \in {"none", "backlog", "accepted", "called"} => worker[r] = "none"
        /\ conn[r] = "working" => worker[r] \in Reading
        /\ worker[r] \in Reading => conn[r] \in {"working", "aborted"}
        /\ conn[r] \in {"responding", "sent", "closed"} => worker[r] = "ended"

\* Whoever has a body has one that was authorized after it was read.
Vouched(r) == \E e \in readAt[r] .. edits : Allowed(e)
VouchInv ==
    \A r \in Requests :
        /\ readAt[r] <= edits
        /\ \/ worker[r] = "done"
           \/ conn[r] \in {"responding", "sent", "closed"}
           \/ req[r] \in Got
           => Vouched(r)

IInv == NatTypes /\ StartInv /\ OneAtATime /\ StageInv /\ VouchInv /\ BackgroundBounded

-----------------------------------------------------------------------------
(* Every step preserves each part.                                         *)

\* Every step assigns values of the right kind.
LEMMA TypesStep == IInv /\ [Next]_vars => NatTypes'
<1> SUFFICES ASSUME IInv, [Next]_vars PROVE NatTypes'
    OBVIOUS
<1> USE RemoteBounds, OwnersDistinct DEF IInv, NatTypes, vars, proxyVars,
    serviceVars, dogVars, Stages, InFlight, Exchanging, Active, Reading
<1>1. CASE DeadlinePasses
    BY <1>1 DEF DeadlinePasses
<1>2. CASE WaitTimesOut
    BY <1>2 DEF WaitTimesOut
<1>3. CASE ThreadWaits
    BY <1>3 DEF ThreadWaits
<1>4. CASE ThreadTerminates
    BY <1>4 DEF ThreadTerminates, Terminated
<1>5. CASE StartProxy
    BY <1>5 DEF StartProxy, Admit
<1>6. CASE ProxyReady
    BY <1>6 DEF ProxyReady, Complete
<1>7. CASE ProxyExits
    BY <1>7 DEF ProxyExits, Terminated
<1>8. CASE CompleteTooLate
    BY <1>8 DEF CompleteTooLate, Terminated
<1>9. CASE ServiceStops
    BY <1>9 DEF ServiceStops
<1>10. CASE ServiceStarts
    BY <1>10 DEF ServiceStarts
<1>11. CASE EditGrants
    BY <1>11 DEF EditGrants
<1>12. ASSUME NEW r \in Requests, Begin(r) PROVE NatTypes'
    BY <1>12 DEF Begin, Admit, Step
<1>13. ASSUME NEW r \in Requests, Refuse(r) PROVE NatTypes'
    BY <1>13 DEF Refuse, Step
<1>14. ASSUME NEW r \in Requests, EnvToken(r) PROVE NatTypes'
    BY <1>14 DEF EnvToken, Step
<1>15. ASSUME NEW r \in Requests, StartJob(r) PROVE NatTypes'
    BY <1>15 DEF StartJob, Step
<1>16. ASSUME NEW r \in Requests, JobEnds(r) PROVE NatTypes'
    BY <1>16 DEF JobEnds, Step
<1>17. ASSUME NEW r \in Requests, Dial(r) PROVE NatTypes'
    BY <1>17 DEF Dial, Step
<1>18. ASSUME NEW r \in Requests, Dialogue(r) PROVE NatTypes'
    BY <1>18 DEF Dialogue, Step
<1>19. ASSUME NEW r \in Requests, ReadResponse(r) PROVE NatTypes'
    BY <1>19 DEF ReadResponse, Step
<1>20. ASSUME NEW r \in Requests, CleanClose(r) PROVE NatTypes'
    BY <1>20 DEF CleanClose, Step
<1>21. ASSUME NEW r \in Requests, ExchangeFails(r) PROVE NatTypes'
    BY <1>21 DEF ExchangeFails
<1>22. ASSUME NEW r \in Requests, Answer(r) PROVE NatTypes'
    BY <1>22 DEF Answer, Complete, Step
<1>23. ASSUME NEW r \in Requests, Cancel(r) PROVE NatTypes'
    BY <1>23 DEF Cancel
<1>24. ASSUME NEW r \in Requests, Accept(r) PROVE NatTypes'
    BY <1>24 DEF Accept
<1>25. ASSUME NEW r \in Requests, SpawnReader(r) PROVE NatTypes'
    BY <1>25 DEF SpawnReader
<1>26. ASSUME NEW r \in Requests, Authorize(r) PROVE NatTypes'
    BY <1>26 DEF Authorize
<1>27. ASSUME NEW r \in Requests, ReadLog(r) PROVE NatTypes'
    BY <1>27 DEF ReadLog
<1>28. ASSUME NEW r \in Requests, Reauthorize(r) PROVE NatTypes'
    BY <1>28 DEF Reauthorize
<1>29. ASSUME NEW r \in Requests, ReaderFails(r) PROVE NatTypes'
    BY <1>29 DEF ReaderFails
<1>30. ASSUME NEW r \in Requests, TakeBody(r) PROVE NatTypes'
    BY <1>30 DEF TakeBody
<1>31. ASSUME NEW r \in Requests, DropBody(r) PROVE NatTypes'
    BY <1>31 DEF DropBody
<1>32. ASSUME NEW r \in Requests, WriteResponse(r) PROVE NatTypes'
    BY <1>32 DEF WriteResponse
<1>33. ASSUME NEW r \in Requests, CloseConnection(r) PROVE NatTypes'
    BY <1>33 DEF CloseConnection
<1>34. ASSUME NEW r \in Requests, AbortConnection(r) PROVE NatTypes'
    BY <1>34 DEF AbortConnection
<1>35. CASE UNCHANGED vars
    BY <1>35
<1> QED
    BY <1>1, <1>2, <1>3, <1>4, <1>5, <1>6, <1>7, <1>8, <1>9, <1>10, <1>11,
        <1>12, <1>13, <1>14, <1>15, <1>16, <1>17, <1>18, <1>19, <1>20,
        <1>21, <1>22, <1>23, <1>24, <1>25, <1>26, <1>27, <1>28, <1>29,
        <1>30, <1>31, <1>32, <1>33, <1>34, <1>35 DEF Next, Watchdog,
        ProxyStep, ServiceStep

\* The owner of the deadline, and the stages of a request, its connection and
\* its reader, stay consistent.
LEMMA ControlStep == IInv /\ [Next]_vars => (StartInv /\ OneAtATime /\ StageInv)'
<1> SUFFICES ASSUME IInv, [Next]_vars PROVE (StartInv /\ OneAtATime /\ StageInv)'
    OBVIOUS
<1> USE RemoteBounds, OwnersDistinct DEF IInv, NatTypes, StartInv, OneAtATime,
    StageInv, vars, proxyVars, serviceVars, dogVars, Stages, InFlight,
    Exchanging, Active, Reading, Early, Got
<1>1. CASE DeadlinePasses
    BY <1>1 DEF DeadlinePasses
<1>2. CASE WaitTimesOut
    BY <1>2 DEF WaitTimesOut
<1>3. CASE ThreadWaits
    BY <1>3 DEF ThreadWaits
<1>4. CASE ThreadTerminates
    BY <1>4 DEF ThreadTerminates, Terminated
<1>5. CASE StartProxy
    BY <1>5 DEF StartProxy, Admit
<1>6. CASE ProxyReady
    BY <1>6 DEF ProxyReady, Complete
<1>7. CASE ProxyExits
    BY <1>7 DEF ProxyExits, Terminated
<1>8. CASE CompleteTooLate
    BY <1>8 DEF CompleteTooLate, Terminated
<1>9. CASE ServiceStops
    BY <1>9 DEF ServiceStops
<1>10. CASE ServiceStarts
    BY <1>10 DEF ServiceStarts
<1>11. CASE EditGrants
    BY <1>11 DEF EditGrants
<1>12. ASSUME NEW r \in Requests, Begin(r) PROVE (StartInv /\ OneAtATime /\ StageInv)'
    BY <1>12 DEF Begin, Admit, Step
<1>13. ASSUME NEW r \in Requests, Refuse(r) PROVE (StartInv /\ OneAtATime /\ StageInv)'
    BY <1>13 DEF Refuse, Step
<1>14. ASSUME NEW r \in Requests, EnvToken(r) PROVE (StartInv /\ OneAtATime /\ StageInv)'
    BY <1>14 DEF EnvToken, Step
<1>15. ASSUME NEW r \in Requests, StartJob(r) PROVE (StartInv /\ OneAtATime /\ StageInv)'
    BY <1>15 DEF StartJob, Step
<1>16. ASSUME NEW r \in Requests, JobEnds(r) PROVE (StartInv /\ OneAtATime /\ StageInv)'
    BY <1>16 DEF JobEnds, Step
<1>17. ASSUME NEW r \in Requests, Dial(r) PROVE (StartInv /\ OneAtATime /\ StageInv)'
    BY <1>17 DEF Dial, Step
<1>18. ASSUME NEW r \in Requests, Dialogue(r) PROVE (StartInv /\ OneAtATime /\ StageInv)'
    BY <1>18 DEF Dialogue, Step
<1>19. ASSUME NEW r \in Requests, ReadResponse(r) PROVE (StartInv /\ OneAtATime /\ StageInv)'
    BY <1>19 DEF ReadResponse, Step
<1>20. ASSUME NEW r \in Requests, CleanClose(r) PROVE (StartInv /\ OneAtATime /\ StageInv)'
    BY <1>20 DEF CleanClose, Step
<1>21. ASSUME NEW r \in Requests, ExchangeFails(r) PROVE (StartInv /\ OneAtATime /\ StageInv)'
    BY <1>21 DEF ExchangeFails
<1>22. ASSUME NEW r \in Requests, Answer(r) PROVE (StartInv /\ OneAtATime /\ StageInv)'
    BY <1>22 DEF Answer, Complete, Step
<1>23. ASSUME NEW r \in Requests, Cancel(r) PROVE (StartInv /\ OneAtATime /\ StageInv)'
    BY <1>23 DEF Cancel
<1>24. ASSUME NEW r \in Requests, Accept(r) PROVE (StartInv /\ OneAtATime /\ StageInv)'
    BY <1>24 DEF Accept
<1>25. ASSUME NEW r \in Requests, SpawnReader(r) PROVE (StartInv /\ OneAtATime /\ StageInv)'
    BY <1>25 DEF SpawnReader
<1>26. ASSUME NEW r \in Requests, Authorize(r) PROVE (StartInv /\ OneAtATime /\ StageInv)'
    BY <1>26 DEF Authorize
<1>27. ASSUME NEW r \in Requests, ReadLog(r) PROVE (StartInv /\ OneAtATime /\ StageInv)'
    BY <1>27 DEF ReadLog
<1>28. ASSUME NEW r \in Requests, Reauthorize(r) PROVE (StartInv /\ OneAtATime /\ StageInv)'
    BY <1>28 DEF Reauthorize
<1>29. ASSUME NEW r \in Requests, ReaderFails(r) PROVE (StartInv /\ OneAtATime /\ StageInv)'
    BY <1>29 DEF ReaderFails
<1>30. ASSUME NEW r \in Requests, TakeBody(r) PROVE (StartInv /\ OneAtATime /\ StageInv)'
    BY <1>30 DEF TakeBody
<1>31. ASSUME NEW r \in Requests, DropBody(r) PROVE (StartInv /\ OneAtATime /\ StageInv)'
    BY <1>31 DEF DropBody
<1>32. ASSUME NEW r \in Requests, WriteResponse(r) PROVE (StartInv /\ OneAtATime /\ StageInv)'
    BY <1>32 DEF WriteResponse
<1>33. ASSUME NEW r \in Requests, CloseConnection(r) PROVE (StartInv /\ OneAtATime /\ StageInv)'
    BY <1>33 DEF CloseConnection
<1>34. ASSUME NEW r \in Requests, AbortConnection(r) PROVE (StartInv /\ OneAtATime /\ StageInv)'
    BY <1>34 DEF AbortConnection
<1>35. CASE UNCHANGED vars
    BY <1>35
<1> QED
    BY <1>1, <1>2, <1>3, <1>4, <1>5, <1>6, <1>7, <1>8, <1>9, <1>10, <1>11,
        <1>12, <1>13, <1>14, <1>15, <1>16, <1>17, <1>18, <1>19, <1>20,
        <1>21, <1>22, <1>23, <1>24, <1>25, <1>26, <1>27, <1>28, <1>29,
        <1>30, <1>31, <1>32, <1>33, <1>34, <1>35 DEF Next, Watchdog,
        ProxyStep, ServiceStep

\* Bodies that are held stay vouched for.
LEMMA VouchStep == IInv /\ [Next]_vars => VouchInv'
<1> SUFFICES ASSUME IInv, [Next]_vars PROVE VouchInv'
    OBVIOUS
<1> USE RemoteBounds, OwnersDistinct DEF IInv, NatTypes, StageInv, VouchInv,
    Vouched, vars, proxyVars, serviceVars, dogVars, Stages, InFlight,
    Exchanging, Active, Reading, Early, Got
<1>1. CASE DeadlinePasses
    BY <1>1 DEF DeadlinePasses
<1>2. CASE WaitTimesOut
    BY <1>2 DEF WaitTimesOut
<1>3. CASE ThreadWaits
    BY <1>3 DEF ThreadWaits
<1>4. CASE ThreadTerminates
    BY <1>4 DEF ThreadTerminates, Terminated
<1>5. CASE StartProxy
    BY <1>5 DEF StartProxy, Admit
<1>6. CASE ProxyReady
    BY <1>6 DEF ProxyReady, Complete
<1>7. CASE ProxyExits
    BY <1>7 DEF ProxyExits, Terminated
<1>8. CASE CompleteTooLate
    BY <1>8 DEF CompleteTooLate, Terminated
<1>9. CASE ServiceStops
    BY <1>9 DEF ServiceStops
<1>10. CASE ServiceStarts
    BY <1>10 DEF ServiceStarts
<1>11. CASE EditGrants
    BY <1>11 DEF EditGrants
<1>12. ASSUME NEW r \in Requests, Begin(r) PROVE VouchInv'
    BY <1>12 DEF Begin, Admit, Step
<1>13. ASSUME NEW r \in Requests, Refuse(r) PROVE VouchInv'
    BY <1>13 DEF Refuse, Step
<1>14. ASSUME NEW r \in Requests, EnvToken(r) PROVE VouchInv'
    BY <1>14 DEF EnvToken, Step
<1>15. ASSUME NEW r \in Requests, StartJob(r) PROVE VouchInv'
    BY <1>15 DEF StartJob, Step
<1>16. ASSUME NEW r \in Requests, JobEnds(r) PROVE VouchInv'
    BY <1>16 DEF JobEnds, Step
<1>17. ASSUME NEW r \in Requests, Dial(r) PROVE VouchInv'
    BY <1>17 DEF Dial, Step
<1>18. ASSUME NEW r \in Requests, Dialogue(r) PROVE VouchInv'
    BY <1>18 DEF Dialogue, Step
<1>19. ASSUME NEW r \in Requests, ReadResponse(r) PROVE VouchInv'
    BY <1>19 DEF ReadResponse, Step
<1>20. ASSUME NEW r \in Requests, CleanClose(r) PROVE VouchInv'
    BY <1>20 DEF CleanClose, Step
<1>21. ASSUME NEW r \in Requests, ExchangeFails(r) PROVE VouchInv'
    BY <1>21 DEF ExchangeFails
<1>22. ASSUME NEW r \in Requests, Answer(r) PROVE VouchInv'
    BY <1>22 DEF Answer, Complete, Step
<1>23. ASSUME NEW r \in Requests, Cancel(r) PROVE VouchInv'
    BY <1>23 DEF Cancel
<1>24. ASSUME NEW r \in Requests, Accept(r) PROVE VouchInv'
    BY <1>24 DEF Accept
<1>25. ASSUME NEW r \in Requests, SpawnReader(r) PROVE VouchInv'
    BY <1>25 DEF SpawnReader
<1>26. ASSUME NEW r \in Requests, Authorize(r) PROVE VouchInv'
    BY <1>26 DEF Authorize
<1>27. ASSUME NEW r \in Requests, ReadLog(r) PROVE VouchInv'
    BY <1>27 DEF ReadLog
<1>28. ASSUME NEW r \in Requests, Reauthorize(r) PROVE VouchInv'
    BY <1>28 DEF Reauthorize
<1>29. ASSUME NEW r \in Requests, ReaderFails(r) PROVE VouchInv'
    BY <1>29 DEF ReaderFails
<1>30. ASSUME NEW r \in Requests, TakeBody(r) PROVE VouchInv'
    BY <1>30 DEF TakeBody
<1>31. ASSUME NEW r \in Requests, DropBody(r) PROVE VouchInv'
    BY <1>31 DEF DropBody
<1>32. ASSUME NEW r \in Requests, WriteResponse(r) PROVE VouchInv'
    BY <1>32 DEF WriteResponse
<1>33. ASSUME NEW r \in Requests, CloseConnection(r) PROVE VouchInv'
    BY <1>33 DEF CloseConnection
<1>34. ASSUME NEW r \in Requests, AbortConnection(r) PROVE VouchInv'
    BY <1>34 DEF AbortConnection
<1>35. CASE UNCHANGED vars
    BY <1>35
<1> QED
    BY <1>1, <1>2, <1>3, <1>4, <1>5, <1>6, <1>7, <1>8, <1>9, <1>10, <1>11,
        <1>12, <1>13, <1>14, <1>15, <1>16, <1>17, <1>18, <1>19, <1>20,
        <1>21, <1>22, <1>23, <1>24, <1>25, <1>26, <1>27, <1>28, <1>29,
        <1>30, <1>31, <1>32, <1>33, <1>34, <1>35 DEF Next, Watchdog,
        ProxyStep, ServiceStep

\* Adding to and removing from a finite set changes its cardinality by one.
LEMMA CardAdd ==
    ASSUME NEW S, IsFiniteSet(S), NEW x, x \notin S
    PROVE  Cardinality(S \cup {x}) = Cardinality(S) + 1
BY FS_AddElement

\* The same for a removal.
LEMMA CardRemove ==
    ASSUME NEW S, IsFiniteSet(S), NEW x \in S
    PROVE  Cardinality(S \ {x}) = Cardinality(S) - 1
BY FS_RemoveElement

\* A step that leaves permits, connections, readers and jobs alone.
LEMMA Quiet ==
    BackgroundBounded /\ UNCHANGED <<free, conn, worker, jobs, budget>> => BackgroundBounded'
BY DEF BackgroundBounded, Holders

\* Both counted sets are finite.
LEMMA HoldersCount == IsFiniteSet(Holders) /\ Cardinality(Holders) \in Nat
BY RequestsFinite, FS_Subset, FS_CardinalityType DEF Holders

\* The background jobs can be counted.
LEMMA JobsCount == IInv => IsFiniteSet(jobs) /\ Cardinality(jobs) \in Nat
BY RequestsFinite, FS_Subset, FS_CardinalityType DEF IInv, NatTypes

\* Permits and budget stay accounted for: an exchange that starts or stops
\* occupying the service moves one permit, and no other step moves any.
LEMMA CountStep == IInv /\ [Next]_vars => BackgroundBounded'
<1> SUFFICES ASSUME IInv, [Next]_vars PROVE BackgroundBounded'
    OBVIOUS
<1> USE RemoteBounds, OwnersDistinct DEF IInv, NatTypes, StageInv,
    BackgroundBounded, vars, proxyVars, serviceVars, dogVars, Active, Reading
<1>1. CASE DeadlinePasses
    BY <1>1, Quiet DEF DeadlinePasses
<1>2. CASE WaitTimesOut
    BY <1>2, Quiet DEF WaitTimesOut
<1>3. CASE ThreadWaits
    BY <1>3, Quiet DEF ThreadWaits
<1>4. CASE ThreadTerminates
    <2>1. Holders' = Holders
        BY <1>4 DEF ThreadTerminates, Terminated, Holders
    <2> QED
        BY <2>1, <1>4, FS_EmptySet DEF ThreadTerminates, Terminated
<1>5. CASE StartProxy
    BY <1>5, Quiet DEF StartProxy, Admit
<1>6. CASE ProxyReady
    BY <1>6, Quiet DEF ProxyReady, Complete
<1>7. CASE ProxyExits
    <2>1. Holders' = Holders
        BY <1>7 DEF ProxyExits, Terminated, Holders
    <2> QED
        BY <2>1, <1>7, FS_EmptySet DEF ProxyExits, Terminated
<1>8. CASE CompleteTooLate
    <2>1. Holders' = Holders
        BY <1>8 DEF CompleteTooLate, Terminated, Holders
    <2> QED
        BY <2>1, <1>8, FS_EmptySet DEF CompleteTooLate, Terminated
<1>9. CASE ServiceStops
    <2>1. Holders' = {} /\ free' = MaxPermits
        BY <1>9 DEF ServiceStops, Holders
    <2> QED
        BY <2>1, <1>9, FS_EmptySet DEF ServiceStops
<1>10. CASE ServiceStarts
    BY <1>10, Quiet DEF ServiceStarts
<1>11. CASE EditGrants
    BY <1>11, Quiet DEF EditGrants
<1>12. ASSUME NEW r \in Requests, Begin(r) PROVE BackgroundBounded'
    BY <1>12, Quiet DEF Begin, Admit, Step
<1>13. ASSUME NEW r \in Requests, Refuse(r) PROVE BackgroundBounded'
    BY <1>13, Quiet DEF Refuse, Step
<1>14. ASSUME NEW r \in Requests, EnvToken(r) PROVE BackgroundBounded'
    BY <1>14, Quiet DEF EnvToken, Step
<1>15. ASSUME NEW r \in Requests, StartJob(r) PROVE BackgroundBounded'
    <2>1. Holders' = Holders
        BY <1>15 DEF StartJob, Holders
    <2>2. r \notin jobs
        <3>1. jobs # {} => Cardinality(jobs) # 0
            BY JobsCount, FS_EmptySet
        <3> QED
            BY <3>1, <1>15, JobsCount DEF StartJob
    <2> QED
        BY <2>1, <2>2, <1>15, JobsCount, CardAdd DEF StartJob
<1>16. ASSUME NEW r \in Requests, JobEnds(r) PROVE BackgroundBounded'
    <2>1. Holders' = Holders
        BY <1>16 DEF JobEnds, Step, Holders
    <2> QED
        BY <2>1, <1>16, JobsCount, CardRemove DEF JobEnds
<1>17. ASSUME NEW r \in Requests, Dial(r) PROVE BackgroundBounded'
    <2>1. Holders' = Holders
        BY <1>17 DEF Dial, Step, Holders, Early
    <2> QED
        BY <2>1, <1>17 DEF Dial, Step
<1>18. ASSUME NEW r \in Requests, Dialogue(r) PROVE BackgroundBounded'
    <2>1. Holders' = Holders
        BY <1>18 DEF Dialogue, Step, Holders
    <2> QED
        BY <2>1, <1>18 DEF Dialogue, Step
<1>19. ASSUME NEW r \in Requests, ReadResponse(r) PROVE BackgroundBounded'
    BY <1>19, Quiet DEF ReadResponse, Step
<1>20. ASSUME NEW r \in Requests, CleanClose(r) PROVE BackgroundBounded'
    BY <1>20, Quiet DEF CleanClose, Step
<1>21. ASSUME NEW r \in Requests, ExchangeFails(r) PROVE BackgroundBounded'
    BY <1>21, Quiet DEF ExchangeFails
<1>22. ASSUME NEW r \in Requests, Answer(r) PROVE BackgroundBounded'
    BY <1>22, Quiet DEF Answer, Complete, Step
<1>23. ASSUME NEW r \in Requests, Cancel(r) PROVE BackgroundBounded'
    BY <1>23, Quiet DEF Cancel
<1>24. ASSUME NEW r \in Requests, Accept(r) PROVE BackgroundBounded'
    <2>1. CASE free > 0
        <3>1. Holders' = Holders \cup {r} /\ r \notin Holders /\ free' = free - 1
            BY <2>1, <1>24 DEF Accept, Holders
        <3> QED
            BY <3>1, <1>24, HoldersCount, CardAdd DEF Accept
    <2>2. CASE ~(free > 0)
        <3>1. Holders' = Holders
            BY <2>2, <1>24 DEF Accept, Holders
        <3> QED
            BY <2>2, <3>1, <1>24 DEF Accept
    <2> QED
        BY <2>1, <2>2
<1>25. ASSUME NEW r \in Requests, SpawnReader(r) PROVE BackgroundBounded'
    <2>1. Holders' = Holders
        BY <1>25 DEF SpawnReader, Holders
    <2> QED
        BY <2>1, <1>25 DEF SpawnReader
<1>26. ASSUME NEW r \in Requests, Authorize(r) PROVE BackgroundBounded'
    <2>1. Holders' = Holders
        BY <1>26 DEF Authorize, Holders
    <2> QED
        BY <2>1, <1>26 DEF Authorize
<1>27. ASSUME NEW r \in Requests, ReadLog(r) PROVE BackgroundBounded'
    <2>1. Holders' = Holders
        BY <1>27 DEF ReadLog, Holders
    <2> QED
        BY <2>1, <1>27 DEF ReadLog
<1>28. ASSUME NEW r \in Requests, Reauthorize(r) PROVE BackgroundBounded'
    <2>1. Holders' = Holders
        BY <1>28 DEF Reauthorize, Holders
    <2> QED
        BY <2>1, <1>28 DEF Reauthorize
<1>29. ASSUME NEW r \in Requests, ReaderFails(r) PROVE BackgroundBounded'
    <2>1. Holders' = Holders \ {r} /\ r \in Holders /\ free' = free + 1
        BY <1>29 DEF ReaderFails, Holders
    <2> QED
        BY <2>1, <1>29, HoldersCount, CardRemove DEF ReaderFails
<1>30. ASSUME NEW r \in Requests, TakeBody(r) PROVE BackgroundBounded'
    <2>1. Holders' = Holders
        BY <1>30 DEF TakeBody, Holders
    <2> QED
        BY <2>1, <1>30 DEF TakeBody
<1>31. ASSUME NEW r \in Requests, DropBody(r) PROVE BackgroundBounded'
    <2>1. Holders' = Holders \ {r} /\ r \in Holders /\ free' = free + 1
        BY <1>31 DEF DropBody, Holders
    <2> QED
        BY <2>1, <1>31, HoldersCount, CardRemove DEF DropBody
<1>32. ASSUME NEW r \in Requests, WriteResponse(r) PROVE BackgroundBounded'
    <2>1. Holders' = Holders
        BY <1>32 DEF WriteResponse, Holders
    <2> QED
        BY <2>1, <1>32 DEF WriteResponse
<1>33. ASSUME NEW r \in Requests, CloseConnection(r) PROVE BackgroundBounded'
    <2>1. Holders' = Holders \ {r} /\ r \in Holders /\ free' = free + 1
        BY <1>33 DEF CloseConnection, Holders
    <2> QED
        BY <2>1, <1>33, HoldersCount, CardRemove DEF CloseConnection
<1>34. ASSUME NEW r \in Requests, AbortConnection(r) PROVE BackgroundBounded'
    <2>1. CASE conn[r] = "working"
        <3>1. Holders' = Holders
            BY <2>1, <1>34 DEF AbortConnection, Holders
        <3> QED
            BY <2>1, <3>1, <1>34 DEF AbortConnection
    <2>2. CASE conn[r] # "working"
        <3>1. Holders' = Holders \ {r} /\ r \in Holders /\ free' = free + 1
            BY <2>2, <1>34 DEF AbortConnection, Holders
        <3> QED
            BY <3>1, <1>34, HoldersCount, CardRemove DEF AbortConnection
    <2> QED
        BY <2>1, <2>2
<1>35. CASE UNCHANGED vars
    BY <1>35, Quiet
<1> QED
    BY <1>1, <1>2, <1>3, <1>4, <1>5, <1>6, <1>7, <1>8, <1>9, <1>10, <1>11,
        <1>12, <1>13, <1>14, <1>15, <1>16, <1>17, <1>18, <1>19, <1>20,
        <1>21, <1>22, <1>23, <1>24, <1>25, <1>26, <1>27, <1>28, <1>29,
        <1>30, <1>31, <1>32, <1>33, <1>34, <1>35 DEF Next, Watchdog,
        ProxyStep, ServiceStep

-----------------------------------------------------------------------------
(* The theorems.                                                           *)

\* The proxy and the service start with nothing under way.
LEMMA InitInv == Init => IInv
<1> SUFFICES ASSUME Init PROVE IInv
    OBVIOUS
<1> USE RemoteBounds, OwnersDistinct DEF Init
<1>1. NatTypes
    <2>1. conn \in [Requests -> Active \cup {"none", "backlog", "closed", "aborted"}]
        OBVIOUS
    <2>2. worker \in [Requests -> Reading \cup {"none", "ended"}]
        OBVIOUS
    <2>3. req \in [Requests -> Stages]
        BY DEF Stages
    <2>4. due \in BOOLEAN /\ jobs \subseteq Requests
        OBVIOUS
    <2>5. edits \in 0 .. MaxEdits /\ readAt \in [Requests -> 0 .. MaxEdits]
        OBVIOUS
    <2> QED
        BY <2>1, <2>2, <2>3, <2>4, <2>5 DEF NatTypes
<1>2. StartInv /\ OneAtATime /\ StageInv
    BY DEF StartInv, OneAtATime, StageInv, InFlight, Exchanging, Early,
        Got, Active, Reading
<1>3. VouchInv
    BY DEF VouchInv, Got
<1>4. Holders = {}
    BY DEF Holders, Active, Reading
<1>5. BackgroundBounded
    BY <1>4, FS_EmptySet DEF BackgroundBounded
<1> QED
    BY <1>1, <1>2, <1>3, <1>5 DEF IInv

\* The invariant is inductive.
LEMMA NextInv == IInv /\ [Next]_vars => IInv'
BY TypesStep, ControlStep, VouchStep, CountStep DEF IInv

\* It holds in every reachable state.
LEMMA Inductive == Spec => []IInv
BY InitInv, NextInv, PTL DEF Spec

\* Every variable keeps its type; the counters of free permits stay within
\* their bounds because every permit that is out has a holder.
THEOREM TypeCorrect == Spec => []TypeOK
<1>1. IInv => TypeOK
    <2> SUFFICES ASSUME IInv PROVE TypeOK
        OBVIOUS
    <2>1. free \in 0 .. MaxPermits
        BY HoldersCount, RemoteBounds DEF IInv, NatTypes, BackgroundBounded
    <2>2. budget \in {0, 1}
        BY JobsCount DEF IInv, NatTypes, BackgroundBounded
    <2> QED
        BY <2>1, <2>2 DEF IInv, NatTypes, TypeOK
<1> QED
    BY <1>1, Inductive, PTL

\* At any time at most one request is worked on, and it is the one whose
\* deadline runs.
THEOREM ProxySerial == Spec => []OneAtATime
<1>1. IInv => OneAtATime
    BY DEF IInv
<1> QED
    BY <1>1, Inductive, PTL

\* Permits are held exactly by live connections and running readers, the local
\* budget exactly by running jobs.
THEOREM BackgroundWorkBounded == Spec => []BackgroundBounded
<1>1. IInv => BackgroundBounded
    BY DEF IInv
<1> QED
    BY <1>1, Inductive, PTL

\* Whatever is released was authorized at or after the moment it was read.
THEOREM RevocationDiscards == Spec => []ReadUnderGrant
<1>1. IInv => ReadUnderGrant
    BY DEF IInv, VouchInv, Vouched, ReadUnderGrant, Got
<1> QED
    BY <1>1, Inductive, PTL

=============================================================================
