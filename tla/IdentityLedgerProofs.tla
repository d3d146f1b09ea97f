------------------------ MODULE IdentityLedgerProofs ------------------------
(***************************************************************************)
(* Theorems about the identity history, for any set of definitions and any *)
(* number of server processes, and about the loops of Ledger::enroll that  *)
(* compute an enrollment, for ledger files and requests of any length.     *)
(***************************************************************************)
EXTENDS IdentityLedger, EnrollLoop, FiniteSetTheorems, WellFoundedInduction, TLAPS

-----------------------------------------------------------------------------
(* The inductive invariant.                                                *)

\* A process past try_lock is the holder of the lock.
LockInv == \A p \in Servers : stage[p] \in LockStages => holder = p

\* What is about to be published is valid, serves the request and continues
\* the ledger it replaces.
DraftInv ==
    \A p \in Servers : stage[p] = "staged" =>
       /\ ValidLedger(draft[p])
       /\ draft[p].active = request[p]
       /\ Continues(ledger, draft[p])

\* From the rename on, the active entries are the request of the holder.
PublishedInv ==
    \A p \in Servers : stage[p] \in {"renamed", "serving"} => request[p] = ledger.active

\* Holds with power losses too.
LedgerInv == TypeOK /\ LockInv /\ DraftInv /\ PublishedInv /\ LedgerStaysValid

\* The ledger remembers everything that was ever served; what was dropped is
\* retired in it, and an id that was dropped has no active entry.
PastInv ==
    /\ served \subseteq Entries(ledger)
    /\ gone \subseteq ledger.retired
    /\ goneIds \subseteq Ids(ledger.retired) \ Ids(ledger.active)

-----------------------------------------------------------------------------
(* Lemmas about enrollment.                                                *)

\* An accepted request turns a valid ledger into a valid ledger.
LEMMA EnrolledIsValid ==
    ASSUME NEW l \in Ledgers, ValidLedger(l),
           NEW req \in Authorities, Accepts(l, req)
    PROVE  Enrolled(l, req) \in Ledgers /\ ValidLedger(Enrolled(l, req))
<1> DEFINE m == Enrolled(l, req)
<1>1. m \in Ledgers /\ m.active = req /\ m.retired = l.retired \cup (l.active \ req)
    BY DEF Enrolled, Ledgers, Authorities
<1>2. Entries(m) = Entries(l) \cup req
    BY <1>1 DEF Entries
<1>3. m.active \cap m.retired = {}
    BY <1>1 DEF Accepts, Fresh, ValidLedger, Entries
<1>4. \A d, e \in Entries(m) : d.generation = e.generation => d = e
    BY <1>2 DEF Accepts, Fresh, ValidLedger, Entries
<1>5. \A d, e \in Entries(m) : d.id = e.id => d.kind = e.kind
    BY <1>2 DEF Accepts, Fresh, ValidLedger, Entries, Authorities
<1>6. \A d, e \in m.active : d.id = e.id => d = e
    BY <1>1 DEF Authorities
<1> QED BY <1>1, <1>3, <1>4, <1>5, <1>6 DEF ValidLedger

\* Enrollment only adds entries and retires them.
LEMMA EnrolledContinues ==
    ASSUME NEW l \in Ledgers, ValidLedger(l),
           NEW req \in Authorities, Accepts(l, req)
    PROVE  Continues(l, Enrolled(l, req))
<1> DEFINE m == Enrolled(l, req)
<1>1. m.active = req /\ m.retired = l.retired \cup (l.active \ req)
    BY DEF Enrolled
<1>2. Entries(l) \subseteq Entries(m) /\ l.retired \subseteq m.retired
    BY <1>1 DEF Entries
<1>3. ASSUME NEW i \in req, i.id \in Ids(l.retired), i.id \notin Ids(l.active)
      PROVE  FALSE
    <2>1. CASE i \in l.active
        BY <1>3, <2>1 DEF Ids
    <2>2. CASE i \notin l.active
        BY <1>3, <2>2 DEF Accepts, Fresh
    <2> QED BY <2>1, <2>2
<1>4. (Ids(l.retired) \ Ids(l.active)) \cap Ids(m.active) = {}
    BY <1>1, <1>3 DEF Ids
<1> QED BY <1>2, <1>4 DEF Continues

\* A ledger continues itself.
LEMMA ContinuesReflexive ==
    ASSUME NEW l PROVE Continues(l, l)
BY DEF Continues, Ids

-----------------------------------------------------------------------------
(* Preservation.                                                           *)

\* An empty ledger, no lock and no server: nothing is past try_lock.
LEMMA LedgerInvInit == Init => LedgerInv /\ PastInv
<1> SUFFICES ASSUME Init PROVE LedgerInv /\ PastInv OBVIOUS
<1>1. EmptyLedger \in Ledgers /\ ValidLedger(EmptyLedger)
    BY DEF EmptyLedger, Ledgers, ValidLedger, Entries
<1>2. {} \in Authorities
    BY FS_EmptySet DEF Authorities
<1>3. TypeOK
    BY <1>1, <1>2 DEF Init, TypeOK, Stages
<1> QED BY <1>1, <1>3 DEF Init, LedgerInv, LockInv, DraftInv, PublishedInv,
           LedgerStaysValid, PastInv, LockStages

\* Steps of starting, crashing and serving processes keep the ledger valid.
LEMMA LedgerInvStep == LedgerInv /\ [Next]_vars => LedgerInv'
<1> SUFFICES ASSUME LedgerInv, [Next]_vars PROVE LedgerInv' OBVIOUS
<1> USE DEF LedgerInv, LockStages
<1>1. CASE UNCHANGED vars
    BY <1>1 DEF vars, fileVars, history, TypeOK, LockInv, DraftInv, PublishedInv, LedgerStaysValid
<1>2. ASSUME NEW p \in Servers, CheckHistory(p) PROVE LedgerInv'
    BY <1>2 DEF CheckHistory, fileVars, history, TypeOK, LockInv, DraftInv, PublishedInv,
        LedgerStaysValid, Stages
<1>3. ASSUME NEW p \in Servers, ReloadAuthority(p) PROVE LedgerInv'
    <2>1. PICK a \in Authorities : request' = [request EXCEPT ![p] = a]
        BY <1>3 DEF ReloadAuthority
    <2> QED BY <1>3, <2>1 DEF ReloadAuthority, fileVars, history, TypeOK, LockInv, DraftInv,
               PublishedInv, LedgerStaysValid, Stages
<1>4. ASSUME NEW p \in Servers, LockHistory(p) PROVE LedgerInv'
    BY <1>4, NoServerAssumption DEF LockHistory, fileVars, history, TypeOK, LockInv, DraftInv,
        PublishedInv, LedgerStaysValid, Stages
<1>5. ASSUME NEW p \in Servers, EnrollUnchanged(p) PROVE LedgerInv'
    <2>1. request[p] = ledger.active
        BY <1>5 DEF EnrollUnchanged, Enrolled
    <2>2. TypeOK'
        BY <1>5 DEF EnrollUnchanged, Serve, fileVars, TypeOK, Stages, Authorities, Ids
    <2> QED BY <1>5, <2>1, <2>2 DEF EnrollUnchanged, Serve, fileVars, TypeOK, LockInv, DraftInv,
               PublishedInv, LedgerStaysValid
<1>6. ASSUME NEW p \in Servers, EnrollChanged(p) PROVE LedgerInv'
    <2>1. ledger \in Ledgers /\ request[p] \in Authorities
        BY DEF TypeOK
    <2>2. Enrolled(ledger, request[p]) \in Ledgers /\ ValidLedger(Enrolled(ledger, request[p]))
        BY <1>6, <2>1, EnrolledIsValid DEF EnrollChanged, LedgerStaysValid
    <2>3. Continues(ledger, Enrolled(ledger, request[p]))
        BY <1>6, <2>1, EnrolledContinues DEF EnrollChanged, LedgerStaysValid
    <2>4. Enrolled(ledger, request[p]).active = request[p]
        BY DEF Enrolled
    <2> QED BY <1>6, <2>2, <2>3, <2>4 DEF EnrollChanged, fileVars, history, TypeOK, LockInv,
               DraftInv, PublishedInv, LedgerStaysValid, Stages
<1>7. ASSUME NEW p \in Servers, PublishLedger(p) PROVE LedgerInv'
    BY <1>7 DEF PublishLedger, history, TypeOK, LockInv, DraftInv, PublishedInv,
        LedgerStaysValid, Stages
<1>8. ASSUME NEW p \in Servers, SyncLedger(p) PROVE LedgerInv'
    <2>1. TypeOK'
        BY <1>8 DEF SyncLedger, Serve, TypeOK, Stages, Authorities, Ids
    <2> QED BY <1>8, <2>1 DEF SyncLedger, Serve, TypeOK, LockInv, DraftInv, PublishedInv,
               LedgerStaysValid
<1>9. ASSUME NEW p \in Servers, Exit(p) PROVE LedgerInv'
    <2>1. EmptyLedger \in Ledgers /\ {} \in Authorities
        BY FS_EmptySet DEF EmptyLedger, Ledgers, Authorities
    <2> QED BY <1>9, <2>1 DEF Exit, fileVars, history, TypeOK, LockInv, DraftInv, PublishedInv,
               LedgerStaysValid, Stages
<1> QED BY <1>1, <1>2, <1>3, <1>4, <1>5, <1>6, <1>7, <1>8, <1>9 DEF Next, ServerStep

\* A power loss leaves an earlier ledger, valid too, and no process.
LEMMA LedgerInvPower == LedgerInv /\ PowerLoss => LedgerInv'
<1> SUFFICES ASSUME LedgerInv, PowerLoss PROVE LedgerInv' OBVIOUS
<1>1. EmptyLedger \in Ledgers /\ {} \in Authorities
    BY FS_EmptySet DEF EmptyLedger, Ledgers, Authorities
<1> QED BY <1>1 DEF PowerLoss, history, LedgerInv, LockStages, TypeOK, LockInv, DraftInv,
           PublishedInv, LedgerStaysValid, Stages

\* Without power losses every step continues the published ledger.
LEMMA StepContinues == LedgerInv /\ [Next]_vars => Continues(ledger, ledger')
<1> SUFFICES ASSUME LedgerInv, [Next]_vars PROVE Continues(ledger, ledger') OBVIOUS
<1>1. ASSUME NEW p \in Servers, PublishLedger(p) PROVE Continues(ledger, ledger')
    BY <1>1 DEF PublishLedger, LedgerInv, DraftInv
<1>2. CASE ledger' = ledger
    BY <1>2, ContinuesReflexive
<1> QED BY <1>1, <1>2 DEF Next, ServerStep, vars, fileVars, CheckHistory, ReloadAuthority,
           LockHistory, EnrollUnchanged, EnrollChanged, SyncLedger, Exit

\* A server that starts to serve with the active entries records what it
\* dropped as what is retired.
LEMMA ServeKeepsPast ==
    ASSUME NEW p \in Servers, TypeOK, PastInv, Serve(p), ledger' = ledger,
           request[p] = ledger.active
    PROVE  PastInv'
<1>1. served' \subseteq Entries(ledger) /\ gone' \subseteq ledger.retired
    BY DEF Serve, PastInv, Entries
<1>2. Ids(served) \ Ids(ledger.active) \subseteq Ids(ledger.retired) \ Ids(ledger.active)
    BY DEF PastInv, Entries, Ids
<1>3. goneIds' \subseteq Ids(ledger.retired) \ Ids(ledger.active)
    BY <1>2 DEF Serve, PastInv
<1> QED BY <1>1, <1>3 DEF PastInv

\* The ledger keeps what was served; what a later server drops it has retired.
LEMMA PastInvStep == LedgerInv /\ PastInv /\ [Next]_vars => PastInv'
<1> SUFFICES ASSUME LedgerInv, PastInv, [Next]_vars PROVE PastInv' OBVIOUS
<1>0. Continues(ledger, ledger')
    BY StepContinues
<1>1. CASE UNCHANGED history
    <2>1. served \subseteq Entries(ledger') /\ gone \subseteq ledger'.retired
        BY <1>0 DEF Continues, PastInv
    <2>2. Ids(ledger.retired) \subseteq Ids(ledger'.retired)
        BY <1>0 DEF Continues, Ids
    <2>3. goneIds \subseteq Ids(ledger'.retired) \ Ids(ledger'.active)
        BY <1>0, <2>2 DEF Continues, PastInv
    <2> QED BY <1>1, <2>1, <2>3 DEF history, PastInv
<1>2. ASSUME NEW p \in Servers, EnrollUnchanged(p) PROVE PastInv'
    <2>1. request[p] = ledger.active /\ ledger' = ledger
        BY <1>2 DEF EnrollUnchanged, Enrolled, fileVars
    <2> QED BY <1>2, <2>1, ServeKeepsPast DEF EnrollUnchanged, LedgerInv
<1>3. ASSUME NEW p \in Servers, SyncLedger(p) PROVE PastInv'
    <2>1. request[p] = ledger.active /\ ledger' = ledger
        BY <1>3 DEF SyncLedger, LedgerInv, PublishedInv
    <2> QED BY <1>3, <2>1, ServeKeepsPast DEF SyncLedger, LedgerInv
<1> QED BY <1>1, <1>2, <1>3 DEF Next, ServerStep, vars, CheckHistory, ReloadAuthority,
           LockHistory, EnrollChanged, PublishLedger, Exit

-----------------------------------------------------------------------------
(* Theorems.                                                               *)

\* The invariant of the ledger holds whether or not the machine loses power.
LEMMA LedgerInvAlways == PowerSpec => []LedgerInv
<1>1. LedgerInv /\ [Next \/ PowerLoss]_vars => LedgerInv'
    BY LedgerInvStep, LedgerInvPower
<1> QED BY <1>1, LedgerInvInit, PTL DEF PowerSpec

\* Both invariants hold as long as the machine does not lose power.
LEMMA PastInvAlways == Spec => [](LedgerInv /\ PastInv)
<1> QED BY LedgerInvInit, LedgerInvStep, PastInvStep, PTL DEF Spec

\* Every variable of the start-up protocol keeps its type, power losses
\* included.
THEOREM LedgerTypeCorrect == PowerSpec => []TypeOK
<1>1. LedgerInv => TypeOK
    BY DEF LedgerInv
<1> QED BY <1>1, LedgerInvAlways, PTL

\* What a server writes is accepted by read at every later start: the
\* published and the durable ledger stay valid across concurrent starts,
\* crashes and power losses.
THEOREM LedgerNeverLocksOut == PowerSpec => []LedgerStaysValid
<1>1. LedgerInv => LedgerStaysValid
    BY DEF LedgerInv
<1> QED BY <1>1, LedgerInvAlways, PTL

\* At most one server runs on a history path and the active entries are the
\* identities it serves with.
THEOREM ServersServeTheLedger == PowerSpec => []ServesWhatIsEnrolled
<1>1. LedgerInv => ServesWhatIsEnrolled
    BY DEF LedgerInv, LockInv, PublishedInv, ServesWhatIsEnrolled, LockStages
<1> QED BY <1>1, LedgerInvAlways, PTL

\* As long as the machine does not lose power, no superseded generation and
\* no removed id is ever served again, whatever processes crash.
THEOREM PriorGenerationsStayGone == Spec => []NothingReturns
<1>1. LedgerInv /\ PastInv => NothingReturns
    <2> SUFFICES ASSUME LedgerInv, PastInv, NEW p \in Servers, stage[p] = "serving"
                 PROVE  request[p] \cap gone = {} /\ Ids(request[p]) \cap goneIds = {}
        BY DEF NothingReturns
    <2>1. request[p] = ledger.active
        BY DEF LedgerInv, PublishedInv
    <2>2. ledger.active \cap ledger.retired = {}
        BY DEF LedgerInv, LedgerStaysValid, ValidLedger
    <2> QED BY <2>1, <2>2 DEF PastInv
<1> QED BY <1>1, PastInvAlways, PTL

\* As long as the machine does not lose power, no step rewrites the past.
THEOREM LedgerIsAppendOnly == Spec => HistoryIsAppendOnly
<1>1. LedgerInv /\ [Next]_vars => [Continues(ledger, ledger')]_vars
    BY StepContinues
<1> QED BY <1>1, PastInvAlways, PTL DEF Spec, HistoryIsAppendOnly

-----------------------------------------------------------------------------
(* The vector of entries.                                                  *)

\* A set of natural numbers has a least element.
LEMMA LeastNat ==
    ASSUME NEW T \in SUBSET Nat, T # {}
    PROVE  \E m \in T : \A k \in T : m <= k
<1> DEFINE R == {ss \in Nat \X Nat : ss[1] < ss[2]}
<1>1. IsWellFoundedOn(R, Nat)
    BY NatLessThanWellFounded DEF OpToRel
<1>2. \A x, y \in Nat : x < y => <<x, y>> \in R
    OBVIOUS
<1> HIDE DEF R
<1>3. PICK m \in T : \A k \in T : ~(<<k, m>> \in R)
    BY <1>1, WFMin
<1>4. \A k \in T : ~(k < m)
    BY <1>2, <1>3
<1> QED
    BY <1>4

\* A set of positions has a greatest one.
LEMMA GreatestNat ==
    ASSUME NEW n \in Nat, NEW T \in SUBSET (1 .. n), T # {}
    PROVE  \E m \in T : \A k \in T : k <= m
<1> DEFINE U == {n - k : k \in T}
<1>1. \A k \in T : k \in Nat /\ n - k \in Nat
    OBVIOUS
<1>2. U \in SUBSET Nat /\ U # {}
    BY <1>1
<1> HIDE DEF U
<1>3. PICK u \in U : \A k \in U : u <= k
    BY <1>2, LeastNat
<1>4. PICK m \in T : u = n - m
    BY <1>3 DEF U
<1>5. \A k \in T : n - m <= n - k
    BY <1>3, <1>4 DEF U
<1> QED
    BY <1>1, <1>5

\* The meaning of a vector, entry by entry.
LEMMA MeaningFacts ==
    ASSUME NEW s
    PROVE  /\ \A i : i \in Meaning(s).active <=> \E k \in DOMAIN s : s[k].identity = i /\ s[k].active
           /\ \A i : i \in Meaning(s).retired <=> \E k \in DOMAIN s : s[k].identity = i /\ ~s[k].active
           /\ \A i : i \in Entries(Meaning(s)) <=> \E k \in DOMAIN s : s[k].identity = i
           /\ Meaning(s) = [active |-> Meaning(s).active, retired |-> Meaning(s).retired]
  BY DEF Meaning, Entries

\* An entry of the vector is an identity and whether it is active.
LEMMA EntryFacts ==
    ASSUME NEW s \in Seq(EntryValues)
    PROVE  /\ Len(s) \in Nat /\ DOMAIN s = 1 .. Len(s)
           /\ \A k \in DOMAIN s : /\ s[k].identity \in Identities /\ s[k].active \in BOOLEAN
                                  /\ s[k] = [identity |-> s[k].identity, active |-> s[k].active]
<1>1. \A k \in 1 .. Len(s) : s[k] \in EntryValues
    OBVIOUS
<1>2. \A e \in EntryValues : /\ e.identity \in Identities /\ e.active \in BOOLEAN
                             /\ e = [identity |-> e.identity, active |-> e.active]
    BY DEF EntryValues
<1> QED
    BY <1>1, <1>2

\* validate compares every entry with all before it, so any two of them.
Pairwise(s) ==
    \A k, n \in DOMAIN s :
        /\ s[k].identity.generation = s[n].identity.generation => k = n
        /\ s[k].identity.id = s[n].identity.id =>
              s[k].identity.kind = s[n].identity.kind /\ (k < n => ~s[k].active)

\* validate lets through exactly the vectors that fit and hold this.
LEMMA ValidateFacts ==
    ASSUME NEW s \in Seq(EntryValues)
    PROVE  Validate(s) <=> Len(s) <= MaxEntries /\ Pairwise(s)
<1>1. Len(s) \in Nat /\ DOMAIN s = 1 .. Len(s)
    BY EntryFacts
<1>2. ASSUME Validate(s) PROVE Pairwise(s)
    <2>1. \A k \in DOMAIN s : \A n \in 1 .. (k - 1) :
             /\ s[n].identity.generation # s[k].identity.generation
             /\ s[n].identity.id = s[k].identity.id =>
                   s[n].identity.kind = s[k].identity.kind /\ ~s[n].active
        BY <1>2 DEF Validate
    <2>2. \A k, n \in DOMAIN s : k < n => k \in 1 .. (n - 1)
        BY <1>1
    <2>3. \A k, n \in DOMAIN s : k < n \/ n < k \/ k = n
        BY <1>1
    <2> QED
        BY <2>1, <2>2, <2>3 DEF Pairwise
<1>3. ASSUME Pairwise(s), Len(s) <= MaxEntries PROVE Validate(s)
    <2>1. \A k \in DOMAIN s : \A n \in 1 .. (k - 1) : n \in DOMAIN s /\ n < k /\ n # k
        BY <1>1
    <2> QED
        BY <1>3, <2>1 DEF Pairwise, Validate
<1>4. Validate(s) => Len(s) <= MaxEntries
    BY DEF Validate
<1> QED
    BY <1>2, <1>3, <1>4

\* rposition finds the last entry of an id, or none.
LEMMA PreviousFacts ==
    ASSUME entries \in Seq(EntryValues), NEW id
    PROVE  /\ Previous(id) = 0 <=> \A k \in DOMAIN entries : entries[k].identity.id # id
           /\ Previous(id) # 0 =>
                 /\ Previous(id) \in DOMAIN entries /\ entries[Previous(id)].identity.id = id
                 /\ \A k \in DOMAIN entries : entries[k].identity.id = id => k <= Previous(id)
<1> DEFINE at == {k \in DOMAIN entries : entries[k].identity.id = id}
           top == CHOOSE k \in at : \A n \in at : n <= k
<1>1. Len(entries) \in Nat /\ DOMAIN entries = 1 .. Len(entries)
    BY EntryFacts
<1>2. at \in SUBSET (1 .. Len(entries)) /\ \A k \in at : k # 0
    BY <1>1
<1>3. Previous(id) = IF at = {} THEN 0 ELSE top
    BY DEF Previous
<1>4. at # {} => top \in at /\ \A n \in at : n <= top
    <2> HIDE DEF at
    <2>1. at # {} => \E k \in at : \A n \in at : n <= k
        BY <1>1, <1>2, GreatestNat
    <2> QED
        BY <2>1
<1> HIDE DEF top
<1> QED
    BY <1>2, <1>3, <1>4

\* In a valid vector the active entry of an id, if there is one, is its last.
LEMMA ActiveIsLast ==
    ASSUME entries \in Seq(EntryValues), Pairwise(entries),
           NEW k \in DOMAIN entries, entries[k].active
    PROVE  Previous(entries[k].identity.id) = k
<1> DEFINE id == entries[k].identity.id
<1>1. DOMAIN entries \subseteq Nat
    BY EntryFacts
<1>2. /\ Previous(id) \in DOMAIN entries /\ entries[Previous(id)].identity.id = id /\ k <= Previous(id)
    BY PreviousFacts
<1>3. ~(k < Previous(id))
    BY <1>2 DEF Pairwise
<1> QED
    BY <1>1, <1>2, <1>3

\* A vector validate lets through means a valid ledger.
LEMMA ValidMeaning ==
    ASSUME NEW s \in Seq(EntryValues), Pairwise(s)
    PROVE  ValidLedger(Meaning(s))
<1> DEFINE l == Meaning(s)
<1>0. DOMAIN s \subseteq Nat
    BY EntryFacts
<1>1. /\ \A i \in l.active : \E k \in DOMAIN s : s[k].identity = i /\ s[k].active
      /\ \A i \in l.retired : \E k \in DOMAIN s : s[k].identity = i /\ ~s[k].active
      /\ \A i \in Entries(l) : \E k \in DOMAIN s : s[k].identity = i
    BY MeaningFacts
<1> HIDE DEF l
<1>2. l.active \cap l.retired = {}
    <2> SUFFICES ASSUME NEW i \in l.active, i \in l.retired PROVE FALSE
        OBVIOUS
    <2>1. PICK k \in DOMAIN s : s[k].identity = i /\ s[k].active
        BY <1>1
    <2>2. PICK n \in DOMAIN s : s[n].identity = i /\ ~s[n].active
        BY <1>1
    <2> QED
        BY <2>1, <2>2 DEF Pairwise
<1>3. ASSUME NEW d \in Entries(l), NEW e \in Entries(l)
      PROVE  /\ d.generation = e.generation => d = e
             /\ d.id = e.id => d.kind = e.kind
    <2>1. PICK k \in DOMAIN s : s[k].identity = d
        BY <1>1
    <2>2. PICK n \in DOMAIN s : s[n].identity = e
        BY <1>1
    <2> QED
        BY <2>1, <2>2 DEF Pairwise
<1>4. ASSUME NEW d \in l.active, NEW e \in l.active, d.id = e.id PROVE d = e
    <2>1. PICK k \in DOMAIN s : s[k].identity = d /\ s[k].active
        BY <1>1
    <2>2. PICK n \in DOMAIN s : s[n].identity = e /\ s[n].active
        BY <1>1
    <2>3. ~(k < n) /\ ~(n < k)
        BY <1>4, <2>1, <2>2 DEF Pairwise
    <2>4. k = n
        BY <1>0, <2>3
    <2> QED
        BY <2>1, <2>2, <2>4
<1> QED
    BY <1>2, <1>3, <1>4 DEF ValidLedger, l

\* No identity is in a valid vector twice.
LEMMA LengthFacts ==
    ASSUME NEW s \in Seq(EntryValues), Pairwise(s)
    PROVE  /\ IsFiniteSet(Entries(Meaning(s)))
           /\ Cardinality(Entries(Meaning(s))) = Len(s)
<1> DEFINE f == [k \in 1 .. Len(s) |-> s[k].identity]
           E == Entries(Meaning(s))
<1>1. Len(s) \in Nat /\ DOMAIN s = 1 .. Len(s)
    BY EntryFacts
<1>2. \A i : i \in E <=> \E k \in 1 .. Len(s) : s[k].identity = i
    BY <1>1, MeaningFacts
<1> HIDE DEF E
<1>3. f \in Bijection(1 .. Len(s), E)
    <2>1. f \in [1 .. Len(s) -> E]
        BY <1>2
    <2>2. IsInjective(f)
        BY <1>1 DEF Pairwise, IsInjective
    <2>3. \A i \in E : \E k \in 1 .. Len(s) : f[k] = i
        BY <1>2
    <2> HIDE DEF f
    <2>4. f \in Injection(1 .. Len(s), E)
        BY <2>1, <2>2 DEF Injection
    <2>5. f \in Surjection(1 .. Len(s), E)
        BY <2>1, <2>3 DEF Surjection
    <2> QED
        BY <2>4, <2>5 DEF Bijection
<1>4. IsFiniteSet(1 .. Len(s)) /\ Cardinality(1 .. Len(s)) = Len(s)
    <2>1. ASSUME NEW n \in Nat
          PROVE  /\ IsFiniteSet(1 .. n)
                 /\ Cardinality(1 .. n) = IF 1 > n THEN 0 ELSE n - 1 + 1
        BY FS_Interval
    <2>2. ASSUME NEW n \in Nat PROVE (IF 1 > n THEN 0 ELSE n - 1 + 1) = n
        OBVIOUS
    <2> QED
        BY <1>1, <2>1, <2>2
<1>5. ExistsBijection(1 .. Len(s), E)
    BY <1>3 DEF ExistsBijection
<1>6. IsFiniteSet(E) /\ Cardinality(E) = Cardinality(1 .. Len(s))
    BY <1>4, <1>5, FS_Bijection
<1> QED
    BY <1>4, <1>6 DEF E

-----------------------------------------------------------------------------
(* The loops of enroll.                                                    *)

\* The ledger that was read, and the requested identities that had their turn.
Read == Meaning(before)
Seen == asked \ todo

\* A ledger after the turns of some identities: they are active, and an entry
\* that was active under the id of one of them is retired.
Partly(l, seen) ==
    [active |-> {a \in l.active : \A i \in seen : i.id = a.id => i = a} \cup seen,
     retired |-> l.retired \cup {a \in l.active : \E i \in seen : i.id = a.id /\ i # a}]

\* Accepts without the limit.
Admits(l, requested) ==
    \A i \in Fresh(l, requested) :
        /\ i.id \in Ids(l.retired) => i.id \in Ids(l.active)
        /\ \A e \in Entries(l) : e.id = i.id => e.kind = i.kind
        /\ \A e \in Entries(l) : e.generation # i.generation
        /\ \A j \in Fresh(l, requested) : j.generation = i.generation => j = i

\* Types of the loop.
LoopTypeInv ==
    /\ before \in Seq(EntryValues) /\ entries \in Seq(EntryValues)
    /\ asked \in Authorities /\ todo \subseteq asked
    /\ changed \in BOOLEAN /\ result \in {"running", "ok", "refused"}

\* Between two turns the vector means the ledger after the turns so far, all
\* of them were admitted, and changed says whether one was new.
RunningInv ==
    result = "running" =>
        /\ Validate(before) /\ Validate(entries)
        /\ Meaning(entries) = Partly(Read, Seen)
        /\ Admits(Read, Seen)
        /\ changed <=> Fresh(Read, Seen) # {}

EnrollInv == LoopTypeInv /\ RunningInv /\ LoopEnrolls

\* The loop starts from what was read.
LEMMA EnrollInitInv == EnrollInit => EnrollInv
<1> SUFFICES ASSUME EnrollInit PROVE EnrollInv
    OBVIOUS
<1>1. before \in Seq(EntryValues)
    BY EnrollAssumption DEF EnrollInit
<1>2. LoopTypeInv
    BY <1>1 DEF EnrollInit, LoopTypeInv
<1>3. Seen = {}
    BY DEF EnrollInit, Seen
<1>4. Meaning(entries) = Partly(Read, Seen)
    <2>1. Read = [active |-> Read.active, retired |-> Read.retired]
        BY MeaningFacts DEF Read
    <2> HIDE DEF Read
    <2>2. Partly(Read, {}) = [active |-> Read.active, retired |-> Read.retired]
        BY DEF Partly
    <2>3. Meaning(entries) = Read
        BY DEF EnrollInit, Read
    <2> QED
        BY <1>3, <2>1, <2>2, <2>3
<1>5. Fresh(Read, Seen) = {}
    BY <1>3 DEF Fresh
<1>6. RunningInv
    BY <1>4, <1>5 DEF EnrollInit, RunningInv, Admits
<1>7. LoopEnrolls
    BY DEF EnrollInit, LoopEnrolls
<1> QED
    BY <1>2, <1>6, <1>7 DEF EnrollInv

\* What is known in a turn: which identity it is, and where it stands in the
\* vector and in the ledger that was read.
TurnKnows ==
    /\ Id \in todo /\ Id \in asked /\ Id \in Identities
    /\ \A i \in Seen : i.id # Id.id
    /\ Pairwise(before) /\ Pairwise(entries) /\ Len(entries) <= MaxEntries /\ ValidLedger(Read)
    /\ \A i : i \in Read.active \/ i \in Read.retired \/ i \in Seen <=> \E k \in DOMAIN entries : entries[k].identity = i
    /\ \A k \in DOMAIN entries : entries[k].identity.id = Id.id =>
          /\ entries[k].active => entries[k].identity \in Read.active
          /\ ~entries[k].active => entries[k].identity \in Read.retired
    /\ Id \in Read.active => Previous(Id.id) # 0 /\ Old.identity = Id /\ Old.active
    /\ Previous(Id.id) # 0 =>
          /\ Previous(Id.id) \in DOMAIN entries /\ Old.identity.id = Id.id
          /\ ~Old.active => Id.id \notin Ids(Read.active)

\* All of it follows from the invariant.
LEMMA TurnKnowsFacts == ASSUME EnrollInv, Turn PROVE TurnKnows
<1>1. /\ entries \in Seq(EntryValues) /\ before \in Seq(EntryValues)
      /\ asked \in Authorities /\ todo \subseteq asked /\ todo # {}
    BY DEF EnrollInv, LoopTypeInv, Turn
<1>2. /\ Validate(before) /\ Validate(entries) /\ Meaning(entries) = Partly(Read, Seen)
    BY DEF EnrollInv, RunningInv, Turn
<1>3. Pairwise(before) /\ Pairwise(entries) /\ Len(entries) <= MaxEntries
    BY <1>1, <1>2, ValidateFacts
<1>4. ValidLedger(Read)
    BY <1>1, <1>3, ValidMeaning DEF Read
<1>5. Id \in todo
    <2> DEFINE T == {i.id : i \in todo}
    <2>1. T \in SUBSET Nat /\ T # {}
        BY <1>1, EnrollAssumption DEF Authorities
    <2>2. PICK m \in T : \A k \in T : m <= k
        <3> HIDE DEF T
        <3> QED
            BY <2>1, LeastNat
    <2>3. \E i \in todo : \A j \in todo : i.id <= j.id
        BY <2>2
    <2> QED
        BY <2>3 DEF Id
<1> DEFINE x == Id
<1>6. x \in todo
    BY <1>5
<1> HIDE DEF x
<1>7. x \in asked /\ x \in Identities /\ \A i \in Seen : i.id # x.id
    BY <1>1, <1>6 DEF Authorities, Seen
<1>8. /\ \A i : i \in Meaning(entries).active <=> \E k \in DOMAIN entries : entries[k].identity = i /\ entries[k].active
      /\ \A i : i \in Meaning(entries).retired <=> \E k \in DOMAIN entries : entries[k].identity = i /\ ~entries[k].active
      /\ \A i : i \in Entries(Meaning(entries)) <=> \E k \in DOMAIN entries : entries[k].identity = i
    BY MeaningFacts
<1>9. /\ Meaning(entries).active = {a \in Read.active : \A i \in Seen : i.id = a.id => i = a} \cup Seen
      /\ Meaning(entries).retired = Read.retired \cup {a \in Read.active : \E i \in Seen : i.id = a.id /\ i # a}
    BY <1>2 DEF Partly
<1>10. \A i : i \in Read.active \/ i \in Read.retired \/ i \in Seen <=> \E k \in DOMAIN entries : entries[k].identity = i
    BY <1>8, <1>9 DEF Entries
<1>11. ASSUME NEW k \in DOMAIN entries, entries[k].identity.id = x.id
       PROVE  /\ entries[k].active => entries[k].identity \in Read.active
              /\ ~entries[k].active => entries[k].identity \in Read.retired
    <2>1. entries[k].identity \notin Seen /\ \A i \in Seen : i.id # entries[k].identity.id
        BY <1>7, <1>11
    <2> QED
        BY <1>8, <1>9, <2>1
<1>12. ASSUME NEW a \in Read.active, a.id = x.id
       PROVE  \E k \in DOMAIN entries : entries[k].identity = a /\ entries[k].active /\ Previous(x.id) = k
    <2>1. a \in Meaning(entries).active
        BY <1>7, <1>9, <1>12
    <2>2. PICK k \in DOMAIN entries : entries[k].identity = a /\ entries[k].active
        BY <1>8, <2>1
    <2>3. Previous(x.id) = k
        BY <1>1, <1>3, <1>12, <2>2, ActiveIsLast
    <2> QED
        BY <2>2, <2>3
<1>13. DOMAIN entries \subseteq Nat \ {0}
    BY <1>1, EntryFacts
<1>14. x \in Read.active =>
           /\ Previous(x.id) # 0 /\ entries[Previous(x.id)].identity = x /\ entries[Previous(x.id)].active
    BY <1>12, <1>13
<1>15. Previous(x.id) # 0 =>
           /\ Previous(x.id) \in DOMAIN entries /\ entries[Previous(x.id)].identity.id = x.id
           /\ ~entries[Previous(x.id)].active => x.id \notin Ids(Read.active)
    <2>1. Previous(x.id) # 0 =>
              Previous(x.id) \in DOMAIN entries /\ entries[Previous(x.id)].identity.id = x.id
        BY <1>1, PreviousFacts
    <2> QED
        BY <1>12, <2>1 DEF Ids
<1> QED
    BY <1>3, <1>4, <1>6, <1>7, <1>10, <1>11, <1>14, <1>15 DEF TurnKnows, Old, x

\* A turn that returns an error met an identity that Accepts does not admit, or
\* the limit.
LEMMA RefuseInv == ASSUME EnrollInv, Refuse PROVE EnrollInv'
<1>0. Turn /\ result' = "refused" /\ UNCHANGED <<entries, todo, changed, before, asked>>
    BY DEF Refuse
<1>1. TurnKnows
    BY <1>0, TurnKnowsFacts
<1> DEFINE x == Id
           prev == Previous(x.id)
           old == entries[prev]
<1>2. \/ prev # 0 /\ (~old.active \/ old.identity.kind # x.kind)
      \/ prev # 0 /\ old.identity.generation = x.generation /\ old.identity # x
      \/ /\ ~(prev # 0 /\ old.identity = x)
         /\ \/ \E k \in DOMAIN entries : entries[k].identity.generation = x.generation
            \/ Len(entries) + 1 > MaxEntries
    BY DEF Refuse, Old
<1>3. /\ x \in todo /\ x \in asked /\ x \in Identities /\ \A i \in Seen : i.id # x.id
      /\ Pairwise(before) /\ Pairwise(entries)
      /\ \A i : i \in Read.active \/ i \in Read.retired \/ i \in Seen <=> \E k \in DOMAIN entries : entries[k].identity = i
      /\ \A k \in DOMAIN entries : entries[k].identity.id = x.id =>
            /\ entries[k].active => entries[k].identity \in Read.active
            /\ ~entries[k].active => entries[k].identity \in Read.retired
      /\ x \in Read.active => prev # 0 /\ old.identity = x /\ old.active
      /\ prev # 0 =>
            /\ prev \in DOMAIN entries /\ old.identity.id = x.id
            /\ ~old.active => x.id \notin Ids(Read.active)
    BY <1>1 DEF TurnKnows, Old
<1> HIDE DEF x, prev, old
<1>4. x \notin Read.active /\ x \in Fresh(Read, asked)
    BY <1>2, <1>3 DEF Fresh
<1>5. prev # 0 => old.identity \in Entries(Read)
    BY <1>3 DEF Entries, old
<1>6. ~Accepts(Read, asked)
    <2>1. CASE prev # 0 /\ ~old.active
        <3>1. old.identity \in Read.retired /\ old.identity.id = x.id
            BY <1>3, <2>1 DEF old
        <3> QED
            BY <1>3, <1>4, <2>1, <3>1 DEF Accepts, Ids
    <2>2. CASE prev # 0 /\ old.identity.kind # x.kind
        BY <1>3, <1>4, <1>5, <2>2 DEF Accepts
    <2>3. CASE prev # 0 /\ old.identity.generation = x.generation
        BY <1>4, <1>5, <2>3 DEF Accepts
    <2>4. ASSUME NEW k \in DOMAIN entries, entries[k].identity.generation = x.generation
          PROVE  ~Accepts(Read, asked)
        <3> DEFINE j == entries[k].identity
        <3>1. j \in Entries(Read) \/ j \in Seen
            BY <1>3 DEF Entries
        <3>2. CASE j \in Entries(Read)
            BY <1>4, <2>4, <3>2 DEF Accepts
        <3>3. CASE j \in Seen /\ j \notin Entries(Read)
            <4>1. j \in Fresh(Read, asked) /\ j # x
                BY <1>3, <3>3 DEF Fresh, Seen, Entries
            <4> QED
                BY <1>4, <2>4, <4>1 DEF Accepts
        <3> QED
            BY <3>1, <3>2, <3>3
    <2>5. CASE /\ Len(entries) + 1 > MaxEntries
               /\ \A k \in DOMAIN entries : entries[k].identity.generation # x.generation
        <3> DEFINE U == Entries(Meaning(entries))
                   V == Entries(Read) \cup asked
        <3>1. IsFiniteSet(U) /\ Cardinality(U) = Len(entries) /\ Len(entries) \in Nat
            BY <1>3, LengthFacts, EntryFacts DEF EnrollInv, LoopTypeInv
        <3>2. IsFiniteSet(V)
            <4>1. IsFiniteSet(Entries(Read))
                BY <1>3, LengthFacts DEF EnrollInv, LoopTypeInv, Read
            <4>2. IsFiniteSet(asked)
                BY DEF EnrollInv, LoopTypeInv, Authorities
            <4> QED
                BY <4>1, <4>2, FS_Union
        <3>3. \A i : i \in U <=> \E k \in DOMAIN entries : entries[k].identity = i
            BY MeaningFacts
        <3>4. x \notin U /\ U \cup {x} \subseteq V
            BY <1>3, <2>5, <3>3 DEF Entries, Seen
        <3> HIDE DEF U, V
        <3>5. Cardinality(U \cup {x}) = Len(entries) + 1
            BY <3>1, <3>4, FS_AddElement
        <3>6. Cardinality(U \cup {x}) <= Cardinality(V)
            BY <3>2, <3>4, FS_Subset
        <3>7. Cardinality(V) \in Nat
            BY <3>2, FS_CardinalityType
        <3>8. ~(Cardinality(V) <= MaxEntries)
            BY <2>5, <3>1, <3>5, <3>6, <3>7, MaxEntriesAssumption
        <3> QED
            BY <3>8 DEF Accepts, V
    <2> QED
        BY <1>2, <2>1, <2>2, <2>3, <2>4, <2>5
<1>7. LoopTypeInv' /\ RunningInv'
    BY <1>0 DEF EnrollInv, LoopTypeInv, RunningInv
<1>8. LoopEnrolls'
    BY <1>0, <1>6 DEF LoopEnrolls, Read
<1> QED
    BY <1>7, <1>8 DEF EnrollInv

\* An identity that is enrolled as it is was active from the start.
LEMMA ContinueInv == ASSUME EnrollInv, Continue PROVE EnrollInv'
<1> DEFINE x == Id
<1>0. /\ Turn /\ todo' = todo \ {x} /\ UNCHANGED <<entries, changed, result, before, asked>>
      /\ Previous(x.id) # 0 /\ Old.active /\ Old.identity = x
    BY DEF Continue
<1>1. TurnKnows
    BY <1>0, TurnKnowsFacts
<1>2. /\ x \in todo /\ x \in asked /\ ValidLedger(Read) /\ x \in Read.active
    BY <1>0, <1>1 DEF TurnKnows, Old
<1> HIDE DEF x
<1>3. /\ Meaning(entries) = Partly(Read, Seen) /\ Admits(Read, Seen) /\ Validate(before) /\ Validate(entries)
      /\ changed <=> Fresh(Read, Seen) # {}
    BY <1>0 DEF EnrollInv, RunningInv, Turn
<1>4. Seen' = Seen \cup {x} /\ Read' = Read
    BY <1>0, <1>2 DEF Seen, Read
<1>5. Partly(Read, Seen \cup {x}) = Partly(Read, Seen)
    <2>1. \A a \in Read.active : a.id = x.id => a = x
        BY <1>2 DEF ValidLedger
    <2>2. \A i \in Seen : i.id # x.id
        BY <1>1 DEF TurnKnows, x
    <2>3. {a \in Read.active : \A i \in Seen \cup {x} : i.id = a.id => i = a} \cup (Seen \cup {x})
             = {a \in Read.active : \A i \in Seen : i.id = a.id => i = a} \cup Seen
        BY <1>2, <2>1, <2>2
    <2>4. {a \in Read.active : \E i \in Seen \cup {x} : i.id = a.id /\ i # a}
             = {a \in Read.active : \E i \in Seen : i.id = a.id /\ i # a}
        BY <2>1
    <2> QED
        BY <2>3, <2>4 DEF Partly
<1>6. Fresh(Read, Seen \cup {x}) = Fresh(Read, Seen)
    BY <1>2 DEF Fresh
<1>7. RunningInv'
    <2>1. Admits(Read, Seen \cup {x})
        BY <1>3, <1>6 DEF Admits
    <2>2. Meaning(entries)' = Partly(Read, Seen')
        BY <1>0, <1>3, <1>4, <1>5
    <2> QED
        BY <1>0, <1>3, <1>4, <1>6, <2>1, <2>2 DEF RunningInv
<1>8. LoopTypeInv' /\ LoopEnrolls'
    BY <1>0 DEF EnrollInv, LoopTypeInv, LoopEnrolls, Turn
<1> QED
    BY <1>7, <1>8 DEF EnrollInv

\* A new identity: its generation and kind were checked against every entry.
LEMMA PushEntryInv == ASSUME EnrollInv, PushEntry PROVE EnrollInv'
<1> DEFINE x == Id
           prev == Previous(x.id)
           old == entries[prev]
           n == Len(entries) + 1
           kept == [k \in DOMAIN entries |->
                       IF k = prev THEN [entries[k] EXCEPT !.active = FALSE] ELSE entries[k]]
           new == [identity |-> x, active |-> TRUE]
<1>0. /\ Turn /\ todo' = todo \ {x} /\ changed' = TRUE /\ UNCHANGED <<result, before, asked>>
      /\ prev # 0 => old.active /\ old.identity.kind = x.kind
      /\ \A k \in DOMAIN entries : entries[k].identity.generation # x.generation
      /\ n <= MaxEntries
      /\ entries' = Append(kept, new)
    BY DEF PushEntry, Old
<1>1. TurnKnows
    BY <1>0, TurnKnowsFacts
<1>2. /\ x \in todo /\ x \in asked /\ x \in Identities /\ \A i \in Seen : i.id # x.id
      /\ Pairwise(entries) /\ ValidLedger(Read)
      /\ \A i : i \in Read.active \/ i \in Read.retired \/ i \in Seen <=> \E k \in DOMAIN entries : entries[k].identity = i
      /\ \A k \in DOMAIN entries : entries[k].identity.id = x.id =>
            /\ entries[k].active => entries[k].identity \in Read.active
            /\ ~entries[k].active => entries[k].identity \in Read.retired
      /\ prev # 0 => prev \in DOMAIN entries /\ old.identity.id = x.id
    BY <1>1 DEF TurnKnows, Old
<1>3. /\ entries \in Seq(EntryValues) /\ Len(entries) \in Nat /\ DOMAIN entries = 1 .. Len(entries)
      /\ \A k \in DOMAIN entries : entries[k] \in EntryValues
      /\ \A k \in DOMAIN entries : entries[k].active \in BOOLEAN
    BY EntryFacts DEF EnrollInv, LoopTypeInv
<1>4. \A k \in DOMAIN entries : k \in 1 .. n /\ k < n /\ k \in Nat
    BY <1>3
<1>5. \A k \in DOMAIN entries : entries[k].active /\ entries[k].identity.id = x.id => k = prev
    BY <1>2, <1>3, ActiveIsLast
<1>6. \A k \in DOMAIN entries : entries[k].identity.id = x.id => prev # 0
    BY <1>3, PreviousFacts
<1> HIDE DEF x, prev, old
<1>7. /\ entries' \in Seq(EntryValues) /\ Len(entries') = n /\ DOMAIN entries' = 1 .. n
      /\ entries'[n].identity = x /\ entries'[n].active
      /\ \A k \in DOMAIN entries :
            /\ entries'[k].identity = entries[k].identity
            /\ entries'[k].active <=> entries[k].active /\ k # prev
    <2>1. /\ kept \in Seq(EntryValues) /\ Len(kept) = Len(entries)
          /\ \A k \in DOMAIN entries :
                /\ kept[k].identity = entries[k].identity
                /\ kept[k].active <=> entries[k].active /\ k # prev
        <3>1. ASSUME NEW e \in EntryValues
              PROVE  /\ [e EXCEPT !.active = FALSE] \in EntryValues
                     /\ [e EXCEPT !.active = FALSE].identity = e.identity
                     /\ [e EXCEPT !.active = FALSE].active = FALSE
            BY DEF EntryValues
        <3>2. kept \in [1 .. Len(entries) -> EntryValues]
            BY <1>3, <3>1
        <3>3. \A k \in DOMAIN entries :
                /\ kept[k].identity = entries[k].identity
                /\ kept[k].active <=> entries[k].active /\ k # prev
            BY <1>3, <3>1
        <3> HIDE DEF kept
        <3> QED
            BY <1>3, <3>2, <3>3
    <2>2. new \in EntryValues /\ new.identity = x /\ new.active
        BY <1>2 DEF EntryValues
    <2> HIDE DEF kept, new
    <2>3. /\ entries' \in Seq(EntryValues) /\ Len(entries') = n /\ entries'[n] = new
          /\ \A k \in 1 .. Len(entries) : entries'[k] = kept[k]
        BY <1>0, <1>3, <2>1, <2>2
    <2>4. DOMAIN entries' = 1 .. n
        BY <2>3
    <2> QED
        BY <1>3, <2>1, <2>2, <2>3, <2>4
<1>8. \A k \in 1 .. n : k \in DOMAIN entries \/ k = n
    BY <1>3
<1>9. n \in 1 .. n /\ n \notin DOMAIN entries /\ n \in Nat
    BY <1>3
<1> HIDE DEF n, kept, new
<1>10. Pairwise(entries')
    <2> SUFFICES ASSUME NEW k \in 1 .. n, NEW m \in 1 .. n
                 PROVE  /\ entries'[k].identity.generation = entries'[m].identity.generation => k = m
                        /\ entries'[k].identity.id = entries'[m].identity.id =>
                              /\ entries'[k].identity.kind = entries'[m].identity.kind
                              /\ k < m => ~entries'[k].active
        BY <1>7 DEF Pairwise
    <2>1. CASE k \in DOMAIN entries /\ m \in DOMAIN entries
        BY <1>2, <1>7, <2>1 DEF Pairwise
    <2>2. \A j \in DOMAIN entries : entries[j].identity.id = x.id =>
              entries[j].identity.kind = x.kind /\ ~entries'[j].active
        <3> SUFFICES ASSUME NEW j \in DOMAIN entries, entries[j].identity.id = x.id
                     PROVE  entries[j].identity.kind = x.kind /\ ~entries'[j].active
            OBVIOUS
        <3>1. prev # 0 /\ prev \in DOMAIN entries /\ old.identity.id = x.id /\ old.identity.kind = x.kind
            BY <1>0, <1>2, <1>6
        <3>2. entries[j].identity.kind = old.identity.kind
            BY <1>2, <3>1 DEF Pairwise, old
        <3> QED
            BY <1>5, <1>7, <3>1, <3>2
    <2>3. CASE k \in DOMAIN entries /\ m = n
        BY <1>0, <1>7, <2>2, <2>3
    <2>4. CASE k = n /\ m \in DOMAIN entries
        BY <1>0, <1>4, <1>7, <1>9, <2>2, <2>4
    <2>5. CASE k = n /\ m = n
        BY <1>9, <2>5
    <2> QED
        BY <1>8, <2>1, <2>3, <2>4, <2>5
<1>11. Validate(entries')
    BY <1>0, <1>7, <1>10, ValidateFacts
<1>12. Seen' = Seen \cup {x} /\ Read' = Read
    BY <1>0, <1>2 DEF Seen, Read
<1>13. x \notin Read.active /\ x \notin Read.retired
    BY <1>0, <1>2
<1>14. Meaning(entries') = Partly(Read, Seen \cup {x})
    <2> DEFINE M == Meaning(entries)
               N == Meaning(entries')
               A == {a \in Read.active : \A i \in Seen \cup {x} : i.id = a.id => i = a} \cup (Seen \cup {x})
               R == Read.retired \cup {a \in Read.active : \E i \in Seen \cup {x} : i.id = a.id /\ i # a}
    <2>1. /\ \A i : i \in M.active <=> \E k \in DOMAIN entries : entries[k].identity = i /\ entries[k].active
          /\ \A i : i \in M.retired <=> \E k \in DOMAIN entries : entries[k].identity = i /\ ~entries[k].active
        BY MeaningFacts
    <2>2. /\ \A i : i \in N.active <=> \E k \in 1 .. n : entries'[k].identity = i /\ entries'[k].active
          /\ \A i : i \in N.retired <=> \E k \in 1 .. n : entries'[k].identity = i /\ ~entries'[k].active
          /\ N = [active |-> N.active, retired |-> N.retired]
        BY <1>7, MeaningFacts
    <2>3. /\ M.active = {a \in Read.active : \A i \in Seen : i.id = a.id => i = a} \cup Seen
          /\ M.retired = Read.retired \cup {a \in Read.active : \E i \in Seen : i.id = a.id /\ i # a}
        BY <1>0 DEF EnrollInv, RunningInv, Turn, Partly
    <2> HIDE DEF M, N
    <2>4. \A i : i \in N.active <=> i = x \/ (i \in M.active /\ i.id # x.id)
        <3>1. ASSUME NEW i, i \in N.active PROVE i = x \/ (i \in M.active /\ i.id # x.id)
            <4>1. PICK k \in 1 .. n : entries'[k].identity = i /\ entries'[k].active
                BY <2>2, <3>1
            <4>2. CASE k = n
                BY <1>7, <4>1, <4>2
            <4>3. CASE k \in DOMAIN entries
                BY <1>5, <1>7, <2>1, <4>1, <4>3
            <4> QED
                BY <1>8, <4>2, <4>3
        <3>2. ASSUME NEW i, i \in M.active, i.id # x.id PROVE i \in N.active
            <4>1. PICK k \in DOMAIN entries : entries[k].identity = i /\ entries[k].active
                BY <2>1, <3>2
            <4>2. k # prev
                <5>1. prev # 0 => entries[prev].identity.id = x.id
                    BY <1>2 DEF old
                <5>2. k # 0
                    BY <1>3
                <5> QED
                    BY <3>2, <4>1, <5>1, <5>2
            <4> QED
                BY <1>4, <1>7, <2>2, <4>1, <4>2
        <3>3. x \in N.active
            BY <1>7, <1>9, <2>2
        <3> QED
            BY <3>1, <3>2, <3>3
    <2>5. \A i : i \in N.retired <=> i \in M.retired \/ (i \in M.active /\ i.id = x.id)
        <3>1. ASSUME NEW i, i \in N.retired PROVE i \in M.retired \/ (i \in M.active /\ i.id = x.id)
            <4>1. PICK k \in 1 .. n : entries'[k].identity = i /\ ~entries'[k].active
                BY <2>2, <3>1
            <4>2. k \in DOMAIN entries
                BY <1>7, <1>8, <4>1
            <4>3. CASE k = prev
                <5>1. entries[k].active /\ entries[k].identity.id = x.id
                    <6>1. prev # 0
                        BY <1>3, <4>2, <4>3
                    <6> QED
                        BY <1>0, <1>2, <4>3, <6>1 DEF old
                <5> QED
                    BY <1>7, <2>1, <4>1, <4>2, <5>1
            <4>4. CASE k # prev
                BY <1>7, <2>1, <4>1, <4>2, <4>4
            <4> QED
                BY <4>3, <4>4
        <3>2. ASSUME NEW i, i \in M.retired PROVE i \in N.retired
            BY <1>4, <1>7, <2>1, <2>2, <3>2
        <3>3. ASSUME NEW i, i \in M.active, i.id = x.id PROVE i \in N.retired
            <4>1. PICK k \in DOMAIN entries : entries[k].identity = i /\ entries[k].active
                BY <2>1, <3>3
            <4> QED
                BY <1>4, <1>5, <1>7, <2>2, <3>3, <4>1
        <3> QED
            BY <3>1, <3>2, <3>3
    <2>6. N.active = A
        BY <1>2, <1>13, <2>3, <2>4
    <2>7. N.retired = R
        BY <1>2, <1>13, <2>3, <2>5
    <2>8. Partly(Read, Seen \cup {x}) = [active |-> A, retired |-> R]
        BY DEF Partly
    <2> HIDE DEF A, R
    <2> QED
        BY <2>2, <2>6, <2>7, <2>8 DEF N
<1>15. Admits(Read, Seen \cup {x})
    <2>1. Fresh(Read, Seen \cup {x}) = Fresh(Read, Seen) \cup {x}
        BY <1>13 DEF Fresh
    <2>2. Admits(Read, Seen)
        BY <1>0 DEF EnrollInv, RunningInv, Turn
    <2>3. \A e \in Entries(Read) \cup Seen : \E k \in DOMAIN entries : entries[k].identity = e
        BY <1>2 DEF Entries
    <2>4. \A e \in Entries(Read) \cup Seen : e.generation # x.generation
        BY <1>0, <2>3
    <2>5. \A e \in Entries(Read) : e.id = x.id => e.kind = x.kind
        <3> SUFFICES ASSUME NEW e \in Entries(Read), e.id = x.id PROVE e.kind = x.kind
            OBVIOUS
        <3>1. PICK k \in DOMAIN entries : entries[k].identity = e
            BY <2>3
        <3>2. prev # 0
            BY <1>6, <3>1
        <3> QED
            BY <1>0, <1>2, <3>1, <3>2 DEF Pairwise, old
    <2>6. x.id \in Ids(Read.retired) => x.id \in Ids(Read.active)
        <3> SUFFICES ASSUME x.id \in Ids(Read.retired) PROVE x.id \in Ids(Read.active)
            OBVIOUS
        <3>1. PICK e \in Read.retired : e.id = x.id
            BY DEF Ids
        <3>2. PICK k \in DOMAIN entries : entries[k].identity = e
            BY <1>2, <3>1
        <3>3. prev # 0
            BY <1>6, <3>1, <3>2
        <3>4. old.identity \in Read.active /\ old.identity.id = x.id
            BY <1>0, <1>2, <3>3 DEF old
        <3> QED
            BY <3>4 DEF Ids
    <2>7. \A j \in Fresh(Read, Seen) : j \in Seen
        BY DEF Fresh
    <2> QED
        BY <2>1, <2>2, <2>4, <2>5, <2>6, <2>7 DEF Admits
<1>16. RunningInv'
    <2>1. Fresh(Read, Seen \cup {x}) # {}
        BY <1>13 DEF Fresh
    <2>2. Validate(before)
        BY <1>0 DEF EnrollInv, RunningInv, Turn
    <2>3. /\ Validate(before)' /\ Validate(entries)' /\ Meaning(entries)' = Partly(Read', Seen')
          /\ Admits(Read', Seen') /\ Fresh(Read', Seen') # {}
        <3>1. Validate(before)' = Validate(before')
            BY DEF Validate
        <3>2. Validate(entries)' = Validate(entries')
            BY DEF Validate
        <3>3. Meaning(entries)' = Meaning(entries')
            BY DEF Meaning
        <3> QED
            BY <1>0, <1>11, <1>12, <1>14, <1>15, <2>1, <2>2, <3>1, <3>2, <3>3
    <2> QED
        BY <1>0, <2>3 DEF RunningInv
<1>17. LoopTypeInv'
    BY <1>0, <1>2, <1>7 DEF EnrollInv, LoopTypeInv
<1>18. LoopEnrolls'
    BY <1>0 DEF LoopEnrolls, Turn
<1> QED
    BY <1>16, <1>17, <1>18 DEF EnrollInv

\* After the last turn, what is still active under an id that was not requested
\* is retired: the vector then means the ledger Enrolled describes.
LEMMA RetireDroppedInv == ASSUME EnrollInv, RetireDropped PROVE EnrollInv'
<1>0. /\ result = "running" /\ todo = {} /\ result' = "ok" /\ UNCHANGED <<todo, before, asked>>
      /\ entries' = [k \in DOMAIN entries |->
                        IF Dropped(k) THEN [entries[k] EXCEPT !.active = FALSE] ELSE entries[k]]
      /\ changed' = (changed \/ \E k \in DOMAIN entries : Dropped(k))
    BY DEF RetireDropped
<1>1. /\ before \in Seq(EntryValues) /\ entries \in Seq(EntryValues)
      /\ asked \in Authorities /\ changed \in BOOLEAN
    BY DEF EnrollInv, LoopTypeInv
<1>2. Seen = asked
    BY <1>0 DEF Seen
<1>3. /\ Validate(before) /\ Validate(entries)
      /\ Meaning(entries) = Partly(Read, asked) /\ Admits(Read, asked)
      /\ changed <=> Fresh(Read, asked) # {}
    BY <1>0, <1>2 DEF EnrollInv, RunningInv
<1>4. Pairwise(before) /\ Pairwise(entries) /\ Len(entries) <= MaxEntries
    BY <1>1, <1>3, ValidateFacts
<1>5. ValidLedger(Read)
    BY <1>1, <1>4, ValidMeaning DEF Read
<1>6. /\ Len(entries) \in Nat /\ DOMAIN entries = 1 .. Len(entries)
      /\ \A k \in DOMAIN entries : entries[k] \in EntryValues
    BY <1>1, EntryFacts
<1>7. /\ entries' \in Seq(EntryValues) /\ Len(entries') = Len(entries) /\ DOMAIN entries' = DOMAIN entries
      /\ \A k \in DOMAIN entries :
            /\ entries'[k].identity = entries[k].identity
            /\ entries'[k].active <=> entries[k].active /\ entries[k].identity.id \in Ids(asked)
    <2>1. ASSUME NEW e \in EntryValues
          PROVE  /\ [e EXCEPT !.active = FALSE] \in EntryValues
                 /\ [e EXCEPT !.active = FALSE].identity = e.identity
                 /\ [e EXCEPT !.active = FALSE].active = FALSE
        BY DEF EntryValues
    <2>2. entries' \in [1 .. Len(entries) -> EntryValues]
        BY <1>0, <1>6, <2>1
    <2>3. \A k \in DOMAIN entries :
            /\ entries'[k].identity = entries[k].identity
            /\ entries'[k].active <=> entries[k].active /\ entries[k].identity.id \in Ids(asked)
        <3> SUFFICES ASSUME NEW k \in DOMAIN entries
                     PROVE  /\ entries'[k].identity = entries[k].identity
                            /\ entries'[k].active <=> entries[k].active /\ entries[k].identity.id \in Ids(asked)
            OBVIOUS
        <3>1. CASE Dropped(k)
            BY <1>0, <1>6, <2>1, <3>1 DEF Dropped
        <3>2. CASE ~Dropped(k)
            BY <1>0, <1>6, <3>2 DEF Dropped
        <3> QED
            BY <3>1, <3>2
    <2> QED
        BY <1>6, <2>2, <2>3
<1>8. Pairwise(entries')
    BY <1>4, <1>7 DEF Pairwise
<1>9. Validate(entries')
    BY <1>4, <1>7, <1>8, ValidateFacts
<1> DEFINE M == Meaning(entries)
           N == Meaning(entries')
<1>10. /\ \A i : i \in M.active <=> \E k \in DOMAIN entries : entries[k].identity = i /\ entries[k].active
       /\ \A i : i \in M.retired <=> \E k \in DOMAIN entries : entries[k].identity = i /\ ~entries[k].active
    BY MeaningFacts
<1>11. /\ \A i : i \in N.active <=> \E k \in DOMAIN entries : entries'[k].identity = i /\ entries'[k].active
       /\ \A i : i \in N.retired <=> \E k \in DOMAIN entries : entries'[k].identity = i /\ ~entries'[k].active
       /\ N = [active |-> N.active, retired |-> N.retired]
    BY <1>7, MeaningFacts
<1>12. /\ M.active = {a \in Read.active : \A i \in asked : i.id = a.id => i = a} \cup asked
       /\ M.retired = Read.retired \cup {a \in Read.active : \E i \in asked : i.id = a.id /\ i # a}
    BY <1>3 DEF Partly
<1>13. Cardinality(Entries(Read) \cup asked) = Len(entries)
    <2>1. Entries(M) = Entries(Read) \cup asked
        BY <1>12 DEF Entries
    <2> QED
        BY <1>1, <1>4, <2>1, LengthFacts
<1> HIDE DEF M, N
<1>14. \A i, j \in asked : i.id = j.id => i = j
    BY <1>1 DEF Authorities
<1>15. \A n : n \in Ids(asked) <=> \E i \in asked : i.id = n
    BY DEF Ids
<1>16. \A i : i \in N.active <=> i \in M.active /\ i.id \in Ids(asked)
    BY <1>7, <1>10, <1>11
<1>17. \A i : i \in N.retired <=> i \in M.retired \/ (i \in M.active /\ i.id \notin Ids(asked))
    BY <1>7, <1>10, <1>11
<1>18. N.active = asked
    <2>1. ASSUME NEW i \in asked PROVE i \in N.active
        BY <1>12, <1>15, <1>16
    <2>2. ASSUME NEW i, i \in N.active PROVE i \in asked
        <3>1. i \in M.active /\ i.id \in Ids(asked)
            BY <1>16, <2>2
        <3>2. PICK j \in asked : j.id = i.id
            BY <1>15, <3>1
        <3> QED
            BY <1>12, <3>1, <3>2
    <2> QED
        BY <2>1, <2>2
<1>19. N.retired = Read.retired \cup (Read.active \ asked)
    BY <1>12, <1>14, <1>15, <1>17
<1>20. Meaning(entries') = Enrolled(Read, asked)
    BY <1>11, <1>18, <1>19 DEF Enrolled, N
<1>21. Accepts(Read, asked)
    <2>1. Cardinality(Entries(Read) \cup asked) <= MaxEntries
        BY <1>4, <1>13
    <2> QED
        BY <1>3, <2>1 DEF Admits, Accepts
<1>22. changed' <=> Enrolled(Read, asked) # Read
    <2> DEFINE some == \E a \in Read.active : a.id \notin Ids(asked)
    <2>1. (\E k \in DOMAIN entries : Dropped(k)) <=> some
        <3>1. (\E k \in DOMAIN entries : Dropped(k)) <=> \E a \in M.active : a.id \notin Ids(asked)
            BY <1>10 DEF Dropped
        <3> QED
            BY <1>12, <1>15, <3>1
    <2>2. changed' <=> (Fresh(Read, asked) # {} \/ some)
        BY <1>0, <1>1, <1>3, <2>1
    <2>3. Read = [active |-> Read.active, retired |-> Read.retired]
        BY MeaningFacts DEF Read
    <2>4. Enrolled(Read, asked).active = asked
        BY DEF Enrolled
    <2>5. ASSUME Fresh(Read, asked) # {} \/ some PROVE Enrolled(Read, asked) # Read
        <3>1. Read.active # asked
            BY <1>15, <2>5 DEF Fresh
        <3> QED
            BY <2>4, <3>1
    <2>6. ASSUME ~(Fresh(Read, asked) # {} \/ some) PROVE Enrolled(Read, asked) = Read
        <3>1. asked \subseteq Read.active /\ \A a \in Read.active : a.id \in Ids(asked)
            BY <2>6 DEF Fresh
        <3>2. \A a \in Read.active : a \in asked
            BY <1>5, <1>15, <3>1 DEF ValidLedger
        <3>3. asked = Read.active
            BY <3>1, <3>2
        <3>4. Read.retired \cup (Read.active \ asked) = Read.retired
            BY <3>3
        <3> QED
            BY <2>3, <3>3, <3>4 DEF Enrolled
    <2> QED
        BY <2>2, <2>5, <2>6
<1>23. LoopEnrolls'
    <2>1. Meaning(before)' = Read
        BY <1>0 DEF Meaning, Read
    <2>2. Meaning(entries)' = Meaning(entries')
        BY DEF Meaning
    <2>3. Validate(entries)' = Validate(entries')
        BY DEF Validate
    <2>4. Accepts(Meaning(before), asked)' = Accepts(Read, asked)
        BY <1>0, <2>1 DEF Accepts, Fresh, Entries, Ids
    <2>5. Enrolled(Meaning(before), asked)' = Enrolled(Read, asked)
        BY <1>0, <2>1 DEF Enrolled
    <2>6. Enrolled(Meaning(before), asked)' # Meaning(before)' <=> Enrolled(Read, asked) # Read
        BY <2>1, <2>5
    <2> QED
        BY <1>0, <1>9, <1>20, <1>21, <1>22, <2>1, <2>2, <2>3, <2>4, <2>5, <2>6 DEF LoopEnrolls
<1>24. RunningInv'
    BY <1>0 DEF RunningInv
<1>25. LoopTypeInv'
    BY <1>0, <1>1, <1>7 DEF EnrollInv, LoopTypeInv
<1> QED
    BY <1>23, <1>24, <1>25 DEF EnrollInv

\* Every step of enroll keeps the invariant.
LEMMA EnrollInvNext == EnrollInv /\ [EnrollNext]_enrollVars => EnrollInv'
<1> SUFFICES ASSUME EnrollInv, [EnrollNext]_enrollVars PROVE EnrollInv'
    OBVIOUS
<1>1. CASE Refuse
    BY <1>1, RefuseInv
<1>2. CASE Continue
    BY <1>2, ContinueInv
<1>3. CASE PushEntry
    BY <1>3, PushEntryInv
<1>4. CASE RetireDropped
    BY <1>4, RetireDroppedInv
<1>5. CASE UNCHANGED enrollVars
    <2>1. UNCHANGED <<entries, todo, changed, result, before, asked>>
        BY <1>5 DEF enrollVars
    <2>2. LoopTypeInv'
        BY <2>1 DEF EnrollInv, LoopTypeInv
    <2>3. RunningInv' = RunningInv
        BY <2>1 DEF RunningInv, Validate, Meaning, Partly, Read, Seen, Admits, Fresh, Entries, Ids
    <2>4. LoopEnrolls' = LoopEnrolls
        BY <2>1 DEF LoopEnrolls, Validate, Meaning, Accepts, Enrolled, Fresh, Entries, Ids
    <2> QED
        BY <2>2, <2>3, <2>4 DEF EnrollInv
<1> QED
    BY <1>1, <1>2, <1>3, <1>4, <1>5 DEF EnrollNext, Done

\* For every ledger file of any length and every request, the loops of enroll
\* succeed exactly where the specification of an enrollment accepts, leave the
\* ledger it describes, report a change exactly when the ledger changed, and
\* write a vector the next reader validates.
THEOREM LoopImplementsEnrollment == EnrollSpec => []LoopEnrolls
<1>1. EnrollInv => LoopEnrolls
    BY DEF EnrollInv
<1> QED
    BY EnrollInitInv, EnrollInvNext, <1>1, PTL DEF EnrollSpec

\* The vector in memory means a valid ledger whenever validate lets it through,
\* and then rposition finds the active entry of every id that has one.
THEOREM ValidatedVectorIsLedger == EnrollSpec => []ValidateImpliesValid
<1>1. EnrollInv => ValidateImpliesValid
    <2> SUFFICES ASSUME EnrollInv, Validate(entries) PROVE
            /\ ValidLedger(Meaning(entries))
            /\ \A i \in Meaning(entries).active : entries[Previous(i.id)] = [identity |-> i, active |-> TRUE]
        BY DEF ValidateImpliesValid
    <2>1. entries \in Seq(EntryValues)
        BY DEF EnrollInv, LoopTypeInv
    <2>2. Pairwise(entries)
        BY <2>1, ValidateFacts
    <2>3. ValidLedger(Meaning(entries))
        BY <2>1, <2>2, ValidMeaning
    <2>4. ASSUME NEW i \in Meaning(entries).active
          PROVE  entries[Previous(i.id)] = [identity |-> i, active |-> TRUE]
        <3>1. PICK k \in DOMAIN entries : entries[k].identity = i /\ entries[k].active
            BY MeaningFacts
        <3>2. Previous(i.id) = k
            BY <2>1, <2>2, <3>1, ActiveIsLast
        <3>3. /\ entries[k] = [identity |-> entries[k].identity, active |-> entries[k].active]
              /\ entries[k].active \in BOOLEAN
            BY <2>1, EntryFacts
        <3>4. entries[k].active = TRUE
            BY <3>1, <3>3
        <3> QED
            BY <3>1, <3>2, <3>3, <3>4
    <2> QED
        BY <2>3, <2>4
<1> QED
    BY EnrollInitInv, EnrollInvNext, <1>1, PTL DEF EnrollSpec
=============================================================================
