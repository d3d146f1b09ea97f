--------------------------- MODULE LogSearchProofs ---------------------------
(***************************************************************************)
(* log_grep and log_tail: how old an answer of the two caches can be, that *)
(* a refresh is one, and that the answer made of one read of a log says    *)
(* what it left out.                                                       *)
(*                                                                         *)
(* The caches (LogSearch), for any number of calls and any TTLs.           *)
(*                                                                         *)
(* An answer is bounded by a chain of intervals, one per place the window  *)
(* passes through: the time in the source, the time in the raw cache, the  *)
(* redaction, the time in the index.  The invariant has one link of the    *)
(* chain per stage of a call and per cache, since a window that another    *)
(* call stored comes with nothing but the two times of its entry.          *)
(*                                                                         *)
(* One read (LogTail), for logs, chunks, caps and patterns of any size.    *)
(* Loops over data (the cursors of intersect_sorted, the terms of          *)
(* matching_lines) are handled by least counterexample: a function with    *)
(* one value per turn exists, and the first turn that breaks what the loop *)
(* keeps is impossible.  The backward search for the window counts the     *)
(* newlines behind an offset; WindowStart, its specification, does not     *)
(* mention chunks.                                                         *)
(***************************************************************************)
EXTENDS LogSearch, LogTail, FiniteSetTheorems, WellFoundedInduction, TLAPS

\* Longest time from the read of a window to its arrival in the redaction, and
\* to its store in the index.
RawAge == Timeout + WindowTtl
IndexAge == RawAge + MaxRedaction

\* Stages in which a call has its window.
HasWindow == {"tailed", "redact", "store", "done"}

\* No time lies ahead of the clock, and a call enters a stage after it began.
ClockInv ==
    \A c \in Calls :
        /\ started[c] <= begun[c] /\ begun[c] <= now
        /\ read[c] # None => read[c] <= now

\* How long a call has been where it is: Tick waits for it.
StageInv ==
    \A c \in Calls :
        /\ pc[c] \in InSource => now <= begun[c] + Timeout
        /\ pc[c] \in {"redact", "store"} => now <= begun[c] + MaxRedaction
        /\ pc[c] \in {"store", "lookup"} => c \in KeywordCalls

\* The window a call works on.
WindowInv ==
    \A c \in Calls :
        /\ pc[c] \in HasWindow => read[c] # None
        /\ pc[c] = "tailed" => begun[c] <= read[c]
        /\ pc[c] \in {"redact", "store"} => begun[c] <= read[c] + RawAge
        /\ pc[c] \in HasWindow /\ refresh[c] => started[c] <= read[c]

\* The entries of the caches: the window was not older than that when stored.
CacheInv ==
    /\ window # None => /\ window.read <= window.minted /\ window.minted <= now
                        /\ window.minted <= window.read + Timeout
    /\ keyword # None => /\ keyword.read <= keyword.minted /\ keyword.minted <= now
                         /\ keyword.minted <= keyword.read + IndexAge

IInv == TypeOK /\ ClockInv /\ StageInv /\ WindowInv /\ CacheInv /\ StalenessBounded

-----------------------------------------------------------------------------
\* The bounds are natural numbers, and so are the times.
LEMMA Bounds ==
    /\ KeywordTtl \in Nat /\ WindowTtl \in Nat /\ Timeout \in Nat
    /\ MaxRedaction \in Nat /\ MaxTime \in Nat
    /\ RawAge \in Nat /\ IndexAge \in Nat
    /\ Times \subseteq Nat /\ None \notin Times
  BY SearchBounds DEF Times, RawAge, IndexAge

\* The calls begin with empty caches.
LEMMA InitInv == Init => IInv
  BY Bounds DEF Init, IInv, TypeOK, ClockInv, StageInv, WindowInv, CacheInv,
     StalenessBounded, Times, Entries, Stages, InSource, HasWindow, Calls

\* A call that begins sees the clock, and has no window yet.
LEMMA BeginInv == ASSUME IInv, NEW c \in Calls, Begin(c) PROVE IInv'
  <1>1. PICK b \in BOOLEAN :
          /\ refresh' = [refresh EXCEPT ![c] = b]
          /\ pc[c] = "new"
          /\ started' = [started EXCEPT ![c] = now]
          /\ begun' = [begun EXCEPT ![c] = now]
          /\ pc' = [pc EXCEPT ![c] = IF c \in KeywordCalls THEN "lookup" ELSE "source"]
          /\ UNCHANGED <<now, keyword, window, read>>
    <2>1. PICK b \in {FALSE, (c \in KeywordCalls)} : refresh' = [refresh EXCEPT ![c] = b]
      BY Zenon DEF Begin
    <2>2. b \in BOOLEAN
      <3>1. (c \in KeywordCalls) \in BOOLEAN
        OBVIOUS
      <3>2. b = FALSE \/ b = (c \in KeywordCalls)
        OBVIOUS
      <3> QED
        BY <3>1, <3>2, Zenon
    <2> QED
      BY <2>1, <2>2, Zenon DEF Begin, Goto
  <1> QED
    BY <1>1, Bounds DEF IInv, TypeOK, Times, ClockInv, StageInv, WindowInv, CacheInv,
       StalenessBounded, Stages, InSource, HasWindow

\* An answer from the index: the age of its entry is within the TTL, and the
\* entry was within IndexAge when it was stored.
LEMMA KeywordHitInv == ASSUME IInv, NEW c \in Calls, KeywordHit(c) PROVE IInv'
  <1>1. /\ keyword.read \in Times /\ keyword.minted \in Times
        /\ keyword.minted <= keyword.read + IndexAge /\ now <= keyword.minted + KeywordTtl
        /\ keyword.read <= now
    BY Bounds DEF KeywordHit, Fresh, IInv, TypeOK, Times, Entries, CacheInv
  <1>2. /\ pc[c] = "lookup" /\ ~refresh[c] /\ c \in KeywordCalls
        /\ read' = [read EXCEPT ![c] = keyword.read]
        /\ pc' = [pc EXCEPT ![c] = "done"]
        /\ UNCHANGED <<now, keyword, window, refresh, started, begun>>
    BY DEF KeywordHit, Goto, IInv, StageInv
  <1>3. StalenessBounded'
    BY <1>1, <1>2, Bounds DEF IInv, TypeOK, Times, ClockInv, StalenessBounded, RawAge, IndexAge
  <1> QED
    BY <1>1, <1>2, <1>3, Bounds DEF IInv, TypeOK, Times, ClockInv, StageInv, WindowInv, CacheInv,
       Stages, InSource, HasWindow

\* A miss in the index cache sends the call to the source.
LEMMA KeywordMissInv == ASSUME IInv, NEW c \in Calls, KeywordMiss(c) PROVE IInv'
  BY Bounds DEF IInv, KeywordMiss, Goto, TypeOK, Times, ClockInv, StageInv, WindowInv, CacheInv,
     StalenessBounded, Entries, Stages, InSource, HasWindow

\* A hit in the raw cache: the window was stored within the timeout and is younger than its TTL.
LEMMA WindowHitInv == ASSUME IInv, NEW c \in Calls, WindowHit(c) PROVE IInv'
  <1>1. /\ window.read \in Times /\ window.minted \in Times
        /\ window.minted <= window.read + Timeout /\ now <= window.minted + WindowTtl
        /\ window.read <= now
    BY Bounds DEF WindowHit, Fresh, IInv, TypeOK, Times, Entries, CacheInv
  <1>2. now <= window.read + RawAge
    BY <1>1, Bounds DEF RawAge, IInv, TypeOK, Times
  <1>3. /\ pc[c] = "source" /\ ~refresh[c]
        /\ read' = [read EXCEPT ![c] = window.read]
        /\ begun' = [begun EXCEPT ![c] = now]
        /\ pc' = [pc EXCEPT ![c] = "redact"]
        /\ UNCHANGED <<now, keyword, window, refresh, started>>
    BY DEF WindowHit, Goto
  <1> QED
    BY <1>1, <1>2, <1>3, Bounds DEF IInv, TypeOK, Times, ClockInv, StageInv, WindowInv, CacheInv,
       StalenessBounded, Stages, InSource, HasWindow

\* A miss in the raw cache sends the call to the log.
LEMMA WindowMissInv == ASSUME IInv, NEW c \in Calls, WindowMiss(c) PROVE IInv'
  BY Bounds DEF IInv, WindowMiss, Goto, TypeOK, Times, ClockInv, StageInv, WindowInv, CacheInv,
     StalenessBounded, Entries, Stages, InSource, HasWindow

\* The log is read now.
LEMMA TailLogInv == ASSUME IInv, NEW c \in Calls, TailLog(c) PROVE IInv'
  BY Bounds DEF IInv, TailLog, Goto, TypeOK, Times, ClockInv, StageInv, WindowInv, CacheInv,
     StalenessBounded, Entries, Stages, InSource, HasWindow

\* The source's timeout bounds the time between the read and the store.
LEMMA StoreWindowInv == ASSUME IInv, NEW c \in Calls, StoreWindow(c) PROVE IInv'
  <1>1. /\ pc[c] = "tailed" /\ read[c] \in Times /\ begun[c] <= read[c]
        /\ now <= begun[c] + Timeout
    BY DEF StoreWindow, IInv, TypeOK, Times, WindowInv, StageInv, HasWindow, InSource
  <1>2. now <= read[c] + Timeout /\ now <= read[c] + RawAge
    BY <1>1, Bounds DEF RawAge, IInv, TypeOK, Times
  <1>3. /\ window' = [read |-> read[c], minted |-> now]
        /\ window' \in Entries /\ window'.read = read[c] /\ window'.minted = now
        /\ begun' = [begun EXCEPT ![c] = now]
        /\ pc' = [pc EXCEPT ![c] = "redact"]
        /\ UNCHANGED <<now, keyword, refresh, started, read>>
    BY <1>1 DEF StoreWindow, Goto, Entries, IInv, TypeOK, Times
  <1> QED
    BY <1>1, <1>2, <1>3, Bounds DEF IInv, TypeOK, Times, ClockInv, StageInv, WindowInv, CacheInv,
       StalenessBounded, Stages, InSource, HasWindow

\* The window is redacted and indexed.
LEMMA RedactInv == ASSUME IInv, NEW c \in Calls, Redact(c) PROVE IInv'
  BY Bounds DEF IInv, Redact, Goto, TypeOK, Times, ClockInv, StageInv, WindowInv, CacheInv,
     StalenessBounded, Entries, Stages, InSource, HasWindow, RawAge

\* The bound on the redaction limits the age of what is indexed.
LEMMA StoreKeywordInv == ASSUME IInv, NEW c \in Calls, StoreKeyword(c) PROVE IInv'
  <1>1. /\ pc[c] = "store" /\ read[c] \in Times /\ begun[c] <= read[c] + RawAge
        /\ now <= begun[c] + MaxRedaction /\ c \in KeywordCalls /\ started[c] <= now
    BY Bounds DEF StoreKeyword, IInv, TypeOK, Times, WindowInv, StageInv, ClockInv, HasWindow
  <1>2. now <= read[c] + IndexAge
    BY <1>1, Bounds DEF IndexAge, IInv, TypeOK, Times
  <1>3. /\ keyword' = [read |-> read[c], minted |-> now]
        /\ keyword' \in Entries /\ keyword'.read = read[c] /\ keyword'.minted = now
        /\ pc' = [pc EXCEPT ![c] = "done"]
        /\ UNCHANGED <<now, window, refresh, started, begun, read>>
    BY <1>1 DEF StoreKeyword, Goto, Entries, IInv, TypeOK, Times
  <1>4. StalenessBounded'
    BY <1>1, <1>2, <1>3, Bounds DEF IInv, TypeOK, Times, StalenessBounded, RawAge, IndexAge
  <1> QED
    BY <1>1, <1>2, <1>3, <1>4, Bounds DEF IInv, TypeOK, Times, ClockInv, StageInv, WindowInv, CacheInv,
       Stages, InSource, HasWindow

\* A failed call leaves the caches alone.
LEMMA FailInv == ASSUME IInv, NEW c \in Calls, Fail(c) PROVE IInv'
  BY Bounds DEF IInv, Fail, Goto, TypeOK, Times, ClockInv, StageInv, WindowInv, CacheInv,
     StalenessBounded, Entries, Stages, InSource, HasWindow

\* The clock moves only as far as the deadlines of the calls allow.
LEMMA TickInv == ASSUME IInv, Tick PROVE IInv'
  BY Bounds DEF IInv, Tick, TypeOK, Times, ClockInv, StageInv, WindowInv, CacheInv,
     StalenessBounded, Entries, Stages, InSource, HasWindow

-----------------------------------------------------------------------------
\* Every behaviour keeps the chain of bounds.
THEOREM Invariance == Spec => []IInv
  <1>1. IInv /\ [Next]_vars => IInv'
    <2> SUFFICES ASSUME IInv, [Next]_vars PROVE IInv'
      OBVIOUS
    <2>1. CASE Tick
      BY <2>1, TickInv
    <2>2. ASSUME NEW c \in Calls, CallStep(c) PROVE IInv'
      BY <2>2, BeginInv, KeywordHitInv, KeywordMissInv, WindowHitInv, WindowMissInv, TailLogInv,
         StoreWindowInv, RedactInv, StoreKeywordInv, FailInv DEF CallStep
    <2>3. CASE UNCHANGED vars
      BY <2>3 DEF vars, IInv, TypeOK, ClockInv, StageInv, WindowInv, CacheInv, StalenessBounded
    <2> QED
      BY <2>1, <2>2, <2>3 DEF Next
  <1> QED
    BY <1>1, InitInv, PTL DEF Spec

\* Both caches hold windows that were read, and every call its times.
THEOREM TypeCorrect == Spec => []TypeOK
  <1>1. IInv => TypeOK
    BY DEF IInv
  <1> QED
    BY <1>1, Invariance, PTL

\* "refresh: true" is answered with a window read after the call began, for any
\* number of calls that store older ones in either cache meanwhile: it is kept
\* from the moment the log is read, because a refresh takes a window from
\* neither cache.
THEOREM RefreshIsOne == Spec => []RefreshReadsAnew
  <1>1. IInv => RefreshReadsAnew
    BY Bounds DEF IInv, TypeOK, WindowInv, HasWindow, RefreshReadsAnew, Times
  <1> QED
    BY <1>1, Invariance, PTL

\* No answer is older than the sum of the two TTLs, the time in the source and
\* the redaction, for all values of these and whatever a slow fetch overwrites.
THEOREM AgeBounded == Spec => []StalenessBounded
  <1>1. IInv => StalenessBounded
    BY DEF IInv
  <1> QED
    BY <1>1, Invariance, PTL
-----------------------------------------------------------------------------
(* Sets in order.                                                          *)

\* A set of natural numbers has a least element.
LEMMA LeastNat ==
    ASSUME NEW T \in SUBSET Nat, T # {}
    PROVE  \E m \in T : \A k \in T : m <= k
<1> DEFINE R == {ss \in Nat \X Nat : ss[1] < ss[2]}
<1>1. IsWellFoundedOn(R, Nat)
    BY NatLessThanWellFounded DEF OpToRel
<1>2. \A x, y \in Nat : x < y => <<x, y>> \in R
    OBVIOUS
<1> HIDE DEF R
<1>3. PICK m \in T : \A k \in T : ~(<<k, m>> \in R)
    BY <1>1, WFMin
<1>4. \A k \in T : ~(k < m)
    BY <1>2, <1>3
<1> QED
    BY <1>4

\* Every number up to the size of the set is the rank of one of its members.
LEMMA RankExists ==
    ASSUME NEW at \in SUBSET Nat, IsFiniteSet(at), NEW k \in 1 .. Cardinality(at)
    PROVE  \E i \in at : Cardinality({j \in at : j < i}) = k - 1
<1> DEFINE Below(i) == {j \in at : j < i}
           Bad == {m \in 1 .. Cardinality(at) : ~\E i \in at : Cardinality(Below(i)) = m - 1}
<1>0. at \in SUBSET Nat
    OBVIOUS
<1>1. IsFiniteSet(at) /\ Cardinality(at) \in Nat
    BY FS_CardinalityType
<1>2. ASSUME Bad # {} PROVE FALSE
    <2>1. PICK m \in Bad : \A l \in Bad : m <= l
        <3>1. Bad \in SUBSET Nat
            BY <1>1
        <3> HIDE DEF Bad
        <3> QED
            BY <3>1, <1>2, LeastNat
    <2>2. m \in 1 .. Cardinality(at) /\ ~\E i \in at : Cardinality(Below(i)) = m - 1
        BY <2>1
    <2>3. CASE m = 1
        <3>1. at # {}
            BY <1>1, <2>2, FS_EmptySet
        <3>2. PICK i \in at : \A j \in at : i <= j
            BY <1>0, <3>1, LeastNat
        <3>3. \A j \in at : i <= j /\ i \in Nat /\ j \in Nat
            BY <1>0, <3>2
        <3>4. Below(i) = {}
            <4>1. ASSUME NEW j \in at PROVE ~(j < i)
                BY <3>3
            <4> QED
                BY <4>1
        <3> QED
            BY <3>4, <2>2, <2>3, FS_EmptySet
    <2>4. CASE m # 1
        <3>1. m - 1 \in 1 .. Cardinality(at) /\ m - 1 \notin Bad
            <4>1. m \in Nat /\ 1 <= m /\ m <= Cardinality(at)
                BY <1>1, <2>2
            <4>2. m - 1 \in 1 .. Cardinality(at) /\ ~(m <= m - 1)
                BY <1>1, <4>1, <2>4
            <4> HIDE DEF Bad
            <4> QED
                BY <4>2, <2>1
        <3>2. PICK i \in at : Cardinality(Below(i)) = (m - 1) - 1
            BY <3>1 DEF Bad
        <3> DEFINE T == Below(i) \cup {i}
        <3>3. Cardinality(T) = m - 1 /\ T \subseteq at /\ IsFiniteSet(T)
            <4>1. IsFiniteSet(Below(i)) /\ i \notin Below(i)
                BY <1>1, FS_Subset
            <4>2. Cardinality(T) = Cardinality(Below(i)) + 1 /\ IsFiniteSet(T)
                BY <4>1, FS_AddElement
            <4> QED
                BY <3>2, <4>2, <2>2, <1>1
        <3>4. at \ T # {}
            <4>1. SUFFICES ASSUME at = T PROVE FALSE
                BY <3>3
            <4> QED
                <5> HIDE DEF T
                <5>1. Cardinality(at) = m - 1
                    BY <4>1, <3>3
                <5>2. m <= Cardinality(at) /\ m \in Nat
                    BY <2>2, <1>1
                <5> QED
                    BY <5>1, <5>2
        <3>5. PICK l \in at \ T : \A j \in at \ T : l <= j
            <4>1. at \ T \in SUBSET Nat
                BY <1>0
            <4> HIDE DEF T
            <4> QED
                BY <4>1, <3>4, LeastNat
        <3>6. Below(l) = T
            <4>1. i \in Nat /\ l \in Nat /\ i < l
                <5>1. i \in Nat /\ l \in Nat /\ l # i /\ ~(l < i)
                    BY <1>0
                <5> QED
                    BY <5>1
            <4>2. ASSUME NEW j \in at PROVE j < l <=> j \in T
                <5>1. j \in Nat
                    BY <1>0
                <5>2. j \in T <=> j <= i
                    BY <4>1, <5>1
                <5>3. j \notin T => l <= j
                    BY <3>5
                <5> HIDE DEF T
                <5> QED
                    BY <4>1, <5>1, <5>2, <5>3
            <4> QED
                BY <4>2
        <3> QED
            BY <3>6, <3>3, <2>2, <3>5
    <2> QED
        BY <2>3, <2>4
<1> QED
    BY <1>2

\* A larger member has a higher rank.
LEMMA RankGrows ==
    ASSUME NEW at \in SUBSET Nat, IsFiniteSet(at), NEW i \in at, NEW j \in at, i < j
    PROVE  /\ Cardinality({m \in at : m < i}) \in Nat /\ Cardinality({m \in at : m < j}) \in Nat
           /\ Cardinality({m \in at : m < i}) < Cardinality({m \in at : m < j})
<1> DEFINE I == {m \in at : m < i}
           J == {m \in at : m < j}
<1>1. IsFiniteSet(I) /\ IsFiniteSet(J)
    BY FS_Subset
<1>2. i \notin I /\ I \cup {i} \in SUBSET J
    <2>1. i \in Nat /\ j \in Nat /\ \A m \in at : m \in Nat
        OBVIOUS
    <2>2. \A m \in at : m < i => m < j
        BY <2>1
    <2>3. i \notin I /\ i \in J
        BY <2>1
    <2> QED
        BY <2>2, <2>3
<1> HIDE DEF I, J
<1>3. Cardinality(I \cup {i}) = Cardinality(I) + 1
    BY <1>1, <1>2, FS_AddElement
<1>4. Cardinality(I \cup {i}) <= Cardinality(J)
    BY <1>1, <1>2, FS_Subset
<1>5. Cardinality(I) \in Nat /\ Cardinality(J) \in Nat
    BY <1>1, FS_CardinalityType
<1>6. Cardinality(I) < Cardinality(J)
    BY <1>3, <1>4, <1>5
<1> QED
    BY <1>5, <1>6 DEF I, J

\* The rank of a member is below the size of the set.
LEMMA RankBound ==
    ASSUME NEW at \in SUBSET Nat, IsFiniteSet(at), NEW i \in at
    PROVE  Cardinality({m \in at : m < i}) + 1 \in 1 .. Cardinality(at)
<1> DEFINE I == {m \in at : m < i}
<1>1. IsFiniteSet(I) /\ i \notin I /\ I \cup {i} \in SUBSET at
    BY FS_Subset
<1> HIDE DEF I
<1>2. Cardinality(I \cup {i}) = Cardinality(I) + 1
    BY <1>1, FS_AddElement
<1>3. Cardinality(I \cup {i}) <= Cardinality(at)
    BY <1>1, FS_Subset
<1>4. Cardinality(I) \in Nat /\ Cardinality(at) \in Nat
    BY <1>1, FS_CardinalityType
<1>5. Cardinality(I) + 1 \in 1 .. Cardinality(at)
    BY <1>2, <1>3, <1>4
<1> QED
    BY <1>5 DEF I

\* Nth numbers the members in order.
LEMMA NthFacts ==
    ASSUME NEW at \in SUBSET Nat, IsFiniteSet(at)
    PROVE  /\ Cardinality(at) \in Nat
           /\ \A k \in 1 .. Cardinality(at) : Nth(at, k) \in at
           /\ \A k, l \in 1 .. Cardinality(at) : k < l => Nth(at, k) < Nth(at, l)
           /\ \A i \in at : \E k \in 1 .. Cardinality(at) : Nth(at, k) = i
<1> DEFINE R(i) == Cardinality({m \in at : m < i})
           N == Cardinality(at)
<1>1. N \in Nat
    BY FS_CardinalityType
<1>2. \A k \in 1 .. N : Nth(at, k) \in at /\ R(Nth(at, k)) = k - 1
    BY RankExists DEF Nth
<1>3. \A i, j \in at : i < j => R(i) \in Nat /\ R(j) \in Nat /\ R(i) < R(j)
    BY RankGrows
<1>4. \A i \in at : R(i) + 1 \in 1 .. N /\ R(i) \in Nat
    <2> SUFFICES ASSUME NEW i \in at PROVE R(i) + 1 \in 1 .. N /\ R(i) \in Nat
        OBVIOUS
    <2>1. R(i) \in Nat
        <3>1. IsFiniteSet({m \in at : m < i})
            BY FS_Subset
        <3> QED
            BY <3>1, FS_CardinalityType
    <2> QED
        BY <2>1, RankBound
<1> HIDE DEF R, N
<1>5. ASSUME NEW k \in 1 .. N, NEW l \in 1 .. N, k < l PROVE Nth(at, k) < Nth(at, l)
    <2>1. Nth(at, k) \in at /\ Nth(at, l) \in at /\ R(Nth(at, k)) = k - 1 /\ R(Nth(at, l)) = l - 1
        BY <1>2
    <2>2. ~(Nth(at, l) < Nth(at, k))
        <3>1. SUFFICES ASSUME Nth(at, l) < Nth(at, k) PROVE FALSE
            OBVIOUS
        <3>2. l - 1 < k - 1
            BY <1>3, <2>1, <3>1
        <3> QED
            BY <1>1, <1>5, <3>2
    <2>3. Nth(at, l) # Nth(at, k)
        BY <1>1, <1>5, <2>1
    <2>4. Nth(at, k) \in Nat /\ Nth(at, l) \in Nat
        BY <2>1
    <2> QED
        BY <2>2, <2>3, <2>4
<1>6. ASSUME NEW i \in at PROVE \E k \in 1 .. N : Nth(at, k) = i
    <2> DEFINE k == R(i) + 1
    <2>1. k \in 1 .. N /\ R(i) = k - 1
        BY <1>4
    <2>2. Nth(at, k) \in at /\ R(Nth(at, k)) = R(i)
        BY <1>2, <2>1
    <2>3. ~(Nth(at, k) < i) /\ ~(i < Nth(at, k))
        <3>1. ASSUME NEW a \in at, NEW b \in at, R(a) = R(b) PROVE ~(a < b)
            BY <1>3, <1>4, <3>1
        <3> QED
            BY <2>2, <3>1
    <2>4. Nth(at, k) \in Nat /\ i \in Nat
        BY <2>2
    <2>5. Nth(at, k) = i
        <3> HIDE DEF k
        <3> QED
            BY <2>3, <2>4
    <2> QED
        BY <2>1, <2>5
<1> QED
    BY <1>1, <1>2, <1>5, <1>6 DEF N

\* A sequence that lists a set of numbers, in order.
Lists(s, K) ==
    /\ s \in Seq(Nat)
    /\ \A i, j \in DOMAIN s : i < j => s[i] < s[j]
    /\ \A x : x \in K <=> \E i \in DOMAIN s : s[i] = x

\* Below an index up to which two such sequences agree.
LEMMA ListsAgree ==
    ASSUME NEW K, NEW s, Lists(s, K), NEW t, Lists(t, K), NEW n \in DOMAIN s,
           \A i \in DOMAIN s : i < n => i \in DOMAIN t /\ s[i] = t[i]
    PROVE  n \in DOMAIN t /\ t[n] <= s[n]
<1>1. /\ Len(s) \in Nat /\ DOMAIN s = 1 .. Len(s) /\ Len(t) \in Nat /\ DOMAIN t = 1 .. Len(t)
      /\ \A i \in DOMAIN s : s[i] \in Nat
      /\ \A i \in DOMAIN t : t[i] \in Nat
    BY DEF Lists
<1>2. PICK m \in DOMAIN t : t[m] = s[n]
    BY DEF Lists
<1>3. ~(m < n)
    <2>1. SUFFICES ASSUME m < n PROVE FALSE
        OBVIOUS
    <2>2. m \in DOMAIN s
        BY <1>1, <2>1
    <2>3. s[m] = t[m] /\ s[m] < s[n]
        BY <2>1, <2>2 DEF Lists
    <2> QED
        BY <1>1, <1>2, <2>2, <2>3
<1>4. n \in DOMAIN t
    BY <1>1, <1>3
<1>5. n = m \/ n < m
    BY <1>1, <1>3
<1>6. t[n] = t[m] \/ t[n] < t[m]
    BY <1>4, <1>5 DEF Lists
<1> QED
    BY <1>1, <1>2, <1>4, <1>6

\* A set is listed in one way only.
LEMMA ListsUnique ==
    ASSUME NEW K, NEW s, Lists(s, K), NEW t, Lists(t, K)
    PROVE  s = t
<1>1. /\ Len(s) \in Nat /\ DOMAIN s = 1 .. Len(s) /\ Len(t) \in Nat /\ DOMAIN t = 1 .. Len(t)
      /\ \A i \in DOMAIN s : s[i] \in Nat
      /\ \A i \in DOMAIN t : t[i] \in Nat
      /\ s \in Seq(Nat) /\ t \in Seq(Nat)
    BY DEF Lists
<1> DEFINE Same(i) == i \in DOMAIN s /\ i \in DOMAIN t /\ s[i] = t[i]
           Bad == {i \in DOMAIN s \cup DOMAIN t : ~Same(i)}
<1>2. ASSUME Bad # {} PROVE FALSE
    <2>1. Bad \in SUBSET Nat
        BY <1>1
    <2>2. PICK n \in Bad : \A k \in Bad : n <= k
        <3> HIDE DEF Bad
        <3> QED
            BY <1>2, <2>1, LeastNat
    <2>3. \A i \in DOMAIN s \cup DOMAIN t : i < n => Same(i)
        <3> SUFFICES ASSUME NEW i \in DOMAIN s \cup DOMAIN t, i < n, ~Same(i) PROVE FALSE
            OBVIOUS
        <3>1. i \in Nat /\ n \in Nat /\ n <= i
            BY <2>1, <2>2
        <3> QED
            BY <3>1
    <2> HIDE DEF Bad
    <2>4. n \in DOMAIN s => n \in DOMAIN t /\ t[n] <= s[n]
        BY <2>3, ListsAgree
    <2>5. n \in DOMAIN t => n \in DOMAIN s /\ s[n] <= t[n]
        BY <2>3, ListsAgree
    <2>6. n \in DOMAIN s \cup DOMAIN t
        BY <2>2 DEF Bad
    <2>7. Same(n)
        BY <1>1, <2>4, <2>5, <2>6
    <2> QED
        BY <2>2, <2>7 DEF Bad
<1>3. \A i \in DOMAIN s \cup DOMAIN t : Same(i)
    BY <1>2
<1>4. DOMAIN s = DOMAIN t
    BY <1>3
<1>5. Len(s) = Len(t)
    <2>1. ASSUME NEW a \in Nat, NEW b \in Nat, 1 .. a = 1 .. b PROVE ~(a < b)
        <3>1. SUFFICES ASSUME a < b PROVE FALSE
            OBVIOUS
        <3>2. b \in 1 .. b /\ b \notin 1 .. a
            BY <3>1
        <3> QED
            BY <2>1, <3>2
    <2>2. ~(Len(s) < Len(t)) /\ ~(Len(t) < Len(s))
        BY <1>1, <1>4, <2>1
    <2>3. \A a, b \in Nat : ~(a < b) /\ ~(b < a) => a = b
        OBVIOUS
    <2> QED
        BY <1>1, <2>2, <2>3
<1> QED
    BY <1>1, <1>3, <1>5

\* InOrder lists its set.
LEMMA InOrderLists ==
    ASSUME NEW at \in SUBSET Nat, IsFiniteSet(at)
    PROVE  /\ Lists(InOrder(at), at)
           /\ Len(InOrder(at)) = Cardinality(at) /\ Cardinality(at) \in Nat
<1> DEFINE N == Cardinality(at)
           s == InOrder(at)
<1>1. /\ N \in Nat
      /\ \A k \in 1 .. N : Nth(at, k) \in at
      /\ \A k, l \in 1 .. N : k < l => Nth(at, k) < Nth(at, l)
      /\ \A i \in at : \E k \in 1 .. N : Nth(at, k) = i
    BY NthFacts
<1>2. s = [k \in 1 .. N |-> Nth(at, k)]
    BY DEF InOrder
<1> HIDE DEF N, s
<1>3. DOMAIN s = 1 .. N /\ \A k \in 1 .. N : s[k] = Nth(at, k)
    BY <1>2
<1>4. s \in Seq(Nat) /\ Len(s) = N
    <2>1. \A k \in 1 .. N : Nth(at, k) \in Nat
        BY <1>1
    <2>2. s \in [1 .. N -> Nat]
        BY <1>2, <2>1
    <2> QED
        BY <1>1, <2>2
<1>5. Lists(s, at)
    <2>1. \A i, j \in DOMAIN s : i < j => s[i] < s[j]
        BY <1>1, <1>3
    <2>2. \A x : x \in at <=> \E i \in DOMAIN s : s[i] = x
        BY <1>1, <1>3
    <2> QED
        BY <1>4, <2>1, <2>2 DEF Lists
<1> QED
    BY <1>1, <1>4, <1>5 DEF s, N

\* A set of positions of a sequence is finite.
LEMMA PositionsFacts ==
    ASSUME NEW n \in Nat, NEW at \in SUBSET (1 .. n)
    PROVE  at \in SUBSET Nat /\ IsFiniteSet(at) /\ Cardinality(at) \in Nat
<1>1. IsFiniteSet(1 .. n)
    BY FS_Interval
<1>2. IsFiniteSet(at)
    BY <1>1, FS_Subset
<1> QED
    BY <1>2, FS_CardinalityType

\* Pick goes through the positions in order.
LEMMA PickInOrder ==
    ASSUME NEW s, NEW at
    PROVE  Pick(s, at) = [k \in 1 .. Cardinality(at) |-> s[InOrder(at)[k]]]
<1>1. \A k \in 1 .. Cardinality(at) : InOrder(at)[k] = Nth(at, k)
    BY DEF InOrder
<1> QED
    BY <1>1 DEF Pick

\* What is picked are the elements at the positions.
LEMMA PickFacts ==
    ASSUME NEW n \in Nat, NEW at \in SUBSET (1 .. n), NEW s
    PROVE  /\ Cardinality(at) \in Nat /\ Len(Pick(s, at)) = Cardinality(at)
           /\ DOMAIN Pick(s, at) = 1 .. Cardinality(at)
           /\ Pick(s, at) = [k \in 1 .. Cardinality(at) |-> s[InOrder(at)[k]]]
           /\ \A k \in 1 .. Cardinality(at) : InOrder(at)[k] \in at
           /\ Cardinality(at) = 0 => at = {}
<1>1. at \in SUBSET Nat /\ IsFiniteSet(at) /\ Cardinality(at) \in Nat
    BY PositionsFacts
<1>2. \A k \in 1 .. Cardinality(at) : InOrder(at)[k] = Nth(at, k)
    BY DEF InOrder
<1>3. Pick(s, at) = [k \in 1 .. Cardinality(at) |-> s[InOrder(at)[k]]]
    BY PickInOrder
<1>4. \A k \in 1 .. Cardinality(at) : InOrder(at)[k] \in at
    BY <1>1, <1>2, NthFacts
<1>5. Cardinality(at) = 0 => at = {}
    BY <1>1, FS_EmptySet
<1>6. Len(Pick(s, at)) = Cardinality(at) /\ DOMAIN Pick(s, at) = 1 .. Cardinality(at)
    BY <1>1, <1>3
<1> QED
    BY <1>1, <1>3, <1>4, <1>5, <1>6

\* All positions give the sequence.
LEMMA PickAll ==
    ASSUME NEW n \in Nat, NEW s, s = [k \in 1 .. n |-> s[k]]
    PROVE  Pick(s, 1 .. n) = s
<1> DEFINE at == 1 .. n
           id == [k \in at |-> k]
<1>1. at \in SUBSET Nat /\ IsFiniteSet(at)
    BY PositionsFacts
<1>2. Cardinality(at) = n
    <2>1. Cardinality(1 .. n) = IF 1 > n THEN 0 ELSE n - 1 + 1
        <3>1. 1 \in Int /\ n \in Int
            OBVIOUS
        <3> QED
            BY <3>1, FS_Interval
    <2>2. (IF 1 > n THEN 0 ELSE n - 1 + 1) = n
        OBVIOUS
    <2> QED
        BY <2>1, <2>2
<1>3. Lists(id, at)
    <2>1. id \in Seq(Nat) /\ DOMAIN id = at /\ \A k \in at : id[k] = k
        OBVIOUS
    <2> HIDE DEF id, at
    <2> QED
        BY <2>1 DEF Lists
<1> HIDE DEF id, at
<1>4. InOrder(at) = id
    BY <1>1, <1>3, InOrderLists, ListsUnique
<1>5. Pick(s, at) = [k \in 1 .. n |-> s[InOrder(at)[k]]]
    BY <1>2, PickFacts DEF at
<1>6. \A k \in 1 .. n : InOrder(at)[k] = k
    BY <1>4 DEF id, at
<1> QED
    BY <1>5, <1>6 DEF at

\* Positions of a list give the list of what is there.
LEMMA PickLists ==
    ASSUME NEW K, NEW s, Lists(s, K), NEW at \in SUBSET DOMAIN s
    PROVE  Lists(Pick(s, at), {s[i] : i \in at})
<1> DEFINE N == Cardinality(at)
           o == InOrder(at)
           p == Pick(s, at)
<1>1. /\ Len(s) \in Nat /\ DOMAIN s = 1 .. Len(s) /\ \A i \in DOMAIN s : s[i] \in Nat
    BY DEF Lists
<1>2. at \in SUBSET Nat /\ IsFiniteSet(at) /\ N \in Nat
    BY <1>1, PositionsFacts
<1>3. Lists(o, at) /\ Len(o) = N
    BY <1>2, InOrderLists
<1>4. p = [k \in 1 .. N |-> s[o[k]]]
    BY PickInOrder
<1>5. /\ DOMAIN o = 1 .. N /\ \A k \in 1 .. N : o[k] \in at
    BY <1>3 DEF Lists
<1> HIDE DEF N, o, p
<1>6. p \in Seq(Nat) /\ DOMAIN p = 1 .. N /\ \A k \in 1 .. N : p[k] = s[o[k]]
    BY <1>1, <1>2, <1>4, <1>5
<1>7. \A i, j \in DOMAIN p : i < j => p[i] < p[j]
    <2> SUFFICES ASSUME NEW i \in 1 .. N, NEW j \in 1 .. N, i < j PROVE p[i] < p[j]
        BY <1>6
    <2>1. o[i] < o[j]
        BY <1>3, <1>5 DEF Lists
    <2>2. s[o[i]] < s[o[j]]
        BY <1>5, <2>1 DEF Lists
    <2> QED
        BY <1>6, <2>2
<1>8. \A x : x \in {s[i] : i \in at} <=> \E k \in DOMAIN p : p[k] = x
    <2>1. \A i \in at : \E k \in 1 .. N : o[k] = i
        BY <1>3, <1>5 DEF Lists
    <2> QED
        BY <1>5, <1>6, <2>1
<1> QED
    BY <1>6, <1>7, <1>8 DEF Lists, p

-----------------------------------------------------------------------------
(* The keyword search.                                                     *)

\* A function that gives the cursors after each of n turns.
Blank == [left |-> 1, right |-> 1, out |-> <<>>]
Cursors(f, left, right, n) ==
    f = [k \in 0 .. n |-> IF k = 0 THEN Blank ELSE Advance(left, right, f[k - 1])]

\* There is one for every n: it extends the one for n - 1.
LEMMA CursorsExist ==
    ASSUME NEW left, NEW right, NEW n \in Nat
    PROVE  \E f : Cursors(f, left, right, n)
<1> DEFINE Bad == {m \in Nat : ~\E f : Cursors(f, left, right, m)}
<1>1. ASSUME Bad # {} PROVE FALSE
    <2>1. PICK m \in Bad : \A k \in Bad : m <= k
        <3>1. Bad \in SUBSET Nat
            OBVIOUS
        <3> HIDE DEF Bad
        <3> QED
            BY <1>1, <3>1, LeastNat
    <2>2. m \in Nat /\ ~\E f : Cursors(f, left, right, m)
        BY <2>1
    <2>3. CASE m = 0
        <3> DEFINE f == [j \in 0 .. 0 |-> Blank]
        <3>1. Cursors(f, left, right, 0)
            BY DEF Cursors
        <3> QED
            BY <2>2, <2>3, <3>1
    <2>4. CASE m # 0
        <3>1. m - 1 \in Nat /\ m - 1 \notin Bad
            <4>1. m - 1 \in Nat /\ ~(m <= m - 1)
                BY <2>2, <2>4
            <4> HIDE DEF Bad
            <4> QED
                BY <2>1, <4>1
        <3>2. PICK f : Cursors(f, left, right, m - 1)
            BY <3>1
        <3> DEFINE h == [j \in 0 .. m |-> IF j = m THEN Advance(left, right, f[m - 1]) ELSE f[j]]
        <3>3. \A j \in 0 .. (m - 1) : f[j] = IF j = 0 THEN Blank ELSE Advance(left, right, f[j - 1])
            BY <3>2 DEF Cursors
        <3>4. \A j \in 0 .. m : h[j] = IF j = 0 THEN Blank ELSE Advance(left, right, h[j - 1])
            BY <2>2, <2>4, <3>3
        <3>5. h = [j \in 0 .. m |-> IF j = 0 THEN Blank ELSE Advance(left, right, h[j - 1])]
            <4>1. h = [j \in 0 .. m |-> h[j]]
                OBVIOUS
            <4> HIDE DEF h
            <4> QED
                BY <3>4, <4>1
        <3> QED
            BY <2>2, <3>5 DEF Cursors
    <2> QED
        BY <2>3, <2>4
<1> QED
    BY <1>1

\* What the loop of intersect_sorted keeps: it has listed what both sequences
\* have before the cursors, and nothing before one cursor is at or behind the
\* other.  After n turns the cursors moved n times, unless one is at its end.
Between(c, left, right, n) ==
    /\ c \in [left : Nat, right : Nat, out : Seq(Nat)]
    /\ 1 <= c.left /\ c.left <= Len(left) + 1
    /\ 1 <= c.right /\ c.right <= Len(right) + 1
    /\ c.left + c.right >= n + 2 \/ c.left > Len(left) \/ c.right > Len(right)
    /\ \A i \in DOMAIN left : \A j \in DOMAIN right :
          /\ i < c.left /\ ~(j < c.right) => left[i] < right[j]
          /\ j < c.right /\ ~(i < c.left) => right[j] < left[i]
    /\ Lists(c.out, {x \in Nat : /\ \E i \in DOMAIN left : i < c.left /\ left[i] = x
                                 /\ \E j \in DOMAIN right : j < c.right /\ right[j] = x})

\* A larger number behind a list makes a list.
LEMMA AppendLists ==
    ASSUME NEW K, NEW s, Lists(s, K), NEW x \in Nat, \A y \in K : y < x
    PROVE  Lists(Append(s, x), K \cup {x})
<1> DEFINE t == Append(s, x)
           n == Len(s)
<1>1. n \in Nat /\ DOMAIN s = 1 .. n /\ s \in Seq(Nat) /\ \A i \in DOMAIN s : s[i] \in K
    BY DEF Lists
<1>2. t \in Seq(Nat) /\ DOMAIN t = 1 .. (n + 1) /\ t[n + 1] = x /\ \A i \in 1 .. n : t[i] = s[i]
    <2>1. t \in Seq(Nat) /\ Len(t) = n + 1 /\ t[n + 1] = x /\ \A i \in 1 .. n : t[i] = s[i]
        BY <1>1
    <2> HIDE DEF t, n
    <2> QED
        BY <2>1
<1>3. \A i \in 1 .. (n + 1) : i \in 1 .. n \/ i = n + 1
    BY <1>1
<1>4. 1 .. n \subseteq 1 .. (n + 1) /\ n + 1 \in 1 .. (n + 1)
    BY <1>1
<1> HIDE DEF t
<1>5. \A i, j \in DOMAIN t : i < j => t[i] < t[j]
    <2> SUFFICES ASSUME NEW i \in 1 .. (n + 1), NEW j \in 1 .. (n + 1), i < j PROVE t[i] < t[j]
        BY <1>2
    <2>1. i \in 1 .. n
        BY <1>1
    <2>2. CASE j \in 1 .. n
        BY <1>1, <1>2, <2>1, <2>2 DEF Lists
    <2>3. CASE j = n + 1
        BY <1>1, <1>2, <2>1, <2>3
    <2> QED
        BY <1>3, <2>2, <2>3
<1>6. ASSUME NEW y PROVE y \in K \cup {x} <=> \E i \in DOMAIN t : t[i] = y
    <2>1. ASSUME y \in K PROVE \E i \in DOMAIN t : t[i] = y
        BY <1>1, <1>2, <1>4, <2>1 DEF Lists
    <2>2. ASSUME NEW i \in DOMAIN t, t[i] = y PROVE y \in K \cup {x}
        BY <1>1, <1>2, <1>3, <2>2
    <2> QED
        BY <1>2, <1>4, <2>1, <2>2
<1> QED
    BY <1>2, <1>5, <1>6 DEF Lists, t

\* A turn keeps it.
LEMMA AdvanceKeeps ==
    ASSUME NEW A, NEW left, Lists(left, A), NEW B, NEW right, Lists(right, B),
           NEW n \in Nat, NEW c, Between(c, left, right, n)
    PROVE  Between(Advance(left, right, c), left, right, n + 1)
<1> DEFINE L == Len(left)
           R == Len(right)
           Both(a, b) == {x \in Nat : /\ \E i \in DOMAIN left : i < a /\ left[i] = x
                                      /\ \E j \in DOMAIN right : j < b /\ right[j] = x}
           d == Advance(left, right, c)
<1>1. /\ L \in Nat /\ DOMAIN left = 1 .. L /\ \A i \in DOMAIN left : left[i] \in Nat
      /\ R \in Nat /\ DOMAIN right = 1 .. R /\ \A j \in DOMAIN right : right[j] \in Nat
      /\ \A i, j \in DOMAIN left : i < j => left[i] < left[j]
      /\ \A i, j \in DOMAIN right : i < j => right[i] < right[j]
    BY DEF Lists
<1>2. /\ c \in [left : Nat, right : Nat, out : Seq(Nat)]
      /\ 1 <= c.left /\ c.left <= L + 1 /\ 1 <= c.right /\ c.right <= R + 1
      /\ c.left + c.right >= n + 2 \/ c.left > L \/ c.right > R
      /\ \A i \in DOMAIN left : \A j \in DOMAIN right :
            /\ i < c.left /\ ~(j < c.right) => left[i] < right[j]
            /\ j < c.right /\ ~(i < c.left) => right[j] < left[i]
      /\ Lists(c.out, Both(c.left, c.right))
    BY DEF Between
<1>3. c.left \in Nat /\ c.right \in Nat /\ c.out \in Seq(Nat)
      /\ c = [left |-> c.left, right |-> c.right, out |-> c.out]
    BY <1>2
<1> HIDE DEF L, R
<1>4. CASE c.left > L \/ c.right > R
    <2>1. d = c
        BY <1>4 DEF Advance, L, R
    <2> QED
        BY <1>2, <1>4, <2>1 DEF Between, L, R
<1> DEFINE p == left[c.left]
           q == right[c.right]
<1>5. ASSUME ~(c.left > L \/ c.right > R)
      PROVE  c.left \in DOMAIN left /\ c.right \in DOMAIN right /\ p \in Nat /\ q \in Nat
    <2>1. c.left \in 1 .. L /\ c.right \in 1 .. R
        BY <1>1, <1>2, <1>3, <1>5
    <2> QED
        BY <1>1, <2>1
<1>6. \A i \in DOMAIN left : i \in Nat /\ (i < c.left + 1 <=> i < c.left \/ i = c.left)
    BY <1>1, <1>3
<1>7. \A j \in DOMAIN right : j \in Nat /\ (j < c.right + 1 <=> j < c.right \/ j = c.right)
    BY <1>1, <1>3
<1>8. ASSUME ~(c.left > L \/ c.right > R), p < q PROVE Between(d, left, right, n + 1)
    <2>1. d = [left |-> c.left + 1, right |-> c.right, out |-> c.out]
        <3>1. d = [c EXCEPT !.left = c.left + 1]
            BY <1>8 DEF Advance, L, R
        <3> QED
            BY <1>3, <3>1
    <2>2. \A j \in DOMAIN right : ~(j < c.right) => p < right[j]
        <3> SUFFICES ASSUME NEW j \in DOMAIN right, ~(j < c.right) PROVE p < right[j]
            OBVIOUS
        <3>1. j = c.right \/ c.right < j
            BY <1>3, <1>7
        <3>2. right[j] = q \/ q < right[j]
            BY <1>1, <1>5, <1>8, <3>1
        <3> QED
            BY <1>1, <1>5, <1>8, <3>2
    <2>3. Both(c.left + 1, c.right) = Both(c.left, c.right)
        <3>1. ASSUME NEW j \in DOMAIN right, j < c.right PROVE right[j] # p
            <4>1. ~(c.left < c.left) /\ c.left \in DOMAIN left /\ p \in Nat
                BY <1>3, <1>5, <1>8
            <4>2. right[j] < p
                BY <1>2, <3>1, <4>1
            <4> QED
                BY <1>1, <4>1, <4>2
        <3> QED
            BY <1>6, <3>1
    <2>4. \A i \in DOMAIN left : \A j \in DOMAIN right :
            /\ i < c.left + 1 /\ ~(j < c.right) => left[i] < right[j]
            /\ j < c.right /\ ~(i < c.left + 1) => right[j] < left[i]
        BY <1>2, <1>6, <2>2
    <2>5. /\ 1 <= c.left + 1 /\ c.left + 1 <= L + 1 /\ c.left + 1 \in Nat
          /\ (c.left + 1) + c.right >= (n + 1) + 2 \/ c.left + 1 > L \/ c.right > R
        BY <1>1, <1>2, <1>3, <1>8, SMTT(30)
    <2> HIDE DEF d, Both
    <2>6. /\ d \in [left : Nat, right : Nat, out : Seq(Nat)]
          /\ d.left = c.left + 1 /\ d.right = c.right /\ d.out = c.out
        BY <1>3, <2>1, <2>5
    <2> QED
        BY <1>2, <2>3, <2>4, <2>5, <2>6 DEF Between, L, R, Both
<1>9. ASSUME ~(c.left > L \/ c.right > R), q < p PROVE Between(d, left, right, n + 1)
    <2>1. d = [left |-> c.left, right |-> c.right + 1, out |-> c.out]
        <3>1. ~(p < q) /\ p > q
            BY <1>5, <1>9
        <3>2. d = [c EXCEPT !.right = c.right + 1]
            BY <1>9, <3>1 DEF Advance, L, R
        <3> QED
            BY <1>3, <3>2
    <2>2. \A i \in DOMAIN left : ~(i < c.left) => q < left[i]
        <3> SUFFICES ASSUME NEW i \in DOMAIN left, ~(i < c.left) PROVE q < left[i]
            OBVIOUS
        <3>1. i = c.left \/ c.left < i
            BY <1>3, <1>6
        <3>2. left[i] = p \/ p < left[i]
            BY <1>1, <1>5, <1>9, <3>1
        <3> QED
            BY <1>1, <1>5, <1>9, <3>2
    <2>3. Both(c.left, c.right + 1) = Both(c.left, c.right)
        <3>1. ASSUME NEW i \in DOMAIN left, i < c.left PROVE left[i] # q
            <4>1. ~(c.right < c.right) /\ c.right \in DOMAIN right /\ q \in Nat
                BY <1>3, <1>5, <1>9
            <4>2. left[i] < q
                BY <1>2, <3>1, <4>1
            <4> QED
                BY <1>1, <4>1, <4>2
        <3> QED
            BY <1>7, <3>1
    <2>4. \A i \in DOMAIN left : \A j \in DOMAIN right :
            /\ i < c.left /\ ~(j < c.right + 1) => left[i] < right[j]
            /\ j < c.right + 1 /\ ~(i < c.left) => right[j] < left[i]
        BY <1>2, <1>7, <2>2
    <2>5. /\ 1 <= c.right + 1 /\ c.right + 1 <= R + 1 /\ c.right + 1 \in Nat
          /\ c.left + (c.right + 1) >= (n + 1) + 2 \/ c.left > L \/ c.right + 1 > R
        BY <1>1, <1>2, <1>3, <1>9, SMTT(30)
    <2> HIDE DEF d, Both
    <2>6. /\ d \in [left : Nat, right : Nat, out : Seq(Nat)]
          /\ d.left = c.left /\ d.right = c.right + 1 /\ d.out = c.out
        BY <1>3, <2>1, <2>5
    <2> QED
        BY <1>2, <2>3, <2>4, <2>5, <2>6 DEF Between, L, R, Both
<1>10. ASSUME ~(c.left > L \/ c.right > R), p = q PROVE Between(d, left, right, n + 1)
    <2>1. d = [left |-> c.left + 1, right |-> c.right + 1, out |-> Append(c.out, p)]
        <3>1. ~(p < q) /\ ~(p > q)
            BY <1>5, <1>10
        <3> QED
            BY <1>10, <3>1 DEF Advance, L, R
    <2>2. \A i \in DOMAIN left : /\ i < c.left => left[i] < p
                                 /\ ~(i < c.left + 1) => p < left[i]
        <3> SUFFICES ASSUME NEW i \in DOMAIN left
                     PROVE  /\ i < c.left => left[i] < p
                            /\ ~(i < c.left + 1) => p < left[i]
            OBVIOUS
        <3>1. ~(i < c.left + 1) => c.left < i
            BY <1>3, <1>6
        <3> QED
            BY <1>1, <1>5, <1>10, <3>1
    <2>3. \A j \in DOMAIN right : /\ j < c.right => right[j] < p
                                  /\ ~(j < c.right + 1) => p < right[j]
        <3> SUFFICES ASSUME NEW j \in DOMAIN right
                     PROVE  /\ j < c.right => right[j] < p
                            /\ ~(j < c.right + 1) => p < right[j]
            OBVIOUS
        <3>1. ~(j < c.right + 1) => c.right < j
            BY <1>3, <1>7
        <3> QED
            BY <1>1, <1>5, <1>10, <3>1
    <2>4. Both(c.left + 1, c.right + 1) = Both(c.left, c.right) \cup {p}
        <3>1. ASSUME NEW x \in Both(c.left + 1, c.right + 1) PROVE x \in Both(c.left, c.right) \cup {p}
            <4>1. PICK i \in DOMAIN left : i < c.left + 1 /\ left[i] = x
                OBVIOUS
            <4>2. PICK j \in DOMAIN right : j < c.right + 1 /\ right[j] = x
                OBVIOUS
            <4>3. CASE i = c.left \/ j = c.right
                BY <1>10, <4>1, <4>2, <4>3
            <4>4. CASE i < c.left /\ j < c.right
                BY <4>1, <4>2, <4>4
            <4> QED
                BY <1>6, <1>7, <4>1, <4>2, <4>3, <4>4
        <3>2. ASSUME NEW x \in Both(c.left, c.right) PROVE x \in Both(c.left + 1, c.right + 1)
            BY <1>6, <1>7
        <3>3. p \in Both(c.left + 1, c.right + 1)
            BY <1>5, <1>6, <1>7, <1>10
        <3> HIDE DEF Both
        <3> QED
            BY <3>1, <3>2, <3>3
    <2>5. \A y \in Both(c.left, c.right) : y < p
        BY <2>2
    <2>6. Lists(Append(c.out, p), Both(c.left + 1, c.right + 1))
        <3> DEFINE K == Both(c.left, c.right)
        <3>1. p \in Nat
            BY <1>5, <1>10
        <3>2. Lists(c.out, K) /\ \A y \in K : y < p
            BY <1>2, <2>5
        <3> HIDE DEF K, p
        <3>3. Lists(Append(c.out, p), K \cup {p})
            BY <3>1, <3>2, AppendLists
        <3> QED
            BY <2>4, <3>3 DEF K
    <2>7. \A i \in DOMAIN left : \A j \in DOMAIN right :
            /\ i < c.left + 1 /\ ~(j < c.right + 1) => left[i] < right[j]
            /\ j < c.right + 1 /\ ~(i < c.left + 1) => right[j] < left[i]
        <3> SUFFICES ASSUME NEW i \in DOMAIN left, NEW j \in DOMAIN right
                     PROVE  /\ i < c.left + 1 /\ ~(j < c.right + 1) => left[i] < right[j]
                            /\ j < c.right + 1 /\ ~(i < c.left + 1) => right[j] < left[i]
            OBVIOUS
        <3>1. i < c.left + 1 => left[i] = p \/ left[i] < p
            BY <1>6, <2>2
        <3>2. j < c.right + 1 => right[j] = p \/ right[j] < p
            BY <1>7, <1>10, <2>3
        <3>3. left[i] \in Nat /\ right[j] \in Nat /\ p \in Nat
            BY <1>1, <1>5, <1>10
        <3> HIDE DEF p
        <3> QED
            BY <2>2, <2>3, <3>1, <3>2, <3>3
    <2>8. /\ 1 <= c.right + 1 /\ c.right + 1 <= R + 1 /\ c.right + 1 \in Nat
          /\ 1 <= c.left + 1 /\ c.left + 1 <= L + 1 /\ c.left + 1 \in Nat
          /\ (c.left + 1) + (c.right + 1) >= (n + 1) + 2 \/ c.left + 1 > L \/ c.right + 1 > R
        BY <1>1, <1>2, <1>3, <1>10, SMTT(30)
    <2>9. Append(c.out, p) \in Seq(Nat)
        BY <2>6 DEF Lists
    <2> HIDE DEF d, Both, p
    <2>10. /\ d \in [left : Nat, right : Nat, out : Seq(Nat)]
           /\ d.left = c.left + 1 /\ d.right = c.right + 1 /\ d.out = Append(c.out, p)
        BY <2>1, <2>8, <2>9
    <2> QED
        BY <2>6, <2>7, <2>8, <2>10 DEF Between, L, R, Both
<1>11. ~(c.left > L \/ c.right > R) => p < q \/ q < p \/ p = q
    BY <1>5
<1> QED
    BY <1>4, <1>8, <1>9, <1>10, <1>11

\* intersect_sorted lists what both sequences list.
LEMMA IntersectLists ==
    ASSUME NEW A, NEW left, Lists(left, A), NEW B, NEW right, Lists(right, B)
    PROVE  Lists(IntersectSorted(left, right), A \cap B)
<1> DEFINE L == Len(left)
           R == Len(right)
           N == L + R
           f == CHOOSE g : Cursors(g, left, right, N)
           Bad == {n \in 0 .. N : ~Between(f[n], left, right, n)}
<1>1. IntersectSorted(left, right) = f[N].out
    BY DEF IntersectSorted, Cursors, Blank
<1>2. /\ L \in Nat /\ DOMAIN left = 1 .. L /\ \A i \in DOMAIN left : left[i] \in Nat
      /\ R \in Nat /\ DOMAIN right = 1 .. R /\ \A j \in DOMAIN right : right[j] \in Nat
      /\ \A x : x \in A <=> \E i \in DOMAIN left : left[i] = x
      /\ \A x : x \in B <=> \E j \in DOMAIN right : right[j] = x
    BY DEF Lists
<1>3. N \in Nat
    BY <1>2
<1>4. Cursors(f, left, right, N)
    <2> HIDE DEF N
    <2> QED
        BY <1>3, CursorsExist
<1> HIDE DEF f
<1>5. \A n \in 0 .. N : f[n] = IF n = 0 THEN Blank ELSE Advance(left, right, f[n - 1])
    <2> HIDE DEF N
    <2> QED
        BY <1>4 DEF Cursors
<1>6. Between(Blank, left, right, 0)
    <2>1. Blank \in [left : Nat, right : Nat, out : Seq(Nat)] /\ Blank.left = 1 /\ Blank.right = 1 /\ Blank.out = <<>>
        BY DEF Blank
    <2>2. \A i \in DOMAIN left : ~(i < 1)
        BY <1>2
    <2>3. \A j \in DOMAIN right : ~(j < 1)
        BY <1>2
    <2>4. Lists(<<>>, {x \in Nat : /\ \E i \in DOMAIN left : i < 1 /\ left[i] = x
                                   /\ \E j \in DOMAIN right : j < 1 /\ right[j] = x})
        <3>1. {x \in Nat : /\ \E i \in DOMAIN left : i < 1 /\ left[i] = x
                           /\ \E j \in DOMAIN right : j < 1 /\ right[j] = x} = {}
            BY <2>2
        <3>2. Lists(<<>>, {})
            BY DEF Lists
        <3> QED
            BY <3>1, <3>2
    <2>5. 1 <= L + 1 /\ 1 <= R + 1 /\ 1 + 1 >= 0 + 2
        BY <1>2
    <2> QED
        BY <2>1, <2>2, <2>3, <2>4, <2>5 DEF Between
<1>7. ASSUME Bad # {} PROVE FALSE
    <2>1. PICK n \in Bad : \A k \in Bad : n <= k
        <3>1. Bad \in SUBSET Nat
            BY <1>3
        <3> HIDE DEF Bad
        <3> QED
            BY <1>7, <3>1, LeastNat
    <2>2. n \in 0 .. N /\ n \in Nat /\ ~Between(f[n], left, right, n)
        BY <1>3, <2>1
    <2>3. n # 0
        BY <1>5, <1>6, <2>2
    <2>4. n - 1 \in 0 .. N /\ n - 1 \in Nat /\ ~(n <= n - 1) /\ (n - 1) + 1 = n
        BY <1>3, <2>2, <2>3
    <2>5. Between(f[n - 1], left, right, n - 1)
        BY <2>1, <2>4
    <2>6. Between(Advance(left, right, f[n - 1]), left, right, n)
        BY <2>4, <2>5, AdvanceKeeps
    <2> QED
        BY <1>5, <2>2, <2>3, <2>6
<1>8. Between(f[N], left, right, N)
    <2>1. N \in 0 .. N
        BY <1>3
    <2> QED
        BY <1>7, <2>1
<1> DEFINE c == f[N]
           Both == {x \in Nat : /\ \E i \in DOMAIN left : i < c.left /\ left[i] = x
                                /\ \E j \in DOMAIN right : j < c.right /\ right[j] = x}
<1>9. /\ c.left \in Nat /\ c.right \in Nat
      /\ c.left + c.right >= N + 2 \/ c.left > L \/ c.right > R
      /\ \A i \in DOMAIN left : \A j \in DOMAIN right :
            /\ i < c.left /\ ~(j < c.right) => left[i] < right[j]
            /\ j < c.right /\ ~(i < c.left) => right[j] < left[i]
      /\ Lists(c.out, Both)
    BY <1>8 DEF Between
<1>10. c.left <= L + 1 /\ c.right <= R + 1
    BY <1>8 DEF Between
<1> HIDE DEF c
<1>11. c.left > L \/ c.right > R
    BY <1>2, <1>9, <1>10
<1>12. (\A i \in DOMAIN left : i < c.left) \/ (\A j \in DOMAIN right : j < c.right)
    BY <1>2, <1>9, <1>11
<1>13. A \cap B = Both
    <2>1. ASSUME NEW x \in A, x \in B PROVE x \in Both
        <3>1. PICK i \in DOMAIN left : left[i] = x
            BY <1>2
        <3>2. PICK j \in DOMAIN right : right[j] = x
            BY <1>2, <2>1
        <3>3. x \in Nat /\ ~(x < x)
            BY <1>2, <3>1
        <3>4. i < c.left /\ j < c.right
            BY <1>9, <1>12, <3>1, <3>2, <3>3
        <3> QED
            BY <3>1, <3>2, <3>3, <3>4
    <2>2. ASSUME NEW x \in Both PROVE x \in A /\ x \in B
        BY <1>2
    <2> HIDE DEF Both
    <2> QED
        BY <2>1, <2>2
<1> QED
    BY <1>1, <1>9, <1>13 DEF c

\* A function that gives the matching lines of the first n terms.
Rounds(f, lines, terms, n) ==
    f = [k \in 1 .. n |-> IF k = 1 THEN Postings(lines, terms[1])
                          ELSE IntersectSorted(f[k - 1], Postings(lines, terms[k]))]

\* There is one for every n.
LEMMA RoundsExist ==
    ASSUME NEW lines, NEW terms, NEW n \in Nat
    PROVE  \E f : Rounds(f, lines, terms, n)
<1> DEFINE Turn(k, before) == IF k = 1 THEN Postings(lines, terms[1])
                              ELSE IntersectSorted(before, Postings(lines, terms[k]))
           Bad == {m \in Nat : ~\E f : Rounds(f, lines, terms, m)}
<1>1. ASSUME Bad # {} PROVE FALSE
    <2>1. PICK m \in Bad : \A k \in Bad : m <= k
        <3>1. Bad \in SUBSET Nat
            OBVIOUS
        <3> HIDE DEF Bad
        <3> QED
            BY <1>1, <3>1, LeastNat
    <2>2. m \in Nat /\ ~\E f : Rounds(f, lines, terms, m)
        BY <2>1
    <2>3. CASE m = 0
        <3> DEFINE f == [k \in 1 .. 0 |-> 0]
        <3>1. Rounds(f, lines, terms, 0)
            BY DEF Rounds
        <3> QED
            BY <2>2, <2>3, <3>1
    <2>4. CASE m # 0
        <3>1. m - 1 \in Nat /\ m - 1 \notin Bad
            <4>1. m - 1 \in Nat /\ ~(m <= m - 1)
                BY <2>2, <2>4
            <4> HIDE DEF Bad
            <4> QED
                BY <2>1, <4>1
        <3>2. PICK f : Rounds(f, lines, terms, m - 1)
            BY <3>1
        <3> DEFINE h == [k \in 1 .. m |-> IF k = m THEN Turn(m, f[m - 1]) ELSE f[k]]
        <3>3. \A k \in 1 .. (m - 1) : f[k] = Turn(k, f[k - 1])
            BY <3>2 DEF Rounds
        <3> HIDE DEF Turn
        <3>4. \A k \in 1 .. m : h[k] = Turn(k, h[k - 1])
            <4> SUFFICES ASSUME NEW k \in 1 .. m PROVE h[k] = Turn(k, h[k - 1])
                OBVIOUS
            <4>1. CASE k = 1 /\ m = 1
                BY <2>2, <4>1 DEF Turn
            <4>2. CASE k = 1 /\ m # 1
                <5>1. h[1] = f[1] /\ 1 \in 1 .. (m - 1)
                    BY <2>2, <4>2
                <5> QED
                    BY <3>3, <4>2, <5>1 DEF Turn
            <4>3. CASE k # 1
                <5>1. k - 1 \in 1 .. m /\ k - 1 # m
                    BY <2>2, <4>3
                <5>2. h[k - 1] = f[k - 1]
                    BY <5>1
                <5>3. k # m => k \in 1 .. (m - 1)
                    BY <2>2
                <5> QED
                    BY <3>3, <5>2, <5>3
            <4> QED
                BY <4>1, <4>2, <4>3
        <3>5. h = [k \in 1 .. m |-> Turn(k, h[k - 1])]
            <4>1. h = [k \in 1 .. m |-> h[k]]
                OBVIOUS
            <4> HIDE DEF h
            <4> QED
                BY <3>4, <4>1
        <3> QED
            BY <2>2, <3>5 DEF Rounds, Turn
    <2> QED
        BY <2>3, <2>4
<1> QED
    BY <1>1

\* The lines that have all terms up to the n-th.
HasTerms(lines, terms, n) ==
    {k \in DOMAIN lines : \A m \in 1 .. n : terms[m] \in IndexedLineTerms(lines[k])}

\* matching_lines lists the lines that have all terms.
LEMMA MatchingLists ==
    ASSUME NEW lines, NEW n \in Nat, DOMAIN lines = 1 .. n,
           NEW terms, Len(terms) \in Nat, Len(terms) # 0
    PROVE  Lists(MatchingLines(lines, terms), HasTerms(lines, terms, Len(terms)))
<1> DEFINE N == Len(terms)
           f == CHOOSE g : Rounds(g, lines, terms, N)
           Bad == {k \in 1 .. N : ~Lists(f[k], HasTerms(lines, terms, k))}
           With(k) == {l \in DOMAIN lines : terms[k] \in IndexedLineTerms(lines[l])}
<1>1. MatchingLines(lines, terms) = f[N]
    BY DEF MatchingLines, Rounds
<1>2. Rounds(f, lines, terms, N)
    BY RoundsExist
<1> HIDE DEF f
<1>3. \A k \in 1 .. N : f[k] = IF k = 1 THEN Postings(lines, terms[1])
                               ELSE IntersectSorted(f[k - 1], Postings(lines, terms[k]))
    <2> HIDE DEF N
    <2> QED
        BY <1>2 DEF Rounds
<1>4. ASSUME NEW k \in 1 .. N PROVE Lists(Postings(lines, terms[k]), With(k))
    <2>1. With(k) \in SUBSET (1 .. n)
        OBVIOUS
    <2>2. With(k) \in SUBSET Nat /\ IsFiniteSet(With(k))
        <3> DEFINE at == With(k)
        <3> HIDE DEF at
        <3>1. at \in SUBSET Nat /\ IsFiniteSet(at)
            BY <2>1, PositionsFacts DEF at
        <3> QED
            BY <3>1 DEF at
    <2> QED
        BY <2>2, InOrderLists DEF Postings
<1>5. ASSUME Bad # {} PROVE FALSE
    <2>1. PICK k \in Bad : \A l \in Bad : k <= l
        <3>1. Bad \in SUBSET Nat
            OBVIOUS
        <3> HIDE DEF Bad
        <3> QED
            BY <1>5, <3>1, LeastNat
    <2>2. k \in 1 .. N /\ k \in Nat /\ ~Lists(f[k], HasTerms(lines, terms, k))
        BY <2>1
    <2>3. CASE k = 1
        <3>1. HasTerms(lines, terms, 1) = With(1)
            BY DEF HasTerms
        <3>2. f[1] = Postings(lines, terms[1])
            BY <1>3, <2>2, <2>3
        <3> HIDE DEF With
        <3> QED
            BY <1>4, <2>2, <2>3, <3>1, <3>2
    <2>4. CASE k # 1
        <3>1. k - 1 \in 1 .. N /\ ~(k <= k - 1)
            BY <2>2, <2>4
        <3>2. Lists(f[k - 1], HasTerms(lines, terms, k - 1))
            BY <2>1, <3>1
        <3>3. f[k] = IntersectSorted(f[k - 1], Postings(lines, terms[k]))
            BY <1>3, <2>2, <2>4
        <3>4. HasTerms(lines, terms, k - 1) \cap With(k) = HasTerms(lines, terms, k)
            <4>1. \A m \in 1 .. k : m \in 1 .. (k - 1) \/ m = k
                BY <2>2
            <4>2. 1 .. (k - 1) \subseteq 1 .. k /\ k \in 1 .. k
                BY <2>2
            <4> QED
                BY <4>1, <4>2 DEF HasTerms
        <3>5. Lists(f[k], HasTerms(lines, terms, k - 1) \cap With(k))
            <4> HIDE DEF With
            <4> QED
                BY <1>4, <2>2, <3>2, <3>3, IntersectLists
        <3> QED
            BY <2>2, <3>4, <3>5
    <2> QED
        BY <2>3, <2>4
<1>6. N \in 1 .. N
    OBVIOUS
<1> QED
    BY <1>1, <1>5, <1>6

\* A sequence of n lines.
Numbered(s, n) == s = [k \in 1 .. n |-> s[k]]

\* The lines a keyword request asks for.
KeywordHits(lines, request) ==
    {k \in DOMAIN lines : /\ \A m \in DOMAIN request.terms : request.terms[m] \in IndexedLineTerms(lines[k])
                          /\ HasLevel(lines[k], request.level)}

\* A keyword answer without a flag has all of them, in order, and one that says
\* no_matches has no flag and was asked for none of the lines.
LEMMA KeywordFacts ==
    ASSUME NEW lines, NEW n \in Nat, Numbered(lines, n), NEW truncated, NEW status,
           NEW request, request.terms \in Seq(Seq(Chars)), request.terms # <<>>, request.limit \in Nat
    PROVE  LET fetched == [lines |-> lines, truncated |-> truncated, status |-> status]
               a == FilterKeyword(fetched, request)
           IN  /\ a.truncated = {} => truncated = {} /\ a.lines = Pick(lines, KeywordHits(lines, request))
               /\ a.status = "no_matches" => a.truncated = {} /\ KeywordHits(lines, request) = {}
<1> DEFINE fetched == [lines |-> lines, truncated |-> truncated, status |-> status]
           a == FilterKeyword(fetched, request)
           H == KeywordHits(lines, request)
           T == HasTerms(lines, request.terms, Len(request.terms))
           M == MatchingLines(lines, request.terms)
           at == {k \in DOMAIN M : HasLevel(lines[M[k]], request.level)}
           matched == Pick(M, at)
           c == IF request.limit < Len(matched) THEN request.limit ELSE Len(matched)
           cut == truncated \cup (IF Len(matched) > c THEN {"rows"} ELSE {})
<1>1. DOMAIN lines = 1 .. n
    BY DEF Numbered
<1>2. Len(request.terms) \in Nat /\ Len(request.terms) # 0 /\ DOMAIN request.terms = 1 .. Len(request.terms)
    OBVIOUS
<1>3. Lists(M, T)
    BY <1>1, <1>2, MatchingLists
<1>4. H = {k \in T : HasLevel(lines[k], request.level)}
    BY <1>2 DEF KeywordHits, HasTerms
<1>5. Lists(matched, {M[i] : i \in at})
    <2> HIDE DEF M, T
    <2> QED
        BY <1>3, PickLists
<1>6. {M[i] : i \in at} = H
    <2> HIDE DEF M, T, H
    <2>1. \A x : x \in T <=> \E i \in DOMAIN M : M[i] = x
        BY <1>3 DEF Lists
    <2> QED
        BY <1>4, <2>1
<1>7. H \in SUBSET (1 .. n)
    BY <1>1 DEF KeywordHits
<1>8. H \in SUBSET Nat /\ IsFiniteSet(H) /\ Cardinality(H) \in Nat /\ (Cardinality(H) = 0 => H = {})
    <2> HIDE DEF H
    <2> QED
        BY <1>7, PositionsFacts, FS_EmptySet
<1>9. matched = InOrder(H) /\ Len(matched) = Cardinality(H)
    <2> HIDE DEF H, matched, at
    <2> QED
        BY <1>5, <1>6, <1>8, InOrderLists, ListsUnique
<1>10. a = [lines |-> [i \in 1 .. c |-> lines[matched[i]]], truncated |-> cut,
            status |-> KeywordStatus(Len(matched), cut)]
    BY DEF FilterKeyword
<1> HIDE DEF H, T, M, matched, a
<1>11. a.truncated = cut /\ a.status = KeywordStatus(Len(matched), cut)
       /\ a.lines = [i \in 1 .. c |-> lines[matched[i]]]
    BY <1>10
<1>12. ASSUME cut = {} PROVE truncated = {} /\ a.lines = Pick(lines, H)
    <2>1. truncated = {} /\ ~(Len(matched) > c)
        BY <1>12
    <2>2. c = Len(matched)
        BY <1>8, <1>9, <2>1
    <2>3. a.lines = [i \in 1 .. Cardinality(H) |-> lines[InOrder(H)[i]]]
        BY <1>9, <1>11, <2>2
    <2> QED
        BY <2>1, <2>3, PickInOrder
<1>13. ASSUME a.status = "no_matches" PROVE cut = {} /\ H = {}
    <2> HIDE DEF cut
    <2>1. Len(matched) = 0 /\ cut = {}
        BY <1>11, <1>13 DEF KeywordStatus
    <2> QED
        BY <1>8, <1>9, <2>1
<1> QED
    BY <1>11, <1>12, <1>13 DEF H, a

\* The lines a regex asks for.
GrepHits(lines) == {k \in DOMAIN lines : Matches(lines[k])}

\* The same of a regex search.
LEMMA GrepFacts ==
    ASSUME NEW lines, NEW n \in Nat, Numbered(lines, n), NEW truncated,
           NEW limit \in Nat
    PROVE  LET a == FilterGrepOutput(lines, truncated, limit)
           IN  /\ a.truncated = {} => truncated = {} /\ a.lines = Pick(lines, GrepHits(lines))
               /\ a.status = "no_matches" => a.truncated = {} /\ GrepHits(lines) = {}
<1> DEFINE a == FilterGrepOutput(lines, truncated, limit)
           H == GrepHits(lines)
           matched == Pick(lines, H)
           kept == SubSeq(matched, 1, Min2(limit, Len(matched)))
           cut == truncated \cup (IF Len(matched) > Len(kept) THEN {"rows"} ELSE {})
<1>1. H \in SUBSET (1 .. n)
    BY DEF GrepHits, Numbered
<1>2. /\ Cardinality(H) \in Nat /\ Len(matched) = Cardinality(H) /\ (Cardinality(H) = 0 => H = {})
      /\ matched = [k \in 1 .. Cardinality(H) |-> lines[InOrder(H)[k]]]
    <2> HIDE DEF H
    <2>1. Cardinality(H) \in Nat /\ Len(Pick(lines, H)) = Cardinality(H) /\ (Cardinality(H) = 0 => H = {})
        BY <1>1, PickFacts
    <2> QED
        BY <2>1, PickInOrder
<1>3. a = [lines |-> kept, truncated |-> cut, status |-> GrepStatus(Len(matched), cut)]
    BY DEF FilterGrepOutput, GrepHits
<1> HIDE DEF H, a
<1>4. a.lines = kept /\ a.truncated = cut /\ a.status = GrepStatus(Len(matched), cut)
    BY <1>3
<1> DEFINE N == Cardinality(H)
           m == Min2(limit, N)
<1>5. N \in Nat /\ m \in 0 .. N
    BY <1>2 DEF Min2
<1>6. kept = [k \in 1 .. m |-> lines[InOrder(H)[k]]] /\ Len(kept) = m
    <2>1. \E S : matched \in Seq(S)
        <3> DEFINE S == {lines[InOrder(H)[k]] : k \in 1 .. N}
        <3>1. matched \in [1 .. N -> S]
            BY <1>2
        <3>2. matched \in Seq(S)
            <4> HIDE DEF S, matched, N
            <4> QED
                BY <1>5, <3>1
        <3> QED
            BY <3>2
    <2>2. PICK S : matched \in Seq(S)
        BY <2>1
    <2>3. Len(matched) = N /\ \A k \in 1 .. N : matched[k] = lines[InOrder(H)[k]]
        BY <1>2
    <2> HIDE DEF matched, N, m
    <2>4. SubSeq(matched, 1, m) = [k \in 1 .. m |-> matched[k]] /\ Len(SubSeq(matched, 1, m)) = m
        BY <1>5, <2>2, <2>3
    <2>5. kept = SubSeq(matched, 1, m)
        BY <2>3 DEF m
    <2>6. \A k \in 1 .. m : matched[k] = lines[InOrder(H)[k]]
        BY <1>5, <2>3
    <2>7. [k \in 1 .. m |-> matched[k]] = [k \in 1 .. m |-> lines[InOrder(H)[k]]]
        BY <2>6
    <2> QED
        BY <2>4, <2>5, <2>7
<1> HIDE DEF kept, matched
<1>7. ASSUME cut = {} PROVE truncated = {} /\ a.lines = matched
    <2>1. truncated = {} /\ ~(Len(matched) > Len(kept))
        BY <1>7
    <2>2. m = N
        BY <1>2, <1>5, <1>6, <2>1
    <2> QED
        BY <1>2, <1>4, <1>6, <2>1, <2>2
<1>8. ASSUME a.status = "no_matches" PROVE cut = {} /\ H = {}
    <2> HIDE DEF cut
    <2>1. Len(matched) = 0 /\ cut = {}
        BY <1>4, <1>8 DEF GrepStatus
    <2> QED
        BY <1>2, <2>1
<1> QED
    BY <1>4, <1>7, <1>8 DEF a, H, matched

-----------------------------------------------------------------------------
(* From bytes to an answer.                                                *)

\* A part of a sequence of bytes is one.
LEMMA PartFacts ==
    ASSUME NEW s \in Seq(Bytes), NEW a \in Nat, NEW b \in Nat, b <= Len(s)
    PROVE  /\ SubSeq(s, a + 1, b) \in Seq(Bytes)
           /\ Len(SubSeq(s, a + 1, b)) = IF a < b THEN b - a ELSE 0
           /\ \A i \in 1 .. Len(SubSeq(s, a + 1, b)) : SubSeq(s, a + 1, b)[i] = s[a + i]
  OBVIOUS

\* split gives sequences of bytes.
LEMMA PiecesFacts ==
    ASSUME NEW bytes \in Seq(Bytes)
    PROVE  /\ Len(Pieces(bytes)) \in Nat /\ DOMAIN Pieces(bytes) = 1 .. Len(Pieces(bytes))
           /\ \A k \in DOMAIN Pieces(bytes) : Pieces(bytes)[k] \in Seq(Bytes)
<1> DEFINE L == Len(bytes)
           E == {i \in 1 .. L : bytes[i] = "nl"} \cup {L + 1}
           Ends == InOrder(E)
           From(k) == IF k = 1 THEN 1 ELSE Ends[k - 1] + 1
           All == [k \in 1 .. Len(Ends) |-> SubSeq(bytes, From(k), Ends[k] - 1)]
           at == {k \in 1 .. Len(Ends) : All[k] # <<>>}
<1>1. Pieces(bytes) = Pick(All, at)
    BY DEF Pieces
<1>2. L \in Nat
    OBVIOUS
<1>3. E \in SUBSET (1 .. (L + 1))
    BY <1>2
<1>4. Lists(Ends, E)
    <2> HIDE DEF E
    <2>1. L + 1 \in Nat
        BY <1>2
    <2>2. E \in SUBSET Nat /\ IsFiniteSet(E)
        BY <1>3, <2>1, PositionsFacts
    <2> QED
        BY <2>2, InOrderLists
<1> HIDE DEF E, Ends
<1>5. Len(Ends) \in Nat /\ DOMAIN Ends = 1 .. Len(Ends) /\ \A k \in 1 .. Len(Ends) : Ends[k] \in 1 .. (L + 1)
    BY <1>3, <1>4 DEF Lists
<1>6. \A k \in 1 .. Len(Ends) : SubSeq(bytes, From(k), Ends[k] - 1) \in Seq(Bytes)
    <2> SUFFICES ASSUME NEW k \in 1 .. Len(Ends) PROVE SubSeq(bytes, From(k), Ends[k] - 1) \in Seq(Bytes)
        OBVIOUS
    <2> DEFINE a == From(k) - 1
               b == Ends[k] - 1
    <2>1. b \in Nat /\ b <= L
        BY <1>2, <1>5
    <2>2. a \in Nat /\ From(k) = a + 1
        <3>1. CASE k = 1
            BY <3>1
        <3>2. CASE k # 1
            <4>1. k - 1 \in 1 .. Len(Ends)
                BY <1>5, <3>2
            <4>2. Ends[k - 1] \in Nat
                BY <1>2, <1>5, <4>1
            <4> QED
                BY <3>2, <4>2
        <3> QED
            BY <3>1, <3>2
    <2> HIDE DEF a, b, From
    <2>3. SubSeq(bytes, a + 1, b) \in Seq(Bytes)
        BY <2>1, <2>2, PartFacts
    <2> QED
        BY <2>2, <2>3 DEF b
<1> HIDE DEF L, From
<1>7. \A k \in 1 .. Len(Ends) : All[k] \in Seq(Bytes)
    BY <1>6
<1>8. at \in SUBSET (1 .. Len(Ends))
    OBVIOUS
<1> HIDE DEF All, at
<1> DEFINE n == Len(Ends)
<1>9. n \in Nat /\ at \in SUBSET (1 .. n) /\ \A k \in 1 .. n : All[k] \in Seq(Bytes)
    BY <1>5, <1>7, <1>8
<1> HIDE DEF n
<1>10. /\ Cardinality(at) \in Nat /\ Len(Pick(All, at)) = Cardinality(at)
       /\ DOMAIN Pick(All, at) = 1 .. Cardinality(at)
       /\ \A k \in 1 .. Cardinality(at) : InOrder(at)[k] \in at
    BY <1>9, PickFacts
<1>11. \A k \in 1 .. Cardinality(at) : Pick(All, at)[k] = All[InOrder(at)[k]]
    BY PickInOrder
<1> QED
    BY <1>1, <1>9, <1>10, <1>11

\* The lines of some bytes, and the ones the call asks for.
Whole(bytes) == [k \in 1 .. Len(Pieces(bytes)) |-> Lossy(Pieces(bytes)[k])]
Hits(bytes) == {k \in DOMAIN Whole(bytes) : Wanted(Whole(bytes)[k])}

\* Lines that were not cut are whole.
LEMMA CappedFacts ==
    ASSUME NEW bytes \in Seq(Bytes), ~LineTruncated(bytes)
    PROVE  CappedPieces(bytes) = Whole(bytes)
<1> DEFINE P == Pieces(bytes)
<1>1. /\ Len(P) \in Nat /\ DOMAIN P = 1 .. Len(P)
      /\ \A k \in 1 .. Len(P) : P[k] \in Seq(Bytes)
    BY PiecesFacts
<1>2. \A k \in 1 .. Len(P) : ~(Len(P[k]) > MaxLineBytes)
    BY DEF LineTruncated
<1>3. CappedPieces(bytes) = [k \in 1 .. Len(P) |-> Lossy(SubSeq(P[k], 1, Min2(Len(P[k]), MaxLineBytes)))]
    BY DEF CappedPieces
<1> HIDE DEF P
<1>4. ASSUME NEW k \in 1 .. Len(P) PROVE SubSeq(P[k], 1, Min2(Len(P[k]), MaxLineBytes)) = P[k]
    <2> DEFINE p == P[k]
    <2>1. p \in Seq(Bytes) /\ ~(Len(p) > MaxLineBytes) /\ Len(p) \in Nat /\ MaxLineBytes \in Nat
        BY <1>1, <1>2, TailBounds
    <2> HIDE DEF p
    <2>2. Min2(Len(p), MaxLineBytes) = Len(p)
        BY <2>1 DEF Min2
    <2>3. SubSeq(p, 1, Len(p)) = p
        BY <2>1
    <2> QED
        BY <2>2, <2>3 DEF p
<1> QED
    BY <1>3, <1>4 DEF Whole, P

\* A call has one of three tools; a limit, and terms if it is a keyword search.
LEMMA CallFacts ==
    ASSUME call \in TailCalls
    PROVE  /\ call.tool \in {"log_tail", "regex", "keyword"} /\ call.transport \in {"local", "ssh"}
           /\ call.lines \in Nat
           /\ call.tool \in {"regex", "keyword"} => call.limit \in Nat
           /\ call.tool = "keyword" => call.terms \in Seq(Seq(Chars)) /\ call.terms # <<>>
<1>1. CASE \E t \in {"local", "ssh"}, n \in LineCounts :
              call = [transport |-> t, tool |-> "log_tail", lines |-> n, limit |-> 0, terms |-> <<>>, level |-> <<>>]
    BY <1>1, TailBounds
<1>2. CASE \E t \in {"local", "ssh"}, n \in GrepLimits :
              call = [transport |-> t, tool |-> "regex", lines |-> GrepWindow, limit |-> n, terms |-> <<>>, level |-> <<>>]
    BY <1>2, TailBounds
<1>3. CASE \E t \in {"local", "ssh"}, n \in GrepLimits, r \in Patterns :
              call = [transport |-> t, tool |-> "keyword", lines |-> GrepWindow, limit |-> n,
                      terms |-> r.terms, level |-> r.level]
    <2>1. PICK t \in {"local", "ssh"}, n \in GrepLimits, r \in Patterns :
              call = [transport |-> t, tool |-> "keyword", lines |-> GrepWindow, limit |-> n,
                      terms |-> r.terms, level |-> r.level]
        BY <1>3
    <2>2. r.terms \in Seq(Seq(Chars)) /\ r.terms # <<>> /\ n \in Nat /\ GrepWindow \in Nat
        BY TailBounds
    <2> QED
        BY <2>1, <2>2
<1> QED
    BY <1>1, <1>2, <1>3 DEF TailCalls, KeywordRequests

\* An answer made of some bytes without a flag has every line of them that the
\* call asks for, and one that says no_matches has no flag, and there is none.
LEMMA AnswerFacts ==
    ASSUME call \in TailCalls, NEW bytes \in Seq(Bytes), NEW over \in BOOLEAN
    PROVE  LET a == Answer(bytes, over)
           IN  /\ a.truncated = {} => ~over /\ a.lines = Pick(Whole(bytes), Hits(bytes))
               /\ a.status = "no_matches" => ~over /\ Hits(bytes) = {}
<1> DEFINE a == Answer(bytes, over)
           cut == (IF over THEN {"bytes"} ELSE {}) \cup (IF LineTruncated(bytes) THEN {"line_bytes"} ELSE {})
           lines == CappedPieces(bytes)
           W == Whole(bytes)
           n == Len(Pieces(bytes))
<1>1. /\ call.tool \in {"log_tail", "regex", "keyword"}
      /\ call.tool \in {"regex", "keyword"} => call.limit \in Nat
      /\ call.tool = "keyword" => call.terms \in Seq(Seq(Chars)) /\ call.terms # <<>>
    BY CallFacts
<1>2. n \in Nat
    BY PiecesFacts
<1>3. Numbered(lines, n) /\ W = [k \in 1 .. n |-> W[k]] /\ DOMAIN W = 1 .. n
    BY DEF CappedPieces, Whole, Numbered
<1>4. cut = {} => ~over /\ ~LineTruncated(bytes)
    OBVIOUS
<1>5. cut = {} => lines = W
    BY <1>4, CappedFacts
<1>6. a = CASE call.tool = "regex" -> FilterGrepOutput(lines, cut, call.limit)
            [] call.tool = "keyword" -> FilterKeyword(FullGrepWindow(lines, cut), call)
            [] OTHER -> [lines |-> lines, truncated |-> cut, status |-> "none"]
    BY DEF Answer
<1> HIDE DEF a, cut, lines, W, n
<1>7. Hits(bytes) = {k \in DOMAIN W : Wanted(W[k])}
    BY DEF Hits, W
<1>8. CASE call.tool = "log_tail"
    <2>1. a = [lines |-> lines, truncated |-> cut, status |-> "none"]
        BY <1>6, <1>8
    <2>2. a.lines = lines /\ a.truncated = cut /\ a.status = "none"
        BY <2>1
    <2>3. Hits(bytes) = 1 .. n
        BY <1>3, <1>7, <1>8 DEF Wanted
    <2>4. Pick(W, 1 .. n) = W
        BY <1>2, <1>3, PickAll
    <2> QED
        BY <1>4, <1>5, <2>2, <2>3, <2>4 DEF a, W
<1>9. CASE call.tool = "regex"
    <2> DEFINE H == GrepHits(lines)
    <2>1. a = FilterGrepOutput(lines, cut, call.limit)
        BY <1>6, <1>9
    <2>2. /\ a.truncated = {} => cut = {} /\ a.lines = Pick(lines, H)
          /\ a.status = "no_matches" => a.truncated = {} /\ H = {}
        <3> DEFINE limit == call.limit
        <3>1. limit \in Nat /\ n \in Nat /\ Numbered(lines, n)
            BY <1>1, <1>2, <1>3, <1>9
        <3>2. a = FilterGrepOutput(lines, cut, limit)
            BY <2>1
        <3> HIDE DEF limit
        <3>3. LET b == FilterGrepOutput(lines, cut, limit)
              IN  /\ b.truncated = {} => cut = {} /\ b.lines = Pick(lines, GrepHits(lines))
                  /\ b.status = "no_matches" => b.truncated = {} /\ GrepHits(lines) = {}
            BY <3>1, GrepFacts
        <3> QED
            BY <3>2, <3>3
    <2>3. cut = {} => H = Hits(bytes)
        BY <1>5, <1>7, <1>9 DEF Wanted, GrepHits
    <2> QED
        BY <1>4, <1>5, <2>2, <2>3 DEF a, W
<1>10. CASE call.tool = "keyword"
    <2> DEFINE H == KeywordHits(lines, call)
    <2>1. a = FilterKeyword([lines |-> lines, truncated |-> cut, status |-> GrepStatus(Len(lines), cut)], call)
        <3>1. a = FilterKeyword(FullGrepWindow(lines, cut), call)
            BY <1>6, <1>10
        <3> QED
            BY <3>1 DEF FullGrepWindow
    <2>2. /\ a.truncated = {} => cut = {} /\ a.lines = Pick(lines, H)
          /\ a.status = "no_matches" => a.truncated = {} /\ H = {}
        <3> DEFINE request == call
                   status == GrepStatus(Len(lines), cut)
        <3>1. /\ request.terms \in Seq(Seq(Chars)) /\ request.terms # <<>> /\ request.limit \in Nat
              /\ n \in Nat /\ Numbered(lines, n)
            BY <1>1, <1>2, <1>3, <1>10
        <3>2. a = FilterKeyword([lines |-> lines, truncated |-> cut, status |-> status], request)
            BY <2>1
        <3>3. H = KeywordHits(lines, request)
            OBVIOUS
        <3> HIDE DEF request, status, H
        <3>4. LET fetched == [lines |-> lines, truncated |-> cut, status |-> status]
                  b == FilterKeyword(fetched, request)
              IN  /\ b.truncated = {} => cut = {} /\ b.lines = Pick(lines, KeywordHits(lines, request))
                  /\ b.status = "no_matches" => b.truncated = {} /\ KeywordHits(lines, request) = {}
            BY <3>1, KeywordFacts
        <3> QED
            BY <3>2, <3>3, <3>4
    <2>3. cut = {} => H = Hits(bytes)
        BY <1>5, <1>7, <1>10 DEF Wanted, KeywordHits
    <2> QED
        BY <1>4, <1>5, <2>2, <2>3 DEF a, W
<1> QED
    BY <1>1, <1>8, <1>9, <1>10

-----------------------------------------------------------------------------
(* The search for the start of the window.                                 *)

\* The newlines behind offset a, up to b.
Newlines(bytes, a, b) == {i \in (a + 1) .. b : bytes[i] = "nl"}

\* Two parts of a finite set.
LEMMA PartsAdd ==
    ASSUME NEW S, IsFiniteSet(S), NEW A, NEW B, S = A \cup B, A \cap B = {}
    PROVE  /\ Cardinality(A) \in Nat /\ Cardinality(B) \in Nat
           /\ Cardinality(S) = Cardinality(A) + Cardinality(B)
<1>1. IsFiniteSet(A) /\ IsFiniteSet(B)
    BY FS_Subset
<1>2. Cardinality(A) \in Nat /\ Cardinality(B) \in Nat
    BY <1>1, FS_CardinalityType
<1>3. Cardinality(A \cup B) = Cardinality(A) + Cardinality(B) - Cardinality(A \cap B)
    BY <1>1, FS_Union
<1>4. Cardinality(A \cap B) = 0
    BY FS_EmptySet
<1> QED
    BY <1>2, <1>3, <1>4

\* Shifted by c, a set has as many members.
LEMMA ShiftKeeps ==
    ASSUME NEW K \in SUBSET Nat, IsFiniteSet(K), NEW c \in Nat
    PROVE  IsFiniteSet({k + c : k \in K}) /\ Cardinality({k + c : k \in K}) = Cardinality(K)
<1> DEFINE T == {k + c : k \in K}
           f == [k \in K |-> k + c]
<1>1. f \in [K -> T] /\ \A k \in K : f[k] = k + c /\ k \in Nat
    OBVIOUS
<1>2. \A t \in T : \E k \in K : f[k] = t
    BY <1>1
<1> HIDE DEF f, T
<1>3. \A j, k \in K : f[j] = f[k] => j = k
    BY <1>1
<1>4. f \in Injection(K, T)
    BY <1>1, <1>3 DEF Injection, IsInjective
<1>5. f \in Surjection(K, T)
    BY <1>1, <1>2 DEF Surjection
<1>6. ExistsBijection(K, T)
    BY <1>4, <1>5 DEF ExistsBijection, Bijection
<1> QED
    BY <1>6, FS_Bijection DEF T

\* From the top, every number up to the size of the set is a rank ...
LEMMA TopRankExists ==
    ASSUME NEW K \in SUBSET Nat, IsFiniteSet(K), NEW r \in 1 .. Cardinality(K)
    PROVE  \E i \in K : Cardinality({j \in K : j >= i}) = r
<1> DEFINE N == Cardinality(K)
           k == N + 1 - r
<1>1. N \in Nat /\ r \in 1 .. N
    BY FS_CardinalityType
<1>2. k \in 1 .. N
    BY <1>1
<1>3. PICK i \in K : Cardinality({j \in K : j < i}) = k - 1
    BY <1>2, RankExists
<1> DEFINE A == {j \in K : j < i}
           B == {j \in K : j >= i}
<1>4. K = A \cup B /\ A \cap B = {}
    <2>1. i \in Nat /\ \A j \in K : j \in Nat
        OBVIOUS
    <2>2. \A j \in K : (j < i \/ j >= i) /\ ~(j < i /\ j >= i)
        BY <2>1
    <2> QED
        BY <2>2
<1> HIDE DEF A, B
<1>5. Cardinality(A) \in Nat /\ Cardinality(B) \in Nat /\ N = Cardinality(A) + Cardinality(B)
    <2> HIDE DEF N, k
    <2>1. Cardinality(A) \in Nat /\ Cardinality(B) \in Nat /\ Cardinality(K) = Cardinality(A) + Cardinality(B)
        BY <1>4, PartsAdd, ZenonT(30)
    <2> QED
        BY <2>1 DEF N
<1>6. Cardinality(A) = k - 1
    BY <1>3 DEF A
<1>7. Cardinality(B) = r
    BY <1>1, <1>5, <1>6
<1> QED
    BY <1>7 DEF B

\* ... and a larger member has a lower one.
LEMMA TopRankFalls ==
    ASSUME NEW K \in SUBSET Nat, IsFiniteSet(K), NEW i \in K, NEW j \in K, i < j
    PROVE  Cardinality({m \in K : m >= j}) # Cardinality({m \in K : m >= i})
<1> DEFINE I == {m \in K : m >= i}
           J == {m \in K : m >= j}
<1>1. i \in Nat /\ j \in Nat /\ \A m \in K : m \in Nat
    OBVIOUS
<1>2. (\A m \in K : m >= j => m >= i) /\ i >= i /\ ~(i >= j)
    BY <1>1
<1>3. J \in SUBSET I /\ i \in I /\ i \notin J
    BY <1>2
<1>4. IsFiniteSet(I)
    BY FS_Subset
<1> HIDE DEF I, J
<1>5. Cardinality(J) # Cardinality(I)
    BY <1>3, <1>4, FS_Subset
<1> QED
    BY <1>5 DEF I, J

\* The newlines of the window: the ones of WindowStart, and the last byte if it
\* is one.
LEMMA LastNewline ==
    ASSUME NEW bytes \in Seq(Bytes), Len(bytes) # 0, NEW s \in Nat, s < Len(bytes)
    PROVE  LET P == {i \in 1 .. Len(bytes) - 1 : bytes[i] = "nl"}
               Q == {q \in P : q >= s + 1}
               one == IF bytes[Len(bytes)] = "nl" THEN 1 ELSE 0
           IN  /\ P \in SUBSET Nat /\ IsFiniteSet(P) /\ Cardinality(Q) \in Nat
               /\ Cardinality(Newlines(bytes, s, Len(bytes))) = Cardinality(Q) + one
<1> DEFINE L == Len(bytes)
           P == {i \in 1 .. L - 1 : bytes[i] = "nl"}
           Q == {q \in P : q >= s + 1}
           N == Newlines(bytes, s, L)
<1>1. L \in Nat /\ L - 1 \in Nat
    OBVIOUS
<1>2. P \in SUBSET (1 .. (L - 1))
    OBVIOUS
<1>3. P \in SUBSET Nat /\ IsFiniteSet(P)
    <2> HIDE DEF P, L
    <2> QED
        BY <1>1, <1>2, PositionsFacts
<1>4. IsFiniteSet(Q) /\ Cardinality(Q) \in Nat
    <2> HIDE DEF P
    <2>1. IsFiniteSet(Q)
        BY <1>3, FS_Subset
    <2> HIDE DEF Q
    <2> QED
        BY <2>1, FS_CardinalityType
<1>5. \A i : i \in Q <=> i \in Nat /\ i >= s + 1 /\ i <= L - 1 /\ bytes[i] = "nl"
    BY <1>1
<1>6. \A i : i \in N <=> i \in Nat /\ i >= s + 1 /\ i <= L /\ bytes[i] = "nl"
    BY <1>1 DEF Newlines
<1> HIDE DEF Q, N
<1>7. \A i \in Nat : i <= L <=> i <= L - 1 \/ i = L
    BY <1>1
<1>8. L >= s + 1 /\ ~(L <= L - 1)
    BY <1>1
<1> HIDE DEF L
<1>9. CASE bytes[L] = "nl"
    <2>1. N = Q \cup {L} /\ L \notin Q
        BY <1>1, <1>5, <1>6, <1>7, <1>8, <1>9
    <2>2. Cardinality(N) = Cardinality(Q) + 1
        BY <1>4, <2>1, FS_AddElement
    <2> QED
        BY <1>3, <1>4, <1>9, <2>2 DEF L, Q, N
<1>10. CASE bytes[L] # "nl"
    <2>1. N = Q
        BY <1>1, <1>5, <1>6, <1>7, <1>8, <1>10
    <2>2. Cardinality(N) = Cardinality(Q) + 0
        BY <1>4, <2>1
    <2> QED
        BY <1>3, <1>4, <1>10, <2>2 DEF L, Q, N
<1> QED
    BY <1>9, <1>10

\* WindowStart is where a search from the top that counts the last byte too
\* finds its newline ...
LEMMA FoundWindow ==
    ASSUME NEW bytes \in Seq(Bytes), Len(bytes) # 0, NEW n \in Nat, n # 0, NEW s \in 1 .. Len(bytes),
           bytes[s] = "nl",
           Cardinality(Newlines(bytes, s - 1, Len(bytes))) = n + IF bytes[Len(bytes)] = "nl" THEN 1 ELSE 0
    PROVE  WindowStart(bytes, n) = s
<1> DEFINE L == Len(bytes)
           P == {i \in 1 .. L - 1 : bytes[i] = "nl"}
           Top(p) == {q \in P : q >= p}
           one == IF bytes[L] = "nl" THEN 1 ELSE 0
           r == s - 1
<1>1. L \in Nat /\ s \in Nat /\ r \in Nat /\ r < L /\ r + 1 = s /\ s <= L
    OBVIOUS
<1>2. /\ P \in SUBSET Nat /\ IsFiniteSet(P) /\ Cardinality({q \in P : q >= r + 1}) \in Nat
      /\ Cardinality(Newlines(bytes, r, L)) = Cardinality({q \in P : q >= r + 1}) + one
    <2> HIDE DEF r
    <2> QED
        BY <1>1, LastNewline
<1>3. Cardinality(Top(s)) = n
    <2> DEFINE t == Cardinality({q \in P : q >= r + 1})
               c == Cardinality(Newlines(bytes, r, L))
    <2>1. t \in Nat /\ c = t + one /\ c = n + one /\ one \in Nat
        BY <1>2
    <2>2. t = Cardinality(Top(s))
        BY <1>1
    <2> HIDE DEF t, c, one
    <2>3. t = n
        BY <2>1
    <2> QED
        BY <2>2, <2>3
<1>4. s \in P
    <2>1. s # L
        <3>1. SUFFICES ASSUME s = L PROVE FALSE
            OBVIOUS
        <3>2. Top(s) = {}
            BY <1>1, <3>1
        <3> QED
            BY <1>3, <3>2, FS_EmptySet
    <2> QED
        BY <1>1, <2>1
<1> HIDE DEF P, L, r, one
<1>5. ~(Cardinality(P) < n)
    <2>1. Cardinality(Top(s)) <= Cardinality(P)
        BY <1>2, FS_Subset
    <2>2. Cardinality(P) \in Nat
        BY <1>2, FS_CardinalityType
    <2> QED
        BY <1>3, <2>1, <2>2
<1>6. WindowStart(bytes, n) = CHOOSE p \in P : Cardinality(Top(p)) = n
    BY <1>5 DEF WindowStart, P, L
<1>7. \A p \in P : Cardinality(Top(p)) = n => p = s
    <2> SUFFICES ASSUME NEW p \in P, Cardinality(Top(p)) = n PROVE p = s
        OBVIOUS
    <2>1. ~(p < s) /\ ~(s < p)
        BY <1>2, <1>3, <1>4, TopRankFalls
    <2>2. p \in Nat /\ s \in Nat
        BY <1>2, <1>4
    <2> QED
        BY <2>1, <2>2
<1> HIDE DEF Top
<1> QED
    BY <1>3, <1>4, <1>6, <1>7

\* ... and 0 if there are too few.
LEMMA WholeWindow ==
    ASSUME NEW bytes \in Seq(Bytes), Len(bytes) # 0, NEW n \in Nat, n # 0,
           Cardinality(Newlines(bytes, 0, Len(bytes))) < n + IF bytes[Len(bytes)] = "nl" THEN 1 ELSE 0
    PROVE  WindowStart(bytes, n) = 0
<1> DEFINE L == Len(bytes)
           P == {i \in 1 .. L - 1 : bytes[i] = "nl"}
           one == IF bytes[L] = "nl" THEN 1 ELSE 0
           c == Cardinality(Newlines(bytes, 0, L))
<1>1. L \in Nat /\ 0 \in Nat /\ 0 < L /\ 0 + 1 = 1
    OBVIOUS
<1>2. /\ P \in SUBSET Nat /\ IsFiniteSet(P)
      /\ Cardinality({q \in P : q >= 0 + 1}) \in Nat
      /\ c = Cardinality({q \in P : q >= 0 + 1}) + one
    BY <1>1, LastNewline
<1>3. {q \in P : q >= 0 + 1} = P
    OBVIOUS
<1>4. Cardinality(P) \in Nat /\ c = Cardinality(P) + one /\ c < n + one /\ one \in Nat
    BY <1>2, <1>3
<1> HIDE DEF c, one
<1>5. Cardinality(P) < n
    BY <1>4
<1> QED
    BY <1>5 DEF WindowStart

\* The window starts in the log.
LEMMA WindowStartFacts ==
    ASSUME NEW bytes \in Seq(Bytes), NEW n \in Nat
    PROVE  WindowStart(bytes, n) \in 0 .. Len(bytes)
<1> DEFINE L == Len(bytes)
           P == {i \in 1 .. L - 1 : bytes[i] = "nl"}
<1>1. L \in Nat /\ P \in SUBSET (0 .. L)
    OBVIOUS
<1>2. CASE n = 0
    BY <1>1, <1>2 DEF WindowStart
<1>3. CASE n # 0 /\ Cardinality(P) < n
    BY <1>1, <1>3 DEF WindowStart
<1>4. CASE n # 0 /\ ~(Cardinality(P) < n)
    <2>1. P \in SUBSET Nat /\ IsFiniteSet(P) /\ Cardinality(P) \in Nat
        <3>1. P \in SUBSET (1 .. L)
            OBVIOUS
        <3> HIDE DEF P, L
        <3> QED
            BY <1>1, <3>1, PositionsFacts
    <2>2. \E p \in P : Cardinality({q \in P : q >= p}) = n
        <3>1. n \in 1 .. Cardinality(P)
            BY <1>4, <2>1
        <3> HIDE DEF P
        <3> QED
            BY <2>1, <3>1, TopRankExists
    <2>3. WindowStart(bytes, n) = CHOOSE p \in P : Cardinality({q \in P : q >= p}) = n
        BY <1>4 DEF WindowStart
    <2> HIDE DEF P, L
    <2>4. WindowStart(bytes, n) \in P
        BY <2>2, <2>3
    <2> QED
        BY <1>1, <2>4 DEF L
<1> QED
    BY <1>2, <1>3, <1>4

\* The newlines of a chunk, and of the bytes behind any of them.
Counts(bytes, from, to, chunk) ==
    LET N == {i \in 1 .. Len(chunk) : chunk[i] = "nl"}
        counted == Cardinality(Newlines(bytes, to, Len(bytes)))
    IN  /\ N \in SUBSET Nat /\ IsFiniteSet(N) /\ Cardinality(N) \in Nat /\ counted \in Nat
        /\ Cardinality(Newlines(bytes, from, Len(bytes))) = counted + Cardinality(N)
        /\ \A i \in N : /\ from + i \in 1 .. Len(bytes) /\ bytes[from + i] = "nl"
                        /\ Cardinality({j \in N : j >= i}) \in Nat
                        /\ Cardinality(Newlines(bytes, (from + i) - 1, Len(bytes)))
                              = counted + Cardinality({j \in N : j >= i})

\* The search counts the newlines of a chunk right.
LEMMA ChunkFacts ==
    ASSUME NEW bytes \in Seq(Bytes), NEW from \in Nat, NEW to \in Nat, from <= to, to <= Len(bytes),
           NEW chunk, Len(chunk) = to - from, \A i \in 1 .. Len(chunk) : chunk[i] = bytes[from + i]
    PROVE  Counts(bytes, from, to, chunk)
<1> DEFINE L == Len(bytes)
           M == Len(chunk)
           N == {i \in 1 .. M : chunk[i] = "nl"}
           behind == Newlines(bytes, to, L)
<1>1. L \in Nat /\ M \in Nat /\ to = from + M
    OBVIOUS
<1>2. N \in SUBSET (1 .. M)
    OBVIOUS
<1>3. N \in SUBSET Nat /\ IsFiniteSet(N) /\ Cardinality(N) \in Nat
    <2> HIDE DEF N, M
    <2> QED
        BY <1>1, <1>2, PositionsFacts
<1>4. \A i \in N : i \in 1 .. M /\ bytes[from + i] = "nl"
    OBVIOUS
<1>5. \A i \in 1 .. M : bytes[from + i] = "nl" => i \in N
    OBVIOUS
<1> HIDE DEF N
\* The newlines behind any offset in the chunk.
<1>6. ASSUME NEW i \in Nat, 1 <= i, i <= M + 1
      PROVE  /\ Cardinality({j \in N : j >= i}) \in Nat /\ Cardinality(behind) \in Nat
             /\ Cardinality(Newlines(bytes, (from + i) - 1, L)) = Cardinality(behind) + Cardinality({j \in N : j >= i})
    <2> DEFINE K == {j \in N : j >= i}
               T == {k + from : k \in K}
               S == Newlines(bytes, (from + i) - 1, L)
    <2>1. K \in SUBSET Nat /\ IsFiniteSet(K)
        BY <1>3, FS_Subset
    <2>2. IsFiniteSet(T) /\ Cardinality(T) = Cardinality(K)
        <3> HIDE DEF K
        <3> QED
            BY <2>1, ShiftKeeps
    <2>3. IsFiniteSet(S)
        <3>1. S \in SUBSET (1 .. L)
            <4> DEFINE c == (from + i) - 1
            <4>1. c \in Nat
                BY <1>6
            <4>2. S = {j \in (c + 1) .. L : bytes[j] = "nl"}
                BY DEF Newlines
            <4> HIDE DEF c
            <4> QED
                BY <1>1, <4>1, <4>2
        <3> HIDE DEF S, L
        <3> QED
            BY <1>1, <3>1, PositionsFacts
    <2>4. ASSUME NEW x PROVE x \in S <=> x \in behind \/ x \in T
        <3>1. x \in S <=> x \in (from + i) .. L /\ bytes[x] = "nl"
            <4>1. ((from + i) - 1) + 1 = from + i
                OBVIOUS
            <4>2. S = {j \in (((from + i) - 1) + 1) .. L : bytes[j] = "nl"}
                BY DEF Newlines
            <4> QED
                BY <4>1, <4>2
        <3>2. x \in behind <=> x \in (to + 1) .. L /\ bytes[x] = "nl"
            BY DEF Newlines
        <3>3. ASSUME x \in T PROVE x \in (from + i) .. to /\ bytes[x] = "nl"
            <4>1. PICK k \in K : x = k + from
                BY <3>3
            <4>2. k \in 1 .. M /\ k >= i /\ bytes[from + k] = "nl"
                BY <1>4
            <4> QED
                BY <1>1, <4>1, <4>2
        <3>4. ASSUME x \in (from + i) .. to, bytes[x] = "nl" PROVE x \in T
            <4> DEFINE k == x - from
            <4>1. k \in 1 .. M /\ k >= i /\ x = k + from /\ x = from + k
                BY <1>1, <1>6, <3>4
            <4>2. k \in K
                BY <1>5, <3>4, <4>1
            <4> QED
                BY <4>1, <4>2
        <3> HIDE DEF S, T
        <3>5. x \in (from + i) .. L <=> x \in (to + 1) .. L \/ x \in (from + i) .. to
            BY <1>1, <1>6
        <3> QED
            BY <3>1, <3>2, <3>3, <3>4, <3>5
    <2>5. behind \cap T = {}
        <3> SUFFICES ASSUME NEW x \in behind, x \in T PROVE FALSE
            OBVIOUS
        <3>1. x \in (to + 1) .. L
            BY DEF Newlines
        <3>2. PICK k \in K : x = k + from
            OBVIOUS
        <3>3. k \in 1 .. M
            BY <1>4
        <3> QED
            BY <1>1, <3>1, <3>2, <3>3
    <2> HIDE DEF S, T, behind
    <2>6. S = behind \cup T
        BY <2>4
    <2>7. Cardinality(behind) \in Nat /\ Cardinality(T) \in Nat /\ Cardinality(S) = Cardinality(behind) + Cardinality(T)
        BY <2>3, <2>5, <2>6, PartsAdd, SMTT(30)
    <2> QED
        BY <2>2, <2>7 DEF S
<1>7. Cardinality(behind) \in Nat /\ Cardinality(Newlines(bytes, from, L)) = Cardinality(behind) + Cardinality(N)
    <2>1. {j \in N : j >= 1} = N
        BY <1>4
    <2>2. 1 \in Nat /\ 1 <= 1 /\ 1 <= M + 1 /\ (from + 1) - 1 = from
        BY <1>1
    <2> QED
        BY <1>6, <2>1, <2>2
<1>8. ASSUME NEW i \in N
      PROVE  /\ from + i \in 1 .. L /\ bytes[from + i] = "nl"
             /\ Cardinality({j \in N : j >= i}) \in Nat
             /\ Cardinality(Newlines(bytes, (from + i) - 1, L)) = Cardinality(behind) + Cardinality({j \in N : j >= i})
    <2>1. i \in 1 .. M /\ bytes[from + i] = "nl"
        BY <1>4
    <2>2. i \in Nat /\ 1 <= i /\ i <= M + 1 /\ from + i \in 1 .. L
        BY <1>1, <2>1
    <2> QED
        BY <1>6, <2>1, <2>2
<1> QED
    BY <1>3, <1>7, <1>8 DEF N, Counts

-----------------------------------------------------------------------------
(* One read of a log.                                                      *)

\* The ssh process belongs to the remote stage, and is gone behind it.
ChildInv ==
    /\ stage \in {"new", "last", "chunks", "read"} => child = "none"
    /\ stage = "remote" => child \in {"running", "exited", "broken pipe", "error"}
    /\ stage \in {"ok", "failed"} => child \in {"none", "reaped"}

\* The bytes, whatever a rotation did to them.
BytesInv ==
    /\ log \in Seq(Bytes) /\ base \in Seq(Bytes) /\ raw \in Seq(Bytes)
    /\ call \in TailCalls
    /\ len = Len(base)
    /\ pos \in Nat /\ seen \in Nat /\ target \in Nat /\ start \in Nat
    /\ stage \in {"new", "last", "chunks"} => raw = <<>>

\* A log that is only appended to still begins with the bytes the window was
\* located in.
BaseKept == Len(base) <= Len(log) /\ \A i \in 1 .. Len(base) : log[i] = base[i]

\* A newline at the end counts one more.
FinalNewline(bytes) == IF bytes[Len(bytes)] = "nl" THEN 1 ELSE 0

\* tail_start_offset has counted the newlines behind pos, and fewer than it
\* looks for.
SearchInv ==
    /\ stage \in {"last", "chunks"} => CappedLines # 0 /\ Len(base) # 0
    /\ stage = "chunks" => /\ target = CappedLines + FinalNewline(base)
                           /\ pos <= Len(base)
                           /\ seen = Cardinality(Newlines(base, pos, Len(base)))
                           /\ seen < target

\* What was read so far are the bytes of the log from the start of the window.
ReadInv ==
    /\ start = WindowStart(base, CappedLines)
    /\ start + Len(raw) <= Len(log)
    /\ \A i \in 1 .. Len(raw) : raw[i] = log[start + i]

\* Where a log that was not rotated stands, by the stage of the call.
LocatedInv ==
    /\ BaseKept
    /\ SearchInv
    /\ stage = "read" => ReadInv
    /\ stage = "remote" /\ child = "exited" =>
         /\ ReadInv
         /\ Len(raw) <= MaxTotalBytes => start + Len(raw) = Len(base)

\* The invariant of a read.
TailInv ==
    /\ ChildInv /\ BytesInv
    /\ ~rotated => LocatedInv
    /\ UnflaggedIsWhole /\ NoMatchesIsTrue

\* The number of lines asked for.
LEMMA CappedType ==
    ASSUME call \in TailCalls
    PROVE  CappedLines \in Nat
<1>1. call.lines \in Nat
    BY CallFacts
<1> QED
    BY <1>1, TailBounds DEF CappedLines, Min2

\* What the answer that tail_inner makes of the bytes says of them.
LEMMA ConcludeFacts ==
    ASSUME call \in TailCalls, NEW bytes \in Seq(Bytes), Conclude(bytes)
    PROVE  /\ stage' \in {"ok", "failed"}
           /\ stage' = "ok" /\ answer'.truncated = {} =>
                Len(bytes) <= MaxTotalBytes /\ answer'.lines = Pick(Whole(bytes), Hits(bytes))
           /\ stage' = "ok" /\ answer'.status = "no_matches" =>
                Len(bytes) <= MaxTotalBytes /\ Hits(bytes) = {}
<1> DEFINE over == Len(bytes) > MaxTotalBytes
           kept == SubSeq(bytes, 1, Min2(Len(bytes), MaxTotalBytes))
<1>1. Len(bytes) \in Nat /\ MaxTotalBytes \in Nat
    BY TailBounds
<1>2. over \in BOOLEAN /\ kept \in Seq(Bytes)
    BY <1>1 DEF Min2
<1>3. ~over => Len(bytes) <= MaxTotalBytes /\ kept = bytes
    BY <1>1 DEF Min2
<1>4. \/ stage' = "failed"
      \/ stage' = "ok" /\ answer' = Answer(kept, over)
    BY DEF Conclude
<1> HIDE DEF over, kept
<1>5. LET a == Answer(kept, over)
      IN  /\ a.truncated = {} => ~over /\ a.lines = Pick(Whole(kept), Hits(kept))
          /\ a.status = "no_matches" => ~over /\ Hits(kept) = {}
    BY <1>2, AnswerFacts
<1> QED
    BY <1>3, <1>4, <1>5

\* An answer made of a whole window keeps its promises.
LEMMA ConcludeKeeps ==
    ASSUME call \in TailCalls, call' = call, NEW bytes \in Seq(Bytes), Conclude(bytes),
           ~rotated' /\ Len(bytes) <= MaxTotalBytes =>
               \E m \in len' .. Len(log') : SubSeq(log', WindowStart(base', CappedLines) + 1, m) = bytes
    PROVE  stage' \in {"ok", "failed"} /\ UnflaggedIsWhole' /\ NoMatchesIsTrue'
<1> DEFINE Lines(m) == Pieces(SubSeq(log', WindowStart(base', CappedLines) + 1, m))
<1>1. /\ stage' \in {"ok", "failed"}
      /\ stage' = "ok" /\ answer'.truncated = {} =>
           Len(bytes) <= MaxTotalBytes /\ answer'.lines = Pick(Whole(bytes), Hits(bytes))
      /\ stage' = "ok" /\ answer'.status = "no_matches" =>
           Len(bytes) <= MaxTotalBytes /\ Hits(bytes) = {}
    BY ConcludeFacts
<1>2. ASSUME stage' = "ok" /\ ~rotated' /\ answer'.truncated = {}
      PROVE  \E m \in len' .. Len(log') :
                LET whole == [k \in 1 .. Len(Lines(m)) |-> Lossy(Lines(m)[k])]
                IN  answer'.lines = Pick(whole, {k \in DOMAIN whole : Wanted(whole[k])})
    <2>1. PICK m \in len' .. Len(log') : SubSeq(log', WindowStart(base', CappedLines) + 1, m) = bytes
        BY <1>1, <1>2
    <2>2. Lines(m) = Pieces(bytes)
        BY <2>1
    <2>3. answer'.lines = Pick(Whole(bytes), Hits(bytes))
        BY <1>1, <1>2
    <2> QED
        BY <2>2, <2>3 DEF Whole, Hits
<1>3. ASSUME stage' = "ok" /\ ~rotated' /\ answer'.status = "no_matches"
      PROVE  \E m \in len' .. Len(log') : \A k \in DOMAIN Lines(m) : ~Wanted(Lossy(Lines(m)[k]))
    <2>1. PICK m \in len' .. Len(log') : SubSeq(log', WindowStart(base', CappedLines) + 1, m) = bytes
        BY <1>1, <1>3
    <2>2. Lines(m) = Pieces(bytes)
        BY <2>1
    <2>3. Hits(bytes) = {}
        BY <1>1, <1>3
    <2>4. DOMAIN Pieces(bytes) = 1 .. Len(Pieces(bytes))
        BY PiecesFacts
    <2>5. \A k \in DOMAIN Pieces(bytes) : ~Wanted(Lossy(Pieces(bytes)[k]))
        BY <2>3, <2>4 DEF Whole, Hits
    <2> QED
        BY <2>2, <2>5
<1>4. CappedLines' = CappedLines
    BY DEF CappedLines
<1>5. UnflaggedIsWhole'
    BY <1>2, <1>4, ZenonT(40) DEF UnflaggedIsWhole, WindowUpTo, Wanted
<1>6. NoMatchesIsTrue'
    BY <1>3, <1>4 DEF NoMatchesIsTrue, WindowUpTo, Wanted
<1> QED
    BY <1>1, <1>5, <1>6

\* A call begins with nothing read.
LEMMA InitTail == TailInit => TailInv
<1> SUFFICES ASSUME TailInit PROVE TailInv
    OBVIOUS
<1>1. ChildInv
    BY DEF TailInit, ChildInv
<1>2. BytesInv
    BY TailBounds DEF TailInit, BytesInv
<1>3. LocatedInv
    <2>1. Len(log) \in Nat /\ Len(base) = 0
        BY TailBounds DEF TailInit
    <2>2. BaseKept
        BY <2>1 DEF BaseKept
    <2> QED
        BY <2>2 DEF TailInit, LocatedInv, SearchInv
<1> QED
    BY <1>1, <1>2, <1>3 DEF TailInit, TailInv, UnflaggedIsWhole, NoMatchesIsTrue

\* Outside of an answer its promises ask for nothing.
LEMMA NoAnswerYet ==
    ASSUME stage' # "ok"
    PROVE  UnflaggedIsWhole' /\ NoMatchesIsTrue'
BY DEF UnflaggedIsWhole, NoMatchesIsTrue

\* The length and the bytes of the file are taken; a call for no line, or of an
\* empty file, is answered at once.
LEMMA OpenStep ==
    ASSUME TailInv, Open
    PROVE  TailInv'
<1> USE DEF TailInv
<1>1. /\ stage = "new" /\ raw = <<>> /\ raw' = raw /\ call' = call /\ child' = child /\ child = "none"
      /\ log' = log /\ rotated' = rotated /\ len' = Len(log) /\ base' = log
      /\ pos' = pos /\ seen' = seen /\ target' = target /\ start' = start
      /\ call \in TailCalls /\ log \in Seq(Bytes) /\ Len(log) \in Nat
    BY DEF Open, world, BytesInv, ChildInv
<1>2. CappedLines' = CappedLines /\ CappedLines \in Nat
    BY <1>1, CappedType DEF CappedLines
<1>3. BaseKept'
    BY <1>1 DEF BaseKept
<1>4. CASE CappedLines = 0 \/ log = <<>>
    <2>1. Conclude(<<>>)
        BY <1>4 DEF Open
    <2>2. WindowStart(log, CappedLines) = Len(log)
        <3>1. CASE CappedLines = 0
            BY <3>1 DEF WindowStart
        <3>2. CASE log = <<>>
            <4>1. WindowStart(log, CappedLines) \in 0 .. Len(log) /\ Len(log) = 0
                BY <1>1, <1>2, <3>2, WindowStartFacts
            <4> QED
                BY <4>1
        <3> QED
            BY <1>4, <3>1, <3>2
    <2>3. SubSeq(log, Len(log) + 1, Len(log)) = <<>>
        BY <1>1
    <2>4. <<>> \in Seq(Bytes) /\ Len(log) \in len' .. Len(log')
        BY <1>1
    <2>5. \E m \in len' .. Len(log') : SubSeq(log', WindowStart(base', CappedLines) + 1, m) = <<>>
        BY <1>1, <2>2, <2>3, <2>4
    <2>6. stage' \in {"ok", "failed"} /\ UnflaggedIsWhole' /\ NoMatchesIsTrue'
        BY <1>1, <2>1, <2>4, <2>5, ConcludeKeeps
    <2>7. ChildInv' /\ BytesInv'
        BY <1>1, <2>6 DEF ChildInv, BytesInv
    <2>8. LocatedInv'
        BY <1>3, <2>6 DEF LocatedInv, SearchInv
    <2> QED
        BY <2>6, <2>7, <2>8
<1>5. CASE CappedLines # 0 /\ log # <<>>
    <2>1. stage' = "last"
        BY <1>5 DEF Open
    <2>2. UnflaggedIsWhole' /\ NoMatchesIsTrue'
        BY <2>1, NoAnswerYet
    <2>3. ChildInv' /\ BytesInv'
        BY <1>1, <2>1 DEF ChildInv, BytesInv
    <2>4. Len(log) # 0
        BY <1>1, <1>5
    <2>5. SearchInv'
        BY <1>1, <1>2, <1>5, <2>1, <2>4 DEF SearchInv
    <2> QED
        BY <1>3, <2>1, <2>2, <2>3, <2>5 DEF LocatedInv
<1> QED
    BY <1>4, <1>5

\* Of a log that is only appended to, the byte at the old end is still there.
LEMMA LastByteStep ==
    ASSUME TailInv, LastByte
    PROVE  TailInv'
<1> USE DEF TailInv
<1>1. /\ stage = "last" /\ stage' = "chunks" /\ raw = <<>> /\ raw' = raw /\ call' = call /\ child' = child
      /\ child = "none" /\ log' = log /\ rotated' = rotated /\ len' = len /\ base' = base
      /\ pos' = len /\ seen' = 0 /\ start' = start /\ start \in Nat
      /\ target' = CappedLines + IF len <= Len(log) /\ log[len] = "nl" THEN 1 ELSE 0
      /\ call \in TailCalls /\ log \in Seq(Bytes) /\ base \in Seq(Bytes) /\ len = Len(base)
    BY DEF LastByte, world, BytesInv, ChildInv
<1>2. CappedLines' = CappedLines /\ CappedLines \in Nat /\ len \in Nat
    BY <1>1, CappedType DEF CappedLines
<1>3. UnflaggedIsWhole' /\ NoMatchesIsTrue'
    BY <1>1, NoAnswerYet
<1>4. ChildInv' /\ BytesInv'
    <2>1. target' \in Nat
        BY <1>1, <1>2
    <2> QED
        BY <1>1, <1>2, <2>1 DEF ChildInv, BytesInv
<1>5. ASSUME ~rotated PROVE LocatedInv'
    <2>1. BaseKept /\ CappedLines # 0 /\ Len(base) # 0
        BY <1>1, <1>5 DEF LocatedInv, SearchInv
    <2>2. len <= Len(log) /\ log[len] = base[len]
        BY <1>1, <1>2, <2>1 DEF BaseKept
    <2>3. target' = CappedLines + FinalNewline(base)
        BY <1>1, <2>2 DEF FinalNewline
    <2>4. Newlines(base, len, len) = {}
        BY <1>2 DEF Newlines
    <2>5. Cardinality(Newlines(base, len, len)) = 0
        BY <2>4, FS_EmptySet
    <2>6. 0 < target'
        BY <1>2, <2>1, <2>3 DEF FinalNewline
    <2>7. SearchInv'
        BY <1>1, <1>2, <2>1, <2>3, <2>5, <2>6 DEF SearchInv, FinalNewline
    <2>8. BaseKept'
        BY <1>1, <2>1 DEF BaseKept
    <2> QED
        BY <1>1, <2>7, <2>8 DEF LocatedInv
<1> QED
    BY <1>1, <1>3, <1>4, <1>5

\* The newline that was looked for is in this chunk, or fewer are in all that
\* was searched so far.
LEMMA ReadChunkStep ==
    ASSUME TailInv, ReadChunk
    PROVE  TailInv'
<1> USE DEF TailInv
<1> DEFINE from == pos - Min2(pos, ReadChunkBytes)
           chunk == SubSeq(log, from + 1, Min2(pos, Len(log)))
           N == {i \in 1 .. Len(chunk) : chunk[i] = "nl"}
           Upto(i) == Cardinality({j \in N : j >= i})
           found == {i \in N : seen + Upto(i) = target}
<1>1. /\ stage = "chunks" /\ raw = <<>> /\ raw' = raw /\ call' = call /\ child' = child
      /\ child = "none" /\ log' = log /\ rotated' = rotated /\ len' = len /\ base' = base
      /\ target' = target /\ target \in Nat /\ pos \in Nat /\ pos > 0 /\ seen \in Nat /\ start \in Nat
      /\ call \in TailCalls /\ log \in Seq(Bytes) /\ base \in Seq(Bytes) /\ len = Len(base)
    BY DEF ReadChunk, world, BytesInv, ChildInv
<1>2. IF found # {}
      THEN /\ start' = from + CHOOSE i \in found : TRUE
           /\ stage' = "read" /\ UNCHANGED <<pos, seen>>
      ELSE /\ pos' = from /\ seen' = seen + Cardinality(N)
           /\ UNCHANGED <<start, stage>>
    BY DEF ReadChunk
<1>3. from \in Nat /\ from < pos /\ Len(log) \in Nat /\ Len(base) \in Nat
    BY <1>1, TailBounds DEF Min2
<1>4. chunk \in Seq(Bytes) /\ Len(chunk) \in Nat
    <2> HIDE DEF from
    <2>1. Min2(pos, Len(log)) \in Int /\ Min2(pos, Len(log)) <= Len(log)
        BY <1>1, <1>3 DEF Min2
    <2> QED
        BY <1>1, <1>3, <2>1
<1>5. CappedLines' = CappedLines /\ CappedLines \in Nat
    BY <1>1, CappedType DEF CappedLines
<1>6. N \in SUBSET Nat /\ IsFiniteSet(N) /\ Cardinality(N) \in Nat
    <2>1. N \in SUBSET (1 .. Len(chunk))
        OBVIOUS
    <2> HIDE DEF N, chunk
    <2> QED
        BY <1>4, <2>1, PositionsFacts
<1>7. ASSUME ~rotated
      PROVE  /\ BaseKept /\ CappedLines # 0 /\ Len(base) # 0
             /\ target = CappedLines + FinalNewline(base) /\ pos <= Len(base)
             /\ seen = Cardinality(Newlines(base, pos, Len(base))) /\ seen < target
             /\ Len(chunk) = pos - from /\ \A i \in 1 .. Len(chunk) : chunk[i] = base[from + i]
    <2>1. /\ BaseKept /\ CappedLines # 0 /\ Len(base) # 0
          /\ target = CappedLines + FinalNewline(base) /\ pos <= Len(base)
          /\ seen = Cardinality(Newlines(base, pos, Len(base))) /\ seen < target
        BY <1>1, <1>7 DEF LocatedInv, SearchInv
    <2>2. Min2(pos, Len(log)) = pos /\ pos <= Len(log)
        BY <1>1, <1>3, <2>1 DEF Min2, BaseKept
    <2> HIDE DEF from
    <2>3. chunk = SubSeq(log, from + 1, pos)
        BY <2>2
    <2>4. Len(chunk) = pos - from
        BY <1>1, <1>3, <2>2, <2>3
    <2>5. ASSUME NEW i \in 1 .. Len(chunk) PROVE chunk[i] = base[from + i]
        <3>1. chunk[i] = log[from + i]
            BY <1>1, <1>3, <2>2, <2>3, <2>4
        <3>2. from + i \in 1 .. Len(base)
            <4> HIDE DEF chunk
            <4> QED
                BY <1>1, <1>3, <2>1, <2>4
        <3> QED
            BY <2>1, <3>1, <3>2 DEF BaseKept
    <2> QED
        BY <2>1, <2>4, <2>5
<1>8. ASSUME ~rotated
      PROVE  /\ Cardinality(Newlines(base, from, Len(base))) = seen + Cardinality(N)
             /\ \A i \in N : /\ from + i \in 1 .. Len(base) /\ base[from + i] = "nl"
                             /\ Upto(i) \in Nat
                             /\ Cardinality(Newlines(base, (from + i) - 1, Len(base))) = seen + Upto(i)
    <2>1. from <= pos
        BY <1>1, <1>3
    <2>2. /\ pos <= Len(base) /\ Len(chunk) = pos - from /\ \A i \in 1 .. Len(chunk) : chunk[i] = base[from + i]
          /\ seen = Cardinality(Newlines(base, pos, Len(base)))
        BY <1>7, <1>8
    <2> HIDE DEF from, chunk
    <2>3. Counts(base, from, pos, chunk)
        BY <1>1, <1>3, <2>1, <2>2, ChunkFacts
    <2> QED
        BY <2>2, <2>3 DEF Counts
<1> HIDE DEF from, chunk, N
<1>9. UnflaggedIsWhole' /\ NoMatchesIsTrue'
    BY <1>1, <1>2, NoAnswerYet
<1>10. ASSUME ~rotated PROVE BaseKept'
    BY <1>1, <1>7, <1>10 DEF BaseKept
<1>11. CASE found # {}
    <2> DEFINE i == CHOOSE i \in found : TRUE
    <2>1. i \in N /\ seen + Upto(i) = target
        BY <1>11
    <2>2. start' = from + i /\ stage' = "read" /\ pos' = pos /\ seen' = seen
        BY <1>2, <1>11
    <2> HIDE DEF i
    <2>3. i \in Nat /\ start' \in Nat
        BY <1>3, <1>6, <2>1, <2>2
    <2>4. ChildInv' /\ BytesInv'
        BY <1>1, <2>2, <2>3 DEF ChildInv, BytesInv
    <2>5. ASSUME ~rotated PROVE ReadInv'
        <3> DEFINE s == from + i
        <3>1. /\ s \in 1 .. Len(base) /\ base[s] = "nl"
              /\ Cardinality(Newlines(base, s - 1, Len(base))) = target
            BY <1>8, <2>1, <2>5
        <3>2. CappedLines # 0 /\ Len(base) # 0 /\ target = CappedLines + FinalNewline(base)
            BY <1>7, <2>5
        <3> HIDE DEF s
        <3>3. WindowStart(base, CappedLines) = s
            BY <1>1, <1>5, <3>1, <3>2, FoundWindow DEF FinalNewline
        <3>4. start' = WindowStart(base', CappedLines') /\ start' = s
            BY <1>1, <1>5, <2>2, <3>3 DEF s
        <3>5. s <= Len(log) /\ s \in Nat
            BY <1>3, <1>7, <2>5, <3>1 DEF BaseKept
        <3>6. Len(raw') = 0
            BY <1>1
        <3> QED
            BY <1>1, <3>4, <3>5, <3>6 DEF ReadInv
    <2> QED
        BY <1>1, <1>9, <1>10, <2>2, <2>4, <2>5 DEF LocatedInv, SearchInv
<1>12. CASE found = {}
    <2>1. pos' = from /\ seen' = seen + Cardinality(N) /\ start' = start /\ stage' = stage
        BY <1>2, <1>12
    <2>2. seen' \in Nat
        BY <1>1, <1>6, <2>1
    <2>3. ChildInv' /\ BytesInv'
        BY <1>1, <1>3, <2>1, <2>2 DEF ChildInv, BytesInv
    <2>4. ASSUME ~rotated PROVE SearchInv'
        <3>1. seen + Cardinality(N) < target
            <4> SUFFICES ASSUME ~(seen + Cardinality(N) < target) PROVE FALSE
                OBVIOUS
            <4> DEFINE r == target - seen
            <4>1. r \in 1 .. Cardinality(N)
                BY <1>1, <1>6, <1>7, <2>4
            <4> HIDE DEF r
            <4>2. PICK i \in N : Cardinality({j \in N : j >= i}) = r
                BY <1>6, <4>1, TopRankExists
            <4>3. seen + r = target
                BY <1>1 DEF r
            <4> QED
                BY <1>12, <4>2, <4>3
        <3>2. from <= Len(base)
            BY <1>1, <1>3, <1>7, <2>4
        <3>3. seen' = Cardinality(Newlines(base', pos', Len(base')))
            BY <1>1, <1>8, <2>1, <2>4
        <3> QED
            BY <1>1, <1>5, <1>7, <2>1, <2>4, <3>1, <3>2, <3>3 DEF SearchInv, FinalNewline
    <2> QED
        BY <1>1, <1>9, <1>10, <2>1, <2>3, <2>4 DEF LocatedInv
<1> QED
    BY <1>11, <1>12

\* All was searched: the log has fewer lines than asked for.
LEMMA ChunksDoneStep ==
    ASSUME TailInv, ChunksDone
    PROVE  TailInv'
<1> USE DEF TailInv
<1>1. /\ stage = "chunks" /\ stage' = "read" /\ pos = 0 /\ start' = 0 /\ raw = <<>> /\ raw' = raw
      /\ call' = call /\ child' = child /\ child = "none" /\ log' = log /\ rotated' = rotated
      /\ len' = len /\ base' = base /\ pos' = pos /\ seen' = seen /\ target' = target
      /\ call \in TailCalls /\ log \in Seq(Bytes) /\ base \in Seq(Bytes) /\ Len(log) \in Nat
    BY DEF ChunksDone, world, BytesInv, ChildInv
<1>2. CappedLines' = CappedLines /\ CappedLines \in Nat
    BY <1>1, CappedType DEF CappedLines
<1>3. UnflaggedIsWhole' /\ NoMatchesIsTrue'
    BY <1>1, NoAnswerYet
<1>4. ChildInv' /\ BytesInv'
    BY <1>1 DEF ChildInv, BytesInv
<1>5. ASSUME ~rotated PROVE LocatedInv'
    <2>1. /\ BaseKept /\ CappedLines # 0 /\ Len(base) # 0
          /\ target = CappedLines + FinalNewline(base)
          /\ seen = Cardinality(Newlines(base, 0, Len(base))) /\ seen < target
        BY <1>1, <1>5 DEF LocatedInv, SearchInv
    <2>2. WindowStart(base, CappedLines) = 0
        BY <1>1, <1>2, <2>1, WholeWindow DEF FinalNewline
    <2>3. ReadInv'
        BY <1>1, <1>2, <2>2 DEF ReadInv
    <2>4. BaseKept'
        BY <1>1, <2>1 DEF BaseKept
    <2> QED
        BY <1>1, <2>3, <2>4 DEF LocatedInv, SearchInv
<1> QED
    BY <1>1, <1>3, <1>4, <1>5

\* What is read continues where the last read ended.
LEMMA ReadSomeStep ==
    ASSUME TailInv, ReadSome
    PROVE  TailInv'
<1> USE DEF TailInv
<1>1. /\ stage = "read" /\ stage' = stage /\ call' = call /\ child' = child /\ child = "none"
      /\ log' = log /\ rotated' = rotated /\ len' = len /\ base' = base /\ pos' = pos /\ seen' = seen
      /\ target' = target /\ start' = start /\ start \in Nat
      /\ log \in Seq(Bytes) /\ raw \in Seq(Bytes) /\ Len(log) \in Nat /\ Len(raw) \in Nat
    BY DEF ReadSome, world, search, BytesInv, ChildInv
<1>2. UnflaggedIsWhole' /\ NoMatchesIsTrue'
    BY <1>1, NoAnswerYet
<1> DEFINE at == start + Len(raw)
<1>3. PICK n \in 1 .. Min2(MaxTotalBytes + 1 - Len(raw), Len(log) - at) :
          raw' = raw \o SubSeq(log, at + 1, at + n)
    BY DEF ReadSome
<1>4. n \in Nat /\ n <= Len(log) - at /\ at \in Nat /\ at + n <= Len(log)
    BY <1>1, <1>3, TailBounds DEF Min2
<1> DEFINE more == SubSeq(log, at + 1, at + n)
<1>5. more \in Seq(Bytes) /\ Len(more) = n /\ \A i \in 1 .. n : more[i] = log[at + i]
    <2> HIDE DEF at
    <2> QED
        BY <1>1, <1>4, SMTT(30)
<1> HIDE DEF more
<1>6. /\ raw' \in Seq(Bytes) /\ Len(raw') = Len(raw) + n
      /\ \A i \in 1 .. Len(raw') : raw'[i] = IF i <= Len(raw) THEN raw[i] ELSE more[i - Len(raw)]
    BY <1>1, <1>3, <1>4, <1>5, SMTT(30) DEF more
<1>7. ChildInv' /\ BytesInv'
    BY <1>1, <1>6 DEF ChildInv, BytesInv
<1>8. ASSUME ~rotated PROVE LocatedInv'
    <2>1. BaseKept /\ ReadInv
        BY <1>1, <1>8 DEF LocatedInv
    <2>2. ASSUME NEW i \in 1 .. Len(raw') PROVE raw'[i] = log[start + i]
        <3>1. CASE i <= Len(raw)
            <4>1. i \in 1 .. Len(raw)
                BY <1>1, <1>4, <1>6, <3>1
            <4> QED
                BY <1>6, <2>1, <3>1, <4>1 DEF ReadInv
        <3>2. CASE ~(i <= Len(raw))
            <4>1. i - Len(raw) \in 1 .. n /\ at + (i - Len(raw)) = start + i
                BY <1>1, <1>4, <1>6, <3>2, SMTT(30)
            <4> QED
                BY <1>5, <1>6, <3>2, <4>1
        <3> QED
            BY <3>1, <3>2
    <2>3. start + Len(raw') <= Len(log)
        BY <1>1, <1>4, <1>6
    <2>4. ReadInv'
        BY <1>1, <2>1, <2>2, <2>3 DEF ReadInv, CappedLines
    <2>5. BaseKept'
        BY <1>1, <2>1 DEF BaseKept
    <2> QED
        BY <1>1, <2>4, <2>5 DEF LocatedInv, SearchInv
<1> QED
    BY <1>1, <1>2, <1>7, <1>8

\* The bytes from an offset up to m.
LEMMA WindowBytes ==
    ASSUME NEW bytes \in Seq(Bytes), NEW a \in Nat, NEW m \in Nat, a <= m, m <= Len(bytes)
    PROVE  LET part == SubSeq(bytes, a + 1, m)
           IN  /\ part \in Seq(Bytes) /\ Len(part) = m - a /\ Len(part) \in Nat
               /\ \A i \in 1 .. Len(part) : part[i] = bytes[a + i]
<1> DEFINE part == SubSeq(bytes, a + 1, m)
<1>1. part \in Seq(Bytes) /\ Len(part) = m - a /\ m - a \in Nat
    OBVIOUS
<1>2. ASSUME NEW i \in 1 .. (m - a) PROVE part[i] = bytes[a + i]
    <2>1. part[i] = bytes[((a + 1) + i) - 1] /\ ((a + 1) + i) - 1 = a + i
        OBVIOUS
    <2> QED
        BY <2>1
<1> QED
    BY <1>1, <1>2

\* Bytes that reach from the start of the window to m are the window up to m.
LEMMA ReadIsWindow ==
    ASSUME BytesInv, ReadInv, NEW m \in Nat, start + Len(raw) = m
    PROVE  SubSeq(log, WindowStart(base, CappedLines) + 1, m) = raw
<1> DEFINE all == SubSeq(log, start + 1, m)
<1>1. /\ log \in Seq(Bytes) /\ raw \in Seq(Bytes) /\ Len(log) \in Nat /\ Len(raw) \in Nat /\ start \in Nat
      /\ start = WindowStart(base, CappedLines) /\ m <= Len(log)
      /\ \A i \in 1 .. Len(raw) : raw[i] = log[start + i]
    BY DEF BytesInv, ReadInv
<1>2. all \in Seq(Bytes) /\ Len(all) = Len(raw) /\ \A i \in 1 .. Len(raw) : all[i] = log[start + i]
    <2>1. start <= m /\ m - start = Len(raw) /\ log \in Seq(Bytes) /\ start \in Nat /\ m <= Len(log)
        BY <1>1
    <2>2. all \in Seq(Bytes) /\ Len(all) = m - start /\ \A i \in 1 .. Len(all) : all[i] = log[start + i]
        BY <2>1, WindowBytes
    <2> QED
        BY <2>1, <2>2
<1> HIDE DEF all
<1>3. all = raw
    <2>1. \A i \in 1 .. Len(raw) : all[i] = raw[i]
        BY <1>1, <1>2
    <2>2. all \in Seq(Bytes) /\ raw \in Seq(Bytes) /\ Len(all) = Len(raw)
        BY <1>1, <1>2
    <2> QED
        BY <2>1, <2>2, SMTT(30)
<1> QED
    BY <1>1, <1>3 DEF all

\* A call that concludes with what it read, of a log that was only appended to.
LEMMA ConcludeRead ==
    ASSUME TailInv, Conclude(raw), UNCHANGED <<world, call, search, raw>>,
           ~rotated /\ Len(raw) <= MaxTotalBytes =>
               ReadInv /\ start + Len(raw) \in Len(base) .. Len(log),
           child' \in {"none", "reaped"}
    PROVE  TailInv'
<1> USE DEF TailInv
<1>1. /\ call' = call /\ raw' = raw /\ log' = log /\ rotated' = rotated /\ len' = len /\ base' = base
      /\ pos' = pos /\ seen' = seen /\ target' = target /\ start' = start
      /\ call \in TailCalls /\ raw \in Seq(Bytes) /\ len = Len(base) /\ Len(base) \in Nat /\ Len(log) \in Nat
    BY DEF world, search, BytesInv
<1>2. ~rotated' /\ Len(raw) <= MaxTotalBytes =>
        \E m \in len' .. Len(log') : SubSeq(log', WindowStart(base', CappedLines) + 1, m) = raw
    <2> SUFFICES ASSUME ~rotated, Len(raw) <= MaxTotalBytes
                 PROVE  \E m \in len' .. Len(log') : SubSeq(log', WindowStart(base', CappedLines) + 1, m) = raw
        BY <1>1
    <2> DEFINE m == start + Len(raw)
    <2>1. ReadInv /\ m \in Len(base) .. Len(log) /\ m \in Nat
        BY <1>1
    <2> HIDE DEF m
    <2>2. SubSeq(log, WindowStart(base, CappedLines) + 1, m) = raw
        BY <2>1, ReadIsWindow DEF m
    <2> QED
        BY <1>1, <2>1, <2>2
<1>3. stage' \in {"ok", "failed"} /\ UnflaggedIsWhole' /\ NoMatchesIsTrue'
    BY <1>1, <1>2, ConcludeKeeps
<1>4. ChildInv' /\ BytesInv'
    BY <1>1, <1>3 DEF ChildInv, BytesInv
<1>5. ASSUME ~rotated PROVE LocatedInv'
    BY <1>1, <1>3, <1>5 DEF LocatedInv, SearchInv, BaseKept
<1> QED
    BY <1>1, <1>3, <1>4, <1>5

\* The local read ends at the end of the log or above the cap.
LEMMA ReadDoneStep ==
    ASSUME TailInv, ReadDone
    PROVE  TailInv'
<1>1. /\ stage = "read" /\ child = "none" /\ child' = child /\ Conclude(raw)
      /\ UNCHANGED <<world, call, search, raw>>
      /\ Len(raw) = MaxTotalBytes + 1 \/ start + Len(raw) >= Len(log)
      /\ Len(raw) \in Nat /\ Len(log) \in Nat /\ Len(base) \in Nat /\ start \in Nat /\ MaxTotalBytes \in Nat
    BY TailBounds DEF ReadDone, TailInv, ChildInv, BytesInv
<1>2. ASSUME ~rotated, Len(raw) <= MaxTotalBytes
      PROVE  ReadInv /\ start + Len(raw) \in Len(base) .. Len(log)
    <2>1. ReadInv /\ BaseKept
        BY <1>1, <1>2 DEF TailInv, LocatedInv
    <2>2. start + Len(raw) = Len(log) /\ Len(base) <= Len(log)
        BY <1>1, <1>2, <2>1 DEF ReadInv, BaseKept
    <2> QED
        BY <1>1, <2>1, <2>2
<1> QED
    BY <1>1, <1>2, ConcludeRead

\* The remote tail prints the window of the log as it is now.
LEMMA RemoteTailStep ==
    ASSUME TailInv, RemoteTail
    PROVE  TailInv'
<1> USE DEF TailInv
<1> DEFINE from == WindowStart(log, CappedLines)
           output == SubSeq(log, from + 1, Len(log))
<1>1. /\ stage = "remote" /\ stage' = stage /\ call' = call /\ log' = log /\ rotated' = rotated
      /\ len' = Len(log) /\ base' = log /\ pos' = pos /\ seen' = seen /\ target' = target /\ start' = from
      /\ raw' = SubSeq(output, 1, Min2(Len(output), MaxTotalBytes + 1))
      /\ child' \in {"exited", "broken pipe"}
    BY DEF RemoteTail, world
<1>2. /\ call \in TailCalls /\ log \in Seq(Bytes) /\ Len(log) \in Nat
      /\ pos \in Nat /\ seen \in Nat /\ target \in Nat
    BY DEF BytesInv
<1>3. CappedLines \in Nat /\ from \in Nat /\ from <= Len(log)
    <2>1. CappedLines \in Nat
        BY <1>2, CappedType
    <2>2. from \in 0 .. Len(log)
        BY <1>2, <2>1, WindowStartFacts
    <2> HIDE DEF from
    <2> QED
        BY <1>2, <2>1, <2>2
<1>4. UnflaggedIsWhole' /\ NoMatchesIsTrue'
    BY <1>1, NoAnswerYet
<1>5. /\ output \in Seq(Bytes) /\ Len(output) \in Nat /\ from + Len(output) = Len(log)
      /\ \A i \in 1 .. Len(output) : output[i] = log[from + i]
    <2> HIDE DEF from
    <2>1. output \in Seq(Bytes) /\ Len(output) = Len(log) - from /\ \A i \in 1 .. Len(output) : output[i] = log[from + i]
        BY <1>2, <1>3, WindowBytes
    <2> HIDE DEF output
    <2> QED
        BY <1>2, <1>3, <2>1
<1> HIDE DEF output
<1>6. /\ raw' \in Seq(Bytes) /\ Len(raw') \in Nat /\ Len(raw') <= Len(output)
      /\ Len(raw') <= MaxTotalBytes => Len(raw') = Len(output)
      /\ \A i \in 1 .. Len(raw') : raw'[i] = output[i]
    <2> DEFINE n == Min2(Len(output), MaxTotalBytes + 1)
    <2>1. /\ n \in Nat /\ n <= Len(output) /\ MaxTotalBytes \in Nat
          /\ n <= MaxTotalBytes => n = Len(output)
        BY <1>5, TailBounds DEF Min2
    <2>2. raw' = SubSeq(output, 1, n)
        BY <1>1
    <2> HIDE DEF n
    <2>3. raw' \in Seq(Bytes) /\ Len(raw') = n /\ \A i \in 1 .. n : raw'[i] = output[i]
        BY <1>5, <2>1, <2>2
    <2> QED
        BY <2>1, <2>3
<1>7. ChildInv' /\ BytesInv'
    BY <1>1, <1>2, <1>3, <1>6 DEF ChildInv, BytesInv
<1>8. LocatedInv'
    <2> HIDE DEF from
    <2>1. BaseKept'
        <3>1. base' = log /\ log' = log
            BY <1>1
        <3> QED
            BY <1>2, <3>1 DEF BaseKept
    <2>2. start' = WindowStart(base', CappedLines')
        BY <1>1 DEF from, CappedLines
    <2>3. start' + Len(raw') <= Len(log') /\ \A i \in 1 .. Len(raw') : raw'[i] = log'[start' + i]
        <3>1. from + Len(raw') <= Len(log) /\ \A i \in 1 .. Len(raw') : i \in 1 .. Len(output)
            BY <1>2, <1>3, <1>5, <1>6
        <3> QED
            BY <1>1, <1>5, <1>6, <3>1
    <2>4. Len(raw') <= MaxTotalBytes => start' + Len(raw') = Len(base')
        BY <1>1, <1>5, <1>6
    <2> QED
        BY <1>1, <2>1, <2>2, <2>3, <2>4 DEF LocatedInv, SearchInv, ReadInv
<1> QED
    BY <1>4, <1>7, <1>8

\* The output of a remote tail that exited normally was read to its end, or to
\* above the cap.
LEMMA WaitStep ==
    ASSUME TailInv, Wait
    PROVE  TailInv'
<1>1. /\ stage = "remote" /\ child' = "reaped" /\ UNCHANGED <<world, call, search, raw>>
      /\ IF child = "exited" THEN Conclude(raw) ELSE stage' = "failed" /\ UNCHANGED answer
    BY DEF Wait
<1>2. Len(raw) \in Nat /\ Len(log) \in Nat /\ Len(base) \in Nat /\ start \in Nat
    BY DEF TailInv, BytesInv
<1>3. CASE child = "exited"
    <2>1. ASSUME ~rotated, Len(raw) <= MaxTotalBytes
          PROVE  ReadInv /\ start + Len(raw) \in Len(base) .. Len(log)
        <3>1. ReadInv /\ start + Len(raw) = Len(base) /\ BaseKept
            BY <1>1, <1>3, <2>1 DEF TailInv, LocatedInv
        <3> QED
            BY <1>2, <3>1 DEF BaseKept
    <2> QED
        BY <1>1, <1>3, <2>1, ConcludeRead
<1>4. CASE child # "exited"
    <2>1. stage' = "failed"
        BY <1>1, <1>4
    <2>2. UnflaggedIsWhole' /\ NoMatchesIsTrue'
        BY <2>1, NoAnswerYet
    <2>3. ChildInv' /\ BytesInv'
        BY <1>1, <2>1 DEF TailInv, world, search, ChildInv, BytesInv
    <2>4. ASSUME ~rotated PROVE LocatedInv'
        BY <1>1, <2>1, <2>4 DEF TailInv, world, search, LocatedInv, SearchInv, BaseKept
    <2> QED
        BY <1>1, <2>2, <2>3, <2>4 DEF TailInv, world
<1> QED
    BY <1>3, <1>4

\* What was located and read stays where it is when the log grows.
LEMMA AppendStep ==
    ASSUME TailInv, NEW b \in Bytes, Append1(b)
    PROVE  TailInv'
<1> USE DEF TailInv
<1>1. /\ stage \notin Ended \cup {"new"} /\ stage' = stage /\ call' = call /\ child' = child
      /\ log' = Append(log, b) /\ rotated' = rotated /\ len' = len /\ base' = base /\ pos' = pos
      /\ seen' = seen /\ target' = target /\ start' = start /\ raw' = raw
      /\ log \in Seq(Bytes) /\ base \in Seq(Bytes) /\ raw \in Seq(Bytes)
      /\ Len(log) \in Nat /\ Len(base) \in Nat /\ Len(raw) \in Nat /\ start \in Nat
    BY DEF Append1, Changes, search, BytesInv
<1>2. /\ log' \in Seq(Bytes) /\ Len(log') = Len(log) + 1
      /\ \A i \in 1 .. Len(log) : log'[i] = log[i]
    BY <1>1
<1>3. UnflaggedIsWhole' /\ NoMatchesIsTrue'
    BY <1>1, NoAnswerYet DEF Ended
<1>4. ChildInv' /\ BytesInv'
    BY <1>1, <1>2 DEF ChildInv, BytesInv
<1>5. ASSUME ~rotated PROVE LocatedInv'
    <2>1. BaseKept'
        BY <1>1, <1>2, <1>5 DEF LocatedInv, BaseKept
    <2>2. ASSUME ReadInv PROVE ReadInv'
        <3>1. start + Len(raw) <= Len(log) /\ \A i \in 1 .. Len(raw) : start + i \in 1 .. Len(log)
            BY <1>1, <2>2 DEF ReadInv
        <3>2. start' + Len(raw') <= Len(log') /\ \A i \in 1 .. Len(raw') : raw'[i] = log'[start' + i]
            BY <1>1, <1>2, <2>2, <3>1 DEF ReadInv
        <3>3. start' = WindowStart(base', CappedLines')
            BY <1>1, <2>2 DEF ReadInv, CappedLines
        <3> QED
            BY <3>2, <3>3 DEF ReadInv
    <2>3. SearchInv'
        BY <1>1, <1>5 DEF LocatedInv, SearchInv, CappedLines, FinalNewline
    <2> QED
        BY <1>1, <1>5, <2>1, <2>2, <2>3 DEF LocatedInv
<1> QED
    BY <1>1, <1>3, <1>4, <1>5

\* Of a log that was rotated nothing is promised.
LEMMA TruncateStep ==
    ASSUME TailInv, Truncate
    PROVE  TailInv'
<1>1. UnflaggedIsWhole' /\ NoMatchesIsTrue'
    BY DEF Truncate, UnflaggedIsWhole, NoMatchesIsTrue
<1>2. ChildInv' /\ BytesInv'
    <2>1. /\ log' = <<>> /\ stage' = stage /\ call' = call /\ child' = child /\ len' = len /\ base' = base
          /\ pos' = pos /\ seen' = seen /\ target' = target /\ start' = start /\ raw' = raw
        BY DEF Truncate, search
    <2>2. <<>> \in Seq(Bytes)
        OBVIOUS
    <2> QED
        BY <2>1, <2>2 DEF TailInv, ChildInv, BytesInv
<1> QED
    BY <1>1, <1>2 DEF TailInv, Truncate

\* Spawn, and the ways in which a call ends without an answer.
LEMMA OtherSteps ==
    ASSUME TailInv, Spawn \/ RemoteFails \/ TimedOut \/ IoFails \/ Dropped
    PROVE  TailInv'
<1>1. /\ UNCHANGED <<world, call, search, raw, answer>>
      /\ \/ stage' \in {"failed", "dropped"}
         \/ stage' = "remote" /\ child' \in {"running", "error"}
    <2>1. CASE Spawn
        BY <2>1 DEF Spawn
    <2>2. CASE RemoteFails
        BY <2>2 DEF RemoteFails
    <2>3. CASE TimedOut
        BY <2>3 DEF TimedOut
    <2>4. CASE IoFails
        BY <2>4 DEF IoFails
    <2>5. CASE Dropped
        BY <2>5 DEF Dropped
    <2> QED
        BY <2>1, <2>2, <2>3, <2>4, <2>5
<1>2. UnflaggedIsWhole' /\ NoMatchesIsTrue'
    BY <1>1, NoAnswerYet
<1>3. ChildInv'
    BY DEF TailInv, Spawn, RemoteFails, TimedOut, IoFails, Dropped, ChildInv, Ended
<1>4. BytesInv'
    BY <1>1 DEF TailInv, BytesInv, world, search
<1>5. ASSUME ~rotated PROVE LocatedInv'
    BY <1>1, <1>5 DEF TailInv, world, search, LocatedInv, SearchInv, BaseKept
<1> QED
    BY <1>1, <1>2, <1>3, <1>4, <1>5 DEF TailInv, world

\* Every step keeps the invariant.
LEMMA TailInvKept ==
    ASSUME TailInv, [TailNext]_tailVars
    PROVE  TailInv'
<1>1. CASE UNCHANGED tailVars
    <2>1. /\ log' = log /\ rotated' = rotated /\ call' = call /\ stage' = stage /\ child' = child
          /\ len' = len /\ base' = base /\ pos' = pos /\ seen' = seen /\ target' = target /\ start' = start
          /\ raw' = raw /\ answer' = answer
        BY <1>1 DEF tailVars, world, search
    <2>2. ChildInv' /\ BytesInv'
        BY <2>1 DEF TailInv, ChildInv, BytesInv
    <2>3. ASSUME ~rotated PROVE LocatedInv'
        <3>1. BaseKept' /\ SearchInv' /\ (ReadInv => ReadInv')
            BY <2>1, <2>3 DEF TailInv, LocatedInv, BaseKept, SearchInv, ReadInv, CappedLines, FinalNewline
        <3> QED
            BY <2>1, <2>3, <3>1 DEF TailInv, LocatedInv
    <2>4. UnflaggedIsWhole'
        <3>1. UnflaggedIsWhole
            BY DEF TailInv
        <3> DEFINE Lines(m) == Pieces(SubSeq(log', WindowStart(base', CappedLines) + 1, m))
        <3>2. ASSUME stage' = "ok" /\ ~rotated' /\ answer'.truncated = {}
              PROVE  \E m \in len' .. Len(log') :
                        LET whole == [k \in 1 .. Len(Lines(m)) |-> Lossy(Lines(m)[k])]
                        IN  answer'.lines = Pick(whole, {k \in DOMAIN whole : Wanted(whole[k])})
            BY <2>1, <3>1, <3>2, ZenonT(40) DEF UnflaggedIsWhole, WindowUpTo
        <3>3. CappedLines' = CappedLines /\ call' = call
            BY <2>1 DEF CappedLines
        <3> QED
            BY <3>2, <3>3 DEF UnflaggedIsWhole, WindowUpTo, Wanted
    <2>5. NoMatchesIsTrue'
        BY <2>1 DEF TailInv, NoMatchesIsTrue, WindowUpTo, Wanted, CappedLines
    <2> QED
        BY <2>1, <2>2, <2>3, <2>4, <2>5 DEF TailInv
<1>2. CASE TailNext
    BY <1>2, AppendStep, TruncateStep, OpenStep, LastByteStep, ReadChunkStep, ChunksDoneStep, ReadSomeStep,
        ReadDoneStep, RemoteTailStep, WaitStep, OtherSteps DEF TailNext
<1> QED
    BY <1>1, <1>2

\* The invariant holds in every state of a read.
THEOREM TailInvariant == TailSpec => []TailInv
<1>1. TailInv /\ [TailNext]_tailVars => TailInv'
    BY TailInvKept
<1> QED
    BY <1>1, InitTail, PTL DEF TailSpec

\* An answer of local_log or ssh_log without a truncation flag has every line
\* of the window that the call asks for, for logs, chunks, caps and patterns of
\* any size, and however the log grows between the reads.
THEOREM UnflaggedAnswerIsWhole == TailSpec => []UnflaggedIsWhole
<1>1. TailInv => UnflaggedIsWhole
    BY DEF TailInv
<1> QED
    BY <1>1, TailInvariant, PTL

\* grep_status and keyword_status say "no_matches" only of a window that was
\* read to its end and held no line the call asks for.
THEOREM NoMatchesIsHonest == TailSpec => []NoMatchesIsTrue
<1>1. TailInv => NoMatchesIsTrue
    BY DEF TailInv
<1> QED
    BY <1>1, TailInvariant, PTL

\* run_tail_n_bounded and its timeout leave no ssh process when the source
\* itself ends the call.
THEOREM NoChildIsLeft == TailSpec => []ChildEndsWithCall
<1>1. TailInv => ChildEndsWithCall
    BY DEF TailInv, ChildInv, ChildEndsWithCall
<1> QED
    BY <1>1, TailInvariant, PTL

\* tail_start_offset, which counts newlines backwards over chunks, stops where
\* the last `lines` lines of the file began when it was opened.
THEOREM SearchIsRight == TailSpec => []SearchFindsWindow
<1>1. TailInv => SearchFindsWindow
    BY DEF TailInv, LocatedInv, ReadInv, SearchFindsWindow
<1> QED
    BY <1>1, TailInvariant, PTL
=============================================================================
