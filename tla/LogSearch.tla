------------------------------ MODULE LogSearch ------------------------------
(***************************************************************************)
(* log_grep on one profile: the keyword index cache of the tool above the  *)
(* raw window cache of the source, and calls that fetch concurrently.      *)
(*                                                                         *)
(* A window is identified by the time at which the log was read; an entry  *)
(* of either cache also has the time at which it was stored, which is what *)
(* its TTL counts from.  Regex calls use the raw cache only, keyword calls *)
(* both.  The timeout of invoke_core_tool bounds the time in the source.   *)
(* The one around the redaction cannot end it: redact_result runs in one   *)
(* poll, so how long it takes is a bound of the model.                     *)
(***************************************************************************)
EXTENDS Integers

CONSTANTS
    KeywordCalls,  \* calls with mode = "keyword"
    RegexCalls,    \* calls with mode = "regex"
    KeywordTtl,    \* KEYWORD_INDEX_CACHE_TTL
    WindowTtl,     \* GREP_WINDOW_CACHE_TTL
    Timeout,       \* OutputCaps::timeout, of the source
    MaxRedaction,  \* bound on how long redact_result runs
    MaxTime,       \* bound on the clock
    None           \* no entry, no window

Calls == KeywordCalls \cup RegexCalls

ASSUME SearchBounds ==
    /\ {KeywordTtl, WindowTtl, Timeout, MaxRedaction, MaxTime} \subseteq Nat
    /\ None \notin Int
ASSUME ModesDisjoint == KeywordCalls \cap RegexCalls = {}

VARIABLES
    now,       \* the monotonic clock
    keyword,   \* entry of KEYWORD_INDEX_CACHE, or None
    window,    \* entry of the source's grep_window_cache, or None
    pc,        \* pc[c]: where call c stands
    refresh,   \* refresh[c]: its argument of that name
    started,   \* started[c]: when it looked into its first cache
    begun,     \* begun[c]: when it entered the source, or the redaction
    read       \* read[c]: when the window c works on was read from the log

vars == <<now, keyword, window, pc, refresh, started, begun, read>>

Times == 0 .. MaxTime
Entries == [read : Times, minted : Times] \cup {None}

\* Stages under the timeout of the source, and all.
InSource == {"source", "tailing", "tailed"}
Stages == InSource \cup {"new", "lookup", "redact", "store", "done", "failed"}

\* fresh: the entry exists and its age is within the TTL, boundary included.
Fresh(entry, ttl) == entry # None /\ now - entry.minted <= ttl

Goto(c, stage) == pc' = [pc EXCEPT ![c] = stage]

-----------------------------------------------------------------------------
Init ==
    /\ now = 0
    /\ keyword = None
    /\ window = None
    /\ pc = [c \in Calls |-> "new"]
    /\ refresh = [c \in Calls |-> FALSE]
    /\ started = [c \in Calls |-> 0]
    /\ begun = [c \in Calls |-> 0]
    /\ read = [c \in Calls |-> None]

\* A keyword call with its refresh argument; regex mode ignores the argument.
Begin(c) ==
    /\ pc[c] = "new"
    /\ refresh' \in {[refresh EXCEPT ![c] = b] : b \in {FALSE, (c \in KeywordCalls)}}
    /\ started' = [started EXCEPT ![c] = now]
    /\ begun' = [begun EXCEPT ![c] = now]
    /\ Goto(c, IF c \in KeywordCalls THEN "lookup" ELSE "source")
    /\ UNCHANGED <<now, keyword, window, read>>

\* Mutant: the keyword cache forgets to look at the age of its entry.
KeywordHitAnyAge(c) ==
    /\ pc[c] = "lookup"
    /\ ~refresh[c] /\ keyword # None
    /\ read' = [read EXCEPT ![c] = keyword.read]
    /\ Goto(c, "done")
    /\ UNCHANGED <<now, keyword, window, refresh, started, begun>>

\* KeywordIndexCache::get_or_fetch, hit: the call is answered from the index.
KeywordHit(c) ==
    /\ pc[c] = "lookup"
    /\ ~refresh[c] /\ Fresh(keyword, KeywordTtl)
    /\ read' = [read EXCEPT ![c] = keyword.read]
    /\ Goto(c, "done")
    /\ UNCHANGED <<now, keyword, window, refresh, started, begun>>

\* ... and miss: invoke_core_tool starts the timeout of the source.
KeywordMiss(c) ==
    /\ pc[c] = "lookup"
    /\ refresh[c] \/ ~Fresh(keyword, KeywordTtl)
    /\ begun' = [begun EXCEPT ![c] = now]
    /\ Goto(c, "source")
    /\ UNCHANGED <<now, keyword, window, refresh, started, read>>

\* WindowCache::get_or_fetch, hit: the raw window goes to redaction.
WindowHit(c) ==
    /\ pc[c] = "source"
    /\ ~refresh[c] /\ Fresh(window, WindowTtl)
    /\ read' = [read EXCEPT ![c] = window.read]
    /\ begun' = [begun EXCEPT ![c] = now]
    /\ Goto(c, "redact")
    /\ UNCHANGED <<now, keyword, window, refresh, started>>

\* Mutant: the source takes a refresh for an ordinary keyword search.
WindowMissIgnoresRefresh(c) ==
    /\ pc[c] = "source"
    /\ IF Fresh(window, WindowTtl)
       THEN read' = [read EXCEPT ![c] = window.read] /\ Goto(c, "redact")
       ELSE UNCHANGED read /\ Goto(c, "tailing")
    /\ UNCHANGED <<now, keyword, window, refresh, started, begun>>

\* get_or_fetch_refresh with refresh, or a miss: the log is tailed.
WindowMiss(c) ==
    /\ pc[c] = "source"
    /\ refresh[c] \/ ~Fresh(window, WindowTtl)
    /\ Goto(c, "tailing")
    /\ UNCHANGED <<now, keyword, window, refresh, started, begun, read>>

\* The moment the bounded window is read; its bytes arrive later.
TailLog(c) ==
    /\ pc[c] = "tailing"
    /\ read' = [read EXCEPT ![c] = now]
    /\ Goto(c, "tailed")
    /\ UNCHANGED <<now, keyword, window, refresh, started, begun>>

\* The fetch returned: WindowCache::store replaces whatever is there, stamped
\* with the time of the store.
StoreWindow(c) ==
    /\ pc[c] = "tailed"
    /\ window' = [read |-> read[c], minted |-> now]
    /\ begun' = [begun EXCEPT ![c] = now]
    /\ Goto(c, "redact")
    /\ UNCHANGED <<now, keyword, refresh, started, read>>

\* redact_result; a regex call is answered.
Redact(c) ==
    /\ pc[c] = "redact"
    /\ Goto(c, IF c \in KeywordCalls THEN "store" ELSE "done")
    /\ UNCHANGED <<now, keyword, window, refresh, started, begun, read>>

\* KeywordIndexCache::store, likewise, and the call is answered.
StoreKeyword(c) ==
    /\ pc[c] = "store"
    /\ keyword' = [read |-> read[c], minted |-> now]
    /\ Goto(c, "done")
    /\ UNCHANGED <<now, window, refresh, started, begun, read>>

\* The timeout, an error of the source or of the redaction, or the call is
\* cancelled: neither cache is touched.
Fail(c) ==
    /\ pc[c] \in InSource \cup {"redact"}
    /\ Goto(c, "failed")
    /\ UNCHANGED <<now, keyword, window, refresh, started, begun, read>>

\* No call is in the source for longer than the timeout.  Nothing is awaited
\* around the keyword cache, so its lookups and stores take no time.
Tick ==
    /\ now < MaxTime
    /\ \A c \in Calls :
        /\ pc[c] \in InSource => now < begun[c] + Timeout
        /\ pc[c] = "redact" => now < begun[c] + MaxRedaction
        /\ pc[c] \notin {"lookup", "store"}
    /\ now' = now + 1
    /\ UNCHANGED <<keyword, window, pc, refresh, started, begun, read>>

-----------------------------------------------------------------------------
CallStep(c) ==
    \/ Begin(c) \/ KeywordHit(c) \/ KeywordMiss(c) \/ WindowHit(c) \/ WindowMiss(c)
    \/ TailLog(c) \/ StoreWindow(c) \/ Redact(c) \/ StoreKeyword(c) \/ Fail(c)

Next == Tick \/ \E c \in Calls : CallStep(c)

Spec == Init /\ [][Next]_vars

-----------------------------------------------------------------------------
\* Every entry of a cache is a window that was read, and has its two times.
TypeOK ==
    /\ now \in Times
    /\ keyword \in Entries
    /\ window \in Entries
    /\ pc \in [Calls -> Stages]
    /\ refresh \in [Calls -> BOOLEAN]
    /\ started \in [Calls -> Times]
    /\ begun \in [Calls -> Times]
    /\ read \in [Calls -> Times \cup {None}]

\* "refresh: true busts the keyword cache and re-tails the bounded SSH window"
\* (docs/reference/spec.md): the answer is a window read after the call began,
\* whatever other calls store in either cache meanwhile.
RefreshReadsAnew ==
    \A c \in Calls : pc[c] = "done" /\ refresh[c] => read[c] >= started[c]

\* How old an answer can be.  The caches are stacked and stamp an entry when it
\* is stored, not when the log was read, and a slow fetch may overwrite a newer
\* window with an older one; still nothing is served beyond the sum of the two
\* TTLs, the time in the source and, for the index, the redaction.
StalenessBounded ==
    \A c \in Calls :
        pc[c] = "done" =>
            started[c] - read[c] <=
                Timeout + WindowTtl
                + (IF c \in KeywordCalls THEN MaxRedaction + KeywordTtl ELSE 0)
=============================================================================
