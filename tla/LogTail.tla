------------------------------ MODULE LogTail ------------------------------
(***************************************************************************)
(* One read of an application log, by local_log from the file or by        *)
(* ssh_log from `ssh host tail -n`, while the application goes on writing  *)
(* to it and a rotation may empty it in place.                             *)
(*                                                                         *)
(* The log is a sequence of bytes of four kinds: a character of one byte,  *)
(* the two halves of a character of two, and the newline.  The local       *)
(* source finds the start of the window by reading backwards in chunks     *)
(* from the length it saw, and then reads forward; each read is an await,  *)
(* so the file may change between any two.  The remote tail reads its file *)
(* at one moment; its output comes through a pipe that the source closes   *)
(* once it has one byte more than the cap.                                 *)
(***************************************************************************)
EXTENDS KeywordSearch

CONSTANTS
    HardCapLines,    \* HARD_CAP_LINES
    GrepWindow,      \* BOUNDED_TAIL_FOR_GREP
    MaxTotalBytes,   \* OutputCaps::bytes
    MaxLineBytes,    \* OutputCaps::line_bytes
    ReadChunkBytes,  \* READ_CHUNK_BYTES
    GrepLimits,      \* values of the argument `limit`
    LineCounts,      \* values of the argument `lines`
    Patterns,        \* keyword requests: the terms of `pattern`, and `level`
    Logs,            \* contents before the call
    MaxWrites        \* bound on what the application does during the call

Bytes == {"a", "hi", "lo", "nl"}
Chars == {"a", "e", "?"}   \* "e" takes two bytes, "?" is U+FFFD

ASSUME TailBounds ==
    /\ {HardCapLines, GrepWindow, MaxTotalBytes, MaxLineBytes, MaxWrites} \subseteq Nat
    /\ ReadChunkBytes \in Nat \ {0}
    /\ GrepLimits \cup LineCounts \subseteq Nat
    /\ Logs \subseteq Seq(Bytes)
    /\ Alphanumeric \subseteq Chars
    /\ \A r \in Patterns : r.terms \in Seq(Seq(Chars)) \ {<<>>}

VARIABLES
    log,        \* the bytes of the file
    rotated,    \* it was emptied in place since the call began
    written,    \* changes made to it since then
    call,       \* transport, tool, lines and limit
    stage,      \* where the call stands
    child,      \* the ssh process
    len,        \* length of the file when it was opened
    base,       \* history: the bytes the window was located in
    pos,        \* tail_start_offset: everything from here on is searched
    seen,       \* ... newlines found
    target,     \* ... newlines wanted
    start,      \* offset of the window
    raw,        \* bytes read of it
    answer,     \* lines, truncated_at and status
    fault       \* history: a system call failed or a timeout fired

world == <<log, rotated, written>>
search == <<len, base, pos, seen, target, start>>
tailVars == <<world, call, stage, child, search, raw, answer, fault>>

Min2(a, b) == IF a < b THEN a ELSE b
NoAnswer == [lines |-> <<>>, truncated |-> {}, status |-> "none"]
Ended == {"ok", "failed", "dropped"}

\* keyword_request_from_args refuses a pattern without a term.
KeywordRequests ==
    {[transport |-> t, tool |-> "keyword", lines |-> GrepWindow, limit |-> n,
      terms |-> r.terms, level |-> r.level] :
        t \in {"local", "ssh"}, n \in GrepLimits, r \in Patterns}

TailCalls ==
    {[transport |-> t, tool |-> "log_tail", lines |-> n, limit |-> 0, terms |-> <<>>, level |-> <<>>] :
        t \in {"local", "ssh"}, n \in LineCounts}
    \cup {[transport |-> t, tool |-> "regex", lines |-> GrepWindow, limit |-> n, terms |-> <<>>, level |-> <<>>] :
        t \in {"local", "ssh"}, n \in GrepLimits}
    \cup KeywordRequests

\* lines.min(HARD_CAP_LINES)
CappedLines == Min2(call.lines, HardCapLines)

-----------------------------------------------------------------------------
(* Bytes to lines.                                                         *)

\* Every first half is followed by a second half, and only there is one.
Utf8(bytes) ==
    \A i \in 1 .. Len(bytes) :
        /\ bytes[i] = "hi" => i < Len(bytes) /\ bytes[i + 1] = "lo"
        /\ bytes[i] = "lo" => i > 1 /\ bytes[i - 1] = "hi"

\* String::from_utf8_lossy
Lossy(bytes) ==
    LET Second(i) == bytes[i] = "lo" /\ i > 1 /\ bytes[i - 1] = "hi"
        First == InOrder({i \in 1 .. Len(bytes) : ~Second(i)})
        Decode(i) == CASE bytes[i] = "a" -> "a"
                       [] bytes[i] = "hi" /\ i < Len(bytes) -> IF Second(i + 1) THEN "e" ELSE "?"
                       [] OTHER -> "?"
    IN  [k \in 1 .. Len(First) |-> Decode(First[k])]

\* raw.split(b'\n') without the empty pieces.
Pieces(bytes) ==
    LET Ends == InOrder({i \in 1 .. Len(bytes) : bytes[i] = "nl"} \cup {Len(bytes) + 1})
        From(k) == IF k = 1 THEN 1 ELSE Ends[k - 1] + 1
        All == [k \in 1 .. Len(Ends) |-> SubSeq(bytes, From(k), Ends[k] - 1)]
    IN  Pick(All, {k \in 1 .. Len(Ends) : All[k] # <<>>})

\* split_and_cap_lines_with_truncation
CappedPieces(bytes) ==
    [k \in 1 .. Len(Pieces(bytes)) |->
        Lossy(SubSeq(Pieces(bytes)[k], 1, Min2(Len(Pieces(bytes)[k]), MaxLineBytes)))]
LineTruncated(bytes) == \E k \in 1 .. Len(Pieces(bytes)) : Len(Pieces(bytes)[k]) > MaxLineBytes

\* The regex of the call, and the level filter.
Matches(line) == \E k \in 1 .. Len(line) : line[k] = "a"

\* Mutant: the status looks at the matches alone.
GrepStatusBlind(matched, truncated) == IF matched = 0 THEN "no_matches" ELSE "matches"

\* grep_status
GrepStatus(matched, truncated) ==
    IF matched = 0 THEN (IF truncated = {} THEN "no_matches" ELSE "no_matches_truncated")
    ELSE (IF truncated = {} THEN "matches" ELSE "truncated")

\* filter_grep_output: all matches are counted, the first `limit` are kept.
FilterGrepOutput(lines, truncated, limit) ==
    LET matched == Pick(lines, {k \in DOMAIN lines : Matches(lines[k])})
        kept == SubSeq(matched, 1, Min2(limit, Len(matched)))
        reasons == truncated \cup (IF Len(matched) > Len(kept) THEN {"rows"} ELSE {})
    IN  [lines |-> kept, truncated |-> reasons, status |-> GrepStatus(Len(matched), reasons)]

\* full_grep_window_output: the keyword tool above does the matching, on lines
\* in which the session found nothing to redact.
FullGrepWindow(lines, truncated) ==
    [lines |-> lines, truncated |-> truncated, status |-> GrepStatus(Len(lines), truncated)]

\* The answer made of the bytes that were read.
Answer(bytes, over) ==
    LET truncated == (IF over THEN {"bytes"} ELSE {})
                        \cup (IF LineTruncated(bytes) THEN {"line_bytes"} ELSE {})
        lines == CappedPieces(bytes)
    IN  CASE call.tool = "regex" -> FilterGrepOutput(lines, truncated, call.limit)
          [] call.tool = "keyword" -> FilterKeyword(FullGrepWindow(lines, truncated), call)
          [] OTHER -> [lines |-> lines, truncated |-> truncated, status |-> "none"]

\* What a window of n lines is: the offset behind the n-th last newline, a
\* final one not counted.
WindowStart(bytes, n) ==
    LET P == {i \in 1 .. Len(bytes) - 1 : bytes[i] = "nl"}
    IN  IF n = 0 THEN Len(bytes)
        ELSE IF Cardinality(P) < n THEN 0
        ELSE CHOOSE p \in P : Cardinality({q \in P : q >= p}) = n

-----------------------------------------------------------------------------
TailInit ==
    /\ log \in Logs
    /\ rotated = FALSE /\ written = 0
    /\ call \in TailCalls
    /\ stage = "new" /\ child = "none"
    /\ len = 0 /\ base = <<>> /\ pos = 0 /\ seen = 0 /\ target = 0 /\ start = 0
    /\ raw = <<>> /\ answer = NoAnswer
    /\ fault = FALSE

\* The application writes a byte, and a rotation empties the file in place,
\* while the call is under way (before it, any content is an initial one).
Changes ==
    /\ stage \notin Ended \cup {"new"} /\ written < MaxWrites
    /\ written' = written + 1

Append1(b) ==
    /\ Changes
    /\ log' = Append(log, b)
    /\ UNCHANGED <<rotated, call, stage, child, search, raw, answer, fault>>

Truncate ==
    /\ Changes /\ log # <<>>
    /\ log' = <<>> /\ rotated' = TRUE
    /\ UNCHANGED <<call, stage, child, search, raw, answer, fault>>

\* tail_inner behind read_tail_bytes: the byte cap, the check for UTF-8, the
\* lines.
Conclude(bytes) ==
    LET over == Len(bytes) > MaxTotalBytes
        kept == SubSeq(bytes, 1, Min2(Len(bytes), MaxTotalBytes))
    IN  IF call.transport = "local" /\ ~Utf8(kept)
        THEN stage' = "failed" /\ UNCHANGED answer
        ELSE stage' = "ok" /\ answer' = Answer(kept, over)

-----------------------------------------------------------------------------
(* local_log.                                                              *)

\* read_tail_bytes up to the length of the file.
Open ==
    /\ stage = "new" /\ call.transport = "local"
    /\ len' = Len(log) /\ base' = log
    /\ IF CappedLines = 0 \/ log = <<>>
       THEN Conclude(<<>>)
       ELSE stage' = "last" /\ UNCHANGED answer
    /\ UNCHANGED <<world, call, child, pos, seen, target, start, raw, fault>>

\* tail_start_offset: a final newline ends the last line and starts none.
LastByte ==
    /\ stage = "last"
    /\ target' = CappedLines + IF len <= Len(log) /\ log[len] = "nl" THEN 1 ELSE 0
    /\ pos' = len /\ seen' = 0 /\ stage' = "chunks"
    /\ UNCHANGED <<world, call, child, len, base, start, raw, answer, fault>>

\* One chunk, searched backwards.  What is no longer there is not read.
ReadChunk ==
    /\ stage = "chunks" /\ pos > 0
    /\ LET from == pos - Min2(pos, ReadChunkBytes)
           chunk == SubSeq(log, from + 1, Min2(pos, Len(log)))
           Newlines == {i \in 1 .. Len(chunk) : chunk[i] = "nl"}
           Upto(i) == Cardinality({j \in Newlines : j >= i})
           found == {i \in Newlines : seen + Upto(i) = target}
       IN  IF found # {}
           THEN /\ start' = from + CHOOSE i \in found : TRUE
                /\ stage' = "read" /\ UNCHANGED <<pos, seen>>
           ELSE /\ pos' = from /\ seen' = seen + Cardinality(Newlines)
                /\ UNCHANGED <<start, stage>>
    /\ UNCHANGED <<world, call, child, len, base, target, raw, answer, fault>>

ChunksDone ==
    /\ stage = "chunks" /\ pos = 0
    /\ start' = 0 /\ stage' = "read"
    /\ UNCHANGED <<world, call, child, len, base, pos, seen, target, raw, answer, fault>>

\* read_capped from the start of the window, one read of read_to_end.
ReadSome ==
    /\ stage = "read"
    /\ LET at == start + Len(raw)
           room == MaxTotalBytes + 1 - Len(raw)
       IN  \E n \in 1 .. Min2(room, Len(log) - at) :
             raw' = raw \o SubSeq(log, at + 1, at + n)
    /\ UNCHANGED <<world, call, stage, child, search, answer, fault>>

\* Mutant: reading stops at the cap, so that nothing shows there was more.
ReadDoneAtCap ==
    /\ stage = "read"
    /\ Len(raw) >= MaxTotalBytes \/ start + Len(raw) >= Len(log)
    /\ Conclude(SubSeq(raw, 1, Min2(Len(raw), MaxTotalBytes)))
    /\ UNCHANGED <<world, call, child, search, raw, fault>>

\* ... which ends at the end of the file or one byte above the cap.
ReadDone ==
    /\ stage = "read"
    /\ Len(raw) = MaxTotalBytes + 1 \/ start + Len(raw) >= Len(log)
    /\ Conclude(raw)
    /\ UNCHANGED <<world, call, child, search, raw, fault>>

-----------------------------------------------------------------------------
(* ssh_log.                                                                *)

Spawn ==
    /\ stage = "new" /\ call.transport = "ssh"
    /\ child' = "running" /\ stage' = "remote"
    /\ UNCHANGED <<world, call, search, raw, answer, fault>>

\* tail -n on the host: it reads the file, and writes as much as the pipe
\* takes until the source closes it.
RemoteTail ==
    /\ stage = "remote" /\ child = "running"
    /\ base' = log /\ len' = Len(log)
    /\ start' = WindowStart(log, CappedLines)
    /\ LET output == SubSeq(log, start' + 1, Len(log))
       IN  /\ raw' = SubSeq(output, 1, Min2(Len(output), MaxTotalBytes + 1))
           /\ child' \in IF Len(output) > MaxTotalBytes + 1
                         THEN {"exited", "broken pipe"} ELSE {"exited"}
    /\ UNCHANGED <<world, call, stage, pos, seen, target, answer, fault>>

\* ssh or the remote command fails.
RemoteFails ==
    /\ stage = "remote" /\ child = "running"
    /\ child' = "error" /\ fault' = TRUE
    /\ UNCHANGED <<world, call, stage, search, raw, answer>>

\* join!(stdout, stderr, child.wait()) and the exit status.
Wait ==
    /\ stage = "remote" /\ child \in {"exited", "broken pipe", "error"}
    /\ child' = "reaped"
    /\ IF child = "exited" THEN Conclude(raw) ELSE stage' = "failed" /\ UNCHANGED answer
    /\ UNCHANGED <<world, call, search, raw, fault>>

\* Mutant: the child is left to itself when the timeout fires.
TimeoutKeepsChild ==
    /\ stage \notin Ended \cup {"new"}
    /\ stage' = "failed" /\ fault' = TRUE
    /\ UNCHANGED <<world, call, child, search, raw, answer>>

\* The timeout of the source; ssh_log kills the child.
TimedOut ==
    /\ stage \notin Ended \cup {"new"}
    /\ stage' = "failed" /\ fault' = TRUE
    /\ child' = IF child = "none" THEN "none" ELSE "reaped"
    /\ UNCHANGED <<world, call, search, raw, answer>>

\* open, spawn or a read fails.
IoFails ==
    /\ stage \in {"new", "last", "chunks", "read"}
    /\ stage' = "failed" /\ fault' = TRUE
    /\ UNCHANGED <<world, call, child, search, raw, answer>>

\* The session drops the call: its own timeout, or the client went away.
Dropped ==
    /\ stage \notin Ended
    /\ stage' = "dropped"
    /\ UNCHANGED <<world, call, child, search, raw, answer, fault>>

TailNext ==
    \/ \E b \in Bytes : Append1(b)
    \/ Truncate
    \/ Open \/ LastByte \/ ReadChunk \/ ChunksDone \/ ReadSome \/ ReadDone
    \/ Spawn \/ RemoteTail \/ RemoteFails \/ Wait
    \/ TimedOut \/ IoFails \/ Dropped

TailSpec == TailInit /\ [][TailNext]_tailVars

-----------------------------------------------------------------------------
(* Properties.                                                             *)

\* Type correctness, with the bounds of what is ever read or returned: never
\* more than one byte above the cap, never a line longer than the line cap.
TailTypeOK ==
    /\ log \in Seq(Bytes) /\ written <= MaxWrites
    /\ call \in TailCalls
    /\ stage \in Ended \cup {"new", "last", "chunks", "read", "remote"}
    /\ child \in {"none", "running", "exited", "broken pipe", "error", "reaped"}
    /\ Len(raw) <= MaxTotalBytes + 1
    /\ seen <= target /\ pos <= len
    /\ \A k \in 1 .. Len(answer.lines) : Len(answer.lines[k]) <= MaxLineBytes
    /\ answer.truncated \subseteq {"bytes", "line_bytes", "rows"}

\* The bytes of a window of the log as it was when the window was located,
\* with what the application has appended up to length m.
WindowUpTo(m) == SubSeq(log, WindowStart(base, CappedLines) + 1, m)

\* tail_start_offset finds the window: on a log that is only appended to, the
\* backward search over chunks that are read one by one ends where the last
\* `lines` lines began when the file was opened, wherever a newline falls in
\* a chunk and whatever is written meanwhile.
SearchFindsWindow ==
    stage = "read" /\ ~rotated => start = WindowStart(base, CappedLines)

\* What a search looks for in a line.
Wanted(line) ==
    CASE call.tool = "regex" -> Matches(line)
      [] call.tool = "keyword" -> /\ \A k \in DOMAIN call.terms : call.terms[k] \in IndexedLineTerms(line)
                                  /\ HasLevel(line, call.level)
      [] OTHER -> TRUE

\* An answer without a truncation flag is whole: it has every line of the
\* window that was asked for, complete and in order, as the log stood when it
\* was opened or at some moment since.
UnflaggedIsWhole ==
    stage = "ok" /\ ~rotated /\ answer.truncated = {} =>
        \E m \in len .. Len(log) :
            LET lines == Pieces(WindowUpTo(m))
                whole == [k \in 1 .. Len(lines) |-> Lossy(lines[k])]
            IN  answer.lines = Pick(whole, {k \in DOMAIN whole : Wanted(whole[k])})

\* The status of log_grep is honest in both modes: "no_matches" is only said
\* of a window that was searched to the end and, at that moment, held no match
\* (a word that is still being written may stop to be one).
NoMatchesIsTrue ==
    stage = "ok" /\ ~rotated /\ answer.status = "no_matches" =>
        \E m \in len .. Len(log) :
            LET lines == Pieces(WindowUpTo(m))
            IN  \A k \in DOMAIN lines : ~Wanted(Lossy(lines[k]))

\* The ssh process does not outlive a call that the source itself ends.
ChildEndsWithCall == stage \in {"ok", "failed"} => child \in {"none", "reaped"}

-----------------------------------------------------------------------------
(* What the documentation says and the code does not do.                   *)

\* "applies the SAME line/byte caps, truncation, ... as the `ssh_log` source;
\* it differs only in transport": a log that is text is truncated at the byte
\* cap, never refused.
LocalTruncatesLikeSsh ==
    stage = "failed" /\ call.transport = "local" /\ ~fault /\ written = 0 => ~Utf8(base)
=============================================================================
