----------------------------- MODULE VarListing -----------------------------
(***************************************************************************)
(* The variable listing varinfo.txt, between the traced program that       *)
(* writes it and the simulator that polls it.                              *)
(*                                                                         *)
(* Writer (Util/util.c, and the same fopen/fprintf/fclose sequence inline  *)
(* in the benchmarks): varinfo_file_open creates or truncates the file,    *)
(* varinfo_file_print formats "%s %p %p\n" into the stdio buffer, which    *)
(* reaches the file only in whole buffers of BufCap bytes while the file   *)
(* is open, and varinfo_file_close flushes the rest.                       *)
(*                                                                         *)
(* Reader (cachesim_D1_doref, lines 706-808): on every D1 hit while the    *)
(* listing is not loaded, ref_counter counts up to PollEvery (10000); at   *)
(* PollEvery the file is read in chunks of ReadLen bytes into a stack      *)
(* buffer of 2*ReadLen bytes and the chunk loop at lines 743-796 runs on   *)
(* the bytes: the newline scan, the name and field scans, strtoll16, the   *)
(* insertion into var_table and the copy of an unfinished line to the      *)
(* front of the buffer.                                                    *)
(*                                                                         *)
(* Bytes are ASCII codes.  Addresses are small, so that %p prints few      *)
(* digits.  The buffer is uninitialised stack at each poll: its bytes are  *)
(* one of the patterns of Garbages until a read or a copy writes them.     *)
(* The simulator runs the traced program's accesses one at a time, so a    *)
(* poll is one step and sees the file as it is between two writes.         *)
(***************************************************************************)
EXTENDS Naturals, Sequences, FiniteSets

LOCAL INSTANCE SequencesExt

CONSTANTS
    Listing,      \* the lines the program prints, in order: [begin, end]
    Leftover,     \* the lines an earlier run left in varinfo.txt, or << >>
    NameChoices,  \* the names a listed variable may have, as byte strings
    BufCap,       \* bytes of the stdio buffer (BUFSIZ)
    ReadLen,      \* bytes asked of each VG_(read) (read_len = 256)
    PollEvery,    \* D1 hits between two polls (10000)
    StaleNewline  \* whether an uninitialised buffer byte may be '\n'

NUL == 0
NL  == 10
SP  == 32
GB  == 63   \* an uninitialised byte that is neither space, digit nor '\n'

\* The buffer of the poll: "HChar buffer[512]", swap_buffer[256].
BufLen == 2 * ReadLen
Pos == 0 .. BufLen - 1

ASSUME /\ \A i \in DOMAIN Listing : 0 < Listing[i].begin /\ Listing[i].begin < 256
                                    /\ 0 < Listing[i].end /\ Listing[i].end < 256
       /\ \A nm \in NameChoices : nm # << >> /\ \A k \in DOMAIN nm : nm[k] \notin {NL, SP}
       /\ StaleNewline \in BOOLEAN

VARIABLES
    names,       \* names[i]: the name printed on line i
    wstate,      \* the writer: "none" (not opened yet), "open", "closed"
    printed,     \* lines passed to fprintf so far
    disk,        \* the bytes of varinfo.txt, or NoFile
    refCounter,  \* ref_counter
    done,        \* done
    table,       \* var_table: the variables inserted, in id order
    crash        \* "none", or how the tool died in a poll

vars == <<names, wstate, printed, disk, refCounter, done, table, crash>>

NoFile == << -1 >>

-----------------------------------------------------------------------------
(* The writer's text.                                                      *)

\* %p: "0x" and the lower-case hex digits of a non-null pointer.
RECURSIVE HexDigits(_)
HexDigits(v) ==
    LET c == IF v % 16 < 10 THEN 48 + (v % 16) ELSE 87 + (v % 16)
    IN  IF v < 16 THEN << c >> ELSE Append(HexDigits(v \div 16), c)

Hex(v) == << 48, 120 >> \o HexDigits(v)

\* fprintf(varinfo_file, "%s %p %p\n", vname, begin, end).
LineText(nm, r) == nm \o << SP >> \o Hex(r.begin) \o << SP >> \o Hex(r.end) \o << NL >>

ASSUME /\ Len(Leftover) <= Len(Listing)
       /\ \A nm \in NameChoices, i \in DOMAIN Listing : Len(LineText(nm, Listing[i])) < ReadLen

\* The text of the first n lines of lst.
Text(nm, lst, n) == FlattenSeq([i \in 1 .. n |-> LineText(nm[i], lst[i])])

\* Of b bytes given to fprintf, those write() has received: whole buffers.
Flushed(b) == (b \div BufCap) * BufCap

-----------------------------------------------------------------------------
(* The reader's scans over the buffer.                                     *)

\* The byte at p; past the end of buffer[] the stack holds other data.
Byte(buf, p) == IF p < BufLen THEN buf[p] ELSE GB

IsSpace(c) == c \in {9, 10, 11, 12, 13, SP}
IsHex(c)   == c \in (48 .. 57) \cup (65 .. 70) \cup (97 .. 102)
HexVal(c)  == IF c <= 57 THEN c - 48 ELSE IF c <= 70 THEN c - 55 ELSE c - 87

\* "while(*line_end != '\n' && line_end < buffer_end) line_end++": the
\* byte is tested before the bound.
RECURSIVE ScanNL(_, _, _)
ScanNL(buf, p, be) ==
    IF Byte(buf, p) # NL /\ p < be THEN ScanNL(buf, p + 1, be) ELSE p

\* "while(*line_start != ' ') line_start++", unbounded: BufLen when it runs
\* off buffer[].
RECURSIVE ScanSP(_, _)
ScanSP(buf, p) ==
    IF p >= BufLen THEN BufLen ELSE IF buf[p] # SP THEN ScanSP(buf, p + 1) ELSE p

RECURSIVE SkipSpace(_, _)
SkipSpace(buf, p) == IF IsSpace(Byte(buf, p)) THEN SkipSpace(buf, p + 1) ELSE p

RECURSIVE HexRun(_, _, _)
HexRun(buf, p, n) ==
    IF IsHex(Byte(buf, p)) THEN HexRun(buf, p + 1, 16 * n + HexVal(Byte(buf, p)))
    ELSE [val |-> n, end |-> p]

\* VG_(strtoll16)(str, &endptr): leading white space skipped, "0x" skipped
\* when a hex digit follows it, then the hex digits; with no digit the
\* value is 0 and endptr is str.
Strtoll16(buf, p) ==
    LET q == SkipSpace(buf, p)
        d == IF Byte(buf, q) = 48 /\ Byte(buf, q + 1) \in {88, 120} /\ IsHex(Byte(buf, q + 2))
             THEN q + 2 ELSE q
        r == HexRun(buf, d, 0)
    IN  IF r.end = d THEN [val |-> 0, end |-> p] ELSE r

\* cmp_var_range: 0 when the ranges overlap or touch.
CmpVarRange(a, b) == IF a.end < b.begin THEN -1 ELSE IF b.end < a.begin THEN 1 ELSE 0

\* VG_(OSetGen_Insert) of v: an element comparing equal to v is a
\* duplicate, on which the OSet asserts.
Duplicate(tab, v) == \E i \in DOMAIN tab : CmpVarRange(v, tab[i]) = 0

-----------------------------------------------------------------------------
(* The chunk loop of a poll.  s is [buf, tab, rb, crash]: the buffer, the  *)
(* variables inserted so far, read_buffer - buffer, and "none" or how the  *)
(* tool died.                                                              *)

\* Plausible fault: "read_buffer = buffer", the next read overwrites the
\* carried bytes.
CarryTailNoOffset(s, be, ls) ==
    [s EXCEPT !.buf = [p \in Pos |-> IF p < be - ls THEN s.buf[ls + p] ELSE s.buf[p]],
              !.rb  = 0]

\* The unfinished line [ls, be) through swap_buffer to the front of the
\* buffer, and "read_buffer = buffer + (buffer_end - line_start)".
CarryTail(s, be, ls) ==
    [s EXCEPT !.buf = [p \in Pos |-> IF p < be - ls THEN s.buf[ls + p] ELSE s.buf[p]],
              !.rb  = be - ls]

\* The do-while over the lines of a chunk whose data ends at be, from the
\* line starting at ls: a line up to a newline is parsed and inserted; a
\* line without one is copied to the front, memcpy's length buffer_end -
\* line_start converted to SizeT (a negative one copies until a fault).
\* The name scan stores '\0' where it stops, past buffer[] if it runs off
\* it.  The scan for the second space only reads (strtoll16 then sets
\* line_start), and the stack above buffer[] is mapped: it is left out.
RECURSIVE ParseLines(_, _, _)
ParseLines(s, be, ls) ==
    LET le == ScanNL(s.buf, ls, be)
    IN  IF Byte(s.buf, le) = NL
        THEN LET sp1 == ScanSP(s.buf, ls)
                 buf == IF sp1 < BufLen THEN [s.buf EXCEPT ![sp1] = NUL] ELSE s.buf
                 b   == Strtoll16(buf, sp1 + 1)
                 e   == Strtoll16(buf, b.end + 1)
                 v   == [begin |-> b.val, end |-> e.val]
                 t   == [s EXCEPT !.buf = buf, !.tab = Append(@, v)]
             IN  CASE sp1 = BufLen           -> [s EXCEPT !.crash = "overrun"]
                   [] Duplicate(s.tab, v)    -> [s EXCEPT !.crash = "duplicate"]
                   [] e.end + 1 = be         -> [t EXCEPT !.rb = 0]
                   [] OTHER                  -> ParseLines(t, be, e.end + 1)
        ELSE IF be < ls THEN [s EXCEPT !.crash = "memcpy"]
        ELSE CarryTail(s, be, ls)

\* "while((len = VG_(read)(fdno, read_buffer, read_len)))" over the bytes f
\* of the file, from offset off: each read fills read_buffer with up to
\* ReadLen bytes, and the loop ends when a read returns 0.
RECURSIVE ReadChunks(_, _, _)
ReadChunks(s, f, off) ==
    LET len == IF Len(f) - off < ReadLen THEN Len(f) - off ELSE ReadLen
        buf == [p \in Pos |-> IF s.rb <= p /\ p < s.rb + len THEN f[off + 1 + p - s.rb]
                              ELSE s.buf[p]]
        t   == ParseLines([s EXCEPT !.buf = buf], s.rb + len, 0)
    IN  IF len = 0 THEN s
        ELSE IF t.crash # "none" THEN t ELSE ReadChunks(t, f, off + len)

\* The uninitialised buffer[]: no byte '\n', or one of them.
Garbages ==
    {[p \in Pos |-> GB]}
    \cup (IF StaleNewline THEN {[p \in Pos |-> IF p = q THEN NL ELSE GB] : q \in Pos} ELSE {})

\* The contents varinfo.txt can have: empty after fopen, whole buffers
\* while the program prints, the listing after fclose, or an earlier
\* run's listing.
Disks ==
    {Text(nm, Listing, Len(Listing)) : nm \in [DOMAIN Listing -> NameChoices]}
    \cup {SubSeq(Text(nm, Listing, n), 1, Flushed(Len(Text(nm, Listing, n)))) :
            nm \in [DOMAIN Listing -> NameChoices], n \in 0 .. Len(Listing)}
    \cup {Text(nm, Leftover, Len(Leftover)) : nm \in [DOMAIN Listing -> NameChoices]}

\* The chunk loop's outcome on each content and uninitialised buffer,
\* evaluated once.  var_table is empty when a poll starts: a poll that
\* inserts a variable sets done, and one that fails ends the tool.
PollResult ==
    [d \in Disks |-> [g \in Garbages |->
        ReadChunks([buf |-> g, tab |-> << >>, rb |-> 0, crash |-> "none"], d, 0)]]

\* Plausible fault: "if(var_index >= 0)", an empty read also counts.
LoadedOnceEmpty(t) == TRUE

\* "if(var_index > 0) done = True": loading ends once a variable parsed.
LoadedOnce(t) == Len(t) > 0

-----------------------------------------------------------------------------

Init ==
    /\ names \in [DOMAIN Listing -> NameChoices]
    /\ wstate = "none"
    /\ printed = 0
    /\ disk = IF Leftover = << >> THEN NoFile ELSE Text(names, Leftover, Len(Leftover))
    /\ refCounter = 0
    /\ done = FALSE
    /\ table = << >>
    /\ crash = "none"

\* varinfo_file_open: fopen(fname, "w") creates or truncates the file.
VarinfoOpen ==
    /\ crash = "none" /\ wstate = "none"
    /\ wstate' = "open"
    /\ disk' = << >>
    /\ UNCHANGED <<names, printed, refCounter, done, table, crash>>

\* varinfo_file_print: fprintf of one line; whole buffers reach the file.
VarinfoPrint ==
    /\ crash = "none" /\ wstate = "open" /\ printed < Len(Listing)
    /\ printed' = printed + 1
    /\ disk' = LET txt == Text(names, Listing, printed + 1)
               IN  SubSeq(txt, 1, Flushed(Len(txt)))
    /\ UNCHANGED <<names, wstate, refCounter, done, table, crash>>

\* varinfo_file_close after the last line: fflush, fsync, fclose.
VarinfoClose ==
    /\ crash = "none" /\ wstate = "open" /\ printed = Len(Listing)
    /\ wstate' = "closed"
    /\ disk' = Text(names, Listing, printed)
    /\ UNCHANGED <<names, printed, refCounter, done, table, crash>>

\* A D1 hit before the poll is due: ref_counter++.
Tick ==
    /\ crash = "none" /\ ~done /\ refCounter < PollEvery
    /\ refCounter' = refCounter + 1
    /\ UNCHANGED <<names, wstate, printed, disk, done, table, crash>>

\* A D1 hit with ref_counter == 10000: reset, stat and open the file, the
\* chunk loop, close, init_var_array, done once a variable parsed, and the
\* trailing ref_counter++.  No file: the stat fails and nothing is read.
Poll ==
    /\ crash = "none" /\ ~done /\ refCounter = PollEvery
    /\ refCounter' = 1
    /\ IF disk = NoFile
       THEN UNCHANGED <<done, table, crash>>
       ELSE \E g \in Garbages :
              LET o == PollResult[disk][g]
              IN  /\ table' = o.tab
                  /\ crash' = o.crash
                  /\ done' = (o.crash = "none" /\ LoadedOnce(o.tab))
    /\ UNCHANGED <<names, wstate, printed, disk>>

\* A D1 hit once the listing is loaded: "if(!done)" skips the poll.
Loaded ==
    /\ crash = "none" /\ done
    /\ UNCHANGED vars

Writer == VarinfoOpen \/ VarinfoPrint \/ VarinfoClose

D1Hit == Tick \/ Poll \/ Loaded

Next == Writer \/ D1Hit

\* The traced program runs to the end of its listing code, and its data
\* accesses keep hitting D1 while the listing is not loaded.
Spec == Init /\ [][Next]_vars /\ WF_vars(Writer) /\ WF_vars(D1Hit)

-----------------------------------------------------------------------------
(* Properties                                                              *)

\* The poll's chunk loop (cachesim_D1_doref) and the writer's buffered
\* output (util.c): the variables loaded are always the first lines of the
\* listing, each with its own range and id, whatever the file held when a
\* poll read it and wherever the chunk ends fell in its lines.
LoadedIsListingPrefix ==
    /\ Len(table) <= Len(Listing)
    /\ \A i \in DOMAIN table : table[i] = Listing[i]

\* Spec 6, "malformed or partially written listing files are tolerated":
\* no poll, whatever the file and the uninitialised buffer held, ends in
\* a copy of negative length, a store past buffer[] or a duplicate insert.
PollToleratesFile ==
    crash = "none"

\* The poll on the D1 hit path: while the program keeps hitting D1, the
\* listing is eventually loaded with at least one variable.
EventuallyLoaded ==
    <>(Len(table) > 0)
=============================================================================
