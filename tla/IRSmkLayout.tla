---------------------------- MODULE IRSmkLayout -----------------------------
(***************************************************************************)
(* The IRSmk micro kernel in its array-of-structures form                 *)
(* (ProTools2025/IRSmk/IRSmk.aos): main reads the grid bounds (readInput), *)
(* mallocs b, x, ufl, ufc, ufr and the three blocks of 8-double structs,   *)
(* lists them to the varinfo file, fills them (init), runs rmatmult3 and   *)
(* prints a fifth of b.  Every step records the 8-byte elements it reads   *)
(* or writes as [buf, off], off the byte offset in the buffer.  Values     *)
(* are not modelled.                                                       *)
(*                                                                         *)
(* The header that declares RadiationDataAos1/2/3_t is not in the          *)
(* repository: each struct is taken to hold its eight doubles in the       *)
(* order init fills them (aos1: dbl..dfc, aos2: dfr..cfl, aos3: cfc..ucr). *)
(* malloc is glibc's: a chunk of a request of n bytes takes n + 8 bytes   *)
(* rounded up to 16 (at least 32), and a fresh heap hands out chunks one   *)
(* after the other; Gaps are the bytes it may leave before a chunk.        *)
(***************************************************************************)
EXTENDS Integers, Sequences, FiniteSets

CONSTANTS
    Inputs,     \* the input files: [kmin, kmax, jmin, jmax, imin, imax, kp, jp]
    NoIter,     \* noIter (5000, scaled down)
    HeapStart,  \* the address of the first chunk main's mallocs get
    Gaps        \* the bytes malloc may leave before a chunk

ASSUME NoIter \in Nat \ {0} /\ Gaps \subseteq Nat

\* readInput: "i_lb = imin + jmin*jp + kmin*kp",
\* "i_ub = (imax-1) + (jmax-1)*jp + (kmax-1)*kp + 1".
ILb(in) == in.imin + in.jmin * in.jp + in.kmin * in.kp
IUb(in) == (in.imax - 1) + (in.jmax - 1) * in.jp + (in.kmax - 1) * in.kp + 1

\* Plausible fault: the sanity check for xdbl left out.
SaneNoCheck(in) == TRUE

\* "if ((i_lb - kp - jp - 1) < 0) { ... exit(1); }"
Sane(in) == ILb(in) - in.kp - in.jp - 1 >= 0

\* "x_size = i_ub + 2*(kp + jp + 1) + 10".
XSize(in) == IUb(in) + 2 * (in.kp + in.jp + 1) + 10

StructBytes == 64   \* eight doubles

Aos == {"aos1", "aos2", "aos3"}

\* main's mallocs in program order: b, x, then allocMem (ufl, ufc, ufr)
\* and allocMemAos1/2/3.
Buffers == << "b", "x", "ufl", "ufc", "ufr", "aos1", "aos2", "aos3" >>

Bytes(in, name) ==
    CASE name = "x" -> 8 * XSize(in)
      [] name \in Aos -> StructBytes * IUb(in)
      [] OTHER -> 8 * IUb(in)

\* The chunk glibc's malloc carves for a request of n bytes.
Chunk(n) == IF n + 8 <= 32 THEN 32 ELSE ((n + 8 + 15) \div 16) * 16

\* The order main prints the buffers in.
Listed == << "b", "x", "aos1", "aos2", "aos3", "ufl", "ufc", "ufr" >>

\* The field each AoS listing ends at: &rblk_aos1_ptr[i_ub].dfc,
\* &rblk_aos2_ptr[i_ub].cfl, &rblk_aos3_ptr[i_ub].ucr, the last field of
\* each struct.
EndField == 7

\* Plausible fault: every plain array listed with i_ub elements, x too.
ListedEndIUb(in, base, name) ==
    IF name \in Aos THEN base + StructBytes * IUb(in) + 8 * EndField
    ELSE base + 8 * IUb(in)

\* The end main prints: b+i_ub, x+x_size, &aos[i_ub].<last field>,
\* ufl/ufc/ufr+i_ub.
ListedEnd(in, base, name) ==
    CASE name = "x" -> base + 8 * XSize(in)
      [] name \in Aos -> base + StructBytes * IUb(in) + 8 * EndField
      [] OTHER -> base + 8 * IUb(in)

El(name, i) == [buf |-> name, off |-> 8 * i]
Field(name, i, f) == [buf |-> name, off |-> StructBytes * i + 8 * f]
Fields(name, i) == {Field(name, i, f) : f \in 0 .. 7}

\* The five loops of init, as [bound, body]: b with aos1, aos2, aos3,
\* ufl/ufc/ufr, then x.
InitLoops == 5

\* Plausible fault: "i <= i_ub" / "i <= x_size" in init's loops.
InitBoundIncl(in, loop) == IF loop = InitLoops THEN XSize(in) + 1 ELSE IUb(in) + 1

InitBound(in, loop) == IF loop = InitLoops THEN XSize(in) ELSE IUb(in)
InitBody(loop, i) ==
    CASE loop = 1 -> {El("b", i)} \cup Fields("aos1", i)
      [] loop = 2 -> Fields("aos2", i)
      [] loop = 3 -> Fields("aos3", i)
      [] loop = 4 -> {El("ufl", i), El("ufc", i), El("ufr", i)}
      [] OTHER    -> {El("x", i)}

\* rmatmult3's loop nest, kk outermost: the p-th point, in loop order.
Extent(in) == << in.imax - in.imin, in.jmax - in.jmin, in.kmax - in.kmin >>
Points(in) ==
    IF \A d \in 1 .. 3 : Extent(in)[d] > 0
    THEN Extent(in)[1] * Extent(in)[2] * Extent(in)[3] ELSE 0
PointIndex(in, p) ==
    LET e == Extent(in)
        ii == in.imin + (p % e[1])
        jj == in.jmin + ((p \div e[1]) % e[2])
        kk == in.kmin + p \div (e[1] * e[2])
    IN  ii + jj * in.jp + kk * in.kp

\* xdbl .. xufr: x offset by -kp..kp, -jp..jp and -1..1.
XOffsets(in) == {dk * in.kp + dj * in.jp + di : dk, dj, di \in -1 .. 1}

\* One b[i] = ... of rmatmult3: the 24 fields of the three structs at i,
\* ufl/ufc/ufr[i], x at the 27 offsets, and the write of b[i].
KernelBody(in, i) ==
    Fields("aos1", i) \cup Fields("aos2", i) \cup Fields("aos3", i)
        \cup {El("ufl", i), El("ufc", i), El("ufr", i), El("b", i)}
        \cup {El("x", i + d) : d \in XOffsets(in)}

\* Plausible fault: "i+i_ub/5" as the loop's step, computed and dropped.
PrintStrideNotAssigned(in) == 0

\* The result print: "for (i=0; i<i_ub; i+=i_ub/5)".
PrintStride(in) == IUb(in) \div 5

VARIABLES
    input,     \* the bounds readInput read
    phase,     \* "start", "alloc", "list", "init", "kernel", "print", "done", "exit"
    alloc,     \* alloc[name]: the address malloc returned for it
    heapTop,   \* where the next chunk's user memory starts
    listing,   \* the lines of the varinfo file: [name, begin, end]
    loop,      \* the loop of init, or the iteration of the kernel
    idx,       \* the element or point the loop is at
    acc        \* the elements the last step accessed

vars == <<input, phase, alloc, heapTop, listing, loop, idx, acc>>

NoInput == [kmin |-> 0, kmax |-> 0, jmin |-> 0, jmax |-> 0,
            imin |-> 0, imax |-> 0, kp |-> 0, jp |-> 0]

Init ==
    /\ input = NoInput /\ phase = "start"
    /\ alloc = [x \in {} |-> 0] /\ heapTop = HeapStart /\ listing = << >>
    /\ loop = 1 /\ idx = 0 /\ acc = {}

\* readInput on the file given with -i, with its exit on the sanity check.
ReadInput ==
    /\ phase = "start"
    /\ \E in \in Inputs :
         /\ input' = in
         /\ phase' = IF Sane(in) THEN "alloc" ELSE "exit"
    /\ UNCHANGED <<alloc, heapTop, listing, loop, idx, acc>>

\* The next malloc of main, allocMem or allocMemAos*.  Their NULL checks
\* only print; malloc is taken to succeed.
Allocate ==
    /\ phase = "alloc"
    /\ \E gap \in Gaps :
         LET name == Buffers[Cardinality(DOMAIN alloc) + 1]
             base == heapTop + gap
         IN  /\ alloc' = [x \in DOMAIN alloc \cup {name} |->
                            IF x = name THEN base ELSE alloc[x]]
             /\ heapTop' = base + Chunk(Bytes(input, name))
             /\ phase' = IF Cardinality(DOMAIN alloc) + 1 = Len(Buffers)
                          THEN "list" ELSE "alloc"
    /\ UNCHANGED <<input, listing, loop, idx, acc>>

\* varinfo_file_print of the next buffer, main run with -v and the file
\* opened; varinfo_file_close after the last.
List ==
    /\ phase = "list"
    /\ LET name == Listed[Len(listing) + 1]
       IN  listing' = Append(listing, [name  |-> name,
                                       begin |-> alloc[name],
                                       end   |-> ListedEnd(input, alloc[name], name)])
    /\ phase' = IF Len(listing) + 1 = Len(Listed) THEN "init" ELSE "list"
    /\ UNCHANGED <<input, alloc, heapTop, loop, idx, acc>>

\* varinfo_file_open failed (or -v not given): every print returns -1 and
\* main goes on without a listing.
ListSkipped ==
    /\ phase = "list" /\ listing = << >>
    /\ phase' = "init"
    /\ UNCHANGED <<input, alloc, heapTop, listing, loop, idx, acc>>

\* The step of "for (...; i < bound; ...)" at idx: on to idx+1, or to the
\* first element of the next loop, or out to phase next.
Advance(bound, last, next) ==
    IF idx + 1 < bound THEN idx' = idx + 1 /\ UNCHANGED <<loop, phase>>
    ELSE IF ~last THEN loop' = loop + 1 /\ idx' = 0 /\ UNCHANGED phase
    ELSE phase' = next /\ loop' = 1 /\ idx' = 0

\* The result loop's first test "i < i_ub" at i = 0: into its body, or past
\* it to the return.
PrintEntry(in) == IF 0 < IUb(in) THEN "print" ELSE "done"

\* One iteration of a loop of init.
InitStep ==
    /\ phase = "init"
    /\ acc' = InitBody(loop, idx)
    /\ Advance(InitBound(input, loop), loop = InitLoops,
               IF Points(input) > 0 THEN "kernel" ELSE PrintEntry(input))
    /\ UNCHANGED <<input, alloc, heapTop, listing>>

\* One point of rmatmult3, in the loop-th of its noIter calls.
KernelStep ==
    /\ phase = "kernel"
    /\ acc' = KernelBody(input, PointIndex(input, idx))
    /\ Advance(Points(input), loop = NoIter, PrintEntry(input))
    /\ UNCHANGED <<input, alloc, heapTop, listing>>

\* One printf of b[i]; the loop ends once i reaches i_ub.
PrintStep ==
    /\ phase = "print"
    /\ acc' = {El("b", idx)}
    /\ IF idx + PrintStride(input) < IUb(input)
       THEN idx' = idx + PrintStride(input) /\ UNCHANGED phase
       ELSE phase' = "done" /\ idx' = 0
    /\ UNCHANGED <<input, alloc, heapTop, listing, loop>>

Next == ReadInput \/ Allocate \/ List \/ ListSkipped \/ InitStep \/ KernelStep \/ PrintStep

Spec == Init /\ [][Next]_vars

\* main is one thread that runs each loop to its end: every enabled step
\* is eventually taken.
FairSpec == Spec /\ WF_vars(Next)

-----------------------------------------------------------------------------
(* Properties                                                              *)

TypeOK ==
    /\ phase \in {"start", "alloc", "list", "init", "kernel", "print", "done", "exit"}
    /\ Len(listing) <= Len(Listed)
    /\ loop \in 1 .. InitLoops + NoIter
    /\ idx \in 0 .. XSize(input) - 1 \/ input = NoInput
    /\ \A a \in acc : a.buf \in DOMAIN alloc

\* readInput's sanity check and x_size against the loops of init, the
\* 27-point stencil of rmatmult3 and the print: every element main
\* touches lies inside the bytes malloc returned for its buffer.
AccessesWithinAllocation ==
    \A a \in acc : 0 <= a.off /\ a.off + 8 <= Bytes(input, a.buf)

\* The listing main prints against the accesses: the range listed for a
\* buffer contains every byte of every element the program touches in it
\* (spec 3).  Which variable the simulator then charges is another matter:
\* it resolves a cache line's base address, and the AoS ranges overlap.
AccessesWithinListing ==
    \A a \in acc :
        \A n \in DOMAIN listing :
            listing[n].name = a.buf =>
                /\ listing[n].begin <= alloc[a.buf] + a.off
                /\ alloc[a.buf] + a.off + 7 <= listing[n].end

\* main returns: readInput's exit, or the end of the result print, is
\* reached, whatever input passed the sanity check.  The print loop's step
\* i_ub/5 is 0 when i_ub < 5, and main then prints b[0] forever.
Terminates == <>(phase \in {"done", "exit"})
=============================================================================
