---------------------------- MODULE SimpleLayout ----------------------------
(***************************************************************************)
(* The arrays of the Simple benchmarks (Simple/src/conflict.c and          *)
(* matrix.c) as the simulator attributes them.  main allocates the arrays  *)
(* with aligned_alloc(64, ...), lists each as "name begin end" with end =  *)
(* the pointer one past the array, allocates matrix_fill (not listed),     *)
(* then touches every element: conflict.c in initialization, conflict()    *)
(* and clear_cache; matrix.c in initialization (A, B, and the memsets of   *)
(* C and C_d) and clear_cache.  The kernels of matrix.c touch no element   *)
(* that initialization does not (module MatrixMultiply).                   *)
(*                                                                         *)
(* The simulator resolves the base address of a cache line, not the       *)
(* accessed address, against the listed ranges (cachesim_setref_is_miss,  *)
(* "Addr out = evict_line.tag << c->line_size_bits").  malloc leaves at    *)
(* least a chunk header between two buffers; how much more is one of Gaps. *)
(* One step per element; values are not modelled.  Which of the two       *)
(* programs runs is chosen in Init.                                        *)
(*                                                                         *)
(* PolyBench datamining/correlation/correlation.c is the third program.   *)
(* Its four arrays of DATA_TYPE come from POLYBENCH_*_ARRAY_DECL; neither  *)
(* polybench.h nor correlation.h is in the repository, and the model      *)
(* takes PolyBench's defaults: double elements and an allocator that       *)
(* aligns every array to PolyAlign bytes (posix_memalign).  Its listing    *)
(* (acquire_var_addresses) runs before init_array and gives the address   *)
(* of the LAST element as end.  The kernel's floating point values are    *)
(* left out; each statement is kept as the element reads and writes it    *)
(* makes, in program order, with a compound assignment x op= y as a read  *)
(* of y, a read of x and a write of x.                                     *)
(***************************************************************************)
EXTENDS Integers, Sequences

SE == INSTANCE SequencesExt

CONSTANTS
    Programs,   \* a subset of {"conflict", "matrix", "correlation"}
    Size,       \* -s
    ClearN,     \* CLEAR_DEFAULT (scaled down)
    LineSize,   \* the D1 line size in bytes
    Gaps,       \* the bytes malloc may put between two buffers
    CorrN,      \* N of correlation.h (scaled down)
    CorrM,      \* M of correlation.h (scaled down)
    PolyAlign   \* the alignment of PolyBench's array allocator

ASSUME /\ Programs \subseteq {"conflict", "matrix", "correlation"}
       /\ Size >= 1 /\ Gaps \subseteq Nat \ {0}
       /\ CorrN >= 1 /\ CorrM >= 1 /\ PolyAlign % 64 = 0

\* conflict.c: int64_t A, B, C, D of size elements; matrix.c: int32_t A,
\* B, C, C_d of size*size; then matrix_fill of CLEAR_DEFAULT^2 elements.
\* correlation.c: double data[N][M], corr[M][M], mean[M], stddev[M].
Elem(prog) == IF prog = "matrix" THEN 4 ELSE 8
Count(prog) == IF prog = "conflict" THEN Size ELSE Size * Size
Listed(prog) == CASE prog = "conflict" -> << "A", "B", "C", "D" >>
                  [] prog = "matrix"   -> << "A", "B", "C", "C_d" >>
                  [] OTHER             -> << "data", "corr", "mean", "stddev" >>
Buffers(prog) == IF prog = "correlation" THEN Listed(prog)
                 ELSE Listed(prog) \o << "matrix_fill" >>

Elems(prog, name) == CASE name = "matrix_fill" -> ClearN * ClearN
                       [] name = "data"        -> CorrN * CorrM
                       [] name = "corr"        -> CorrM * CorrM
                       [] name \in {"mean", "stddev"} -> CorrM
                       [] OTHER                -> Count(prog)

\* Plausible fault: aligned_alloc(64, size), the sizeof left out.
AllocBytesNoSizeof(prog, name) == Elems(prog, name)

\* aligned_alloc(64, sizeof(T)*n): the bytes of a buffer.
AllocBytes(prog, name) == Elem(prog) * Elems(prog, name)

\* aligned_alloc(64, ...) or posix_memalign(align, ...): the next align
\* boundary at least gap bytes past the end of the previous buffer.
Place(top, gap, align) == ((top + gap + align - 1) \div align) * align

Align(prog) == IF prog = "correlation" THEN PolyAlign ELSE 64

\* The end main prints: X + n, one past, in conflict.c and matrix.c;
\* &X[last], the last element, in acquire_var_addresses.
ListedEnd(prog, base, name) ==
    IF prog = "correlation" THEN base + Elem(prog) * (Elems(prog, name) - 1)
    ELSE base + Elem(prog) * Count(prog)

\* Plausible fault: the block number used as the address, unshifted.
LineBaseUnshifted(a) == a \div LineSize

\* "tag << c->line_size_bits": the base address of a's cache line.
LineBase(a) == (a \div LineSize) * LineSize

NoVar == "none"

\* comp_addr_var over the listed ranges, both ends inclusive.
Resolve(listing, a) ==
    IF \E n \in DOMAIN listing : listing[n].begin <= a /\ a <= listing[n].end
    THEN listing[CHOOSE n \in DOMAIN listing :
                     listing[n].begin <= a /\ a <= listing[n].end].name
    ELSE NoVar

\* An element access: <<buffer, element, "r" or "w">>.
Rd(name, e) == << name, e, "r" >>
Wr(name, e) == << name, e, "w" >>

\* for (x = 0; x < n; x++) Body(x): the accesses of the iterations in order.
Loop(n, Body(_)) == SE!FlattenSeq([x \in 1 .. n |-> Body(x - 1)])

\* Row-major element numbers of data[i][j] and corr[i][j].
D(i, j) == i * CorrM + j
Cr(i, j) == i * CorrM + j

\* init_array: data[i][j] = ... for every i < N, j < M.
InitArray ==
    Loop(CorrN, LAMBDA i : Loop(CorrM, LAMBDA j : << Wr("data", D(i, j)) >>))

\* mean[j] = 0; mean[j] += data[i][j] for i < N; mean[j] /= float_n.
KernelMean ==
    Loop(CorrM, LAMBDA j :
        << Wr("mean", j) >>
        \o Loop(CorrN, LAMBDA i : << Rd("data", D(i, j)), Rd("mean", j), Wr("mean", j) >>)
        \o << Rd("mean", j), Wr("mean", j) >>)

\* stddev[j] = 0; stddev[j] += (data[i][j] - mean[j])^2 for i < N; then
\* the division, sqrt and eps guard, each a read and a write of stddev[j]
\* (lines 92-97, kept as one).
KernelStddev ==
    Loop(CorrM, LAMBDA j :
        << Wr("stddev", j) >>
        \o Loop(CorrN, LAMBDA i :
               << Rd("data", D(i, j)), Rd("mean", j), Rd("stddev", j), Wr("stddev", j) >>)
        \o << Rd("stddev", j), Wr("stddev", j) >>)

\* data[i][j] -= mean[j]; data[i][j] /= sqrt(float_n) * stddev[j].
KernelCenter ==
    Loop(CorrN, LAMBDA i : Loop(CorrM, LAMBDA j :
        << Rd("mean", j), Rd("data", D(i, j)), Wr("data", D(i, j)),
           Rd("stddev", j), Rd("data", D(i, j)), Wr("data", D(i, j)) >>))

\* for i < M-1: corr[i][i] = 1; for j in i+1 .. M-1: corr[i][j] = 0,
\* corr[i][j] += data[k][i] * data[k][j] for k < N, corr[j][i] = corr[i][j].
KernelCorr ==
    Loop(CorrM - 1, LAMBDA i :
        << Wr("corr", Cr(i, i)) >>
        \o Loop(CorrM - 1 - i, LAMBDA d :
               LET j == i + 1 + d
               IN  << Wr("corr", Cr(i, j)) >>
                   \o Loop(CorrN, LAMBDA k :
                          << Rd("data", D(k, i)), Rd("data", D(k, j)),
                             Rd("corr", Cr(i, j)), Wr("corr", Cr(i, j)) >>)
                   \o << Rd("corr", Cr(i, j)), Wr("corr", Cr(j, i)) >>))

\* Plausible fault: the last diagonal element left to the loop, which
\* stops at M-2.
CorrFinalNone == << >>

\* corr[M-1][M-1] = 1.0 after the loop.
CorrFinal == << Wr("corr", Cr(CorrM - 1, CorrM - 1)) >>

\* print_array: reads corr[i][j] for every i, j < m.
PrintArray == Loop(CorrM, LAMBDA i : Loop(CorrM, LAMBDA j : << Rd("corr", Cr(i, j)) >>))

\* The element accesses of main after the listing, in program order; for
\* matrix.c, initialization (A and B in one loop, then the memsets of C
\* and C_d) and the two clear_cache calls, whose elements are those the
\* two products (module MatrixMultiply) touch in bounds.
Accesses(prog) ==
    LET Run(name) == [e \in 1 .. Elems(prog, name) |-> Wr(name, e - 1)]
        Fill      == Run("matrix_fill")
        Conflict  == Loop(Size, LAMBDA i : << Rd("B", i), Rd("C", i), Wr("A", i) >>)
        MatInit   == Loop(Elems(prog, "A"), LAMBDA x : << Wr("A", x), Wr("B", x) >>)
    IN  CASE prog = "conflict" ->
               Run("A") \o Run("B") \o Run("C") \o Run("D") \o Fill \o Conflict \o Fill
          [] prog = "matrix" ->
               MatInit \o Run("C") \o Run("C_d") \o Fill \o Fill
          [] OTHER ->
               InitArray \o KernelMean \o KernelStddev \o KernelCenter
               \o KernelCorr \o CorrFinal \o PrintArray

VARIABLES
    prog,      \* the program that runs
    alloc,     \* alloc[n]: [base, bytes] of the n-th buffer
    heapTop,
    listing,   \* the lines of varinfo.txt
    step,      \* the access main is at
    acc,       \* the last access: <<buffer, byte address, "r" or "w">>
    written    \* the byte addresses of the elements written so far

vars == <<prog, alloc, heapTop, listing, step, acc, written>>

Init ==
    /\ prog \in Programs
    /\ alloc = << >> /\ heapTop = 0 /\ listing = << >>
    /\ step = 0 /\ acc = << "none", 0, "w" >> /\ written = {}

\* aligned_alloc of the next buffer; main exits if one is NULL, which the
\* model leaves out.
Allocate ==
    /\ Len(alloc) < Len(Buffers(prog))
    /\ \E gap \in Gaps :
         LET name == Buffers(prog)[Len(alloc) + 1]
             base == Place(heapTop, gap, Align(prog))
         IN  /\ alloc' = Append(alloc, [base |-> base, bytes |-> AllocBytes(prog, name)])
             /\ heapTop' = base + AllocBytes(prog, name)
    /\ UNCHANGED <<prog, listing, step, acc, written>>

\* fprintf(var_file, "%s %p %p\n", getName(X), X, X + n) for the listed
\* arrays, once all are allocated (-v given, fopen succeeded).
List ==
    /\ Len(alloc) = Len(Buffers(prog)) /\ Len(listing) < Len(Listed(prog))
    /\ LET n == Len(listing) + 1
       IN  listing' = Append(listing, [name  |-> Listed(prog)[n],
                                       begin |-> alloc[n].base,
                                       end   |-> ListedEnd(prog, alloc[n].base, Listed(prog)[n])])
    /\ UNCHANGED <<prog, alloc, heapTop, step, acc, written>>

\* The next element access of the loops.
Touch ==
    /\ Len(listing) = Len(Listed(prog)) /\ step < Len(Accesses(prog))
    /\ LET a == Accesses(prog)[step + 1]
           n == CHOOSE x \in DOMAIN Buffers(prog) : Buffers(prog)[x] = a[1]
           addr == alloc[n].base + Elem(prog) * a[2]
       IN  /\ acc' = << a[1], addr, a[3] >>
           /\ written' = IF a[3] = "w" THEN written \cup {addr} ELSE written
    /\ step' = step + 1
    /\ UNCHANGED <<prog, alloc, heapTop, listing>>

Next == Allocate \/ List \/ Touch

Spec == Init /\ [][Next]_vars

-----------------------------------------------------------------------------
(* Properties                                                              *)

\* The listing main prints against cmp_var_range, which takes ranges that
\* touch for overlapping: no two listed ranges overlap (spec 3), so the
\* loader never finds a duplicate.
ListedRangesDisjoint ==
    \A m, n \in DOMAIN listing :
        m < n => listing[m].end < listing[n].begin \/ listing[n].end < listing[m].begin

\* The attribution of cachesim_setref_is_miss: the line of every element
\* of a listed array resolves to that array, and the line of every
\* element of matrix_fill to no variable.
AccessAttributedToOwnArray ==
    acc[1] # "none" =>
        Resolve(listing, LineBase(acc[2])) = IF acc[1] = "matrix_fill" THEN NoVar ELSE acc[1]
\* No element is read before it is written: the arrays come from malloc
\* and PolyBench's allocator uninitialized, so a read of an element no
\* earlier statement wrote (e.g. a corr entry print_array reads that the
\* kernel never set) reads garbage and makes the measured run differ.
ReadsOnlyWritten ==
    acc[3] = "r" => acc[2] \in written
=============================================================================
