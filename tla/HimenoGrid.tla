----------------------------- MODULE HimenoGrid -----------------------------
(***************************************************************************)
(* The matrices of the Himeno benchmark (Himeno/src/himenoBMTxpa_aos.c    *)
(* and himenoBMTxpa_pad.c) and the elements their loops access: the       *)
(* allocations of main, the MR / MR_PACKED addressing, the listed ranges,  *)
(* the planes of mat_set and the two loop bodies of jacobi.  An access is  *)
(* a record [mat, i, j, k, f]: element (i, j, k) of matrix mat and float   *)
(* field f of it (0 for a float matrix).                                   *)
(***************************************************************************)
EXTENDS Integers, Sequences, FiniteSets

CONSTANTS
    Variant,      \* "aos" or "pad": which of the two programs
    MI, MJ, MK    \* mimax, mjmax, mkmax (set_param; scaled down for TLC)

ASSUME Variant \in {"aos", "pad"} /\ MI >= 3 /\ MJ >= 3 /\ MK >= 3

\* main: imax = mimax-1 etc.; jacobi's own imax is p->mrows-1, the same.
IMax == MI - 1
JMax == MJ - 1
KMax == MK - 1

\* himenoBMTxpa_aos.c main: p and wrk2 as floats, the coefficients packed
\* four floats to an element.
AosMats == << [name |-> "p",     kind |-> "float",  pad |-> 17],
              [name |-> "wrk2",  kind |-> "float",  pad |-> 33],
              [name |-> "packA", kind |-> "packed", pad |-> 0],
              [name |-> "packB", kind |-> "packed", pad |-> 51],
              [name |-> "packC", kind |-> "packed", pad |-> 79] >>

\* himenoBMTxpa_pad.c main: fourteen float matrices, each with its pad.
PadMats ==
    LET names == << "p", "bnd", "wrk1", "wrk2", "a0", "a1", "a2", "a3",
                    "b0", "b1", "b2", "c0", "c1", "c2" >>
        pads  == << 0, 113, 129, 113, 147, 167, 183, 17, 17, 33, 51, 67, 79, 97 >>
    IN  [n \in 1 .. 14 |-> [name |-> names[n], kind |-> "float", pad |-> pads[n]]]

Mats == IF Variant = "aos" THEN AosMats ELSE PadMats

Names == {Mats[n].name : n \in DOMAIN Mats}

KindOf(name) == Mats[CHOOSE n \in DOMAIN Mats : Mats[n].name = name].kind

ElemBytes(kind) == IF kind = "float" THEN 4 ELSE 16

Fields(kind) == IF kind = "float" THEN {0} ELSE 0 .. 3

N == MI * MJ * MK

\* newMat: malloc((mnums*mrows*mcols*mdeps + pad) * sizeof(float)),
\* m = buffer + pad.
NewMatFloat(kind, pad) == [bytes |-> (N + pad) * 4, off |-> pad * 4]

\* newMat_packedA/B/C: malloc(mrows*mcols*mdeps*sizeof(PackedElement) + pad),
\* m = buffer + pad, a pointer to 16-byte elements.
NewMatPacked(kind, pad) == [bytes |-> N * 16 + pad, off |-> pad * 16]

NewMat(kind, pad) ==
    IF kind = "float" THEN NewMatFloat(kind, pad) ELSE NewMatPacked(kind, pad)

RoundUp16(x) == ((x + 15) \div 16) * 16

\* The MR / MR_PACKED macros: the byte address of field f of element
\* (i, j, k), given the buffers placed so far.
Address(alloc, a) ==
    alloc[a.mat].base + alloc[a.mat].off
        + ((a.i * MJ + a.j) * MK + a.k) * ElemBytes(KindOf(a.mat)) + a.f * 4

\* The planes mat_set, mat_set_packed* and mat_set_init run over:
\* "for(i=0; i<Mat->mrows; i++)".
PlaneRows(name) == 0 .. MI - 1

\* One plane i of mat_set / mat_set_packed* / mat_set_init: every field
\* of every element (i, j, k).
PlaneWrites(name, i) ==
    {[mat |-> name, i |-> i, j |-> j, k |-> k, f |-> f] :
        j \in 0 .. MJ - 1, k \in 0 .. MK - 1, f \in Fields(KindOf(name))}

\* The listed range of a matrix, as the two mains print it:
\* [&MR(0,0,0,0), &MR(0,imax-1,jmax-1,kmax-1)], for a packed matrix the
\* first field of the first element to the last field of that element.
ListedRange(alloc, name) ==
    LET last == IF KindOf(name) = "float" THEN 0 ELSE 3
    IN  [name  |-> name,
         begin |-> Address(alloc, [mat |-> name, i |-> 0, j |-> 0, k |-> 0, f |-> 0]),
         end   |-> Address(alloc, [mat |-> name, i |-> IMax - 1, j |-> JMax - 1,
                                   k |-> KMax - 1, f |-> last])]

At(name, i, j, k, f) == [mat |-> name, i |-> i, j |-> j, k |-> k, f |-> f]

\* The points of p that s0 reads around (i, j, k), and (i, j, k) itself
\* (read for ss and for wrk2).
PStencil == {<<1,0,0>>, <<0,1,0>>, <<0,0,1>>, <<1,1,0>>, <<1,-1,0>>, <<-1,1,0>>,
             <<-1,-1,0>>, <<0,1,1>>, <<0,-1,1>>, <<0,1,-1>>, <<0,-1,-1>>, <<1,0,1>>,
             <<-1,0,1>>, <<1,0,-1>>, <<-1,0,-1>>, <<-1,0,0>>, <<0,-1,0>>, <<0,0,-1>>,
             <<0,0,0>>}

PReads(i, j, k) == {At("p", i + d[1], j + d[2], k + d[3], 0) : d \in PStencil}

\* jacobi_packed's first loop body (aos): all fields of packA, packB and
\* packC at (i, j, k), the stencil of p, and the write of wrk2.
AosLoop1(i, j, k) ==
    PReads(i, j, k) \cup {At("wrk2", i, j, k, 0)}
        \cup {At(m, i, j, k, f) : m \in {"packA", "packB", "packC"}, f \in 0 .. 3}

\* jacobi's first loop body (pad): the eleven coefficient matrices and
\* bnd at (i, j, k), the stencil of p, and the write of wrk2.
PadLoop1(i, j, k) ==
    PReads(i, j, k) \cup {At("wrk2", i, j, k, 0)}
        \cup {At(m, i, j, k, 0) : m \in {"a0", "a1", "a2", "a3", "b0", "b1", "b2",
                                       "c0", "c1", "c2", "bnd", "wrk1"}}

Loop1(i, j, k) == IF Variant = "aos" THEN AosLoop1(i, j, k) ELSE PadLoop1(i, j, k)

\* The second loop body: MR(p,0,i,j,k) = MR(wrk2,0,i,j,k).
Loop2(i, j, k) == {At("p", i, j, k, 0), At("wrk2", i, j, k, 0)}

\* The interior points both loops run over, in loop order:
\* i in 1..imax-1, j in 1..jmax-1, k in 1..kmax-1.
Interior == (MI - 2) * (MJ - 2) * (MK - 2)
PointOf(q) == << 1 + q \div ((MJ - 2) * (MK - 2)),
                 1 + ((q \div (MK - 2)) % (MJ - 2)),
                 1 + (q % (MK - 2)) >>
=============================================================================
