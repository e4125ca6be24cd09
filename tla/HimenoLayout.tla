---------------------------- MODULE HimenoLayout ----------------------------
(***************************************************************************)
(* The memory layout of the Himeno benchmark as the simulator sees it      *)
(* (Himeno/src/himenoBMTxpa_aos.c and himenoBMTxpa_pad.c): main allocates  *)
(* the matrices with newMat / newMat_packed* (a malloc of the elements     *)
(* plus a pad, the matrix starting pad elements into the buffer), lists    *)
(* each matrix's range in varinfo.txt, initializes every element, and the  *)
(* jacobi sweeps read the 19-point stencil of p and write wrk2, then copy  *)
(* wrk2 back into p.                                                       *)
(*                                                                         *)
(* An access is a record [mat, i, j, k, f]: element (i, j, k) of matrix    *)
(* mat and float field f of it (0 for a float matrix).  Its address is     *)
(* computed as the MR / MR_PACKED macros do.  malloc places each buffer    *)
(* after the previous one and a chunk header, 16-byte aligned.  Values     *)
(* are not modelled: no property here depends on them.  mat_set and        *)
(* mat_set_packed* take one step per plane i, the sweeps one per point.    *)
(***************************************************************************)
EXTENDS HimenoGrid

CONSTANT Header   \* bytes malloc puts before each buffer

VARIABLES
    phase,     \* "alloc", "list", "set", "loop1", "loop2", "done"
    idx,       \* the matrix main is at (alloc, list, set)
    row,       \* the plane mat_set is at
    q,         \* the point a jacobi loop is at, in loop order
    alloc,     \* alloc[name]: [base, bytes, off] of its buffer
    heapTop,   \* the end of the last buffer malloc returned
    listing,   \* the ranges printed to varinfo.txt, in order
    acc        \* the accesses of the last step

vars == <<phase, idx, row, q, alloc, heapTop, listing, acc>>

Init ==
    /\ phase = "alloc" /\ idx = 1 /\ row = 0 /\ q = 0
    /\ alloc = [x \in {} |-> 0] /\ heapTop = 0
    /\ listing = << >> /\ acc = {}

\* newMat / newMat_packed* of the idx-th matrix of main.
Allocate ==
    /\ phase = "alloc"
    /\ LET mt   == Mats[idx]
           r    == NewMat(mt.kind, mt.pad)
           base == RoundUp16(heapTop + Header)
       IN  /\ alloc' = [x \in DOMAIN alloc \cup {mt.name} |->
                          IF x = mt.name THEN [base |-> base, bytes |-> r.bytes, off |-> r.off]
                          ELSE alloc[x]]
           /\ heapTop' = base + r.bytes
    /\ IF idx = Len(Mats) THEN phase' = "list" /\ idx' = 1
                          ELSE phase' = phase /\ idx' = idx + 1
    /\ UNCHANGED <<row, q, listing, acc>>

\* varinfo_file_print of the idx-th matrix (main runs with -v).
List ==
    /\ phase = "list"
    /\ listing' = Append(listing, ListedRange(alloc, Mats[idx].name))
    /\ IF idx = Len(Mats) THEN phase' = "set" /\ idx' = 1
                          ELSE phase' = phase /\ idx' = idx + 1
    /\ acc' = {}
    /\ UNCHANGED <<row, q, alloc, heapTop>>

\* One plane of mat_set_init / mat_set / mat_set_packed* on the idx-th
\* matrix (main initializes them in allocation order).
SetPlane ==
    /\ phase = "set"
    /\ acc' = PlaneWrites(Mats[idx].name, row)
    /\ CASE row + 1 \in PlaneRows(Mats[idx].name) ->
              row' = row + 1 /\ UNCHANGED <<phase, idx>>
         [] idx < Len(Mats) ->
              row' = 0 /\ idx' = idx + 1 /\ UNCHANGED phase
         [] OTHER ->
              row' = 0 /\ idx' = 1 /\ phase' = "loop1"
    /\ UNCHANGED <<q, alloc, heapTop, listing>>

\* One point of the sweep's first loop, then of its copy loop.
Sweep1 ==
    /\ phase = "loop1"
    /\ acc' = LET pt == PointOf(q) IN Loop1(pt[1], pt[2], pt[3])
    /\ IF q + 1 = Interior THEN phase' = "loop2" /\ q' = 0
                           ELSE q' = q + 1 /\ UNCHANGED phase
    /\ UNCHANGED <<idx, row, alloc, heapTop, listing>>

Sweep2 ==
    /\ phase = "loop2"
    /\ acc' = LET pt == PointOf(q) IN Loop2(pt[1], pt[2], pt[3])
    /\ IF q + 1 = Interior THEN phase' = "done" /\ q' = 0
                           ELSE q' = q + 1 /\ UNCHANGED phase
    /\ UNCHANGED <<idx, row, alloc, heapTop, listing>>

Next == Allocate \/ List \/ SetPlane \/ Sweep1 \/ Sweep2

Spec == Init /\ [][Next]_vars

-----------------------------------------------------------------------------
(* Properties                                                              *)

TypeOK ==
    /\ phase \in {"alloc", "list", "set", "loop1", "loop2", "done"}
    /\ idx \in 1 .. Len(Mats) /\ row \in 0 .. MI - 1 /\ q \in 0 .. Interior - 1
    /\ \A a \in acc : a.mat \in DOMAIN alloc

\* newMat / newMat_packed* against every access of mat_set* and of the
\* jacobi loops: each access lies inside the bytes malloc returned for
\* its matrix.
AccessesWithinAllocation ==
    \A a \in acc :
        /\ alloc[a.mat].base <= Address(alloc, a)
        /\ Address(alloc, a) + 4 <= alloc[a.mat].base + alloc[a.mat].bytes
=============================================================================
