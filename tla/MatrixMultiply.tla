--------------------------- MODULE MatrixMultiply ---------------------------
(***************************************************************************)
(* The Simple benchmark, Simple/src/matrix.c: main checks its arguments,   *)
(* allocates A, B, C and C_d of size*size int32_t (exiting when an         *)
(* allocation fails), initializes them, runs                               *)
(* multiply_simple into C and multiply_blocked into C_d, and compares the  *)
(* two in verify_results.                                                  *)
(*                                                                         *)
(* multiply_simple is one step (a pure loop nest, in bounds).              *)
(* multiply_blocked takes one step per (i, j) iteration of its loop nest,  *)
(* the k loop included.  Its loops run to bi+block, bj+block and bk+block  *)
(* without a clamp to size; an element read outside its array is           *)
(* undefined and may be any of Junk; an element written outside C_d is     *)
(* lost and recorded as an out-of-bounds access.  clear_cache, the timing  *)
(* and the listing (module VarListing) do not touch A, B, C or C_d.        *)
(***************************************************************************)
EXTENDS Integers, FiniteSets

LOCAL INSTANCE Functions

CONSTANTS
    Sizes,    \* the values of -s
    Blocks,   \* the values of -b
    Junk,     \* the values an out-of-bounds read may return
    IntBits   \* the width of int32_t, narrowed so that small sizes overflow

VARIABLES
    size, block,
    phase,      \* "args", "simple", "blocked", "verify", "done", "exit"
    A, B, C, Cd,
    pc,         \* the indices bi, bj, bk, i, j of the blocked loop nest
    sum,        \* register int32_t sum
    nonEqual,   \* the result of verify_results
    oob         \* arrays accessed outside their elements by the blocked nest

vars == <<size, block, phase, A, B, C, Cd, pc, sum, nonEqual, oob>>

\* int32_t arithmetic, wrapped as the compiled code does.
Wrap(x) == ((x + 2^(IntBits - 1)) % 2^IntBits) - 2^(IntBits - 1)

Int32 == -(2^(IntBits - 1)) .. 2^(IntBits - 1) - 1

\* aligned_alloc(64, sizeof(int32_t)*size*size): the element indices.
Alloc(n) == 0 .. n * n - 1

\* The element idx of arr, or the junk value read when idx lies outside it.
ReadOr(arr, idx, junk) == IF idx \in DOMAIN arr THEN arr[idx] ELSE junk

\* multiply_simple's k loop: C[i*size+j] += A[i*size+k] * B[k*size+j].
RECURSIVE SimpleDot(_, _, _, _)
SimpleDot(acc, i, j, k) ==
    IF k = size THEN acc
    ELSE SimpleDot(Wrap(acc + A[i * size + k] * B[k * size + j]), i, j, k + 1)

\* Plausible fault: the k loop runs to bk+block inclusive.
BlockKsIncl(bk) == bk .. bk + block

\* The k loop of multiply_blocked: "for(k = bk; k < bk+block; k++)".
BlockKs(bk) == bk .. bk + block - 1

\* The loop nest after the (i, j) iteration p, or DonePc after the last.
DonePc == [bi |-> -1, bj |-> -1, bk |-> -1, i |-> -1, j |-> -1]

NextPc(p) ==
    CASE p.j + 1 < p.bj + block -> [p EXCEPT !.j = @ + 1]
      [] p.i + 1 < p.bi + block -> [p EXCEPT !.i = @ + 1, !.j = p.bj]
      [] p.bk + block < size    -> [p EXCEPT !.bk = @ + block, !.i = p.bi, !.j = p.bj]
      [] p.bj + block < size    -> [p EXCEPT !.bj = @ + block, !.bk = 0, !.i = p.bi,
                                             !.j = p.bj + block]
      [] p.bi + block < size    -> [bi |-> p.bi + block, bj |-> 0, bk |-> 0,
                                    i |-> p.bi + block, j |-> 0]
      [] OTHER                  -> DonePc

\* Plausible fault: sum declared outside the j loop, never reset.
SumKept(s) == s

\* "register int32_t sum = 0;" at the top of each j iteration.
SumInit(s) == 0

\* Plausible fault: "for (i = 0; i < size - 1; i++)", the last row unchecked.
DiffersSkipLastRow(n) == \E i \in 0 .. n - 2, j \in 0 .. n - 1 : C[i * n + j] # Cd[i * n + j]

\* verify_results' loops: some C[i*size+j] != C_d[i*size+j].
Differs(n) == \E i, j \in 0 .. n - 1 : C[i * n + j] # Cd[i * n + j]

-----------------------------------------------------------------------------

Init ==
    /\ size \in Sizes /\ block \in Blocks
    /\ phase = "args"
    /\ A = <<>> /\ B = <<>> /\ C = <<>> /\ Cd = <<>>
    /\ pc = DonePc /\ sum = 0 /\ nonEqual = 0 /\ oob = {}

\* The argument check of main: "size <= 0 || block <= 0 || size < block"
\* exits.
Reject ==
    /\ phase = "args"
    /\ size <= 0 \/ block <= 0 \/ size < block
    /\ phase' = "exit"
    /\ UNCHANGED <<size, block, A, B, C, Cd, pc, sum, nonEqual, oob>>

\* main past the check: the allocations, then initialization():
\* A[i*size+j] = B[i*size+j] = i*j, C and C_d zeroed by memset.
Start ==
    /\ phase = "args"
    /\ ~(size <= 0 \/ block <= 0 \/ size < block)
    /\ LET Ix == Alloc(size)
       IN  /\ A' = [x \in Ix |-> (x \div size) * (x % size)]
           /\ B' = [x \in Ix |-> (x \div size) * (x % size)]
           /\ C' = [x \in Ix |-> 0]
           /\ Cd' = [x \in Ix |-> 0]
    /\ phase' = "simple"
    /\ UNCHANGED <<size, block, pc, sum, nonEqual, oob>>

\* main past the check when one of the five aligned_alloc calls returns
\* NULL: "cannot allocate memory", exit(EXIT_FAILURE).
AllocFail ==
    /\ phase = "args"
    /\ ~(size <= 0 \/ block <= 0 \/ size < block)
    /\ phase' = "exit"
    /\ UNCHANGED <<size, block, A, B, C, Cd, pc, sum, nonEqual, oob>>

\* multiply_simple(size), then the blocked nest starts at its first
\* iteration.
MultiplySimple ==
    /\ phase = "simple"
    /\ C' = [x \in DOMAIN C |-> SimpleDot(C[x], x \div size, x % size, 0)]
    /\ pc' = [bi |-> 0, bj |-> 0, bk |-> 0, i |-> 0, j |-> 0]
    /\ phase' = "blocked"
    /\ UNCHANGED <<size, block, A, B, Cd, sum, nonEqual, oob>>

\* One (i, j) iteration of multiply_blocked: sum = 0, the k loop over the
\* block, C_d[i*size + j] += sum.
BlockedStep ==
    /\ phase = "blocked"
    /\ LET i  == pc.i
           j  == pc.j
           Ks == BlockKs(pc.bk)
           ia == [k \in Ks |-> i * size + k]
           ib == [k \in Ks |-> k * size + j]
           ic == i * size + j
           OutA == {k \in Ks : ia[k] \notin DOMAIN A}
           OutB == {k \in Ks : ib[k] \notin DOMAIN B}
       IN  \E ja \in [OutA -> Junk], jb \in [OutB -> Junk] :
             LET v(k) == ReadOr(A, ia[k], IF k \in OutA THEN ja[k] ELSE 0)
                         * ReadOr(B, ib[k], IF k \in OutB THEN jb[k] ELSE 0)
             IN
             /\ sum' = Wrap(SumInit(sum) + SumFunction([k \in Ks |-> v(k)]))
             /\ Cd' = IF ic \in DOMAIN Cd THEN [Cd EXCEPT ![ic] = Wrap(@ + sum')] ELSE Cd
             /\ oob' = oob \cup {"A" : k \in OutA} \cup {"B" : k \in OutB}
                           \cup (IF ic \in DOMAIN Cd THEN {} ELSE {"C_d"})
    /\ pc' = NextPc(pc)
    /\ phase' = IF NextPc(pc) = DonePc THEN "verify" ELSE "blocked"
    /\ UNCHANGED <<size, block, A, B, C, nonEqual>>

\* verify_results(size): non_equal = 1 when some C[i*size+j] differs from
\* C_d[i*size+j]; main then frees the arrays and returns.
Verify ==
    /\ phase = "verify"
    /\ nonEqual' = IF Differs(size) THEN 1 ELSE 0
    /\ phase' = "done"
    /\ UNCHANGED <<size, block, A, B, C, Cd, pc, sum, oob>>

Next == Reject \/ Start \/ AllocFail \/ MultiplySimple \/ BlockedStep \/ Verify

Spec == Init /\ [][Next]_vars

-----------------------------------------------------------------------------
(* Properties                                                              *)

\* The reference product: (A x B)[i][j] = sum over k of A[i][k] * B[k][j],
\* in int32_t.
Product(M, N, n) ==
    [x \in 0 .. n * n - 1 |->
        Wrap(SumFunction([k \in 0 .. n - 1 |-> M[(x \div n) * n + k] * N[k * n + (x % n)]]))]

\* multiply_blocked's unclamped loops over every pair main's check
\* accepts: while the nest runs it touches only elements of A, B and C_d
\* when block divides size, and once it is done it has touched something
\* outside them exactly when block does not divide size.
BlockedInBoundsIffDivides ==
    /\ phase \in {"blocked", "verify", "done"} /\ size % block = 0 => oob = {}
    /\ phase = "done" => (oob = {} <=> size % block = 0)

\* After verify_results: the naive product C is the reference product, and
\* the check reports agreement exactly when the blocked product C_d is the
\* reference product too.
VerifiedMeansProduct ==
    phase = "done" => /\ C = Product(A, B, size)
                      /\ (nonEqual = 0 <=> Cd = Product(A, B, size))
=============================================================================
