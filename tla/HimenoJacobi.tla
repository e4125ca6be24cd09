---------------------------- MODULE HimenoJacobi ----------------------------
(***************************************************************************)
(* The OpenMP parallel region of jacobi (himenoBMTxpa_pad.c, 368-428) and  *)
(* jacobi_packed (himenoBMTxpa_aos.c, 521-580), run with -t threads:       *)
(*                                                                         *)
(*   for n in 0..nn-1:                                                     *)
(*     barrier; master: gosa = 0; gosa1 = 0;                               *)
(*     omp for nowait over i: wrk2 = p + omega*ss, gosa1 += ss*ss;         *)
(*     barrier;                                                            *)
(*     omp for nowait over i: p = wrk2;                                    *)
(*     critical: gosa += gosa1;                                            *)
(*   implicit barrier at the end of the region; return gosa.               *)
(*                                                                         *)
(* Each thread takes one step per grid point of each loop.  The rows of   *)
(* each loop go to the threads in any way the default schedule may.  Only *)
(* the accesses to memory the region writes (p, wrk2, gosa) are recorded, *)
(* per thread and per barrier interval.  A residual ss*ss is counted as   *)
(* one term: gosa and gosa1 count the terms summed into them.             *)
(***************************************************************************)
EXTENDS HimenoGrid, SequencesExt

CONSTANTS
    T,    \* the number of threads (-t)
    NN    \* nn, the sweeps of one call

ASSUME T \in Nat \ {0} /\ NN \in Nat \ {0}

Threads == 0 .. T - 1

Master == 0

\* The points of one sweep: i in 1..imax-1 with imax = p->mrows-1.
Rows == MI - 2
PlanePoints == (MJ - 2) * (MK - 2)

\* "#pragma omp for nowait" without a schedule clause (539, 567): OpenMP
\* leaves the default schedule to the runtime and promises only that every
\* row i of the loop is run by exactly one thread of the team.  sched[l][r]
\* is the thread of row r (0-based, i = r + 1) of loop l, chosen once.
Loops == {1, 2}
Schedules == [0 .. Rows - 1 -> Threads]

\* The rows thread t runs in loop l, in loop order.
MyRows(s, l, t) == SetToSortSeq({r \in 0 .. Rows - 1 : s[l][r] = t}, <)

Count(s, l, t) == Len(MyRows(s, l, t)) * PlanePoints

\* The q-th point of thread t's share of loop l, in loop order.
PointOfThread(s, l, t, q) ==
    PointOf(MyRows(s, l, t)[q \div PlanePoints + 1] * PlanePoints + (q % PlanePoints))

Written == {"p", "wrk2"}

\* The accesses of a loop body to the matrices the region writes.
Shared(S) == {<<a.mat, a.i, a.j, a.k>> : a \in {x \in S : x.mat \in Written}}

VARIABLES
    pc,      \* pc[t]: "top", "reset", "loop1", "mid", "loop2", "crit", "end", "done"
    n,       \* n[t], the private sweep counter
    q,       \* q[t], the point of the current loop
    gosa1,   \* gosa1[t], private
    gosa,    \* shared
    rd, wr,  \* plain reads and writes of thread t since the last barrier
    cs,      \* accesses of thread t in the critical section since then
    sched    \* the rows each loop gives each thread

vars == <<pc, n, q, gosa1, gosa, rd, wr, cs, sched>>

Init ==
    /\ pc = [t \in Threads |-> "top"]
    /\ n = [t \in Threads |-> 0] /\ q = [t \in Threads |-> 0]
    /\ gosa1 = [t \in Threads |-> 0] /\ gosa = 0
    /\ rd = [t \in Threads |-> {}] /\ wr = [t \in Threads |-> {}]
    /\ cs = [t \in Threads |-> {}]
    /\ sched \in [Loops -> Schedules]

\* A loop of thread t, or straight on when its share is empty.
LoopEntry(t, loop, after) ==
    IF Count(sched, IF loop = "loop1" THEN 1 ELSE 2, t) = 0 THEN after ELSE loop

\* A barrier: once every thread waits at it, all go on, and the accesses
\* before it are ordered before those after it.
BarrierNext == [top |-> "reset", mid |-> "loop2", end |-> "done"]

Barrier(b) ==
    /\ \A t \in Threads : pc[t] = b
    /\ pc' = [t \in Threads |->
                IF b = "mid" THEN LoopEntry(t, "loop2", "crit") ELSE BarrierNext[b]]
    /\ rd' = [t \in Threads |-> {}] /\ wr' = [t \in Threads |-> {}]
    /\ cs' = [t \in Threads |-> {}]
    /\ UNCHANGED <<n, q, gosa1, gosa, sched>>

\* Plausible fault: "gosa1 = 0.0" hoisted above the n loop.
Gosa1Kept(g) == g

\* "gosa1 = 0.0;" at the top of each sweep.
Gosa1Init(g) == 0

\* The master block ("gosa = 0.0", no barrier after it) and gosa1 = 0.
Reset(t) ==
    /\ pc[t] = "reset"
    /\ gosa' = IF t = Master THEN 0 ELSE gosa
    /\ wr' = IF t = Master THEN [wr EXCEPT ![t] = @ \cup {<<"gosa">>}] ELSE wr
    /\ gosa1' = [gosa1 EXCEPT ![t] = Gosa1Init(@)]
    /\ pc' = [pc EXCEPT ![t] = LoopEntry(t, "loop1", "mid")]
    /\ q' = [q EXCEPT ![t] = 0]
    /\ UNCHANGED <<n, rd, cs, sched>>

\* One point of the first loop: s0 and ss from the stencil of p,
\* gosa1 += ss*ss, MR(wrk2,0,i,j,k) = MR(p,0,i,j,k) + omega*ss.
Sweep1(t) ==
    /\ pc[t] = "loop1"
    /\ LET pt == PointOfThread(sched, 1, t, q[t])
           S  == Shared(Loop1(pt[1], pt[2], pt[3]))
       IN  /\ rd' = [rd EXCEPT ![t] = @ \cup {a \in S : a[1] = "p"}]
           /\ wr' = [wr EXCEPT ![t] = @ \cup {a \in S : a[1] = "wrk2"}]
    /\ gosa1' = [gosa1 EXCEPT ![t] = @ + 1]
    /\ IF q[t] + 1 = Count(sched, 1, t)
       THEN pc' = [pc EXCEPT ![t] = "mid"] /\ q' = [q EXCEPT ![t] = 0]
       ELSE q' = [q EXCEPT ![t] = @ + 1] /\ UNCHANGED pc
    /\ UNCHANGED <<n, gosa, cs, sched>>

\* One point of the copy loop: MR(p,0,i,j,k) = MR(wrk2,0,i,j,k).
Sweep2(t) ==
    /\ pc[t] = "loop2"
    /\ LET pt == PointOfThread(sched, 2, t, q[t]) IN
       /\ rd' = [rd EXCEPT ![t] = @ \cup {<<"wrk2", pt[1], pt[2], pt[3]>>}]
       /\ wr' = [wr EXCEPT ![t] = @ \cup {<<"p", pt[1], pt[2], pt[3]>>}]
    /\ IF q[t] + 1 = Count(sched, 2, t)
       THEN pc' = [pc EXCEPT ![t] = "crit"] /\ q' = [q EXCEPT ![t] = 0]
       ELSE q' = [q EXCEPT ![t] = @ + 1] /\ UNCHANGED pc
    /\ UNCHANGED <<n, gosa, gosa1, cs, sched>>

\* Plausible fault: the sweep counter's bound test left out of the loop's end.
NextIterAlways(m) == "top"

\* Plausible fault: the barrier at the top of the n loop left out.
NextIterNoBarrier(m) == IF m + 1 < NN THEN "reset" ELSE "end"

\* The end of the n loop: back to its top barrier, or out of the loop to
\* the region's implicit barrier.
NextIter(m) == IF m + 1 < NN THEN "top" ELSE "end"

\* Plausible fault: "gosa = gosa1" for "gosa += gosa1".
AddResidualAssign(g, g1) == g1

\* "gosa += gosa1".
AddResidual(g, g1) == g + g1

\* "#pragma omp critical { gosa += gosa1; }", then the next sweep.
Critical(t) ==
    /\ pc[t] = "crit"
    /\ gosa' = AddResidual(gosa, gosa1[t])
    /\ cs' = [cs EXCEPT ![t] = @ \cup {<<"gosa">>}]
    /\ pc' = [pc EXCEPT ![t] = NextIter(n[t])]
    /\ n' = [n EXCEPT ![t] = IF n[t] + 1 < NN THEN @ + 1 ELSE @]
    /\ UNCHANGED <<q, gosa1, rd, wr, sched>>

\* The region has ended and jacobi returned gosa.
Returned ==
    /\ \A t \in Threads : pc[t] = "done"
    /\ UNCHANGED vars

Step(t) == Reset(t) \/ Sweep1(t) \/ Sweep2(t) \/ Critical(t)

Next ==
    \/ \E t \in Threads : Step(t)
    \/ \E b \in DOMAIN BarrierNext : Barrier(b)
    \/ Returned

Spec == Init /\ [][Next]_vars

\* The OpenMP runtime runs every thread of the team: a thread that can take
\* a step eventually takes it, and a barrier every thread waits at opens.
FairSpec ==
    /\ Spec
    /\ \A t \in Threads : WF_vars(Step(t))
    /\ \A b \in DOMAIN BarrierNext : WF_vars(Barrier(b))

-----------------------------------------------------------------------------
(* Properties                                                              *)

TypeOK ==
    /\ pc \in [Threads -> {"top", "reset", "loop1", "mid", "loop2", "crit", "end", "done"}]
    /\ \A t \in Threads : n[t] \in 0 .. NN - 1 /\ gosa1[t] \in 0 .. Count(sched, 1, t)
    /\ sched \in [Loops -> Schedules]
    /\ gosa \in 0 .. Rows * PlanePoints

\* The barriers, nowait clauses, master block and critical section of the
\* region: no thread writes what another thread reads or writes between
\* the same two barriers, except inside the critical section.
NoDataRace ==
    \A t, u \in Threads :
        t # u => /\ wr[t] \cap (rd[u] \cup wr[u] \cup cs[u]) = {}

\* The value jacobi returns: once the region ends, gosa holds the residual
\* of every point of the last sweep exactly once.
GosaIsLastSweepResidual ==
    (\A t \in Threads : pc[t] = "done") => gosa = Rows * PlanePoints

\* The parallel region ends: under the runtime's fair scheduling every
\* thread, those with an empty share of the rows included, passes all NN
\* sweeps' barriers and the region's implicit barrier, so jacobi returns.
Terminates == <>(\A t \in Threads : pc[t] = "done")
=============================================================================
